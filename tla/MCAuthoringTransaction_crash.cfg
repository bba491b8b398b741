\* Two writers and two crashes, also in the middle of a journal write, a removal or a
\* recovery, and two errors where the rollback has the bookkeeping to undo what was done.
CONSTANTS
    d1 = d1  d2 = d2
    p1 = p1  p2 = p2  p3 = p3  q1 = q1
    w1 = w1  w2 = w2  w3 = w3  r1 = r1
    Docs = {d1, d2}
    Features = {d1}
    Patches = {p1, p2}
    Queries = {}
    Pids = {w1, w2}
    PidOf <- OwnProcess
    Changes <- RewriteBoth
    MaxRetries = 2
    FaultPoints = {"backup", "restore", "discard"}
    MaxFaults = 2
    MaxCrashes = 2
SPECIFICATION FairSpec
INVARIANTS RecoveredIsWhole
PROPERTIES RefinesAtomicCorpus EveryCallAnswered
