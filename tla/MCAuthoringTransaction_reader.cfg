\* One writer that may fail at any declared point, a reader in another process.
CONSTANTS
    d1 = d1  d2 = d2
    p1 = p1  p2 = p2  p3 = p3  q1 = q1
    w1 = w1  w2 = w2  w3 = w3  r1 = r1
    Docs = {d1, d2}
    Features = {d1}
    Patches = {p1}
    Queries = {q1}
    Pids = {w1, r1}
    PidOf <- OwnProcess
    Changes <- RewriteBoth
    MaxRetries = 3
    FaultPoints = {"prepare", "stage", "backup", "install", "verify", "discard"}
    MaxFaults = 2
    MaxCrashes = 0
SPECIFICATION FairSpec
INVARIANTS ReadsAreWhole
PROPERTIES LockIsReleased
