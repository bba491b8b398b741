\* Three writers in processes of their own, no reader.  Nothing crashes; one error is
\* thrown, where the code's injectFault calls or the journal writes can throw.
CONSTANTS
    d1 = d1  d2 = d2
    p1 = p1  p2 = p2  p3 = p3  q1 = q1
    w1 = w1  w2 = w2  w3 = w3  r1 = r1
    Docs = {d1, d2}
    Features = {d1}
    Patches = {p1, p2, p3}
    Queries = {}
    Pids = {w1, w2, w3}
    PidOf <- OwnProcess
    Changes <- RewriteDeleteArchive
    MaxRetries = 1
    FaultPoints = {"prepare", "stage", "backup", "install", "verify"}
    MaxFaults = 1
    MaxCrashes = 0
SPECIFICATION Spec
INVARIANTS TypeOK OneWriter FailureRestores
PROPERTIES RefinesAtomicCorpus
