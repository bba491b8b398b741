\* An archival crashes after its commit point; another writer recovers it.
CONSTANTS
    d1 = d1  d2 = d2
    p1 = p1  p2 = p2  p3 = p3  q1 = q1
    w1 = w1  w2 = w2  w3 = w3  r1 = r1
    Docs = {d1, d2}
    Features = {d1}
    Patches = {p1, p2}
    Queries = {}
    Pids = {w1, w2}
    PidOf <- OwnProcess
    Changes <- ArchiveThenWrite
    MaxRetries = 1
    FaultPoints = {}
    MaxFaults = 0
    MaxCrashes = 1
SPECIFICATION Spec
INVARIANTS ArchivedSurvives
