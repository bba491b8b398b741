\* A commit pushed past the service, and a query that rebuilds the project root before
\* reconcileOnce compares the signatures.
CONSTANTS
    ta = ta  tb = tb  tc = tc  td = td  tbad = tbad  tnone = tnone
    v1 = v1  v2 = v2  s1 = s1  s2 = s2
    Trees = {ta, td}
    Active = {ta}
    Versions = {v1}
    VersionOf <- Authored
    Servers = {s1}
    Environment = {"outside push", "read", "sync"}
    MaxCommits = 2
    MaxErrors = 0
    MaxCrashes = 0
SPECIFICATION FairSpec
PROPERTIES ActiveTipIsPublished
