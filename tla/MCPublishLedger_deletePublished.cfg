\* A publication and a deletion of the same spec in one process.
CONSTANTS
    ta = ta  tb = tb  tc = tc  td = td  tbad = tbad  tnone = tnone
    v1 = v1  v2 = v2  s1 = s1  s2 = s2
    Trees = {ta}
    Active = {ta}
    Versions = {v1}
    VersionOf <- Authored
    Servers = {s1}
    Environment = {"outside push", "sync", "delete"}
    MaxCommits = 2
    MaxErrors = 0
    MaxCrashes = 0
SPECIFICATION Spec
PROPERTIES PublishedBlocksDelete
