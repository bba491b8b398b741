\* One process that writes, reads, synchronises, deletes and is restarted, with every kind
\* of tree, while published tags are removed, mirrors are replaced and a network command fails.
CONSTANTS
    ta = ta  tb = tb  tc = tc  td = td  tbad = tbad  tnone = tnone
    v1 = v1  v2 = v2  s1 = s1  s2 = s2
    Trees = {ta, tc, td, tnone}
    Active = {ta, tc, tnone}
    Versions = {v1, v2}
    VersionOf <- Authored
    Servers = {s1}
    Environment = {"write", "read", "sync", "delete", "untag", "new mirror"}
    MaxCommits = 2
    MaxErrors = 1
    MaxCrashes = 1
SPECIFICATION FairSpec
PROPERTIES ActiveTipIsPublished HealRestores
