\* Two processes, outsiders' tags and pushes, one ambiguous or failed network command,
\* one crash, deletions of the spec; nobody removes tags.
CONSTANTS
    ta = ta  tb = tb  tc = tc  td = td  tbad = tbad  tnone = tnone
    v1 = v1  v2 = v2  s1 = s1  s2 = s2
    Trees = {ta, tb}
    Active = {ta, tb}
    Versions = {v1}
    VersionOf <- Authored
    Servers = {s1, s2}
    Environment = {"outside push", "outside tag", "rewrite", "new mirror", "delete"}
    MaxCommits = 2
    MaxErrors = 1
    MaxCrashes = 1
SPECIFICATION Spec
INVARIANTS TypeOK RowIsGenuine TagMatchesRow AnswerIsRecorded VersionsStayReadable
SYMMETRY Alike
