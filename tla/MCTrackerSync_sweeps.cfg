SPECIFICATION FairSpec
CONSTANTS
    pa = pa
    pb = pb
    ta = ta
    tb = tb
    e1 = e1
    e2 = e2
    e3 = e3
    e4 = e4
    e5 = e5
    m1 = m1
    m2 = m2
    Projects = {pa, pb}
    Tasks = {ta, tb}
    ProjectOf <- MCProjectOf
    Edits = {e1, e2, e3, e4, e5}
    EditOf <- MCEditOf
    Moves = {m1, m2}
    MoveOf <- MCMoveOf
    StartOf <- MCStartOf
    Casts <- MCCasts
    MaxErrors = 1
    MaxCrashes = 1
    MaxPatches = 2
CHECK_DEADLOCK FALSE
INVARIANTS
    TypeOK
    HeadsVouch
    CompleteIsWritten
PROPERTIES
    OnlyUsersSpeak
    EventuallyShown
    UserHeard
