SPECIFICATION FairSpec
CONSTANTS
    w1 = w1
    w2 = w2
    m1 = m1
    c1 = c1
    d1 = d1
    q1 = q1
    e1 = e1
    t1 = t1
    ann = ann
    bob = bob
    Writes = {w1, w2}
    Merges = {m1}
    Creates = {c1}
    Deletes = {d1}
    Queries = {q1}
    Edits = {e1}
    TopicEdits = {t1}
    Logins = {ann, bob}
    Forced = {}
    HolderOf <- MCHolderOf
    Casts <- MCCasts
    MaxErrors = 2
    MaxCrashes = 1
    MaxTries = 3
CHECK_DEADLOCK FALSE
INVARIANTS
    TypeOK
    OneHolder
    AckedOnRemote
    OutsideKept
    MergedKept
    TopicKept
    LeaseHolds
PROPERTIES
    EveryCallAnswered
    RetrySucceeds
