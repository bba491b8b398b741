---------------------------- MODULE MCTrackerSync ----------------------------
(***************************************************************************)
(* Small instances of TrackerSync for TLC.                                 *)
(***************************************************************************)
EXTENDS TrackerSync

CONSTANTS pa, pb, ta, tb, e1, e2, e3, e4, e5, m1, m2

MCProjectOf == [x \in {ta, tb} |-> IF x = ta THEN pa ELSE pb]
MCStartOf == [x \in {ta, tb} |-> IF x = ta THEN "planned" ELSE "todo"]
MCEditOf == [x \in {e1, e2, e3, e4, e5} |->
    CASE x = e1 -> [task |-> ta, status |-> "done", how |-> "write"]
      [] x = e2 -> [task |-> ta, status |-> "planned", how |-> "write"]
      [] x = e3 -> [task |-> tb, status |-> "done", how |-> "outside"]
      [] x = e4 -> [task |-> ta, status |-> "absent", how |-> "outside"]
      [] x = e5 -> [task |-> ta, status |-> "blocked", how |-> "outside"]]
MCMoveOf == [x \in {m1, m2} |->
    CASE x = m1 -> [task |-> ta, state |-> "Verified"]
      [] x = m2 -> [task |-> ta, state |-> "none"]]

MCCasts == {
    {m1, "sweep", "fail"},
    {m1, "event", "fail"},
    {m1, "event", "crash"},
    {m1, "event", "binding"},
    {m2, "sweep", "binding"},
    {e3, "sweep"},
    {e5, m1, "event"},
    {e2, e5},
    {e1, "crash"},
    {e1, "read"},
    {e1, "copy"},
    {e2, e4, "fail"},
    {e5, m2, "fail"},
    {e4, m2, "fail"},
    {e4, m2, "tamper"},
    {e4, "crash"}}
=============================================================================
