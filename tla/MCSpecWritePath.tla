--------------------------- MODULE MCSpecWritePath ---------------------------
(***************************************************************************)
(* Small instances of SpecWritePath for TLC.                               *)
(***************************************************************************)
EXTENDS SpecWritePath

CONSTANTS w1, w2, m1, c1, d1, q1, e1, t1, ann, bob

MCHolderOf == [c \in {w1, w2, m1, c1, d1} |-> IF c = w2 \/ c = m1 THEN bob ELSE ann]

MCCasts == {
    {w1, w2, e1, "network"},
    {w1, e1, "network", "crash"},
    {w1, e1, "conflict"},
    {w1, q1, e1, "disk", "registry"},
    {w1, q1, m1, t1, "topic"},
    {w1, w2, q1},
    {w1, "topic", m1, t1, e1},
    {w1, "topic", m1, t1, "network"},
    {w1, m1, c1, d1, t1, "lease"},
    {d1, q1, t1, "topic"},
    {c1, d1, t1, "network"}}
=============================================================================
