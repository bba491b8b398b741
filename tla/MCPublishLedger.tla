--------------------------- MODULE MCPublishLedger ---------------------------
(* Instances of PublishLedger: trees with their authored status and version. *)
EXTENDS PublishLedger, TLC

CONSTANTS ta, tb, tc, td, tbad, tnone, v1, v2, s1, s2

\* ta and tb claim the same version; td is a draft; tbad and tnone cannot be published.
Authored == [t \in Trees |-> CASE t = tc -> v2
                               [] t = tbad -> "unsafe version"
                               [] t = tnone -> "no version"
                               [] OTHER -> v1]

\* Two processes, and two trees of one version, that differ in their names only.
Alike == Permutations({s1, s2}) \cup Permutations({ta, tb})
=============================================================================
