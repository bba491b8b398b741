----------------------------- MODULE AtomicCorpus -----------------------------
(***************************************************************************)
(* What spec_patch promises about one `.specs` tree: the corpus changes in *)
(* single steps, each applies one patch completely, and only to the        *)
(* generation the patch was compiled on.                                   *)
(***************************************************************************)
EXTENDS Sequences

CONSTANTS Docs, Contents, Patches, Changes

VARIABLES corpus,   \* the generation a coordinated reader may see
          base,     \* the generation each patch was compiled on
          applied   \* the patches that took effect

vars == <<corpus, base, applied>>

Absent == "missing"

Outcome(p, generation) == [d \in Docs |->
    IF \E i \in DOMAIN Changes[p] : Changes[p][i].doc = d
      THEN LET i == CHOOSE i \in DOMAIN Changes[p] : Changes[p][i].doc = d
           IN IF Changes[p][i].op = "write" THEN p ELSE Absent
      ELSE generation[d]]

Init == /\ corpus \in [Docs -> {"initial", Absent}]
        /\ base \in [Patches -> [Docs -> Contents]]
        /\ applied = {}

\* A read, possibly of a moving tree, that a later Apply has to confirm.
Propose(p) == /\ p \notin applied
              /\ \E g \in [Docs -> Contents] : base' = [base EXCEPT ![p] = g]
              /\ UNCHANGED <<corpus, applied>>

Apply(p) == /\ p \notin applied
            /\ base[p] = corpus
            /\ corpus' = Outcome(p, corpus)
            /\ applied' = applied \cup {p}
            /\ UNCHANGED base

Next == \E p \in Patches : Propose(p) \/ Apply(p)

Spec == Init /\ [][Next]_vars
=============================================================================
