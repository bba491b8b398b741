------------------------ MODULE MCAuthoringTransaction ------------------------
(* Instances of AuthoringTransaction: documents, patches and processes. *)
EXTENDS AuthoringTransaction

CONSTANTS d1, d2, p1, p2, p3, q1, w1, w2, w3, r1

Write(d) == [doc |-> d, op |-> "write"]
Delete(d) == [doc |-> d, op |-> "delete"]
Archive(d) == [doc |-> d, op |-> "archive"]

OwnProcess == [c \in Calls |-> CASE c = p1 -> w1 [] c = p2 -> w2 [] c = p3 -> w3 [] c = q1 -> r1]
RewriteBoth == [p \in Patches |-> CASE p = p1 -> <<Write(d1), Write(d2)>>
                                    [] p = p2 -> <<Write(d2), Delete(d1)>>]
RewriteDeleteArchive == [p \in Patches |-> CASE p = p1 -> <<Write(d1), Write(d2)>>
                                             [] p = p2 -> <<Write(d2), Delete(d1)>>
                                             [] p = p3 -> <<Archive(d1), Archive(d2)>>]
ArchiveThenWrite == [p \in Patches |-> CASE p = p1 -> <<Archive(d1), Archive(d2)>>
                                         [] OTHER -> <<Write(d1)>>]
=============================================================================
