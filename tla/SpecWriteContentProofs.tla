------------------------- MODULE SpecWriteContentProofs -------------------------
(***************************************************************************)
(* No document outside a patch is lost.  OutsideKept compares the tip of    *)
(* the spec before and after a step, and a commit is made steps before it   *)
(* is pushed, from a corpus that may be older still and that is written     *)
(* document by document.  The inductive invariant EditsInv follows what     *)
(* authors pushed, and what the spec was created with, through all of them: *)
(* the tip has every such document of every commit; no commit lacks one of  *)
(* an ancestor; what is local was fetched; a corpus nobody rebuilds has those*)
(* of the commit its signature names, and one that is being written, with   *)
(* what is left to write, those of the commit it is rebuilt for; and what a *)
(* write is about to commit has every one its branch has.  Then a push that *)
(* is accepted moves the tip to a commit with all of them.  EditsInv holds  *)
(* until a rebuild overlaps the apply and copy of a write (raced).          *)
(***************************************************************************)
EXTENDS SpecWritePathProofs

\* What no patch names.
Others == Edits \cup {"base"}

\* Of this, what a commit holds.
Seen(i) == Tree(i) \cap Others

\* The tip of the spec holds every edit that any commit holds.
EditsPublished == \A i \in 1..Len(commits) : Seen(i) \subseteq Seen(origin["spec"])

\* No commit undoes an edit of one of its ancestors.
HistoryKeepsEdits == \A i \in 1..Len(commits) : \A j \in Past(i) : Seen(j) \subseteq Seen(i)

\* What is local was fetched before.
LocalIsFetched ==
    /\ (tree \cup root \cup left) \cap Others \subseteq Seen(mirror["spec"])
    /\ Seen(head) \subseteq Seen(mirror["spec"])
    /\ \A a \in Actors : Seen(want[a]) \subseteq Seen(mirror["spec"])

TopicIsFetched == Seen(mirror["topic"]) \subseteq Seen(mirror["spec"])

Rebuilding == {"list", "fill"}

\* A corpus holds what the commit of its signature does, unless it is being rebuilt;
\* then it will hold what the commit does that it is rebuilt for.
CorpusIsSigned ==
    /\ builder = "nobody" => Seen(signature) \subseteq root
    /\ \A a \in Actors : pc[a] \in Rebuilding => builder = a
    /\ \A a \in Actors : pc[a] = "fill" => Seen(want[a]) \subseteq root \cup left

\* What a write is about to commit holds every edit the worktree's branch does.
WriteSees(w) ==
    /\ pc[w] \in {"rebuild", "list", "fill"} => Seen(head) \subseteq Seen(want[w])
    /\ pc[w] \in {"apply", "sync"} => builder = "nobody" /\ Seen(head) \subseteq root
    /\ pc[w] = "commit" => Seen(head) \subseteq tree
WriteSeesEdits == \A w \in Writes : WriteSees(w)

\* The inductive invariant.
EditsInv == /\ EditsPublished /\ HistoryKeepsEdits
            /\ LocalIsFetched /\ TopicIsFetched /\ CorpusIsSigned /\ WriteSeesEdits

\* What a step must do to the remote and to the mirror.
RemoteKept ==
    /\ EditsPublished' /\ HistoryKeepsEdits' /\ TopicIsFetched'
    /\ Seen(mirror["spec"]) \subseteq Seen(mirror["spec"])'

LEMMA SeenStays == ASSUME Grown PROVE \A i \in 0..Len(commits) : Seen(i)' = Seen(i)
  BY DEF Grown, Seen

LEMMA SeenFacts ==
    ASSUME HistoryOK, EditsPublished
    PROVE  /\ \A i \in 0..Len(commits) : Seen(i) \subseteq Seen(origin["spec"])
           /\ Seen(0) = {} /\ Len(commits) \in Nat
  BY HistoryFacts DEF EditsPublished, Seen

\* A step that makes no commit and leaves the tip of the spec.
LEMMA QuietRemote ==
    ASSUME TypeInv, EditsInv, RefsOK', UNCHANGED commits, origin'["spec"] = origin["spec"],
           \/ mirror' \in {mirror, origin, origin'}
           \/ mirror' = [mirror EXCEPT !["topic"] = 0]
    PROVE  RemoteKept
<1>1. HistoryOK /\ RefsOK /\ EditsPublished /\ HistoryKeepsEdits /\ TopicIsFetched
  BY DEF TypeInv, EditsInv
<1>2. \A i : Seen(i)' = Seen(i)
  BY DEF Seen, Tree
<1>3. \A i : Past(i)' = Past(i)
  BY DEF Past
<1>4. Seen(origin["spec"])' = Seen(origin["spec"])
  BY DEF Seen, Tree
<1>5. EditsPublished' /\ HistoryKeepsEdits'
  BY <1>1, <1>2, <1>3, <1>4 DEF EditsPublished, HistoryKeepsEdits
<1>6. Seen(mirror["spec"])' = Seen(mirror'["spec"]) /\ Seen(mirror["topic"])' = Seen(mirror'["topic"])
  BY DEF Seen, Tree
<1>7. /\ mirror'["topic"] \in 0..Len(commits) /\ mirror["spec"] \in 0..Len(commits)
      /\ origin["topic"] \in 0..Len(commits) /\ origin'["topic"] \in 0..Len(commits)
  BY <1>1 DEF RefsOK, Branches
<1>8. CASE mirror' \in {mirror, origin, origin'}
  BY <1>1, <1>5, <1>6, <1>7, <1>8, SeenFacts DEF RemoteKept, TopicIsFetched
<1>9. CASE mirror' = [mirror EXCEPT !["topic"] = 0]
  <2>1. mirror'["spec"] = mirror["spec"] /\ mirror'["topic"] = 0
    BY <1>1, <1>9 DEF RefsOK, Branches
  <2> QED
    BY <1>1, <1>5, <1>6, <2>1, SeenFacts DEF RemoteKept, TopicIsFetched
<1> QED
  BY <1>8, <1>9

\* A push, whether the caller hears of it or not.
LEMMA PushRemote ==
    ASSUME TypeInv, EditsInv, UNCHANGED commits, head \in 1..Len(commits),
           Pushed("spec", head) \/ PushRaises("spec", head)
    PROVE  RemoteKept
<1>1. HistoryOK /\ RefsOK /\ EditsPublished /\ HistoryKeepsEdits /\ TopicIsFetched
  BY DEF TypeInv, EditsInv
<1>2. \A i : Seen(i)' = Seen(i)
  BY DEF Seen, Tree
<1>3. \A i : Past(i)' = Past(i)
  BY DEF Past
<1>4. /\ Seen(origin["spec"])' = Seen(origin'["spec"])
      /\ Seen(mirror["spec"])' = Seen(mirror'["spec"]) /\ Seen(mirror["topic"])' = Seen(mirror'["topic"])
  BY DEF Seen, Tree
<1>5. mirror["spec"] \in 0..Len(commits) /\ mirror["topic"] \in 0..Len(commits) /\ origin["spec"] # 0
  BY <1>1 DEF RefsOK, Branches
<1>6. UNCHANGED origin \/ (origin' = [origin EXCEPT !["spec"] = head] /\ origin["spec"] \in Past(head))
  BY <1>5 DEF Pushed, PushRaises
<1>7. UNCHANGED mirror \/ (mirror' = [mirror EXCEPT !["spec"] = head] /\ origin["spec"] \in Past(head))
  BY <1>5 DEF Pushed, PushRaises
<1>8. origin["spec"] \in Past(head) => Seen(origin["spec"]) \subseteq Seen(head)
  BY <1>1 DEF HistoryKeepsEdits
<1>9. Seen(origin["spec"]) \subseteq Seen(origin'["spec"])
  BY <1>1, <1>6, <1>8 DEF RefsOK, Branches
<1>10. EditsPublished' /\ HistoryKeepsEdits'
  BY <1>1, <1>2, <1>3, <1>4, <1>9 DEF EditsPublished, HistoryKeepsEdits
<1>11. Seen(mirror["spec"]) \subseteq Seen(mirror'["spec"]) /\ Seen(mirror'["topic"]) \subseteq Seen(mirror'["spec"])
  <2>1. CASE UNCHANGED mirror
    BY <1>1, <2>1 DEF TopicIsFetched
  <2>2. CASE mirror' = [mirror EXCEPT !["spec"] = head] /\ origin["spec"] \in Past(head)
    <3>1. mirror'["spec"] = head /\ mirror'["topic"] = mirror["topic"]
      BY <1>1, <2>2 DEF RefsOK, Branches
    <3> QED
      BY <1>1, <1>5, <1>8, <2>2, <3>1, SeenFacts
  <2> QED
    BY <1>7, <2>1, <2>2
<1> QED
  BY <1>4, <1>10, <1>11 DEF RemoteKept, TopicIsFetched

\* A commit that has the edits of those it is made on, and none but published ones.
LEMMA CommitRemote ==
    ASSUME TypeInv, EditsInv, NEW i \in 1..Len(commits), NEW j \in 0..Len(commits),
           NEW T \in SUBSET Items, HistoryOK', Added(Past(i) \cup Past(j), T),
           Seen(i) \cup Seen(j) \subseteq T, T \cap Others \subseteq Seen(origin["spec"]),
           UNCHANGED origin, mirror' \in {mirror, origin}
    PROVE  RemoteKept /\ \A n \in {NewCommit} : Seen(n)' = T \cap Others
<1> SUFFICES ASSUME NEW n, n = NewCommit
             PROVE  RemoteKept /\ Seen(n)' = T \cap Others
  BY DEF NewCommit
<1>1. HistoryOK /\ RefsOK /\ EditsPublished /\ HistoryKeepsEdits /\ TopicIsFetched
  BY DEF TypeInv, EditsInv
<1>2. Grown /\ Len(commits') = Len(commits) + 1 /\ Past(n)' = Past(i) \cup Past(j) \cup {n} /\ Tree(n)' = T
  BY DEF Added
<1>3. \A k \in 0..Len(commits) : Seen(k)' = Seen(k) /\ Past(k)' = Past(k)
  BY <1>2, SeenStays DEF Grown
<1>4. Seen(n)' = T \cap Others /\ Seen(i) \subseteq Seen(n)' /\ Seen(j) \subseteq Seen(n)'
  BY <1>2 DEF Seen
<1>5. Len(commits) \in Nat /\ n = Len(commits) + 1
  BY <1>1, HistoryFacts DEF NewCommit
<1>6. \A k \in 1..Len(commits') : k \in 1..Len(commits) \/ k = n
  BY <1>2, <1>5
<1>7. origin["spec"] \in 0..Len(commits) /\ origin["topic"] \in 0..Len(commits)
      /\ mirror["spec"] \in 0..Len(commits) /\ mirror["topic"] \in 0..Len(commits)
  BY <1>1 DEF RefsOK, Branches
<1>8. /\ Seen(origin["spec"])' = Seen(origin["spec"])
      /\ Seen(mirror["spec"])' = Seen(mirror'["spec"]) /\ Seen(mirror["topic"])' = Seen(mirror'["topic"])
  BY <1>3, <1>7
<1>9. Seen(i) \subseteq Seen(origin["spec"]) /\ Seen(j) \subseteq Seen(origin["spec"])
  BY <1>1, SeenFacts
<1>10. EditsPublished'
  BY <1>1, <1>3, <1>4, <1>6, <1>8, <1>9, <1>5 DEF EditsPublished
<1>11. HistoryKeepsEdits'
  <2>1. ASSUME NEW k \in 1..Len(commits'), NEW l, l \in Past(k)' PROVE Seen(l)' \subseteq Seen(k)'
    <3>1. CASE k \in 1..Len(commits)
      <4>1. l \in Past(k) /\ l \in 1..Len(commits)
        BY <1>1, <1>3, <2>1, <3>1, HistoryFacts
      <4> QED
        BY <1>1, <1>3, <3>1, <4>1 DEF HistoryKeepsEdits
    <3>2. CASE k = n /\ l \in Past(i)
      <4>1. l \in 1..Len(commits) /\ Seen(l) \subseteq Seen(i)
        BY <1>1, <3>2, HistoryFacts DEF HistoryKeepsEdits
      <4> QED
        BY <1>3, <1>4, <3>2, <4>1
    <3>3. CASE k = n /\ l \in Past(j)
      <4>1. j \in 1..Len(commits)
        BY <1>1, <3>3, HistoryFacts
      <4>2. l \in 1..Len(commits) /\ Seen(l) \subseteq Seen(j)
        BY <1>1, <3>3, <4>1, HistoryFacts DEF HistoryKeepsEdits
      <4> QED
        BY <1>3, <1>4, <3>3, <4>2
    <3>4. CASE k = n /\ l = n
      BY <3>4
    <3> QED
      BY <1>2, <1>6, <2>1, <3>1, <3>2, <3>3, <3>4
  <2> QED
    BY <2>1 DEF HistoryKeepsEdits
<1>12. Seen(mirror["spec"]) \subseteq Seen(mirror'["spec"]) /\ Seen(mirror'["topic"]) \subseteq Seen(mirror'["spec"])
  BY <1>1, <1>7, SeenFacts DEF TopicIsFetched
<1> QED
  BY <1>4, <1>8, <1>10, <1>11, <1>12 DEF RemoteKept, TopicIsFetched

\* A merge has the edits of both sides.
LEMMA MergedSeen ==
    ASSUME HistoryOK, HistoryKeepsEdits, NEW i \in 1..Len(commits), NEW j \in 1..Len(commits)
    PROVE  Merged(i, j) \cap Others = Seen(i) \cup Seen(j)
<1>1. MergeBase(i, j) \in Past(i) /\ MergeBase(i, j) \in Past(j)
  BY MergeBaseIsNewest
<1>2. Seen(MergeBase(i, j)) \subseteq Seen(i) /\ Seen(MergeBase(i, j)) \subseteq Seen(j)
  BY <1>1 DEF HistoryKeepsEdits
<1> QED
  BY <1>2 DEF Merged, Seen

LEMMA SeenSame == ASSUME UNCHANGED commits PROVE \A i : Seen(i)' = Seen(i) /\ Tree(i)' = Tree(i)
  BY DEF Seen, Tree

\* What was fetched before the step still is.
LEMMA LocalStays ==
    ASSUME TypeInv, EditsInv, Grown, RemoteKept
    PROVE  /\ (tree \cup root \cup left) \cap Others \subseteq Seen(mirror["spec"])'
           /\ head' = head => Seen(head)' \subseteq Seen(mirror["spec"])'
           /\ \A a \in Actors : want'[a] = want[a] => Seen(want[a])' \subseteq Seen(mirror["spec"])'
<1>1. RefsOK /\ LocalIsFetched
  BY DEF TypeInv, EditsInv
<1>2. \A i \in 0..Len(commits) : Seen(i)' = Seen(i)
  BY SeenStays
<1>3. head' = head => Seen(head)' = Seen(head)
  BY <1>1, <1>2 DEF RefsOK
<1>4. ASSUME NEW a \in Actors, want'[a] = want[a] PROVE Seen(want[a])' = Seen(want[a])
  BY <1>1, <1>2, <1>4 DEF RefsOK
<1> QED
  BY <1>1, <1>3, <1>4 DEF LocalIsFetched, RemoteKept

\* A step that leaves the corpus, but for its signature, and those who rebuild it.
RebuildStays ==
    /\ UNCHANGED <<root, builder, left>> /\ signature' \in {signature, 0}
    /\ \A a \in Actors : \/ pc'[a] \notin Rebuilding
                         \/ pc'[a] = pc[a] /\ want'[a] = want[a]

LEMMA EditsKept ==
    ASSUME TypeInv, EditsInv, TypesKept, RemoteKept, WriteSeesEdits',
           tree' = tree \/ tree' \cap Others \subseteq Seen(mirror["spec"])',
           root' = root \/ root' \cap Others \subseteq Seen(mirror["spec"])',
           left' = left \/ left' \cap Others \subseteq Seen(mirror["spec"])',
           head' = head \/ Seen(head)' \subseteq Seen(mirror["spec"])',
           \A a \in Actors : want'[a] = want[a] \/ Seen(want[a])' \subseteq Seen(mirror["spec"])',
           CorpusIsSigned' \/ RebuildStays
    PROVE  EditsInv'
<1>1. Grown
  BY DEF TypesKept
<1>2. LocalIsFetched'
  BY <1>1, LocalStays DEF LocalIsFetched
<1>3. CASE RebuildStays
  <2>1. \A i \in 0..Len(commits) : Seen(i)' = Seen(i)
    BY <1>1, SeenStays
  <2>2. Seen(signature)' \subseteq Seen(signature)
    <3>1. CASE signature' = signature
      <4>1. Seen(signature)' = Seen(signature)
        BY <2>1, <3>1 DEF TypeInv, RefsOK
      <4> QED
        BY <4>1
    <3>2. CASE signature' = 0
      BY <3>2 DEF Seen, Tree
    <3> QED
      BY <1>3, <3>1, <3>2 DEF RebuildStays
  <2>3. ASSUME NEW a \in Actors, want'[a] = want[a] PROVE Seen(want[a])' = Seen(want[a])
    BY <2>1, <2>3 DEF TypeInv, RefsOK
  <2>4. CorpusIsSigned
    BY DEF EditsInv
  <2>5. \A a \in Actors : pc'[a] = "fill" => Seen(want[a])' \subseteq root' \cup left'
    BY <1>3, <2>3, <2>4 DEF RebuildStays, CorpusIsSigned, Rebuilding
  <2>6. \A a \in Actors : pc'[a] \in Rebuilding => builder' = a
    BY <1>3, <2>4 DEF RebuildStays, CorpusIsSigned
  <2>7. CorpusIsSigned'
    BY <1>3, <2>2, <2>4, <2>5, <2>6 DEF RebuildStays, CorpusIsSigned
  <2> QED
    BY <1>2, <2>7 DEF EditsInv, RemoteKept
<1>4. CASE CorpusIsSigned'
  BY <1>2, <1>4 DEF EditsInv, RemoteKept
<1> QED
  BY <1>3, <1>4

\* Nobody else is inside when the holder of the lock acts.
LEMMA HolderAlone ==
    ASSUME LockInv, NEW c \in Calls, Holds(c), NEW d \in Calls, d # c
    PROVE  ~Inside(d)
  BY DEF LockInv, OneHolder, Holds

LEMMA HolderMoves ==
    ASSUME LockInv, NEW c \in Calls, Holds(c), NEW label, Goto(c, label), c \in Writes => WriteSees(c)'
    PROVE  WriteSeesEdits'
<1> SUFFICES ASSUME NEW w \in Writes, w # c PROVE WriteSees(w)'
  BY DEF WriteSeesEdits
<1>1. pc'[w] \in {"idle", "queued", "done"}
  BY HolderAlone, GotoMoves, KindsOfActors DEF Inside
<1> QED
  BY <1>1 DEF WriteSees

\* The labels at which WriteSees says something.
Carrying == {"rebuild", "list", "fill", "apply", "sync", "commit"}

Leaves(c) == \E label : Goto(c, label) /\ label \notin Carrying

LEMMA LeavesWith ==
    ASSUME NEW c
    PROVE  /\ \A answer : Finish(c, answer) => Leaves(c)
           /\ \A label \in Labels \ Carrying : Goto(c, label) => Leaves(c)
           /\ {"idle", "queued", "done", "root", "push", "reconcile", "repush", "create", "merge",
               "pushMerge", "dropTopic", "tip", "delete", "refresh", "reply"} \subseteq Labels \ Carrying
  BY DEF Finish, Leaves, Carrying, Labels

LEMMA HolderGoes ==
    ASSUME LockInv, NEW c \in Calls, Holds(c), NEW label, Goto(c, label), label \notin Carrying
    PROVE  WriteSeesEdits'
<1>1. pc'[c] = label
  BY GotoMoves, KindsOfActors
<1> QED
  BY <1>1, HolderMoves DEF WriteSees, Carrying

\* The holder of the lock leaves the rebuild of others alone.
LEMMA LeavesRebuild ==
    ASSUME LockInv, NEW c \in Calls, Leaves(c), UNCHANGED <<root, builder, left, signature>>,
           \A a \in Actors : a = c \/ want'[a] = want[a]
    PROVE  RebuildStays
<1>1. PICK label : Goto(c, label) /\ label \notin Carrying
  BY DEF Leaves
<1>2. pc'[c] = label /\ \A a \in Actors : a = c \/ pc'[a] = pc[a]
  BY <1>1, GotoMoves, KindsOfActors
<1> QED
  BY <1>1, <1>2 DEF RebuildStays, Rebuilding, Carrying

LEMMA WriteSeesStays ==
    ASSUME TypeInv, EditsInv, Grown, UNCHANGED <<head, tree, root, builder>>,
           \A w \in Writes : /\ want'[w] = want[w]
                             /\ pc'[w] = pc[w] \/ pc'[w] \notin Carrying
    PROVE  WriteSeesEdits'
<1> SUFFICES ASSUME NEW w \in Writes PROVE WriteSees(w)'
  BY DEF WriteSeesEdits
<1>1. WriteSees(w)
  BY DEF EditsInv, WriteSeesEdits
<1>2. Seen(head)' = Seen(head) /\ Seen(want[w])' = Seen(want[w])
  BY SeenStays, KindsOfActors DEF TypeInv, RefsOK
<1> QED
  BY <1>1, <1>2 DEF WriteSees, Carrying

\* Steps that touch neither git nor the corpus, but for its signature.
LEMMA CallEdits ==
    ASSUME TypeInv, EditsInv, TypesKept,
           \/ \E c \in Calls : Issue(c) \/ Reply(c) \/ Refresh(c)
           \/ \E l \in Logins : Claim(l)
           \/ EndLease \/ Crash
           \/ \E w \in Writes : Retry(w) \/ RefuseForeign(w)
           \/ \E c \in Branching : RefuseClaimed(c)
           \/ UNCHANGED vars
    PROVE  EditsInv'
<1> USE DEF corpus
<1>1. /\ UNCHANGED <<git, root, want>>
      /\ signature' = signature \/ signature' = 0
      /\ UNCHANGED <<builder, left>> \/ Crash
  BY DEF Issue, Reply, Refresh, Claim, EndLease, Crash, Retry, RefuseForeign, RefuseClaimed, calls, vars
<1>2. UNCHANGED <<commits, origin, mirror, head, tree>>
  BY <1>1 DEF git
<1>3. LockInv /\ RefsOK' /\ Grown
  BY DEF TypeInv, TypesKept
<1>4. RemoteKept
  BY <1>2, <1>3, QuietRemote
<1>5. ASSUME NEW c \in Calls, NEW label \in {"queued", "done", "idle", "root"}, Goto(c, label)
      PROVE  \A a \in Actors : pc'[a] = pc[a] \/ pc'[a] \notin Carrying
  BY <1>3, <1>5, GotoMoves, KindsOfActors DEF Carrying
<1>6. \A a \in Actors : pc'[a] = pc[a] \/ pc'[a] \notin Carrying
  <2>1. ASSUME NEW c \in Calls, Issue(c) \/ Reply(c) \/ Refresh(c) \/ Retry(c) \/ RefuseForeign(c) \/ RefuseClaimed(c)
        PROVE  \A a \in Actors : pc'[a] = pc[a] \/ pc'[a] \notin Carrying
    <3>1. Goto(c, "queued") \/ Goto(c, "done") \/ Goto(c, "idle") \/ Goto(c, "root")
      BY <2>1 DEF Issue, Reply, Refresh, Retry, RefuseForeign, RefuseClaimed, Finish
    <3> QED
      BY <1>5, <3>1
  <2>2. ASSUME Crash PROVE \A a \in Actors : pc'[a] \notin Carrying
    BY <2>2 DEF Crash, Carrying
  <2>3. ASSUME (\E l \in Logins : Claim(l)) \/ EndLease \/ UNCHANGED vars PROVE UNCHANGED pc
    BY <2>3 DEF Claim, EndLease, calls, vars
  <2> QED
    BY <2>1, <2>2, <2>3, KindsOfActors
<1>7. CASE UNCHANGED <<builder, left>>
  <2>1. WriteSeesEdits'
    BY <1>1, <1>2, <1>3, <1>6, <1>7, WriteSeesStays, KindsOfActors
  <2>2. RebuildStays
    BY <1>1, <1>6, <1>7 DEF RebuildStays, Rebuilding, Carrying
  <2> QED
    BY <1>1, <1>2, <1>4, <1>7, <2>1, <2>2, EditsKept
<1>8. CASE Crash
  <2>1. \A a \in Actors : pc'[a] \in {"idle", "done"}
    BY <1>8 DEF Crash
  <2>2. WriteSeesEdits'
    BY <2>1, KindsOfActors DEF WriteSeesEdits, WriteSees
  <2>3. signature' = 0 /\ left' = {}
    BY <1>8 DEF Crash
  <2>4. CorpusIsSigned'
    BY <2>1, <2>3 DEF CorpusIsSigned, Rebuilding, Seen, Tree
  <2> QED
    BY <1>1, <1>2, <1>4, <2>2, <2>3, <2>4, EditsKept
<1> QED
  BY <1>1, <1>7, <1>8

\* The rebuild of the corpus: a write that goes on finds in it all that the
\* worktree's branch has, unless somebody else rebuilds it.
LEMMA RootEdits ==
    ASSUME TypeInv, EditsInv, TypesKept, ~raced', NEW a \in Actors, RootStep(a)
    PROVE  EditsInv'
<1>1. /\ LockInv /\ HistoryOK /\ RefsOK /\ RefsOK' /\ Grown
      /\ LocalIsFetched /\ CorpusIsSigned /\ WriteSeesEdits
  BY DEF TypeInv, TypesKept, EditsInv
<1>2. UNCHANGED <<commits, origin, head, tree>>
  BY DEF RootStep, CheckRoot, ClearRoot, ListRoot, FillRoot, SignRoot, BreakRoot, git
<1>3. \A i : Seen(i)' = Seen(i) /\ Tree(i)' = Tree(i)
  BY <1>2, SeenSame
<1>4. mirror' = mirror \/ mirror' = origin
  BY DEF RootStep, CheckRoot, ClearRoot, ListRoot, FillRoot, SignRoot, BreakRoot, Fetch, git
<1>5. RemoteKept
  BY <1>1, <1>2, <1>4, QuietRemote
<1>6. Seen(mirror["spec"])' = Seen(mirror'["spec"]) /\ Seen(head)' = Seen(head)
      /\ Seen(mirror["spec"]) \subseteq Seen(mirror'["spec"])
  BY <1>2, <1>3, <1>5 DEF RemoteKept
<1>7. Seen(head) \subseteq Seen(mirror["spec"]) /\ Seen(want[a]) \subseteq Seen(mirror["spec"])
  BY <1>1 DEF LocalIsFetched
<1>8. a \in Calls => Holds(a)
  BY <1>1, RootIsInside DEF LockInv, OneHolder
<1>9. a \in Writes => a \in Calls
  BY KindsOfActors
<1>10. \A b \in Actors : Seen(want[b])' = Seen(want'[b])
  BY <1>3
<1>11. a # "nobody"
  BY CallsAssumption
<1>12. ASSUME NEW label, Goto(a, label) PROVE pc'[a] = label /\ \A b \in Actors \ {a} : pc'[b] = pc[b]
  BY <1>1, <1>12, GotoMoves
<1>13. a \in Writes => After(a) \in {"apply", "reply"}
  BY KindsOfActors DEF After
<1>14. After(a) \notin Rebuilding /\ "rebuild" \notin Rebuilding
  BY DEF After, Rebuilding
\* It is enough to look at the writes that are there while a read rebuilds.
<1>15. ASSUME NEW label, Goto(a, label), a \in Writes => WriteSees(a)',
              a \notin Calls => \A w \in Writes : WriteSees(w)'
       PROVE  WriteSeesEdits'
  <2>1. CASE a \in Calls
    BY <1>1, <1>8, <1>15, <2>1, HolderMoves
  <2>2. CASE a \notin Calls
    BY <1>15, <2>2 DEF WriteSeesEdits
  <2> QED
    BY <2>1, <2>2
\* A write that goes on with the corpus that is there.
<1>16. ASSUME Proceed(a), a \in Writes, UNCHANGED <<root, builder>>, Seen(head) \subseteq Seen(signature)
       PROVE  WriteSees(a)'
  <2>1. pc'[a] = After(a)
    BY <1>12, <1>16 DEF Proceed
  <2>2. After(a) = "apply" => builder = "nobody"
    BY <1>16 DEF Proceed
  <2>3. CASE After(a) = "apply"
    <3>1. builder' = "nobody" /\ Seen(head)' \subseteq root'
      BY <1>1, <1>6, <1>16, <2>2, <2>3 DEF CorpusIsSigned
    <3> QED
      BY <2>1, <2>3, <3>1 DEF WriteSees
  <2>4. CASE After(a) = "reply"
    BY <2>1, <2>4 DEF WriteSees
  <2> QED
    BY <1>13, <1>16, <2>3, <2>4
<1>17. ASSUME CheckRoot(a) PROVE EditsInv'
  <2>1. /\ want' = [want EXCEPT ![a] = mirror'["spec"]]
        /\ UNCHANGED <<root, signature, builder, left>>
        /\ \/ signature = mirror'["spec"] /\ Proceed(a)
           \/ Goto(a, "rebuild")
    BY <1>17 DEF CheckRoot
  <2>2. want'[a] = mirror'["spec"] /\ \A b \in Actors \ {a} : want'[b] = want[b]
    BY <1>1, <2>1 DEF RefsOK
  <2>3. PICK label : Goto(a, label) /\ label \in {After(a), "rebuild"}
    BY <2>1 DEF Proceed
  <2>4. ASSUME a \in Writes PROVE WriteSees(a)'
    <3>1. CASE signature = mirror'["spec"] /\ Proceed(a)
      BY <1>6, <1>7, <1>16, <2>1, <2>4, <3>1
    <3>2. CASE Goto(a, "rebuild")
      <4>1. pc'[a] = "rebuild"
        BY <1>12, <3>2
      <4>2. Seen(head)' \subseteq Seen(want[a])'
        BY <1>6, <1>7, <1>10, <2>2
      <4> QED
        BY <4>1, <4>2 DEF WriteSees
    <3> QED
      BY <2>1, <3>1, <3>2
  <2>5. ASSUME a \notin Calls, NEW w \in Writes PROVE WriteSees(w)'
    <3>1. w \in Actors \ {a}
      BY <2>5, KindsOfActors
    <3>2. pc'[w] = pc[w] /\ want'[w] = want[w]
      BY <1>12, <2>2, <2>3, <3>1
    <3>3. WriteSees(w) /\ Seen(want[w])' = Seen(want[w])
      BY <1>1, <1>10, <3>1, <3>2 DEF WriteSeesEdits
    <3> QED
      BY <1>2, <1>6, <2>1, <3>2, <3>3 DEF WriteSees
  <2>6. WriteSeesEdits'
    BY <1>15, <2>3, <2>4, <2>5
  <2>7. \A b \in Actors : want'[b] = want[b] \/ Seen(want[b])' \subseteq Seen(mirror["spec"])'
    BY <1>6, <1>10, <2>2
  <2>8. RebuildStays
    <3>1. pc'[a] \notin Rebuilding
      BY <1>12, <1>14, <2>3
    <3>2. \A b \in Actors \ {a} : pc'[b] = pc[b] /\ want'[b] = want[b]
      BY <1>12, <2>2, <2>3
    <3> QED
      BY <2>1, <3>1, <3>2 DEF RebuildStays
  <2> QED
    BY <1>2, <1>5, <2>1, <2>6, <2>7, <2>8, EditsKept
<1>18. ASSUME ClearRoot(a) PROVE EditsInv'
  <2>1. UNCHANGED <<signature, want, left>> /\ pc[a] = "rebuild"
    BY <1>18 DEF ClearRoot
  <2>2. CASE signature = want[a] /\ Proceed(a) /\ UNCHANGED <<root, builder>>
    <3>1. Goto(a, After(a))
      BY <2>2 DEF Proceed
    <3>2. ASSUME a \in Writes PROVE WriteSees(a)'
      <4>1. Seen(head) \subseteq Seen(want[a])
        BY <1>1, <2>1, <3>2 DEF WriteSeesEdits, WriteSees
      <4> QED
        BY <1>16, <2>2, <3>2, <4>1
    <3>3. ASSUME a \notin Calls, NEW w \in Writes PROVE WriteSees(w)'
      <4>1. w \in Actors \ {a}
        BY <3>3, KindsOfActors
      <4>2. pc'[w] = pc[w]
        BY <1>12, <3>1, <4>1
      <4>3. WriteSees(w) /\ Seen(want[w])' = Seen(want[w])
        BY <1>1, <1>10, <2>1, <4>1 DEF WriteSeesEdits
      <4> QED
        BY <1>2, <1>6, <2>2, <4>2, <4>3 DEF WriteSees
    <3>4. WriteSeesEdits'
      BY <1>15, <3>1, <3>2, <3>3
    <3>5. RebuildStays
      BY <1>12, <1>14, <2>1, <2>2, <3>1 DEF RebuildStays
    <3> QED
      BY <1>2, <1>5, <2>1, <2>2, <3>4, <3>5, EditsKept
  <2>3. CASE /\ builder = "nobody" /\ Goto(a, "list") /\ root' = {} /\ builder' = a
             /\ ~\E w \in Writes : pc[w] \in {"apply", "sync"}
    <3>1. pc'[a] = "list"
      BY <1>12, <2>3
    <3>2. ASSUME a \in Writes PROVE WriteSees(a)'
      <4>1. Seen(head) \subseteq Seen(want[a])
        BY <1>1, <2>1, <3>2 DEF WriteSeesEdits, WriteSees
      <4> QED
        BY <1>6, <1>10, <2>1, <3>1, <4>1 DEF WriteSees
    <3>3. ASSUME a \notin Calls, NEW w \in Writes PROVE WriteSees(w)'
      <4>1. w \in Actors \ {a}
        BY <3>3, KindsOfActors
      <4>2. pc'[w] = pc[w] /\ pc[w] \notin {"apply", "sync"}
        BY <1>12, <2>3, <4>1
      <4>3. WriteSees(w) /\ Seen(want[w])' = Seen(want[w])
        BY <1>1, <1>10, <2>1, <4>1 DEF WriteSeesEdits
      <4> QED
        BY <1>2, <1>6, <4>2, <4>3 DEF WriteSees
    <3>4. WriteSeesEdits'
      BY <1>15, <2>3, <3>2, <3>3
    <3>5. \A b \in Actors \ {a} : pc'[b] \notin Rebuilding
      <4>1. \A b \in Actors : pc[b] \notin Rebuilding
        BY <1>1, <2>3, CallsAssumption DEF CorpusIsSigned
      <4> QED
        BY <1>12, <2>3, <4>1
    <3>6. CorpusIsSigned'
      BY <1>11, <2>3, <3>1, <3>5 DEF CorpusIsSigned, Rebuilding
    <3> QED
      BY <1>2, <1>5, <2>1, <2>3, <3>4, <3>6, EditsKept
  <2> QED
    BY <1>18, <2>2, <2>3 DEF ClearRoot
\* The steps of the one that rebuilds.
<1>19. ASSUME pc[a] \in Rebuilding PROVE builder = a /\ \A b \in Actors \ {a} : pc[b] \notin Rebuilding
  BY <1>1, <1>19 DEF CorpusIsSigned
<1>20. ASSUME NEW label, Goto(a, label), pc[a] \in Rebuilding, UNCHANGED want, a \notin Calls,
              NEW w \in Writes
       PROVE  WriteSees(w)'
  <2>1. w \in Actors \ {a}
    BY <1>20, KindsOfActors
  <2>2. pc'[w] = pc[w]
    BY <1>12, <1>20, <2>1
  <2>3. WriteSees(w) /\ Seen(want[w])' = Seen(want[w])
    BY <1>1, <1>10, <1>20, <2>1 DEF WriteSeesEdits
  <2>4. pc[w] \notin {"apply", "sync"}
    BY <1>11, <1>19, <1>20, <2>3 DEF WriteSees
  <2> QED
    BY <1>2, <1>6, <2>2, <2>3, <2>4 DEF WriteSees
<1>21. ASSUME ListRoot(a) PROVE EditsInv'
  <2>1. /\ UNCHANGED <<git, root, signature, builder, want>> /\ pc[a] = "list"
        /\ Goto(a, "fill") /\ left' = Tree(mirror["spec"])
    BY <1>21 DEF ListRoot
  <2>2. pc[a] \in Rebuilding /\ pc'[a] = "fill" /\ builder = a
    BY <1>12, <1>19, <2>1 DEF Rebuilding
  <2>3. left' \cap Others = Seen(mirror["spec"]) /\ Seen(mirror["spec"]) \subseteq left'
    BY <2>1 DEF Seen
  <2>4. ASSUME a \in Writes PROVE WriteSees(a)'
    <3>1. Seen(head) \subseteq Seen(want[a])
      BY <1>1, <2>1, <2>4 DEF WriteSeesEdits, WriteSees
    <3> QED
      BY <1>6, <1>10, <2>1, <2>2, <3>1 DEF WriteSees
  <2>5. WriteSeesEdits'
    BY <1>15, <1>20, <2>1, <2>2, <2>4
  <2>6. Seen(want[a])' \subseteq root' \cup left'
    BY <1>7, <1>10, <2>1, <2>3
  <2>7. \A b \in Actors \ {a} : pc'[b] \notin Rebuilding
    BY <1>12, <1>19, <2>1, <2>2
  <2>8. CorpusIsSigned'
    BY <1>11, <2>1, <2>2, <2>6, <2>7 DEF CorpusIsSigned, Rebuilding
  <2>9. left' \cap Others \subseteq Seen(mirror["spec"])'
    BY <1>6, <2>3
  <2> QED
    BY <1>2, <1>5, <2>1, <2>5, <2>8, <2>9, EditsKept
<1>22. ASSUME FillRoot(a) PROVE EditsInv'
  <2>1. /\ UNCHANGED <<git, signature, builder, want>> /\ pc[a] = "fill" /\ Goto(a, "fill")
    BY <1>22 DEF FillRoot
  <2>2. PICK d \in left \cap Tree(mirror["spec"]) : root' = root \cup {d} /\ left' = left \ {d}
    BY <1>22 DEF FillRoot
  <2>3. pc[a] \in Rebuilding /\ pc'[a] = "fill" /\ builder = a
    BY <1>12, <1>19, <2>1 DEF Rebuilding
  <2>4. ASSUME a \in Writes PROVE WriteSees(a)'
    <3>1. Seen(head) \subseteq Seen(want[a])
      BY <1>1, <2>1, <2>4 DEF WriteSeesEdits, WriteSees
    <3> QED
      BY <1>6, <1>10, <2>1, <2>3, <3>1 DEF WriteSees
  <2>5. WriteSeesEdits'
    BY <1>15, <1>20, <2>1, <2>3, <2>4
  <2>6. Seen(want[a])' \subseteq root' \cup left'
    BY <1>1, <1>10, <2>1, <2>2 DEF CorpusIsSigned
  <2>7. \A b \in Actors \ {a} : pc'[b] \notin Rebuilding
    BY <1>12, <1>19, <2>1, <2>3
  <2>8. CorpusIsSigned'
    BY <1>11, <2>1, <2>3, <2>6, <2>7 DEF CorpusIsSigned, Rebuilding
  <2>9. /\ left' \cap Others \subseteq Seen(mirror["spec"])'
        /\ root' \cap Others \subseteq Seen(mirror["spec"])'
    <3>1. {d} \cap Others \subseteq Seen(mirror["spec"])
      BY <2>2 DEF Seen
    <3>2. (root \cup left) \cap Others \subseteq Seen(mirror["spec"])
      BY <1>1 DEF LocalIsFetched
    <3> QED
      BY <1>6, <2>2, <3>1, <3>2
  <2> QED
    BY <1>2, <1>5, <2>1, <2>5, <2>8, <2>9, EditsKept
<1>23. ASSUME SignRoot(a) PROVE EditsInv'
  <2>1. /\ UNCHANGED <<git, root, left, want>> /\ pc[a] = "fill" /\ Goto(a, After(a))
        /\ left = {} /\ signature' = want[a] /\ builder' = "nobody"
    BY <1>23 DEF SignRoot
  <2>2. pc[a] \in Rebuilding /\ pc'[a] = After(a) /\ builder = a
    BY <1>12, <1>19, <2>1 DEF Rebuilding
  <2>3. Seen(want[a]) \subseteq root
    BY <1>1, <2>1 DEF CorpusIsSigned
  <2>4. ASSUME a \in Writes PROVE WriteSees(a)'
    <3>1. Seen(head) \subseteq Seen(want[a])
      BY <1>1, <2>1, <2>4 DEF WriteSeesEdits, WriteSees
    <3>2. Seen(head)' \subseteq root'
      BY <1>6, <2>1, <2>3, <3>1
    <3>3. pc'[a] \in {"apply", "reply"}
      BY <1>13, <2>2, <2>4
    <3> QED
      BY <2>1, <3>2, <3>3 DEF WriteSees
  <2>5. WriteSeesEdits'
    BY <1>15, <1>20, <2>1, <2>2, <2>4
  <2>6. Seen(signature)' \subseteq root'
    BY <1>3, <2>1, <2>3
  <2>7. \A b \in Actors : pc'[b] \notin Rebuilding
    BY <1>12, <1>14, <1>19, <2>1, <2>2
  <2>8. CorpusIsSigned'
    BY <2>6, <2>7 DEF CorpusIsSigned, Rebuilding
  <2> QED
    BY <1>2, <1>5, <2>1, <2>5, <2>8, EditsKept
<1>24. ~BreakRoot(a)
  BY DEF BreakRoot
<1> QED
  BY <1>17, <1>18, <1>21, <1>22, <1>23, <1>24 DEF RootStep

\* The kernel's answer, the copy and the registry's look at the worktree.
LEMMA CopyEdits ==
    ASSUME TypeInv, HeadMade, EditsInv, TypesKept,
           \/ \E w \in Writes : Apply(w) \/ Sync(w)
           \/ IndexRead
    PROVE  EditsInv'
<1>1. /\ LockInv /\ HistoryOK /\ RefsOK /\ RefsOK' /\ Grown
      /\ LocalIsFetched /\ CorpusIsSigned /\ WriteSeesEdits
  BY DEF TypeInv, TypesKept, EditsInv
<1>2. UNCHANGED <<commits, origin, mirror, signature, builder, left, want>>
  BY DEF Apply, Sync, IndexRead, git, corpus, calls
<1>3. \A i : Seen(i)' = Seen(i) /\ Tree(i)' = Tree(i)
  BY <1>2, SeenSame
<1>4. RemoteKept
  BY <1>1, <1>2, QuietRemote
<1>5. Seen(mirror["spec"])' = Seen(mirror["spec"])
  BY <1>2, <1>3
<1>6. ASSUME NEW w \in Writes, Apply(w) PROVE EditsInv'
  <2>1. Holds(w) /\ w \in Calls /\ w \in Actors
    BY <1>1, <1>6, InsideHolds, KindsOfActors DEF Apply
  <2>2. UNCHANGED <<head, tree>> /\ Seen(head)' = Seen(head)
    BY <1>3, <1>6 DEF Apply, git
  <2>3. builder = "nobody" /\ Seen(head) \subseteq root
    <3>1. pc[w] = "apply"
      BY <1>6 DEF Apply
    <3> QED
      BY <1>1, <3>1 DEF WriteSeesEdits, WriteSees
  <2>4. root' = root \/ root' = root \cup {w}
    BY <1>6 DEF Apply
  <2>5. w \notin Others
    BY ItemsAssumption DEF Others
  <2>6. Goto(w, "sync") \/ Goto(w, "done")
    BY <1>6 DEF Apply, Finish
  <2>7. WriteSees(w)'
    <3>1. pc'[w] \in {"sync", "done"}
      BY <1>1, <2>1, <2>6, GotoMoves
    <3> QED
      BY <1>2, <2>2, <2>3, <2>4, <3>1 DEF WriteSees
  <2>8. WriteSeesEdits'
    BY <1>1, <2>1, <2>6, <2>7, HolderMoves
  <2>9. root' \cap Others \subseteq Seen(mirror["spec"])'
    BY <1>1, <1>5, <2>4, <2>5 DEF LocalIsFetched
  <2>10. CorpusIsSigned'
    <3>1. Seen(signature)' = Seen(signature)
      BY <1>2, <1>3
    <3>2. \A a \in Actors : pc[a] \notin Rebuilding
      BY <1>1, <2>3, CallsAssumption DEF CorpusIsSigned
    <3>3. \A a \in Actors : pc'[a] \notin Rebuilding
      <4>1. pc'[w] \notin Rebuilding /\ \A a \in Actors \ {w} : pc'[a] = pc[a]
        BY <1>1, <2>1, <2>6, GotoMoves DEF Rebuilding
      <4> QED
        BY <3>2, <4>1
    <3> QED
      BY <1>1, <1>2, <2>3, <2>4, <3>1, <3>3 DEF CorpusIsSigned, Rebuilding
  <2> QED
    BY <1>2, <1>4, <2>2, <2>8, <2>9, <2>10, EditsKept
<1>7. ASSUME NEW w \in Writes, Sync(w) PROVE EditsInv'
  <2>1. Holds(w) /\ w \in Calls /\ w \in Actors
    BY <1>1, <1>7, InsideHolds, KindsOfActors DEF Sync
  <2>2. UNCHANGED <<head, root>> /\ Seen(head)' = Seen(head)
    BY <1>3, <1>7 DEF Sync, corpus
  <2>3. \/ root # {} /\ tree' = root /\ Goto(w, "commit")
        \/ tree' = {} /\ Goto(w, "reconcile")
    BY <1>7 DEF Sync
  <2>4. Seen(head) \subseteq root
    <3>1. pc[w] = "sync"
      BY <1>7 DEF Sync
    <3> QED
      BY <1>1, <3>1 DEF WriteSeesEdits, WriteSees
  <2>5. WriteSees(w)'
    <3>1. pc'[w] = "reconcile" \/ (pc'[w] = "commit" /\ root # {} /\ tree' = root)
      BY <1>1, <2>1, <2>3, GotoMoves
    <3> QED
      BY <2>2, <2>4, <3>1 DEF WriteSees
  <2>6. WriteSeesEdits'
    BY <1>1, <2>1, <2>3, <2>5, HolderMoves
  <2>7. tree' \cap Others \subseteq Seen(mirror["spec"])'
    BY <1>1, <1>5, <2>3 DEF LocalIsFetched
  <2>8. RebuildStays
    <3>1. pc'[w] \notin Rebuilding /\ \A a \in Actors \ {w} : pc'[a] = pc[a]
      BY <1>1, <2>1, <2>3, GotoMoves DEF Rebuilding
    <3> QED
      BY <1>2, <2>2, <3>1 DEF RebuildStays
  <2> QED
    BY <1>2, <1>4, <2>2, <2>6, <2>7, <2>8, EditsKept
<1>8. ASSUME IndexRead PROVE EditsInv'
  <2>1. /\ head' = WorktreeHead(mirror["spec"]) /\ tree' = Tree(head')
        /\ UNCHANGED <<root, pc>>
    BY <1>8 DEF IndexRead, corpus, calls
  <2>2. Seen(head)' = Seen(head') /\ tree' \cap Others = Seen(head') /\ Seen(head') \subseteq tree'
    BY <1>3, <2>1 DEF Seen
  <2>3. Seen(head') \subseteq Seen(mirror["spec"])
    BY <1>1, <2>1 DEF WorktreeHead, LocalIsFetched
  <2>4. ASSUME NEW w \in Writes PROVE WriteSees(w)'
    <3>1. CASE Inside(w)
      <4>1. head # 0
        BY <3>1 DEF HeadMade
      <4>2. head' = head
        BY <2>1, <4>1 DEF WorktreeHead
      <4>3. WriteSees(w)
        BY <1>1 DEF WriteSeesEdits
      <4>4. Seen(want[w])' = Seen(want[w])
        BY <1>2, <1>3
      <4> QED
        BY <1>2, <2>1, <2>2, <4>2, <4>3, <4>4 DEF WriteSees
    <3>2. CASE ~Inside(w)
      BY <2>1, <3>2 DEF WriteSees, Inside
    <3> QED
      BY <3>1, <3>2
  <2>5. WriteSeesEdits'
    BY <2>4 DEF WriteSeesEdits
  <2>6. RebuildStays
    BY <1>2, <2>1 DEF RebuildStays
  <2> QED
    BY <1>2, <1>4, <1>5, <2>1, <2>2, <2>3, <2>5, <2>6, EditsKept
<1> QED
  BY <1>6, <1>7, <1>8

\* Fetches, pushes and deletions: the holder of the lock, and no commit.
LEMMA RemoteEdits ==
    ASSUME TypeInv, HeadMade, EditsInv, TypesKept,
           \/ \E w \in Writes : PushWrite(w) \/ PushWriteRaises(w) \/ ReconcileRaises(w)
           \/ \E c \in Branching : \/ CreateWork(c) \/ PushCreated(c) \/ EnterMerge(c) \/ PushMerge(c)
                                   \/ DropTopic(c) \/ CheckDelete(c) \/ ReadTip(c) \/ DeleteWork(c)
    PROVE  EditsInv'
<1>1. /\ LockInv /\ HistoryOK /\ RefsOK /\ RefsOK' /\ Grown
      /\ LocalIsFetched /\ TopicIsFetched
  BY DEF TypeInv, TypesKept, EditsInv
<1>2. UNCHANGED <<commits, head, tree, root, signature, builder, left>>
  BY DEF PushWrite, PushWriteRaises, ReconcileRaises, CreateWork, PushCreated, EnterMerge, PushMerge,
         DropTopic, CheckDelete, ReadTip, DeleteWork, git, corpus
<1>3. ASSUME NEW c \in Calls, Holds(c), Leaves(c),
             RemoteKept, UNCHANGED want
      PROVE  EditsInv'
  <2>1. WriteSeesEdits'
    BY <1>1, <1>3, HolderGoes DEF Leaves
  <2>2. RebuildStays
    BY <1>1, <1>2, <1>3, LeavesRebuild
  <2> QED
    BY <1>2, <1>3, <2>1, <2>2, EditsKept
<1>4. ASSUME NEW c \in Calls, NEW answer, Finish(c, answer)
      PROVE  Leaves(c)
  BY <1>4, LeavesWith
<1>5. ASSUME NEW w \in Writes, PushWrite(w) \/ PushWriteRaises(w) PROVE EditsInv'
  <2>1. w \in Calls /\ Holds(w) /\ head \in 1..Len(commits)
    BY <1>1, <1>5, InsideHolds, KindsOfActors, RefFacts DEF PushWrite, PushWriteRaises, HeadMade, Inside
  <2>2. RemoteKept
    BY <1>2, <1>5, <2>1, PushRemote DEF PushWrite, PushWriteRaises
  <2>3. Leaves(w)
    BY <1>5, LeavesWith DEF PushWrite, PushWriteRaises
  <2> QED
    BY <1>3, <1>5, <2>1, <2>2, <2>3 DEF PushWrite, PushWriteRaises
<1>6. ASSUME NEW w \in Writes, ReconcileRaises(w) PROVE EditsInv'
  <2>1. w \in Calls /\ Holds(w)
    BY <1>1, <1>6, InsideHolds, KindsOfActors DEF ReconcileRaises
  <2>2. UNCHANGED <<origin, want>> /\ mirror' \in {mirror, origin} /\ Finish(w, "push failed")
    BY <1>6 DEF ReconcileRaises
  <2>3. RemoteKept
    BY <1>1, <1>2, <2>2, QuietRemote
  <2> QED
    BY <1>3, <1>4, <2>1, <2>2, <2>3
<1>7. ASSUME NEW c \in Branching, CreateWork(c) \/ EnterMerge(c) \/ CheckDelete(c) PROVE EditsInv'
  <2>1. c \in Calls /\ Holds(c)
    BY <1>7, KindsOfActors DEF CreateWork, EnterMerge, CheckDelete, Enter
  <2>2. UNCHANGED <<origin, want>> /\ mirror' \in {mirror, origin}
    BY <1>7 DEF CreateWork, EnterMerge, CheckDelete, Fetch
  <2>3. RemoteKept
    BY <1>1, <1>2, <2>2, QuietRemote
  <2>4. Leaves(c)
    <3>1. CASE CreateWork(c)
      BY <3>1, LeavesWith DEF CreateWork
    <3>2. CASE EnterMerge(c)
      BY <3>2, LeavesWith DEF EnterMerge
    <3>3. CASE CheckDelete(c)
      BY <3>3, LeavesWith DEF CheckDelete
    <3> QED
      BY <1>7, <3>1, <3>2, <3>3
  <2> QED
    BY <1>3, <2>1, <2>2, <2>3, <2>4
<1>8. ASSUME NEW c \in Branching, PushCreated(c) PROVE EditsInv'
  <2>1. c \in Calls /\ Holds(c) /\ UNCHANGED want
    BY <1>1, <1>8, InsideHolds, KindsOfActors DEF PushCreated
  <2>2. UNCHANGED origin \/ origin' = [origin EXCEPT !["topic"] = mirror["spec"]]
    BY <1>8 DEF PushCreated, PushRaises
  <2>3. origin'["spec"] = origin["spec"]
    BY <1>1, <2>2 DEF RefsOK, Branches
  <2>4. mirror' \in {mirror, origin'}
    BY <1>8 DEF PushCreated, PushRaises, Refetch
  <2>5. RemoteKept
    BY <1>1, <1>2, <2>3, <2>4, QuietRemote
  <2>6. Goto(c, "done")
    BY <1>8 DEF PushCreated, Finish
  <2> QED
    BY <1>3, <2>1, <2>5, <2>6, LeavesWith
<1>9. ASSUME NEW c \in Branching, PushMerge(c) PROVE EditsInv'
  <2>1. c \in Calls /\ Holds(c) /\ UNCHANGED want
    BY <1>1, <1>9, InsideHolds, KindsOfActors DEF PushMerge
  <2>2. head \in 1..Len(commits)
    BY <1>1, <1>9, RefFacts DEF PushMerge, HeadMade
  <2>3. RemoteKept
    BY <1>2, <1>9, <2>2, PushRemote DEF PushMerge
  <2>4. Leaves(c)
    BY <1>9, LeavesWith DEF PushMerge
  <2> QED
    BY <1>3, <2>1, <2>3, <2>4
<1>10. ASSUME NEW c \in Branching, DropTopic(c) PROVE EditsInv'
  <2>1. c \in Calls /\ Holds(c) /\ UNCHANGED want /\ Goto(c, "refresh")
    BY <1>1, <1>10, InsideHolds, KindsOfActors DEF DropTopic
  <2>2. \/ UNCHANGED <<origin, mirror>>
        \/ /\ origin' = [origin EXCEPT !["topic"] = 0]
           /\ mirror' = [mirror EXCEPT !["topic"] = 0]
    BY <1>10 DEF DropTopic
  <2>3. origin'["spec"] = origin["spec"]
    BY <1>1, <2>2 DEF RefsOK, Branches
  <2>4. RemoteKept
    BY <1>1, <1>2, <2>2, <2>3, QuietRemote
  <2> QED
    BY <1>3, <2>1, <2>4, LeavesWith
<1>11. ASSUME NEW c \in Branching, ReadTip(c) PROVE EditsInv'
  <2>1. c \in Calls /\ Holds(c) /\ UNCHANGED <<origin, mirror>>
    BY <1>1, <1>11, InsideHolds, KindsOfActors DEF ReadTip, git
  <2>2. RemoteKept
    BY <1>1, <1>2, <2>1, QuietRemote
  <2>3. Leaves(c)
    BY <1>11, LeavesWith DEF ReadTip
  <2>4. WriteSeesEdits'
    BY <1>1, <2>1, <2>3, HolderGoes DEF Leaves
  <2>5. UNCHANGED want \/ want' = [want EXCEPT ![c] = mirror["topic"]]
    BY <1>11 DEF ReadTip
  <2>6. \A a \in Actors : want'[a] = want[a] \/ want'[a] = mirror["topic"]
    BY <1>1, <2>5 DEF RefsOK
  <2>7. \A i : Seen(i)' = Seen(i)
    BY <1>2, SeenSame
  <2>8. \A a \in Actors : Seen(want[a])' = Seen(want'[a])
    BY <2>7
  <2>9. Seen(mirror["spec"])' = Seen(mirror["spec"])
    BY <2>1, <2>7
  <2>10. \A a \in Actors : want'[a] = want[a] \/ Seen(want[a])' \subseteq Seen(mirror["spec"])'
    BY <1>1, <2>6, <2>8, <2>9 DEF TopicIsFetched
  <2>11. \A a \in Actors : a = c \/ want'[a] = want[a]
    BY <1>1, <2>5 DEF RefsOK
  <2>12. RebuildStays
    BY <1>1, <1>2, <2>1, <2>3, <2>11, LeavesRebuild
  <2> QED
    BY <1>2, <2>2, <2>4, <2>10, <2>12, EditsKept
<1>12. ASSUME NEW c \in Branching, DeleteWork(c) PROVE EditsInv'
  <2>1. c \in Calls /\ Holds(c) /\ UNCHANGED want
    BY <1>1, <1>12, InsideHolds, KindsOfActors DEF DeleteWork
  <2>2. UNCHANGED origin \/ origin' = [origin EXCEPT !["topic"] = 0]
    BY <1>12 DEF DeleteWork
  <2>3. origin'["spec"] = origin["spec"]
    BY <1>1, <2>2 DEF RefsOK, Branches
  <2>4. mirror' \in {mirror, origin'}
    BY <1>12 DEF DeleteWork, Refetch
  <2>5. RemoteKept
    BY <1>1, <1>2, <2>3, <2>4, QuietRemote
  <2>6. Goto(c, "done")
    BY <1>12 DEF DeleteWork, Finish
  <2> QED
    BY <1>3, <2>1, <2>5, <2>6, LeavesWith
<1> QED
  BY <1>5, <1>6, <1>7, <1>8, <1>9, <1>10, <1>11, <1>12

\* Steps that move the worktree's branch, or an author's push.
LEMMA BranchEdits ==
    ASSUME TypeInv, HeadMade, EditsInv, TypesKept,
           \/ \E w \in Writes : EnterWrite(w) \/ CommitWrite(w) \/ Reconcile(w)
           \/ \E c \in Branching : MergeTopic(c)
    PROVE  EditsInv'
<1>1. /\ LockInv /\ HistoryOK /\ RefsOK /\ RefsOK' /\ Grown /\ Len(commits) \in Nat
      /\ EditsPublished /\ HistoryKeepsEdits /\ LocalIsFetched /\ WriteSeesEdits
  BY HistoryFacts DEF TypeInv, TypesKept, EditsInv
<1>2. UNCHANGED <<origin, root, signature, builder, left, want>>
  BY DEF EnterWrite, CommitWrite, Reconcile, MergeTopic, corpus
<1>3. \A i \in 0..Len(commits) : Seen(i)' = Seen(i)
  BY <1>1, SeenStays
<1>4. ASSUME NEW c \in Calls, Holds(c), Leaves(c), RemoteKept,
             Seen(head)' \subseteq Seen(mirror["spec"])',
             tree' = tree \/ tree' \cap Others \subseteq Seen(mirror["spec"])'
      PROVE  EditsInv'
  <2>1. WriteSeesEdits'
    BY <1>1, <1>4, HolderGoes DEF Leaves
  <2>2. RebuildStays
    BY <1>1, <1>2, <1>4, LeavesRebuild
  <2> QED
    BY <1>2, <1>4, <2>1, <2>2, EditsKept
<1>5. ASSUME UNCHANGED commits, NEW m, m = mirror', m \in {mirror, origin}
      PROVE  /\ RemoteKept /\ \A i : Seen(i)' = Seen(i)
             /\ \A i : Tree(i)' = Tree(i)
             /\ Seen(mirror["spec"])' = Seen(mirror'["spec"])
             /\ Seen(mirror["spec"]) \subseteq Seen(mirror'["spec"])
  <2>1. RemoteKept
    BY <1>1, <1>2, <1>5, QuietRemote
  <2>2. \A i : Seen(i)' = Seen(i) /\ Tree(i)' = Tree(i)
    BY <1>5, SeenSame
  <2> QED
    BY <2>1, <2>2 DEF RemoteKept
<1>6. ASSUME NEW w \in Writes, EnterWrite(w) PROVE EditsInv'
  <2>1. w \in Calls /\ Holds(w) /\ Goto(w, "root") /\ UNCHANGED commits
        /\ head' = WorktreeHead(mirror'["spec"]) /\ tree' = Tree(head')
        /\ (mirror' = mirror \/ mirror' = origin)
    BY <1>6, KindsOfActors DEF EnterWrite, Fetch
  <2>2. /\ RemoteKept /\ \A i : Seen(i)' = Seen(i)
        /\ Seen(mirror["spec"])' = Seen(mirror'["spec"])
        /\ Seen(mirror["spec"]) \subseteq Seen(mirror'["spec"])
    BY <1>5, <2>1
  <2>3. Seen(head)' = Seen(head') /\ tree' \cap Others = Seen(head')
    BY <2>1, <2>2 DEF Seen
  <2>4. Seen(head') \subseteq Seen(mirror'["spec"])
    BY <1>1, <2>1, <2>2 DEF WorktreeHead, LocalIsFetched
  <2> QED
    BY <1>4, <2>1, <2>2, <2>3, <2>4, LeavesWith
<1>7. ASSUME NEW w \in Writes, CommitWrite(w) PROVE EditsInv'
  <2>1. w \in Calls /\ Holds(w) /\ pc[w] = "commit" /\ head \in 1..Len(commits) /\ UNCHANGED <<mirror, tree>>
    BY <1>1, <1>7, InsideHolds, KindsOfActors, RefFacts DEF CommitWrite, HeadMade, Inside
  <2>2. CASE UNCHANGED <<commits, head>>
    <3>1. RemoteKept /\ Seen(head)' \subseteq Seen(mirror["spec"])'
      BY <1>5, <1>1, <2>1, <2>2 DEF LocalIsFetched
    <3>2. Goto(w, "push") \/ Goto(w, "reconcile")
      BY <1>7 DEF CommitWrite
    <3> QED
      BY <1>4, <2>1, <3>1, <3>2, LeavesWith
  <2>3. CASE Commit(Past(head), tree, FALSE) /\ head' = NewCommit /\ Goto(w, "push")
    <3>1. tree \in SUBSET Items /\ 0 \in 0..Len(commits)
      BY <1>1 DEF RefsOK
    <3>2. Commit(Past(head) \cup Past(0), tree, FALSE)
      BY <1>1, <2>3, HistoryFacts
    <3>3. HistoryOK' /\ Added(Past(head) \cup Past(0), tree)
      BY <1>1, <2>1, <3>1, <3>2, CommitOnTop
    <3>4. Seen(head) \subseteq tree
      BY <1>1, <2>1 DEF WriteSeesEdits, WriteSees
    <3>5. tree \cap Others \subseteq Seen(mirror["spec"])
      BY <1>1 DEF LocalIsFetched
    <3>6. tree \cap Others \subseteq Seen(origin["spec"])
      BY <1>1, <3>5, SeenFacts DEF RefsOK, Branches
    <3>7. Seen(head) \cup Seen(0) \subseteq tree
      BY <1>1, <3>4, SeenFacts
    <3>8. RemoteKept /\ \A n \in {NewCommit} : Seen(n)' = tree \cap Others
      BY <1>2, <2>1, <3>1, <3>3, <3>6, <3>7, CommitRemote
    <3>9. \A n : n = head' => Seen(head)' = Seen(n)'
      OBVIOUS
    <3>10. Seen(head)' = tree \cap Others
      BY <2>3, <3>8, <3>9
    <3>11. Seen(mirror["spec"]) \subseteq Seen(mirror["spec"])'
      BY <3>8 DEF RemoteKept
    <3> QED
      BY <1>4, <2>1, <2>3, <3>5, <3>8, <3>10, <3>11, LeavesWith
  <2> QED
    BY <1>7, <2>2, <2>3 DEF CommitWrite
<1>8. ASSUME NEW w \in Writes, Reconcile(w) PROVE EditsInv'
  <2>1. /\ w \in Calls /\ Holds(w) /\ Goto(w, "repush") /\ mirror' = origin
        /\ head \in 1..Len(commits) /\ origin["spec"] \in 1..Len(commits)
    BY <1>1, <1>8, InsideHolds, KindsOfActors, RefFacts DEF Reconcile, HeadMade, Inside
  <2>2. Seen(origin["spec"])' = Seen(origin["spec"]) /\ Seen(mirror["spec"])' = Seen(origin["spec"])
    <3>1. \A n \in 0..Len(commits) : n = origin["spec"] /\ n = mirror'["spec"]
             => Seen(origin["spec"])' = Seen(n)' /\ Seen(mirror["spec"])' = Seen(n)'
      BY <1>2
    <3>2. origin["spec"] \in 0..Len(commits)
      BY <2>1
    <3> QED
      BY <1>3, <2>1, <3>1, <3>2
  <2>3. \A i \in 0..Len(commits) : Seen(i) \subseteq Seen(origin["spec"])
    BY <1>1, SeenFacts
  <2>4. CASE UNCHANGED <<commits, head, tree>>
    <3>1. RemoteKept /\ Seen(head)' = Seen(head)
      BY <1>5, <2>1, <2>4
    <3> QED
      BY <1>1, <1>4, <2>1, <2>2, <2>3, <2>4, <3>1, LeavesWith DEF RefsOK
  <2>5. CASE UNCHANGED commits /\ head' = origin["spec"] /\ tree' = Tree(head')
    <3>1. RemoteKept /\ Seen(head)' = Seen(head') /\ tree' \cap Others = Seen(head')
      BY <1>5, <2>1, <2>5 DEF Seen
    <3> QED
      BY <1>4, <2>1, <2>2, <2>5, <3>1, LeavesWith
  <2>6. CASE Replay
    <3> DEFINE o == origin["spec"]
               f == \E i \in Past(head) \ Past(o) : commits[i].foreign
               T == Merged(o, head)
    <3>2. Commit(Past(o) \cup Past(0), T, f)
      BY <1>1, <2>6, HistoryFacts DEF Replay
    <3>3. T \in SUBSET Items /\ f \in BOOLEAN /\ 0 \in 0..Len(commits)
      BY <1>1, <2>1, MergedIsContent
    <3>4. T \cap Others = Seen(o) \cup Seen(head)
      BY <1>1, <2>1, MergedSeen
    <3>5. T \cap Others = Seen(o)
      BY <2>1, <2>3, <3>4
    <3>6. head' = NewCommit /\ tree' = commits'[NewCommit].tree
      BY <2>6 DEF Replay
    <3> HIDE DEF o, f, T
    <3>7. o \in 1..Len(commits) /\ o = origin["spec"]
      BY <2>1 DEF o
    <3>8. HistoryOK' /\ Added(Past(o) \cup Past(0), T) /\ commits'[NewCommit].tree = T
      BY <1>1, <3>2, <3>3, <3>7, CommitOnTop
    <3>9. Seen(o) \cup Seen(0) \subseteq T /\ T \cap Others \subseteq Seen(origin["spec"])
      BY <1>1, <3>5, <3>7, SeenFacts DEF Seen
    <3>10. RemoteKept /\ \A n \in {NewCommit} : Seen(n)' = T \cap Others
      BY <1>2, <2>1, <3>3, <3>7, <3>8, <3>9, CommitRemote
    <3>11. \A n : n = head' => Seen(head)' = Seen(n)'
      OBVIOUS
    <3> QED
      BY <1>4, <2>1, <2>2, <3>6, <3>7, <3>8, <3>9, <3>10, <3>11, LeavesWith
  <2> QED
    BY <1>8, <2>4, <2>5, <2>6 DEF Reconcile
<1>9. ASSUME NEW c \in Branching, MergeTopic(c) PROVE EditsInv'
  <2> DEFINE spec == mirror'["spec"]
             topic == mirror'["topic"]
             base == IF Past(WorktreeHead(spec)) \subseteq Past(spec) THEN spec ELSE WorktreeHead(spec)
             T == Merged(base, topic)
             NewTree == IF head' = NewCommit THEN commits'[NewCommit].tree ELSE Tree(head')
  <2>1. Fetch /\ c \in Calls /\ Holds(c) /\ (mirror' = mirror \/ mirror' = origin)
    BY <1>1, <1>9, InsideHolds, KindsOfActors DEF MergeTopic, Fetch
  <2>2. spec \in 1..Len(commits) /\ topic \in 0..Len(commits)
    BY <1>1, <2>1, FetchFacts
  <2>3. base \in 1..Len(commits)
    BY <1>1, <2>2, RefFacts DEF WorktreeHead
  <2>4. tree' = NewTree
    BY <1>9 DEF MergeTopic
  <2>5. Leaves(c)
    BY <1>9, LeavesWith DEF MergeTopic
  <2>6. /\ Seen(head) \subseteq Seen(spec) /\ Seen(topic) \subseteq Seen(spec)
        /\ Seen(spec) \subseteq Seen(origin["spec"])
    <3>1. Seen(mirror["spec"]) \subseteq Seen(origin["spec"]) /\ Seen(head) \subseteq Seen(mirror["spec"])
          /\ Seen(mirror["topic"]) \subseteq Seen(mirror["spec"]) /\ Seen(origin["topic"]) \subseteq Seen(origin["spec"])
      BY <1>1, SeenFacts DEF RefsOK, Branches, LocalIsFetched, EditsInv, TopicIsFetched
    <3> QED
      BY <2>1, <3>1
  <2>7. Seen(base) \subseteq Seen(spec)
    BY <2>6 DEF WorktreeHead
  <2>8. \/ UNCHANGED commits /\ head' = base
        \/ /\ ~(Past(topic) \subseteq Past(base)) /\ head' = NewCommit
           /\ Commit(Past(base) \cup Past(topic), T, FALSE)
    BY <1>9 DEF MergeTopic
  <2>9. \A n \in 0..Len(commits) : n = spec => Seen(mirror["spec"])' = Seen(n)
    BY <1>3
  <2>10. Seen(mirror["spec"])' = Seen(spec)
    BY <2>2, <2>9
  <2>11. CASE UNCHANGED commits /\ head' = base
    <3>1. NewCommit # head'
      BY <1>1, <2>3, <2>11 DEF NewCommit
    <3>2. tree' = Tree(head')
      BY <2>4, <3>1
    <3>3. RemoteKept /\ Seen(head)' = Seen(head')
      BY <1>5, <2>1, <2>11
    <3>4. tree' \cap Others = Seen(head')
      BY <2>11, <3>2, SeenSame DEF Seen
    <3> HIDE DEF base, spec
    <3> QED
      BY <1>4, <2>1, <2>5, <2>7, <2>10, <2>11, <3>3, <3>4
  <2>12. CASE /\ ~(Past(topic) \subseteq Past(base)) /\ head' = NewCommit
              /\ Commit(Past(base) \cup Past(topic), T, FALSE)
    <3>1. topic \in 1..Len(commits)
      BY <1>1, <2>2, <2>12, HistoryFacts
    <3>2. T \in SUBSET Items
      BY <1>1, <2>3, <3>1, MergedIsContent
    <3>3. T \cap Others = Seen(base) \cup Seen(topic)
      BY <1>1, <2>3, <3>1, MergedSeen
    <3>4. tree' = commits'[NewCommit].tree
      BY <2>4, <2>12
    <3> HIDE DEF base, topic, spec, T
    <3>5. HistoryOK' /\ Added(Past(base) \cup Past(topic), T) /\ commits'[NewCommit].tree = T
      BY <1>1, <2>2, <2>3, <2>12, <3>2, CommitOnTop
    <3>6. Seen(base) \cup Seen(topic) \subseteq T /\ T \cap Others \subseteq Seen(spec)
      BY <2>6, <2>7, <3>3
    <3>7. RemoteKept /\ \A n \in {NewCommit} : Seen(n)' = T \cap Others
      <4>1. mirror' \in {mirror, origin} /\ UNCHANGED origin /\ T \cap Others \subseteq Seen(origin["spec"])
        BY <1>2, <2>1, <2>6, <3>6
      <4> QED
        BY <4>1, <2>2, <2>3, <3>2, <3>5, <3>6, CommitRemote
    <3>8. \A n : n = head' => Seen(head)' = Seen(n)'
      OBVIOUS
    <3> QED
      BY <1>4, <2>1, <2>5, <2>10, <2>12, <3>4, <3>5, <3>6, <3>7, <3>8
  <2> HIDE DEF base, topic, spec, T
  <2> QED
    BY <2>8, <2>11, <2>12
<1> QED
  BY <1>6, <1>7, <1>8, <1>9

\* An author's commit is the tip's content and one edit more; one on the topic adds
\* no edit of the spec that is not published.
LEMMA AuthorEdits ==
    ASSUME TypeInv, EditsInv, TypesKept, NEW e \in Edits \cup TopicEdits, AuthorPush(e)
    PROVE  EditsInv'
<1> DEFINE b == IF e \in Edits THEN "spec" ELSE "topic"
           T == Tree(origin[b]) \cup {e}
<1>1. /\ LockInv /\ HistoryOK /\ RefsOK /\ HistoryOK' /\ RefsOK' /\ Grown /\ Len(commits) \in Nat
      /\ EditsPublished /\ HistoryKeepsEdits /\ TopicIsFetched
  BY HistoryFacts DEF TypeInv, TypesKept, EditsInv
<1>2. /\ UNCHANGED <<mirror, head, tree, root, signature, builder, left, want, pc>>
      /\ origin[b] # 0 /\ Commit(Past(origin[b]), T, TRUE)
      /\ origin' = [origin EXCEPT ![b] = NewCommit]
  BY DEF AuthorPush, corpus, calls
<1>3. b \in Branches /\ (b = "topic" => e \notin Others)
  BY ItemsAssumption DEF Branches, Others
<1>4. /\ b = "spec" => origin'["spec"] = NewCommit
      /\ b = "topic" => origin'["spec"] = origin["spec"]
      /\ origin["spec"] \in 1..Len(commits)
  BY <1>1, <1>2, <1>3, RefFacts DEF RefsOK, Branches
<1> HIDE DEF b
<1>5. PICK i \in 1..Len(commits) : i = origin[b]
  BY <1>1, <1>2, <1>3 DEF RefsOK
<1>6. T \cap Others = Seen(i) \cup ({e} \cap Others) /\ T \in SUBSET Items
  BY <1>1, <1>5, HistoryFacts DEF Seen, Items
<1> HIDE DEF T
<1>7. /\ Grown /\ Len(commits') = Len(commits) + 1
      /\ \A n \in {NewCommit} : Past(n)' = Past(i) \cup {n} /\ Tree(n)' = T
  <2>1. Past(0) = {}
    BY <1>1, HistoryFacts
  <2>2. Past(i) \cup Past(0) = Past(i)
    BY <2>1
  <2>3. Commit(Past(i), T, TRUE)
    BY <1>2, <1>5
  <2>4. Commit(Past(i) \cup Past(0), T, TRUE)
    BY <2>2, <2>3
  <2>5. 0 \in 0..Len(commits) /\ TRUE \in BOOLEAN
    BY <1>1
  <2>6. HistoryOK' /\ Added(Past(i) \cup Past(0), T)
    BY <1>1, <1>6, <2>4, <2>5, CommitOnTop
  <2> QED
    BY <2>2, <2>6 DEF Added
<1>8. PICK n : n = NewCommit
  OBVIOUS
<1>9. n = Len(commits) + 1 /\ Past(n)' = Past(i) \cup {n} /\ Seen(n)' = Seen(i) \cup ({e} \cap Others)
  BY <1>6, <1>7, <1>8 DEF Seen, NewCommit
<1>10. \A k \in 0..Len(commits) : Seen(k)' = Seen(k) /\ Past(k)' = Past(k)
  BY <1>7, SeenStays DEF Grown
<1>11. \A k \in 1..Len(commits') : k \in 1..Len(commits) \/ k = n
  BY <1>1, <1>7, <1>9
<1>12. Seen(mirror["spec"])' = Seen(mirror["spec"]) /\ Seen(mirror["topic"])' = Seen(mirror["topic"])
  BY <1>1, <1>2, <1>10 DEF RefsOK, Branches
<1>13. \A k \in 1..Len(commits) : Seen(k) \subseteq Seen(origin["spec"])
  BY <1>1 DEF EditsPublished
<1>14. EditsPublished'
  <2>1. CASE b = "spec"
    <3>1. n = origin'["spec"] /\ i = origin["spec"]
      BY <1>4, <1>5, <1>8, <2>1
    <3>2. Seen(origin["spec"])' = Seen(n)'
      BY <3>1
    <3>3. ASSUME NEW k \in 1..Len(commits') PROVE Seen(k)' \subseteq Seen(n)'
      <4>1. CASE k \in 1..Len(commits)
        BY <1>1, <1>9, <1>10, <1>13, <3>1, <4>1
      <4> QED
        BY <1>11, <4>1
    <3> QED
      BY <3>2, <3>3 DEF EditsPublished
  <2>2. CASE b = "topic"
    <3>1. \A k \in 0..Len(commits) : k = origin["spec"] => Seen(origin["spec"])' = Seen(k)'
      BY <1>4, <2>2
    <3>2. Seen(origin["spec"])' = Seen(origin["spec"])
      BY <1>1, <1>4, <1>10, <3>1
    <3>3. Seen(n)' = Seen(i)
      BY <1>3, <1>9, <2>2
    <3> QED
      BY <1>10, <1>11, <1>13, <3>2, <3>3 DEF EditsPublished
  <2> QED
    BY <1>3, <2>1, <2>2 DEF Branches
<1>15. HistoryKeepsEdits'
  <2>1. ASSUME NEW k \in 1..Len(commits'), NEW l, l \in Past(k)' PROVE Seen(l)' \subseteq Seen(k)'
    <3>1. CASE k \in 1..Len(commits)
      <4>1. l \in Past(k) /\ l \in 1..Len(commits)
        BY <1>1, <1>10, <2>1, <3>1, HistoryFacts
      <4> QED
        BY <1>1, <1>10, <3>1, <4>1 DEF HistoryKeepsEdits
    <3>2. CASE k = n /\ l \in Past(i)
      <4>1. l \in 1..Len(commits) /\ Seen(l) \subseteq Seen(i)
        BY <1>1, <3>2, HistoryFacts DEF HistoryKeepsEdits
      <4> QED
        BY <1>9, <1>10, <3>2, <4>1
    <3> QED
      BY <1>9, <1>11, <2>1, <3>1, <3>2
  <2> QED
    BY <2>1 DEF HistoryKeepsEdits
<1>16. RemoteKept
  BY <1>1, <1>12, <1>14, <1>15 DEF RemoteKept, TopicIsFetched
<1>17. WriteSeesEdits'
  BY <1>1, <1>2, WriteSeesStays
<1>18. RebuildStays
  BY <1>2 DEF RebuildStays
<1> QED
  BY <1>2, <1>16, <1>17, <1>18, EditsKept

LEMMA EditsInit == Init => EditsInv
<1> SUFFICES ASSUME Init PROVE EditsInv
  OBVIOUS
<1>1. /\ Len(commits) = 1 /\ commits[1] = [past |-> {1}, tree |-> {"base"}, foreign |-> FALSE]
      /\ origin["spec"] = 1 /\ origin["topic"] \in {0, 1} /\ mirror = origin
      /\ head = 0 /\ tree = {} /\ root = {} /\ left = {} /\ signature = 0
      /\ \A a \in Actors : want[a] = 0 /\ pc[a] = "idle"
  BY DEF Init, Branches
<1>2. Past(1) = {1} /\ Seen(0) = {}
  BY <1>1 DEF Past, Seen, Tree
<1>3. EditsPublished /\ HistoryKeepsEdits
  BY <1>1, <1>2 DEF EditsPublished, HistoryKeepsEdits
<1>4. LocalIsFetched /\ TopicIsFetched /\ CorpusIsSigned
  BY <1>1, <1>2 DEF LocalIsFetched, TopicIsFetched, CorpusIsSigned, Rebuilding
<1>5. WriteSeesEdits
  BY <1>1, KindsOfActors DEF WriteSeesEdits, WriteSees
<1> QED
  BY <1>3, <1>4, <1>5 DEF EditsInv

\* What has raced has raced for good.
LEMMA RacedStays == [Next]_vars /\ raced => raced'
<1> SUFFICES ASSUME [Next]_vars, raced PROVE raced'
  OBVIOUS
<1>1. ASSUME NEW w \in Writes, WriteStep(w) \/ Retry(w) PROVE raced'
  <2>1. UNCHANGED raced
    BY <1>1 DEF WriteStep, Issue, EnterWrite, Apply, Sync, CommitWrite, RefuseForeign, PushWrite,
                PushWriteRaises, Reconcile, ReconcileRaises, Retry, corpus
  <2> QED
    BY <2>1
<1>2. ASSUME NEW c \in Branching, BranchStep(c) PROVE raced'
  <2>1. UNCHANGED raced
    BY <1>2 DEF BranchStep, Issue, RefuseClaimed, CreateWork, PushCreated, EnterMerge, MergeTopic,
                PushMerge, DropTopic, CheckDelete, ReadTip, DeleteWork, corpus
  <2> QED
    BY <2>1
<1>3. ASSUME NEW a \in Actors, RootStep(a) PROVE raced'
  <2>1. CASE CheckRoot(a)
    BY <2>1 DEF CheckRoot, Proceed
  <2>2. CASE ClearRoot(a)
    BY <2>2 DEF ClearRoot, Proceed
  <2>3. CASE ListRoot(a) \/ FillRoot(a) \/ SignRoot(a) \/ BreakRoot(a)
    BY <2>3 DEF ListRoot, FillRoot, SignRoot, BreakRoot
  <2> QED
    BY <1>3, <2>1, <2>2, <2>3 DEF RootStep
<1>4. ASSUME \/ \E c \in Calls : AnswerStep(c)
             \/ \E l \in Logins : Claim(l)
             \/ EndLease \/ IndexRead \/ Crash \/ UNCHANGED vars
             \/ \E e \in Edits \cup TopicEdits : AuthorPush(e)
      PROVE  raced'
  <2>1. UNCHANGED raced
    BY <1>4 DEF AnswerStep, Refresh, Reply, Claim, EndLease, IndexRead, Crash, AuthorPush, corpus, vars
  <2> QED
    BY <2>1
<1> QED
  BY <1>1, <1>2, <1>3, <1>4 DEF Next

LEMMA EditsStep == TypeInv /\ HeadMade /\ EditsInv /\ ~raced' /\ [Next]_vars => EditsInv'
<1> SUFFICES ASSUME TypeInv, HeadMade, EditsInv, ~raced', [Next]_vars PROVE EditsInv'
  OBVIOUS
<1>1. TypesKept
  BY TypesStep
<1>2. ASSUME NEW w \in Writes, WriteStep(w) \/ Retry(w) PROVE EditsInv'
  BY <1>1, <1>2, CallEdits, CopyEdits, RemoteEdits, BranchEdits, KindsOfActors DEF WriteStep
<1>3. ASSUME NEW c \in Branching, BranchStep(c) PROVE EditsInv'
  BY <1>1, <1>3, CallEdits, RemoteEdits, BranchEdits, KindsOfActors DEF BranchStep
<1>4. CASE \E a \in Actors : RootStep(a)
  BY <1>1, <1>4, RootEdits
<1>5. CASE (\E c \in Calls : AnswerStep(c)) \/ (\E l \in Logins : Claim(l)) \/ EndLease \/ Crash
           \/ UNCHANGED vars
  BY <1>1, <1>5, CallEdits DEF AnswerStep
<1>6. CASE IndexRead
  BY <1>1, <1>6, CopyEdits
<1>7. CASE \E e \in Edits \cup TopicEdits : AuthorPush(e)
  BY <1>1, <1>7, AuthorEdits
<1> QED
  BY <1>2, <1>3, <1>4, <1>5, <1>6, <1>7 DEF Next

\* What the spec was created with, and what an author has pushed to it past the
\* service, stays in its tip until a rebuild overlaps the apply and copy of a write:
\* no write, replay or merge undoes it, whoever reads, however the steps of reads and
\* rebuilds fall between the others, wherever a git command fails, whether or not an
\* answer is lost, and wherever the service restarts.
THEOREM OutsideKeptAlways == Spec => []OutsideKept
<1> DEFINE KeptSoFar == raced \/ EditsInv
<1>1. TypeInv /\ HeadMade /\ KeptSoFar /\ [Next]_vars => KeptSoFar'
  BY EditsStep, RacedStays DEF KeptSoFar
<1>2. TypeInv /\ KeptSoFar => OutsideKept
  <2> SUFFICES ASSUME TypeInv, EditsInv, NEW e \in Edits \cup {"base"}, NEW i \in DOMAIN commits, e \in Tree(i)
               PROVE  e \in Tree(origin["spec"])
    BY DEF OutsideKept, OthersKept, KeptSoFar
  <2>1. i \in 1..Len(commits)
    BY HistoryFacts DEF TypeInv
  <2> QED
    BY <2>1 DEF EditsInv, EditsPublished, Seen, Others
<1>3. Init => KeptSoFar
  BY EditsInit DEF KeptSoFar
<1> HIDE DEF KeptSoFar
<1> QED
  BY <1>1, <1>2, <1>3, TypesInvariant, PTL DEF Spec
=============================================================================
