-------------------------- MODULE SpecWritePathProofs --------------------------
(***************************************************************************)
(* The write lock of SpecWritePath, what its variables hold, and the lease.*)
(* The chain of waiters holds every call that was queued, in order; a call *)
(* does anything past the wait only at its head, and only the head leaves  *)
(* it (LockInv).                                                           *)
(*                                                                         *)
(* TypeOK is not inductive: a worktree could follow a tip that was never   *)
(* made, and the past of a commit could name commits to come.  TypeInv adds*)
(* that histories are closed under ancestors (HistoryOK), that every ref   *)
(* and every tip read for later is a commit made before (RefsOK), what the *)
(* corpus, worktree and results remember (MemoryOK) and the order of the   *)
(* lock's waiters (LockInv); HeadMade says whoever is inside the lock has a*)
(* worktree.  Grown, that commits keep their past and content, is what the *)
(* later modules start from.  LeaseInv adds to LeaseHolds that a barred    *)
(* call still waits for the lock.                                          *)
(***************************************************************************)
EXTENDS SpecWritePath, WellFoundedInduction, TLAPS

LockTypeOK ==
    /\ lock \in Seq(Calls)
    /\ pc \in [Actors -> Labels]
    /\ result \in [Calls -> Results]

\* The inductive invariant.
LockInv == LockTypeOK /\ OneHolder

Frame == UNCHANGED <<lock, pc, result>>

LEMMA QueriesAreNoCalls == Queries \cap Calls = {} /\ Calls \subseteq Actors
  BY CallsAssumption DEF Actors, Calls, Branching

LEMMA LockInit == Init => LockInv
  BY QueriesAreNoCalls DEF Init, LockInv, LockTypeOK, OneHolder, Inside, Labels, Results

\* A step that leaves the lock, the labels and the answers alone.
LEMMA FrameKeeps == ASSUME LockInv, Frame PROVE LockInv'
  BY DEF LockInv, Frame, LockTypeOK, OneHolder, Inside, Holds

\* The holder, or an actor that is no call, moves on and the lock stays.
LEMMA GotoKeeps ==
    ASSUME LockInv, NEW a \in Actors, NEW label \in Labels, Goto(a, label),
           UNCHANGED lock, result' \in [Calls -> Results],
           a \in Calls => Holds(a) \/ label \in {"idle", "queued", "done"}
    PROVE  LockInv'
  BY DEF LockInv, LockTypeOK, OneHolder, Inside, Holds, Goto

\* The holder answers: nobody is inside until the next call enters.
LEMMA FinishKeeps ==
    ASSUME LockInv, NEW c \in Calls, NEW answer \in Results, Finish(c, answer), Holds(c)
    PROVE  LockInv'
<1>1. LockTypeOK'
  BY QueriesAreNoCalls DEF LockInv, LockTypeOK, Finish, Goto, Holds, Labels
<1>2. \A d \in Calls : pc'[d] \in {"idle", "queued", "done"}
  <2> SUFFICES ASSUME NEW d \in Calls PROVE pc'[d] \in {"idle", "queued", "done"}
    OBVIOUS
  <2>1. CASE d = c
    BY <2>1, QueriesAreNoCalls DEF LockInv, LockTypeOK, Finish, Goto
  <2>2. CASE d # c
    <3>1. ~Holds(d)
      BY <2>2 DEF Holds
    <3>2. pc[d] \in {"idle", "queued", "done"}
      BY <3>1 DEF LockInv, OneHolder, Inside
    <3> QED
      BY <2>2, <3>2, QueriesAreNoCalls DEF LockInv, LockTypeOK, Finish, Goto
  <2> QED
    BY <2>1, <2>2
<1> QED
  BY <1>1, <1>2 DEF LockInv, OneHolder, Inside

\* A call appended to the chain does not change its head.
LEMMA IssueKeeps == ASSUME LockInv, NEW c \in Calls, Issue(c) PROVE LockInv'
<1>1. CASE UNCHANGED lock
  <2>1. Goto(c, "done") \/ Goto(c, "queued")
    BY DEF Issue
  <2>2. result' \in [Calls -> Results]
    BY DEF Issue, LockInv, LockTypeOK, Results
  <2> QED
    BY <1>1, <2>1, <2>2, GotoKeeps, QueriesAreNoCalls DEF Labels
<1>2. CASE lock' # lock
  <2>1. lock' = Append(lock, c) /\ Goto(c, "queued") /\ result' = result
    BY <1>2 DEF Issue
  <2>2. LockTypeOK'
    BY <2>1, QueriesAreNoCalls DEF LockInv, LockTypeOK, Goto, Labels
  <2>3. ASSUME NEW d \in Calls, Inside(d)' PROVE Holds(d)'
    <3>1. d # c /\ Inside(d)
      BY <2>1, <2>3, QueriesAreNoCalls DEF Inside, Goto, LockInv, LockTypeOK
    <3>2. Holds(d)
      BY <3>1 DEF LockInv, OneHolder
    <3> QED
      BY <2>1, <3>2 DEF Holds, LockInv, LockTypeOK
  <2> QED
    BY <2>2, <2>3 DEF LockInv, OneHolder
<1> QED
  BY <1>1, <1>2

\* A write past the wait holds the lock.
LEMMA InsideHolds ==
    ASSUME LockInv, NEW c \in Calls, pc[c] \notin {"idle", "queued", "done"}
    PROVE  Holds(c)
  BY DEF LockInv, OneHolder, Inside

LEMMA WriteStepKeeps ==
    ASSUME LockInv, NEW w \in Writes, WriteStep(w) \/ Retry(w) PROVE LockInv'
<1> w \in Calls /\ w \in Actors
  BY QueriesAreNoCalls DEF Calls
<1> USE DEF Labels, Results
<1>1. CASE Issue(w)
  BY <1>1, IssueKeeps
<1>2. CASE EnterWrite(w)
  <2>1. Goto(w, "root") /\ UNCHANGED lock /\ result' = result /\ Holds(w)
    BY <1>2 DEF EnterWrite
  <2> QED
    BY <2>1, GotoKeeps DEF LockInv, LockTypeOK
<1>3. CASE Apply(w)
  <2>1. Holds(w)
    BY <1>3, InsideHolds DEF Apply
  <2>2. (Goto(w, "sync") /\ UNCHANGED <<lock, result>>) \/ Finish(w, "refused")
    BY <1>3 DEF Apply
  <2> QED
    BY <2>1, <2>2, GotoKeeps, FinishKeeps DEF LockInv, LockTypeOK
<1>4. CASE Sync(w)
  <2>1. Holds(w)
    BY <1>4, InsideHolds DEF Sync
  <2>2. (Goto(w, "commit") \/ Goto(w, "reconcile")) /\ UNCHANGED <<lock, result>>
    BY <1>4 DEF Sync
  <2> QED
    BY <2>1, <2>2, GotoKeeps DEF LockInv, LockTypeOK
<1>5. CASE CommitWrite(w)
  <2>1. Holds(w)
    BY <1>5, InsideHolds DEF CommitWrite
  <2>2. (Goto(w, "push") \/ Goto(w, "reconcile")) /\ UNCHANGED <<lock, result>>
    BY <1>5 DEF CommitWrite
  <2> QED
    BY <2>1, <2>2, GotoKeeps DEF LockInv, LockTypeOK
<1>6. CASE RefuseForeign(w)
  BY <1>6, InsideHolds, FinishKeeps DEF RefuseForeign
<1>7. CASE PushWrite(w)
  <2>1. Holds(w) /\ Goto(w, "refresh") /\ UNCHANGED lock /\ result' \in [Calls -> Results]
    BY <1>7, InsideHolds DEF PushWrite, LockInv, LockTypeOK
  <2> QED
    BY <2>1, GotoKeeps
<1>8. CASE PushWriteRaises(w)
  <2>1. Holds(w)
    BY <1>8, InsideHolds DEF PushWriteRaises
  <2>2. (Goto(w, "reconcile") /\ UNCHANGED <<lock, result>>) \/ Finish(w, "push failed")
    BY <1>8 DEF PushWriteRaises
  <2> QED
    BY <2>1, <2>2, GotoKeeps, FinishKeeps DEF LockInv, LockTypeOK
<1>9. CASE Reconcile(w)
  <2>1. Holds(w) /\ Goto(w, "repush") /\ UNCHANGED <<lock, result>>
    BY <1>9, InsideHolds DEF Reconcile
  <2> QED
    BY <2>1, GotoKeeps DEF LockInv, LockTypeOK
<1>10. CASE ReconcileRaises(w)
  BY <1>10, InsideHolds, FinishKeeps DEF ReconcileRaises
<1>11. CASE Retry(w)
  <2>1. Goto(w, "idle") /\ UNCHANGED lock /\ result' \in [Calls -> Results]
    BY <1>11 DEF Retry, LockInv, LockTypeOK
  <2> QED
    BY <2>1, GotoKeeps
<1> QED
  BY <1>1, <1>2, <1>3, <1>4, <1>5, <1>6, <1>7, <1>8, <1>9, <1>10, <1>11 DEF WriteStep

LEMMA BranchStepKeeps ==
    ASSUME LockInv, NEW c \in Branching, BranchStep(c) PROVE LockInv'
<1> c \in Calls /\ c \in Actors
  BY QueriesAreNoCalls DEF Calls
<1> USE DEF Labels, Results
<1> DEFINE Moves == \E label \in Labels : Goto(c, label) /\ UNCHANGED <<lock, result>>
           Answers == \E answer \in Results : Finish(c, answer)
<1>1. ASSUME Holds(c), Moves \/ Answers PROVE LockInv'
  BY <1>1, GotoKeeps, FinishKeeps DEF LockInv, LockTypeOK
<1>2. CASE Issue(c)
  BY <1>2, IssueKeeps
<1>3. CASE RefuseClaimed(c) \/ CreateWork(c) \/ EnterMerge(c) \/ CheckDelete(c)
  <2>1. Holds(c)
    BY <1>3 DEF RefuseClaimed, CreateWork, EnterMerge, CheckDelete, Enter
  <2>2. Moves \/ Answers
    BY <1>3 DEF RefuseClaimed, CreateWork, EnterMerge, CheckDelete
  <2> QED
    BY <1>1, <2>1, <2>2
<1>4. CASE PushCreated(c) \/ MergeTopic(c) \/ PushMerge(c) \/ ReadTip(c) \/ DeleteWork(c)
  <2>1. Holds(c)
    BY <1>4, InsideHolds DEF PushCreated, MergeTopic, PushMerge, ReadTip, DeleteWork
  <2>2. CASE PushCreated(c)
    BY <1>1, <2>1, <2>2 DEF PushCreated
  <2>3. CASE MergeTopic(c)
    <3>1. Moves \/ Answers
      BY <2>3 DEF MergeTopic
    <3> QED
      BY <1>1, <2>1, <3>1
  <2>4. CASE PushMerge(c)
    BY <1>1, <2>1, <2>4 DEF PushMerge
  <2>5. CASE ReadTip(c)
    BY <1>1, <2>1, <2>5 DEF ReadTip
  <2>6. CASE DeleteWork(c)
    BY <1>1, <2>1, <2>6 DEF DeleteWork
  <2> QED
    BY <1>4, <2>2, <2>3, <2>4, <2>5, <2>6
<1>5. CASE DropTopic(c)
  <2>1. Holds(c) /\ Goto(c, "refresh") /\ UNCHANGED lock /\ result' \in [Calls -> Results]
    BY <1>5, InsideHolds DEF DropTopic, LockInv, LockTypeOK
  <2> QED
    BY <2>1, GotoKeeps
<1> QED
  BY <1>2, <1>3, <1>4, <1>5 DEF BranchStep

\* Every step of a rebuild moves its actor on or answers a call that failed in it.
LEMMA RootMoves ==
    ASSUME NEW a \in Actors, RootStep(a)
    PROVE  \/ /\ \E label \in Labels \ {"pushMerge"} : Goto(a, label)
              /\ UNCHANGED <<lock, result>>
           \/ a \in Calls /\ Finish(a, "git failed")
<1> USE DEF Labels
<1>1. CASE CheckRoot(a)
  BY <1>1 DEF CheckRoot, Proceed, After
<1>2. CASE ClearRoot(a)
  BY <1>2 DEF ClearRoot, Proceed, After
<1>3. CASE ListRoot(a) \/ FillRoot(a) \/ SignRoot(a)
  BY <1>3 DEF ListRoot, FillRoot, SignRoot, After
<1>4. CASE BreakRoot(a)
  <2>1. a \in Queries => After(a) = "idle"
    BY DEF After
  <2>2. After(a) \in Labels \ {"pushMerge"}
    BY DEF After
  <2>3. CASE After(a) = "apply"
    <3>1. a \in Calls
      BY <2>1, <2>3, QueriesAreNoCalls DEF Actors
    <3> QED
      BY <1>4, <2>3, <3>1 DEF BreakRoot
  <2>4. CASE After(a) # "apply"
    BY <1>4, <2>2, <2>4 DEF BreakRoot
  <2> QED
    BY <2>3, <2>4
<1> QED
  BY <1>1, <1>2, <1>3, <1>4 DEF RootStep

\* A call that rebuilds the corpus is past its wait.
LEMMA RootIsInside == ASSUME NEW a \in Calls, RootStep(a) PROVE Inside(a)
  BY QueriesAreNoCalls DEF RootStep, CheckRoot, ClearRoot, ListRoot, FillRoot, SignRoot, BreakRoot, Inside

\* The rebuild of the corpus, by the holder or by a read.
LEMMA RootStepKeeps ==
    ASSUME LockInv, NEW a \in Actors, RootStep(a) PROVE LockInv'
<1>1. a \in Calls => Holds(a)
  BY RootIsInside DEF LockInv, OneHolder
<1>2. CASE (\E label \in Labels : Goto(a, label)) /\ UNCHANGED <<lock, result>>
  BY <1>1, <1>2, GotoKeeps DEF LockInv, LockTypeOK
<1>3. CASE a \in Calls /\ Finish(a, "git failed")
  BY <1>1, <1>3, FinishKeeps DEF Results
<1> QED
  BY <1>2, <1>3, RootMoves

LEMMA AnswerStepKeeps ==
    ASSUME LockInv, NEW c \in Calls, AnswerStep(c) PROVE LockInv'
<1> c \in Actors
  BY QueriesAreNoCalls
<1>1. Holds(c)
  BY InsideHolds DEF AnswerStep, Refresh, Reply
<1>2. CASE Refresh(c)
  BY <1>1, <1>2, GotoKeeps DEF Refresh, LockInv, LockTypeOK, Labels
<1>3. CASE Reply(c)
  <2>1. result[c] \in Results /\ Finish(c, result[c])
    BY <1>3 DEF Reply, LockInv, LockTypeOK
  <2> QED
    BY <1>1, <2>1, FinishKeeps
<1> QED
  BY <1>2, <1>3 DEF AnswerStep

LEMMA CrashKeeps == ASSUME LockInv, Crash PROVE LockInv'
<1>1. /\ lock' = <<>>
      /\ pc' = [a \in Actors |-> IF pc[a] = "idle" \/ a \in Queries THEN "idle" ELSE "done"]
      /\ result' = [c \in Calls |-> IF pc[c] \in {"idle", "done"} THEN result[c] ELSE "lost"]
  BY DEF Crash
<1>2. LockTypeOK'
  <2>1. lock' \in Seq(Calls)
    BY <1>1
  <2>2. pc' \in [Actors -> Labels]
    BY <1>1 DEF Labels
  <2>3. result' \in [Calls -> Results]
    BY <1>1 DEF LockInv, LockTypeOK, Results
  <2> QED
    BY <2>1, <2>2, <2>3 DEF LockTypeOK
<1>3. \A c \in Calls : ~Inside(c)'
  BY <1>1, QueriesAreNoCalls DEF Inside
<1> QED
  BY <1>2, <1>3 DEF LockInv, OneHolder

LEMMA LockStep == LockInv /\ [Next]_vars => LockInv'
<1> SUFFICES ASSUME LockInv, [Next]_vars PROVE LockInv'
  OBVIOUS
<1>1. CASE \E w \in Writes : WriteStep(w) \/ Retry(w)
  BY <1>1, WriteStepKeeps
<1>2. CASE \E c \in Branching : BranchStep(c)
  BY <1>2, BranchStepKeeps
<1>3. CASE \E a \in Actors : RootStep(a)
  BY <1>3, RootStepKeeps
<1>4. CASE \E c \in Calls : AnswerStep(c)
  BY <1>4, AnswerStepKeeps
<1>5. CASE (\E l \in Logins : Claim(l)) \/ EndLease \/ IndexRead
  BY <1>5, FrameKeeps DEF Claim, EndLease, IndexRead, Frame, calls
<1>6. CASE Crash
  BY <1>6, CrashKeeps
<1>7. CASE \E e \in Edits \cup TopicEdits : AuthorPush(e)
  BY <1>7, FrameKeeps DEF AuthorPush, Frame, calls
<1>8. CASE UNCHANGED vars
  BY <1>8, FrameKeeps DEF vars, Frame, calls
<1> QED
  BY <1>1, <1>2, <1>3, <1>4, <1>5, <1>6, <1>7, <1>8 DEF Next

\* Of all the writes, merges, creations and deletions under way, only the one at
\* the head of the project's write lock is past its wait: for any number of calls,
\* whatever git, the authors, the reads and the restarts do.
THEOREM OneHolderAlways == Spec => []OneHolder
<1>1. LockInv => OneHolder
  BY DEF LockInv
<1> QED
  BY <1>1, LockInit, LockStep, PTL DEF Spec

-----------------------------------------------------------------------------
(* The types, and the lease. *)

HistoryOK ==
    /\ commits \in Seq([past : SUBSET Nat, tree : SUBSET Items, foreign : BOOLEAN])
    /\ \A i \in DOMAIN commits : {1, i} \subseteq Past(i) /\ Past(i) \subseteq 1..i
    /\ \A i \in DOMAIN commits : \A j \in Past(i) : Past(j) \subseteq Past(i)

\* The commits made so far keep their ancestors and their content.
Grown ==
    /\ Len(commits) <= Len(commits')
    /\ \A i \in 0..Len(commits) : Past(i)' = Past(i) /\ Tree(i)' = Tree(i)

\* One commit more.
Added(past, content) ==
    /\ Grown
    /\ Len(commits') = Len(commits) + 1
    /\ \A n \in {NewCommit} : Past(n)' = past \cup {n} /\ Tree(n)' = content

LEMMA MaximumExists ==
    ASSUME NEW n \in Nat, NEW S \in SUBSET (1..n), S # {}
    PROVE  \E k \in S : \A l \in S : l <= k
<1> DEFINE T == {n - k : k \in S}
<1>1. T \subseteq Nat /\ T # {}
  <2>1. \A k \in S : n - k \in Nat
    OBVIOUS
  <2> QED
    BY <2>1
<1>2. PICK x \in T : \A y \in T : ~ (<<y, x>> \in OpToRel(<, Nat))
  <2> HIDE DEF T
  <2> QED
    BY <1>1, WFMin, NatLessThanWellFounded, Zenon
<1>3. \A y \in T : ~(y < x)
  BY <1>1, <1>2 DEF OpToRel
<1>4. PICK k \in S : x = n - k
  OBVIOUS
<1>5. \A l \in S : n - l \in T
  OBVIOUS
<1>6. \A l \in S : l <= k
  <2> HIDE DEF T
  <2> QED
    BY <1>3, <1>4, <1>5
<1> QED
  BY <1>6

LEMMA HistoryFacts ==
    ASSUME HistoryOK
    PROVE  /\ DOMAIN commits = 1..Len(commits) /\ Len(commits) \in Nat
           /\ Past(0) = {} /\ Tree(0) = {}
           /\ \A i \in 1..Len(commits) : /\ 1 \in Past(i) /\ i \in Past(i) /\ Past(i) \subseteq 1..i
                                         /\ Past(i) \subseteq 1..Len(commits)
                                         /\ Tree(i) \subseteq Items
                                         /\ \A j \in Past(i) : Past(j) \subseteq Past(i)
                                         /\ commits[i].foreign \in BOOLEAN
           /\ \A i \in 0..Len(commits) : Past(i) \subseteq 1..Len(commits) /\ Tree(i) \subseteq Items
<1>1. DOMAIN commits = 1..Len(commits) /\ Len(commits) \in Nat
  BY DEF HistoryOK
<1>2. Past(0) = {} /\ Tree(0) = {}
  BY DEF Past, Tree
<1>3. ASSUME NEW i \in 1..Len(commits)
      PROVE  /\ 1 \in Past(i) /\ i \in Past(i) /\ Past(i) \subseteq 1..i
             /\ Past(i) \subseteq 1..Len(commits)
             /\ Tree(i) \subseteq Items
             /\ \A j \in Past(i) : Past(j) \subseteq Past(i)
             /\ commits[i].foreign \in BOOLEAN
  <2> DEFINE Record == [past : SUBSET Nat, tree : SUBSET Items, foreign : BOOLEAN]
  <2>1. commits[i] \in Record
    <3>1. commits \in Seq(Record)
      BY DEF HistoryOK
    <3> HIDE DEF Record
    <3> QED
      BY <3>1
  <2>2. Tree(i) \subseteq Items /\ commits[i].foreign \in BOOLEAN
    BY <2>1, <1>1 DEF Tree
  <2>3. {1, i} \subseteq Past(i) /\ Past(i) \subseteq 1..i /\ \A j \in Past(i) : Past(j) \subseteq Past(i)
    BY <1>1 DEF HistoryOK
  <2>4. 1..i \subseteq 1..Len(commits)
    BY <1>1
  <2> QED
    BY <2>2, <2>3, <2>4
<1>4. \A i \in 0..Len(commits) : i = 0 \/ i \in 1..Len(commits)
  BY <1>1
<1> QED
  BY <1>1, <1>2, <1>3, <1>4

LEMMA UnchangedGrows == ASSUME UNCHANGED commits PROVE Grown /\ (HistoryOK => HistoryOK')
  BY DEF Grown, HistoryOK, Past, Tree

LEMMA RecordOfParts ==
    ASSUME NEW A, NEW B, NEW C, NEW a \in A, NEW b \in B, NEW c \in C
    PROVE  [past |-> a, tree |-> b, foreign |-> c] \in [past : A, tree : B, foreign : C]
  OBVIOUS

LEMMA CommitGrows ==
    ASSUME HistoryOK, NEW P \in SUBSET (1..Len(commits)), NEW T \in SUBSET Items, NEW f \in BOOLEAN,
           1 \in P, \A j \in P : Past(j) \subseteq P,
           Commit(P, T, f)
    PROVE  HistoryOK' /\ Added(P, T)
<1> SUFFICES ASSUME NEW n, n = Len(commits) + 1
             PROVE  HistoryOK' /\ Added(P, T)
  OBVIOUS
<1> DEFINE new == [past |-> P \cup {n}, tree |-> T, foreign |-> f]
           Record == [past : SUBSET Nat, tree : SUBSET Items, foreign : BOOLEAN]
<1>1. commits \in Seq(Record) /\ Len(commits) \in Nat
  BY DEF HistoryOK
<1>2. commits' = Append(commits, new)
  BY DEF Commit, NewCommit
<1>3. new \in Record
  <2>1. P \cup {n} \in SUBSET Nat
    <3>1. n \in Nat
      BY <1>1
    <3>2. 1..Len(commits) \subseteq Nat
      BY <1>1
    <3> QED
      BY <3>1, <3>2
  <2> QED
    BY <2>1, RecordOfParts, Zenon
<1>4. /\ commits' \in Seq(Record) /\ Len(commits') = n
      /\ \A i \in 1..Len(commits) : commits'[i] = commits[i]
      /\ commits'[n] = new
  <2> HIDE DEF new
  <2> QED
    BY <1>1, <1>2, <1>3
<1>5. \A i \in 0..Len(commits) : Past(i)' = Past(i) /\ Tree(i)' = Tree(i)
  BY <1>1, <1>4 DEF Past, Tree
<1>6. Past(n)' = P \cup {n} /\ Tree(n)' = T
  <2>1. n # 0
    BY <1>1
  <2>2. commits'[n].past = P \cup {n} /\ commits'[n].tree = T
    BY <1>4
  <2> QED
    BY <2>1, <2>2 DEF Past, Tree
<1>7. Added(P, T)
  BY <1>1, <1>4, <1>5, <1>6 DEF Added, Grown, NewCommit
<1>8. DOMAIN commits' = 1..n
  BY <1>4
<1>9. ASSUME NEW i \in 1..n
      PROVE  /\ {1, i} \subseteq Past(i)' /\ Past(i)' \subseteq 1..i
             /\ \A j \in Past(i)' : Past(j)' \subseteq Past(i)'
  <2>1. CASE i \in 1..Len(commits)
    <3>1. /\ 1 \in Past(i) /\ i \in Past(i) /\ Past(i) \subseteq 1..i /\ Past(i) \subseteq 1..Len(commits)
          /\ \A j \in Past(i) : Past(j) \subseteq Past(i)
      BY <2>1, HistoryFacts
    <3>2. \A j \in Past(i) \cup {i} : Past(j)' = Past(j)
      BY <1>1, <1>5, <2>1, <3>1
    <3> QED
      BY <3>1, <3>2
  <2>2. CASE i = n
    <3>1. \A j \in P : Past(j)' = Past(j)
      BY <1>1, <1>5
    <3>2. Past(i)' = P \cup {i} /\ P \subseteq 1..i
      <4>1. P \subseteq 1..n
        BY <1>1
      <4> QED
        BY <1>6, <2>2, <4>1
    <3>3. {1, i} \subseteq Past(i)' /\ Past(i)' \subseteq 1..i
      BY <3>2
    <3>4. ASSUME NEW j \in Past(i)' PROVE Past(j)' \subseteq Past(i)'
      <4>1. CASE j = i
        BY <4>1
      <4>2. CASE j \in P
        BY <3>1, <3>2, <4>2
      <4> QED
        BY <3>2, <4>1, <4>2
    <3> QED
      BY <3>3, <3>4
  <2> QED
    BY <1>1, <2>1, <2>2
<1>10. HistoryOK'
  <2> HIDE DEF new
  <2> QED
    BY <1>4, <1>8, <1>9 DEF HistoryOK
<1> QED
  BY <1>7, <1>10

\* A merge base is an ancestor of both, and the newest one.
LEMMA MergeBaseIsNewest ==
    ASSUME HistoryOK, NEW i \in 1..Len(commits), NEW j \in 1..Len(commits)
    PROVE  /\ MergeBase(i, j) \in Past(i) \cap Past(j)
           /\ \A l \in Past(i) \cap Past(j) : l <= MergeBase(i, j)
<1> DEFINE S == Past(i) \cap Past(j)
<1>1. S \subseteq 1..Len(commits) /\ S # {} /\ Len(commits) \in Nat
  BY HistoryFacts
<1>2. \E k \in S : \A l \in S : l <= k
  <2> HIDE DEF S
  <2> QED
    BY <1>1, MaximumExists
<1> QED
  BY <1>2 DEF MergeBase

LEMMA MergedIsContent ==
    ASSUME HistoryOK, NEW i \in 1..Len(commits), NEW j \in 1..Len(commits)
    PROVE  Merged(i, j) \subseteq Tree(i) \cup Tree(j) /\ Merged(i, j) \in SUBSET Items
  BY HistoryFacts DEF Merged

-----------------------------------------------------------------------------
(* Types. *)

\* Every ref is a commit, and the spec's branch is never deleted.
RefsOK ==
    /\ origin \in [Branches -> 0..Len(commits)] /\ mirror \in [Branches -> 0..Len(commits)]
    /\ origin["spec"] # 0 /\ mirror["spec"] # 0
    /\ head \in 0..Len(commits) /\ signature \in 0..Len(commits)
    /\ want \in [Actors -> 0..Len(commits)]
    /\ tree \subseteq Items /\ root \subseteq Items

MemoryOK ==
    /\ builder \in Actors \cup {"nobody"} /\ left \subseteq Items
    /\ raced \in BOOLEAN /\ applied \subseteq Writes
    /\ claim \in Logins \cup {"nobody"} /\ barred \subseteq Branching
    /\ tries \in [Calls -> 0..MaxTries] /\ cast \in Casts
    /\ errors \in 0..MaxErrors /\ crashes \in 0..MaxCrashes

TypeInv == HistoryOK /\ RefsOK /\ MemoryOK /\ LockInv

LEMMA TypesAreTypeOK == TypeInv => TypeOK
<1> SUFFICES ASSUME TypeInv PROVE TypeOK
  OBVIOUS
<1> DEFINE Record == [past : SUBSET Nat, tree : SUBSET Items, foreign : BOOLEAN]
           Bounded == [past : SUBSET (1..Len(commits)), tree : SUBSET Items, foreign : BOOLEAN]
<1>1. commits \in Seq(Record)
  BY DEF TypeInv, HistoryOK
<1>2. ASSUME NEW i \in 1..Len(commits) PROVE commits[i] \in Bounded
  <2>1. commits[i] \in Record
    <3> HIDE DEF Record
    <3> QED
      BY <1>1, <1>2
  <2>2. commits[i].past \subseteq 1..Len(commits)
    <3>1. Past(i) = commits[i].past
      BY <1>2 DEF Past
    <3> QED
      BY <1>2, <3>1, HistoryFacts DEF TypeInv
  <2> QED
    BY <2>1, <2>2
<1>3. commits \in Seq(Bounded)
  <2> HIDE DEF Record, Bounded
  <2> QED
    BY <1>1, <1>2
<1> QED
  BY <1>3 DEF TypeInv, RefsOK, MemoryOK, LockInv, LockTypeOK, TypeOK

LEMMA TypesInit == Init => HistoryOK /\ RefsOK /\ MemoryOK
<1> SUFFICES ASSUME Init PROVE HistoryOK /\ RefsOK /\ MemoryOK
  OBVIOUS
<1> DEFINE first == [past |-> {1}, tree |-> {"base"}, foreign |-> FALSE]
           Record == [past : SUBSET Nat, tree : SUBSET Items, foreign : BOOLEAN]
<1>1. commits = <<first>>
  BY DEF Init
<1>2. first \in Record
  <2>1. {1} \in SUBSET Nat /\ {"base"} \in SUBSET Items
    BY DEF Items
  <2> QED
    BY <2>1, RecordOfParts
<1>3. commits \in Seq(Record) /\ Len(commits) = 1 /\ DOMAIN commits = {1} /\ commits[1] = first
  <2> HIDE DEF first, Record
  <2> QED
    BY <1>1, <1>2
<1>4. Past(1) = {1}
  BY <1>3 DEF Past
<1>5. HistoryOK
  <2> HIDE DEF first
  <2> QED
    BY <1>3, <1>4 DEF HistoryOK
<1>6. RefsOK
  BY <1>3 DEF Init, RefsOK, Branches
<1>7. MemoryOK
  <2>1. raced \in BOOLEAN /\ left \subseteq Items
    BY Zenon DEF Init
  <2>2. errors \in 0..MaxErrors /\ crashes \in 0..MaxCrashes /\ tries \in [Calls -> 0..MaxTries]
    BY BoundsAssumption DEF Init
  <2> QED
    BY <2>1, <2>2 DEF Init, MemoryOK
<1> QED
  BY <1>5, <1>6, <1>7

\* What the operators on refs return.
LEMMA RefFacts ==
    ASSUME HistoryOK, RefsOK
    PROVE  /\ Len(commits) \in Nat
           /\ origin["spec"] \in 1..Len(commits) /\ mirror["spec"] \in 1..Len(commits)
           /\ origin["topic"] \in 0..Len(commits) /\ mirror["topic"] \in 0..Len(commits)
           /\ head \in 0..Len(commits)
           /\ head # 0 => head \in 1..Len(commits)
  BY HistoryFacts DEF RefsOK, Branches

LEMMA FetchFacts ==
    ASSUME HistoryOK, RefsOK, Fetch
    PROVE  /\ mirror' = mirror \/ mirror' = origin
           /\ mirror' \in [Branches -> 0..Len(commits)] /\ mirror'["spec"] \in 1..Len(commits)
           /\ mirror'["topic"] \in 0..Len(commits)
           /\ MemoryOK => errors' \in 0..MaxErrors
  BY RefFacts, BoundsAssumption DEF Fetch, Works, Fails, RefsOK, MemoryOK

LEMMA ErrorsStay ==
    ASSUME MemoryOK, NEW kind, Works \/ Fails(kind) PROVE errors' \in 0..MaxErrors
  BY BoundsAssumption DEF Works, Fails, MemoryOK

\* Refs of the commits made before are refs after the step.
LEMMA RefsStay ==
    ASSUME HistoryOK, HistoryOK', Grown
    PROVE  /\ 0..Len(commits) \subseteq 0..Len(commits')
           /\ 1..Len(commits) \subseteq 1..Len(commits')
           /\ Len(commits) \in Nat /\ Len(commits') \in Nat
           /\ \A S : [S -> 0..Len(commits)] \subseteq [S -> 0..Len(commits')]
<1>1. Len(commits) \in Nat /\ Len(commits') \in Nat
  BY DEF HistoryOK
<1>2. 0..Len(commits) \subseteq 0..Len(commits') /\ 1..Len(commits) \subseteq 1..Len(commits')
  BY <1>1 DEF Grown
<1>3. ASSUME NEW S PROVE [S -> 0..Len(commits)] \subseteq [S -> 0..Len(commits')]
  BY <1>2
<1> QED
  BY <1>1, <1>2, <1>3

TypesKept == HistoryOK' /\ RefsOK' /\ MemoryOK' /\ Grown

\* A step that makes no commit.
LEMMA NoCommitTypes ==
    ASSUME HistoryOK, UNCHANGED commits, RefsOK', MemoryOK' PROVE TypesKept
  BY UnchangedGrows DEF TypesKept

LEMMA PushedFacts ==
    ASSUME HistoryOK, RefsOK, MemoryOK, NEW b \in Branches, NEW tip \in 1..Len(commits),
           Pushed(b, tip) \/ PushRaises(b, tip)
    PROVE  /\ origin' \in [Branches -> 0..Len(commits)] /\ mirror' \in [Branches -> 0..Len(commits)]
           /\ origin'["spec"] # 0 /\ mirror'["spec"] # 0
           /\ errors' \in 0..MaxErrors
<1>1. tip \in 0..Len(commits) /\ tip # 0
  BY RefFacts
<1>2. errors' \in 0..MaxErrors
  BY ErrorsStay DEF Pushed, PushRaises
<1>3. UNCHANGED origin \/ origin' = [origin EXCEPT ![b] = tip]
  BY DEF Pushed, PushRaises
<1>4. UNCHANGED mirror \/ mirror' = [mirror EXCEPT ![b] = tip]
  BY DEF Pushed, PushRaises
<1> QED
  BY <1>1, <1>2, <1>3, <1>4 DEF RefsOK, Branches

\* Steps that leave git and the corpus alone, but for the memory of the service.
LEMMA CallTypes ==
    ASSUME HistoryOK, RefsOK, MemoryOK,
           \/ \E c \in Calls : Issue(c) \/ Reply(c)
           \/ \E l \in Logins : Claim(l)
           \/ EndLease
           \/ \E w \in Writes : Retry(w) \/ RefuseForeign(w)
           \/ \E c \in Branching : RefuseClaimed(c)
    PROVE  TypesKept
<1> USE DEF git, corpus, lease, faults
<1>1. UNCHANGED <<git, corpus, want, cast, errors, crashes>>
  BY DEF Issue, Reply, Claim, EndLease, Retry, RefuseForeign, RefuseClaimed, calls
<1>2. claim' \in Logins \cup {"nobody"} /\ barred' \subseteq Branching
  <2>1. claim \in Logins \cup {"nobody"} /\ barred \subseteq Branching
    BY DEF MemoryOK
  <2>2. CASE \E c \in Calls : Issue(c)
    <3>1. PICK c \in Calls : Issue(c)
      BY <2>2
    <3>2. claim' = claim
      BY <3>1 DEF Issue
    <3>3. barred' \subseteq barred \cup {c} /\ (barred' = barred \/ c \in Branching)
      BY <3>1 DEF Issue
    <3> QED
      BY <2>1, <3>2, <3>3
  <2>3. CASE \E l \in Logins : Claim(l)
    BY <2>3 DEF Claim
  <2>4. CASE EndLease
    BY <2>4 DEF EndLease
  <2>5. CASE \E c \in Calls : Reply(c)
    BY <2>1, <2>5 DEF Reply
  <2>6. CASE \E w \in Writes : Retry(w) \/ RefuseForeign(w)
    BY <2>1, <2>6 DEF Retry, RefuseForeign
  <2>7. CASE \E c \in Branching : RefuseClaimed(c)
    BY <2>1, <2>7 DEF RefuseClaimed
  <2> QED
    BY <2>2, <2>3, <2>4, <2>5, <2>6, <2>7
<1>3. tries' \in [Calls -> 0..MaxTries]
  <2>1. CASE UNCHANGED tries
    BY <2>1 DEF MemoryOK
  <2>2. CASE \E w \in Writes : Retry(w)
    <3>1. PICK w \in Writes : Retry(w)
      BY <2>2
    <3>2. tries[w] \in 0..MaxTries /\ tries[w] < MaxTries /\ MaxTries \in Nat
      BY <3>1, BoundsAssumption DEF Retry, MemoryOK, Calls
    <3>3. tries[w] + 1 \in 0..MaxTries
      BY <3>2
    <3> QED
      BY <3>1, <3>3 DEF Retry, MemoryOK
  <2> QED
    BY <2>1, <2>2 DEF Issue, Reply, Claim, EndLease, RefuseForeign, RefuseClaimed, calls
<1>4. RefsOK'
  BY <1>1 DEF RefsOK
<1>5. MemoryOK'
  BY <1>1, <1>2, <1>3 DEF MemoryOK
<1> QED
  BY <1>1, <1>4, <1>5, NoCommitTypes

\* The corpus and its rebuild, the copy and the registry's look at the worktree.
LEMMA CorpusTypes ==
    ASSUME HistoryOK, RefsOK, MemoryOK,
           \/ \E a \in Actors : RootStep(a)
           \/ \E c \in Calls : Refresh(c)
           \/ IndexRead
           \/ \E w \in Writes : Apply(w) \/ Sync(w)
           \/ Crash
    PROVE  TypesKept
<1> USE DEF git, corpus, lease, faults
<1>1. ASSUME NEW a \in Actors, CheckRoot(a) PROVE TypesKept
  <2>1. Fetch /\ want' = [want EXCEPT ![a] = mirror'["spec"]]
        /\ UNCHANGED <<commits, origin, head, tree, root, signature, builder, left, applied>>
        /\ UNCHANGED <<lease, tries, cast, crashes>>
    BY <1>1 DEF CheckRoot
  <2>2. mirror' \in [Branches -> 0..Len(commits)] /\ mirror'["spec"] \in 1..Len(commits)
        /\ errors' \in 0..MaxErrors
    BY <2>1, FetchFacts
  <2>3. RefsOK'
    BY <2>1, <2>2, RefFacts DEF RefsOK
  <2>4. raced' \in BOOLEAN
    BY <1>1 DEF CheckRoot, Proceed, MemoryOK
  <2>5. MemoryOK'
    BY <2>1, <2>2, <2>4 DEF MemoryOK
  <2> QED
    BY <2>1, <2>3, <2>5, NoCommitTypes
<1>2. ASSUME NEW a \in Actors,
             ClearRoot(a) \/ ListRoot(a) \/ FillRoot(a) \/ SignRoot(a) \/ BreakRoot(a)
      PROVE  TypesKept
  <2>1. UNCHANGED <<git, lease, tries, want, cast, crashes>>
    BY <1>2 DEF ClearRoot, ListRoot, FillRoot, SignRoot, BreakRoot
  <2>2. root' \subseteq Items /\ left' \subseteq Items
    BY <1>2, RefFacts, HistoryFacts DEF ClearRoot, ListRoot, FillRoot, SignRoot, BreakRoot, RefsOK, MemoryOK
  <2>3. signature' \in 0..Len(commits) /\ builder' \in Actors \cup {"nobody"} /\ applied' \subseteq Writes
    BY <1>2 DEF ClearRoot, ListRoot, FillRoot, SignRoot, BreakRoot, RefsOK, MemoryOK
  <2>4. raced' \in BOOLEAN
    BY <1>2 DEF ClearRoot, ListRoot, FillRoot, SignRoot, BreakRoot, Proceed, MemoryOK
  <2>5. errors' \in 0..MaxErrors
    BY <1>2, ErrorsStay DEF ClearRoot, ListRoot, FillRoot, SignRoot, BreakRoot, MemoryOK
  <2>6. RefsOK' /\ MemoryOK'
    BY <2>1, <2>2, <2>3, <2>4, <2>5 DEF RefsOK, MemoryOK
  <2> QED
    BY <2>1, <2>6, NoCommitTypes
<1>3. ASSUME NEW c \in Calls, Refresh(c) PROVE TypesKept
  <2>1. UNCHANGED <<git, root, builder, left, raced, applied, lease, tries, want, faults>> /\ signature' = 0
    BY <1>3 DEF Refresh
  <2>2. RefsOK' /\ MemoryOK'
    BY <2>1, RefFacts DEF RefsOK, MemoryOK
  <2> QED
    BY <2>1, <2>2, NoCommitTypes
<1>4. ASSUME IndexRead PROVE TypesKept
  <2>1. head' \in 0..Len(commits) /\ tree' = Tree(head')
        /\ UNCHANGED <<commits, origin, mirror, corpus, lease, calls, faults>>
    BY <1>4, RefFacts DEF IndexRead, WorktreeHead
  <2>2. tree' \subseteq Items
    BY <2>1, HistoryFacts
  <2>3. RefsOK' /\ MemoryOK'
    BY <2>1, <2>2 DEF RefsOK, MemoryOK, calls
  <2> QED
    BY <2>1, <2>3, NoCommitTypes
<1>5. ASSUME NEW w \in Writes, Apply(w) PROVE TypesKept
  <2>1. UNCHANGED <<git, signature, builder, left, raced, lease, tries, want, faults>>
    BY <1>5 DEF Apply
  <2>2. root' \subseteq Items /\ applied' \subseteq Writes
    BY <1>5 DEF Apply, RefsOK, MemoryOK, Items
  <2>3. RefsOK' /\ MemoryOK'
    BY <2>1, <2>2 DEF RefsOK, MemoryOK
  <2> QED
    BY <2>1, <2>3, NoCommitTypes
<1>6. ASSUME NEW w \in Writes, Sync(w) PROVE TypesKept
  <2>1. UNCHANGED <<commits, origin, mirror, head, corpus, lease, tries, want, cast, crashes>>
    BY <1>6 DEF Sync
  <2>2. tree' \subseteq Items /\ errors' \in 0..MaxErrors
    BY <1>6, ErrorsStay DEF Sync, RefsOK
  <2>3. RefsOK' /\ MemoryOK'
    BY <2>1, <2>2 DEF RefsOK, MemoryOK
  <2> QED
    BY <2>1, <2>3, NoCommitTypes
<1>7. ASSUME Crash PROVE TypesKept
  <2>1. /\ UNCHANGED <<git, root, raced, claim, tries, want, cast, errors>>
        /\ signature' = 0 /\ builder' = "nobody" /\ left' = {} /\ applied' = {} /\ barred' = {}
        /\ crashes < MaxCrashes /\ crashes' = crashes + 1
    BY <1>7 DEF Crash
  <2>2. RefsOK'
    BY <2>1, RefFacts DEF RefsOK
  <2>3. MemoryOK'
    BY <2>1, BoundsAssumption DEF MemoryOK
  <2> QED
    BY <2>1, <2>2, <2>3, NoCommitTypes
<1> QED
  BY <1>1, <1>2, <1>3, <1>4, <1>5, <1>6, <1>7 DEF RootStep

\* Whoever commits or pushes has a worktree.
HeadMade == head = 0 =>
    /\ \A w \in Writes : ~Inside(w)
    /\ \A c \in Branching : pc[c] # "pushMerge"

\* Fetches, pushes and deletions.
LEMMA RemoteTypes ==
    ASSUME HistoryOK, RefsOK, MemoryOK, HeadMade,
           \/ \E w \in Writes : EnterWrite(w) \/ PushWrite(w) \/ PushWriteRaises(w) \/ ReconcileRaises(w)
           \/ \E c \in Branching : \/ CreateWork(c) \/ PushCreated(c) \/ EnterMerge(c)
                                   \/ PushMerge(c)
                                   \/ DropTopic(c) \/ CheckDelete(c) \/ ReadTip(c) \/ DeleteWork(c)
    PROVE  TypesKept
<1> DEFINE Rest == UNCHANGED <<commits, corpus, lease, tries, cast, crashes>>
           Kept == /\ origin' \in [Branches -> 0..Len(commits)] /\ mirror' \in [Branches -> 0..Len(commits)]
                   /\ origin'["spec"] # 0 /\ mirror'["spec"] # 0
                   /\ errors' \in 0..MaxErrors
<1>1. ASSUME Rest, Kept, want' \in [Actors -> 0..Len(commits)],
             head' \in 0..Len(commits), tree' \subseteq Items
      PROVE  TypesKept
  <2>1. UNCHANGED commits /\ RefsOK' /\ MemoryOK'
    BY <1>1 DEF RefsOK, MemoryOK, corpus, lease
  <2> QED
    BY <2>1, NoCommitTypes
<1>2. ASSUME Rest, Kept, UNCHANGED <<head, tree, want>> PROVE TypesKept
  <2>1. /\ want' \in [Actors -> 0..Len(commits)]
        /\ head' \in 0..Len(commits) /\ tree' \subseteq Items
    BY <1>2 DEF RefsOK
  <2> HIDE DEF Rest, Kept
  <2> QED
    BY <1>1, <1>2, <2>1
<1>3. ASSUME Fetch, UNCHANGED origin PROVE Kept
  BY <1>3, FetchFacts DEF RefsOK
<1>4. ASSUME NEW w \in Writes, EnterWrite(w) PROVE TypesKept
  <2>1. Rest /\ Fetch /\ UNCHANGED <<origin, want>>
        /\ head' = WorktreeHead(mirror'["spec"]) /\ tree' = Tree(head')
    BY <1>4 DEF EnterWrite
  <2>2. head' \in 0..Len(commits)
    BY <2>1, FetchFacts, RefFacts DEF WorktreeHead
  <2>3. tree' \subseteq Items /\ want' \in [Actors -> 0..Len(commits)]
    BY <2>1, <2>2, HistoryFacts DEF RefsOK
  <2> HIDE DEF Rest, Kept
  <2> QED
    BY <1>1, <1>3, <2>1, <2>2, <2>3
<1>5. ASSUME NEW b \in Branches, NEW tip \in 1..Len(commits), Pushed(b, tip) \/ PushRaises(b, tip)
      PROVE  Kept
  BY <1>5, PushedFacts
<1>6. ASSUME NEW w \in Writes, PushWrite(w) \/ PushWriteRaises(w) PROVE TypesKept
  <2>1. Rest /\ (Pushed("spec", head) \/ PushRaises("spec", head)) /\ UNCHANGED <<head, tree, want>>
    BY <1>6 DEF PushWrite, PushWriteRaises
  <2>2. head \in 1..Len(commits)
    BY <1>6, RefFacts DEF PushWrite, PushWriteRaises, HeadMade, Inside
  <2> HIDE DEF Rest, Kept
  <2> QED
    BY <1>2, <1>5, <2>1, <2>2 DEF Branches
<1>7. ASSUME NEW w \in Writes, ReconcileRaises(w) PROVE TypesKept
  <2>1. Rest /\ UNCHANGED <<origin, head, tree, want>> /\ (mirror' = mirror \/ mirror' = origin)
    BY <1>7 DEF ReconcileRaises
  <2>2. errors' \in 0..MaxErrors
    BY <1>7, ErrorsStay DEF ReconcileRaises
  <2>3. Kept
    BY <2>1, <2>2 DEF RefsOK
  <2> HIDE DEF Rest, Kept
  <2> QED
    BY <1>2, <2>1, <2>3
<1>8. ASSUME NEW c \in Branching, CreateWork(c) \/ EnterMerge(c) PROVE TypesKept
  <2>1. Rest /\ Fetch /\ UNCHANGED <<origin, head, tree, want>>
    BY <1>8 DEF CreateWork, EnterMerge
  <2> HIDE DEF Rest, Kept
  <2> QED
    BY <1>2, <1>3, <2>1
<1>9. ASSUME NEW c \in Branching, PushCreated(c) PROVE TypesKept
  <2>1. Rest /\ UNCHANGED <<head, tree, want>>
    BY <1>9 DEF PushCreated
  <2>2. mirror["spec"] \in 1..Len(commits)
    BY RefFacts
  <2>3. CASE PushRaises("topic", mirror["spec"])
    <3> HIDE DEF Rest, Kept
    <3> QED
      BY <1>2, <1>5, <2>1, <2>2, <2>3 DEF Branches
  <2>4. CASE /\ origin' = [origin EXCEPT !["topic"] = mirror["spec"]]
             /\ Refetch
    <3>1. errors' \in 0..MaxErrors
      BY <2>4, ErrorsStay DEF Refetch
    <3>2. origin' \in [Branches -> 0..Len(commits)] /\ origin'["spec"] = origin["spec"]
      BY <2>2, <2>4 DEF RefsOK, Branches
    <3>3. Kept
      BY <2>4, <3>1, <3>2 DEF Refetch, RefsOK
    <3> HIDE DEF Rest, Kept
    <3> QED
      BY <1>2, <2>1, <3>3
  <2> QED
    BY <1>9, <2>3, <2>4 DEF PushCreated
<1>10. ASSUME NEW c \in Branching, PushMerge(c) PROVE TypesKept
  <2>1. Rest /\ (Pushed("spec", head) \/ PushRaises("spec", head)) /\ UNCHANGED <<head, tree, want>>
    BY <1>10 DEF PushMerge
  <2>2. head \in 1..Len(commits)
    BY <1>10, RefFacts DEF PushMerge, HeadMade
  <2> HIDE DEF Rest, Kept
  <2> QED
    BY <1>2, <1>5, <2>1, <2>2 DEF Branches
<1>11. ASSUME NEW c \in Branching, DropTopic(c) PROVE TypesKept
  <2>1. Rest /\ UNCHANGED <<head, tree, want>>
    BY <1>11 DEF DropTopic
  <2>2. errors' \in 0..MaxErrors
    BY <1>11, ErrorsStay DEF DropTopic
  <2>3. Kept
    BY <1>11, <2>2, RefFacts DEF DropTopic, RefsOK, Branches
  <2> HIDE DEF Rest, Kept
  <2> QED
    BY <1>2, <2>1, <2>3
<1>12. ASSUME NEW c \in Branching, CheckDelete(c) PROVE TypesKept
  <2>1. Rest /\ UNCHANGED <<origin, head, tree, want>> /\ (mirror' = mirror \/ mirror' = origin)
    BY <1>12 DEF CheckDelete
  <2>2. errors' \in 0..MaxErrors
    BY <1>12, ErrorsStay DEF CheckDelete
  <2>3. Kept
    BY <2>1, <2>2 DEF RefsOK
  <2> HIDE DEF Rest, Kept
  <2> QED
    BY <1>2, <2>1, <2>3
<1>13. ASSUME NEW c \in Branching, ReadTip(c) PROVE TypesKept
  <2>1. Rest /\ UNCHANGED <<origin, mirror, head, tree, errors>>
    BY <1>13 DEF ReadTip, git, corpus, lease, faults
  <2>2. want' \in [Actors -> 0..Len(commits)]
    BY <1>13, RefFacts DEF ReadTip, RefsOK
  <2>3. Kept /\ head' \in 0..Len(commits) /\ tree' \subseteq Items
    BY <2>1 DEF RefsOK, MemoryOK
  <2> HIDE DEF Rest, Kept
  <2> QED
    BY <1>1, <2>1, <2>2, <2>3
<1>14. ASSUME NEW c \in Branching, DeleteWork(c) PROVE TypesKept
  <2>1. Rest /\ UNCHANGED <<head, tree, want>>
    BY <1>14 DEF DeleteWork
  <2>2. errors' \in 0..MaxErrors
    BY <1>14, ErrorsStay DEF DeleteWork, Refetch
  <2>3. origin' \in [Branches -> 0..Len(commits)] /\ origin'["spec"] = origin["spec"]
    <3>1. UNCHANGED origin \/ origin' = [origin EXCEPT !["topic"] = 0]
      BY <1>14 DEF DeleteWork
    <3> QED
      BY <3>1, RefFacts DEF RefsOK, Branches
  <2>4. mirror' = mirror \/ mirror' = origin'
    BY <1>14 DEF DeleteWork, Refetch
  <2>5. Kept
    BY <2>2, <2>3, <2>4 DEF RefsOK
  <2> HIDE DEF Rest, Kept
  <2> QED
    BY <1>2, <2>1, <2>5
<1> HIDE DEF Rest, Kept
<1> QED
  BY <1>4, <1>6, <1>7, <1>8, <1>9, <1>10, <1>11, <1>12, <1>13, <1>14

\* The refs and the memory after a step that may have made a commit.
LEMMA GrownTypes ==
    ASSUME HistoryOK, RefsOK, MemoryOK, HistoryOK', Grown,
           UNCHANGED <<corpus, lease, tries, want, cast, crashes>>,
           errors' \in 0..MaxErrors,
           origin' \in [Branches -> 0..Len(commits')], origin'["spec"] # 0,
           mirror' \in [Branches -> 0..Len(commits')], mirror'["spec"] # 0,
           head' \in 0..Len(commits'), tree' \subseteq Items
    PROVE  TypesKept
<1>1. want \in [Actors -> 0..Len(commits')] /\ signature \in 0..Len(commits')
  BY RefsStay DEF RefsOK
<1>2. RefsOK'
  BY <1>1 DEF RefsOK, corpus
<1>3. MemoryOK'
  BY DEF MemoryOK, corpus, lease
<1> QED
  BY <1>2, <1>3 DEF TypesKept

\* A commit on top of one, or of two, of those made before.
LEMMA CommitOnTop ==
    ASSUME HistoryOK, NEW i \in 1..Len(commits), NEW j \in 0..Len(commits),
           NEW T \in SUBSET Items, NEW f \in BOOLEAN,
           Commit(Past(i) \cup Past(j), T, f)
    PROVE  /\ HistoryOK' /\ Added(Past(i) \cup Past(j), T)
           /\ Len(commits) \in Nat /\ NewCommit \in 1..Len(commits') /\ NewCommit = Len(commits')
           /\ NewCommit = Len(commits) + 1
           /\ commits'[NewCommit].tree = T
<1> DEFINE P == Past(i) \cup Past(j)
<1>1. P \in SUBSET (1..Len(commits)) /\ 1 \in P /\ \A k \in P : Past(k) \subseteq P
  <2>1. CASE j = 0
    BY <2>1, HistoryFacts
  <2>2. CASE j \in 1..Len(commits)
    BY <2>2, HistoryFacts
  <2> QED
    BY <2>1, <2>2, HistoryFacts
<1>2. HistoryOK' /\ Added(P, T)
  <2> HIDE DEF P
  <2>1. Commit(P, T, f)
    BY DEF P
  <2> QED
    BY <1>1, <2>1, CommitGrows
<1>3. Len(commits) \in Nat /\ Len(commits') = Len(commits) + 1
  BY <1>2 DEF HistoryOK, Added
<1>4. NewCommit = Len(commits') /\ NewCommit \in 1..Len(commits')
  BY <1>3 DEF NewCommit
<1>5. commits'[NewCommit].tree = T
  <2>1. \A n \in {NewCommit} : Tree(n)' = T
    BY <1>2 DEF Added
  <2>2. \A n : n # 0 => Tree(n)' = commits'[n].tree
    BY DEF Tree
  <2>3. NewCommit # 0
    BY <1>3 DEF NewCommit
  <2> QED
    BY <2>1, <2>2, <2>3
<1> QED
  BY <1>2, <1>3, <1>4, <1>5 DEF NewCommit

\* Steps that may make a commit.
LEMMA CommitTypes ==
    ASSUME HistoryOK, RefsOK, MemoryOK, HeadMade,
           \/ \E w \in Writes : CommitWrite(w) \/ Reconcile(w)
           \/ \E c \in Branching : MergeTopic(c)
           \/ \E e \in Edits \cup TopicEdits : AuthorPush(e)
    PROVE  TypesKept
<1>1. ASSUME NEW w \in Writes, CommitWrite(w) PROVE TypesKept
  <2>1. UNCHANGED <<origin, mirror, tree, corpus, lease, tries, want, cast, crashes>>
    BY <1>1 DEF CommitWrite
  <2>2. head \in 1..Len(commits)
    BY <1>1, RefFacts DEF CommitWrite, HeadMade, Inside
  <2>3. errors' \in 0..MaxErrors
    BY <1>1, ErrorsStay DEF CommitWrite
  <2>4. HistoryOK' /\ Grown /\ head' \in 0..Len(commits')
    <3>1. CASE UNCHANGED <<commits, head>>
      BY <3>1, UnchangedGrows DEF RefsOK
    <3>2. CASE Commit(Past(head), tree, FALSE) /\ head' = NewCommit
      <4>1. Commit(Past(head) \cup Past(0), tree, FALSE)
        BY <3>2, HistoryFacts
      <4>2. tree \in SUBSET Items /\ 0 \in 0..Len(commits)
        BY HistoryFacts DEF RefsOK
      <4>3. /\ HistoryOK' /\ Added(Past(head) \cup Past(0), tree)
            /\ NewCommit \in 1..Len(commits')
        BY <2>2, <4>1, <4>2, CommitOnTop
      <4> QED
        BY <3>2, <4>3 DEF Added
    <3> QED
      BY <1>1, <3>1, <3>2 DEF CommitWrite
  <2>5. origin \in [Branches -> 0..Len(commits')] /\ mirror \in [Branches -> 0..Len(commits')]
    BY <2>4, RefsStay DEF RefsOK
  <2> QED
    BY <2>1, <2>3, <2>4, <2>5, GrownTypes DEF RefsOK
<1>2. ASSUME NEW w \in Writes, Reconcile(w) PROVE TypesKept
  <2>1. UNCHANGED <<origin, corpus, lease, tries, want, faults>> /\ mirror' = origin
    BY <1>2 DEF Reconcile
  <2>2. head \in 1..Len(commits) /\ origin["spec"] \in 1..Len(commits)
    BY <1>2, RefFacts DEF Reconcile, HeadMade, Inside
  <2>3. HistoryOK' /\ Grown /\ head' \in 0..Len(commits') /\ tree' \subseteq Items
    <3>1. CASE UNCHANGED commits /\ head' \in {head, origin["spec"]}
      <4>1. tree' = tree \/ tree' = Tree(origin["spec"])
        <5>1. UNCHANGED <<head, tree>> \/ (head' = origin["spec"] /\ tree' = Tree(head'))
              \/ Replay
          BY <1>2 DEF Reconcile
        <5>2. ~Replay
          <6>1. ASSUME Replay PROVE Len(commits') = Len(commits) + 1
            BY <6>1, HistoryFacts DEF Replay, Commit, HistoryOK
          <6>2. Len(commits) \in Nat
            BY HistoryFacts
          <6> QED
            BY <3>1, <6>1, <6>2
        <5> QED
          BY <5>1, <5>2
      <4> QED
        BY <2>2, <3>1, <4>1, UnchangedGrows, HistoryFacts DEF RefsOK
    <3>2. CASE Replay
      <4> DEFINE o == origin["spec"]
                 f == \E i \in Past(head) \ Past(o) : commits[i].foreign
      <4>1. Commit(Past(o) \cup Past(0), Merged(o, head), f) /\ head' = NewCommit
            /\ tree' = commits'[NewCommit].tree
        BY <3>2, HistoryFacts DEF Replay
      <4>2. Merged(o, head) \in SUBSET Items /\ 0 \in 0..Len(commits) /\ f \in BOOLEAN
        BY <2>2, MergedIsContent, HistoryFacts
      <4> HIDE DEF o, f
      <4>3. o \in 1..Len(commits)
        BY <2>2 DEF o
      <4>4. /\ HistoryOK' /\ Added(Past(o) \cup Past(0), Merged(o, head))
            /\ NewCommit \in 1..Len(commits') /\ commits'[NewCommit].tree = Merged(o, head)
        BY <4>1, <4>2, <4>3, CommitOnTop
      <4> QED
        BY <4>1, <4>2, <4>4 DEF Added
    <3>3. (UNCHANGED commits /\ head' \in {head, origin["spec"]}) \/ Replay
      BY <1>2 DEF Reconcile
    <3> QED
      BY <3>1, <3>2, <3>3
  <2>4. origin \in [Branches -> 0..Len(commits')]
    BY <2>3, RefsStay DEF RefsOK
  <2> QED
    BY <2>1, <2>3, <2>4, GrownTypes DEF RefsOK, MemoryOK, faults
<1>3. ASSUME NEW c \in Branching, MergeTopic(c) PROVE TypesKept
  <2> DEFINE spec == mirror'["spec"]
             topic == mirror'["topic"]
             base == IF Past(WorktreeHead(spec)) \subseteq Past(spec) THEN spec ELSE WorktreeHead(spec)
             NewTree == IF head' = NewCommit THEN commits'[NewCommit].tree ELSE Tree(head')
  <2>1. UNCHANGED <<origin, corpus, lease, tries, want, cast, crashes>> /\ Fetch
    BY <1>3 DEF MergeTopic
  <2>2. /\ mirror' \in [Branches -> 0..Len(commits)] /\ spec \in 1..Len(commits)
        /\ topic \in 0..Len(commits) /\ errors' \in 0..MaxErrors
    BY <2>1, FetchFacts
  <2>3. base \in 1..Len(commits)
    BY <2>2, RefFacts DEF WorktreeHead
  <2>4. \/ UNCHANGED commits /\ head' = base
        \/ /\ ~(Past(topic) \subseteq Past(base)) /\ head' = NewCommit
           /\ Commit(Past(base) \cup Past(topic), Merged(base, topic), FALSE)
    BY <1>3 DEF MergeTopic
  <2>5. tree' = NewTree
    BY <1>3 DEF MergeTopic
  <2>6. HistoryOK' /\ Grown /\ head' \in 0..Len(commits') /\ tree' \subseteq Items
    <3>1. CASE UNCHANGED commits /\ head' = base
      <4>1. NewCommit # head'
        BY <2>3, <3>1, HistoryFacts DEF NewCommit
      <4>2. tree' = Tree(head')
        BY <2>5, <4>1
      <4> HIDE DEF base
      <4>3. \A i \in 1..Len(commits) : Tree(i) \subseteq Items
        BY HistoryFacts
      <4>4. \A i : Tree(i) = IF i = 0 THEN {} ELSE commits[i].tree
        BY DEF Tree
      <4> QED
        BY <2>3, <3>1, <4>2, <4>3, UnchangedGrows
    <3>2. CASE /\ ~(Past(topic) \subseteq Past(base)) /\ head' = NewCommit
               /\ Commit(Past(base) \cup Past(topic), Merged(base, topic), FALSE)
      <4> HIDE DEF base, topic
      <4>1. topic \in 1..Len(commits)
        BY <2>2, <3>2, HistoryFacts DEF topic
      <4>2. Merged(base, topic) \in SUBSET Items
        BY <2>3, <4>1, MergedIsContent
      <4>3. tree' = commits'[NewCommit].tree
        BY <2>5, <3>2
      <4>4. topic \in 0..Len(commits)
        BY <2>2 DEF topic
      <4>5. /\ HistoryOK' /\ Added(Past(base) \cup Past(topic), Merged(base, topic))
            /\ NewCommit \in 1..Len(commits') /\ commits'[NewCommit].tree = Merged(base, topic)
        BY <2>3, <3>2, <4>2, <4>4, CommitOnTop
      <4> QED
        BY <3>2, <4>2, <4>3, <4>5 DEF Added
    <3> HIDE DEF base, topic
    <3> QED
      BY <2>4, <3>1, <3>2
  <2>7. /\ origin \in [Branches -> 0..Len(commits')]
        /\ mirror' \in [Branches -> 0..Len(commits')]
    BY <2>2, <2>6, RefsStay DEF RefsOK
  <2>8. mirror'["spec"] # 0 /\ origin["spec"] # 0
    BY <2>2 DEF RefsOK
  <2> QED
    BY <2>1, <2>2, <2>6, <2>7, <2>8, GrownTypes DEF RefsOK
<1>4. ASSUME NEW e \in Edits \cup TopicEdits, AuthorPush(e) PROVE TypesKept
  <2> DEFINE b == IF e \in Edits THEN "spec" ELSE "topic"
  <2>1. /\ UNCHANGED <<mirror, head, tree, corpus, lease, calls, faults>>
        /\ origin[b] # 0
        /\ Commit(Past(origin[b]), Tree(origin[b]) \cup {e}, TRUE)
        /\ origin' = [origin EXCEPT ![b] = NewCommit]
    BY <1>4 DEF AuthorPush
  <2>2. b \in Branches
    BY DEF Branches
  <2> HIDE DEF b
  <2>3. origin[b] \in 1..Len(commits)
    BY <2>1, <2>2, HistoryFacts DEF RefsOK
  <2>4. Commit(Past(origin[b]) \cup Past(0), Tree(origin[b]) \cup {e}, TRUE)
    BY <2>1, HistoryFacts
  <2>5. Tree(origin[b]) \cup {e} \in SUBSET Items /\ 0 \in 0..Len(commits)
    BY <2>3, HistoryFacts DEF Items
  <2>6. HistoryOK' /\ Grown /\ NewCommit \in 1..Len(commits')
    BY <2>3, <2>4, <2>5, CommitOnTop DEF Added
  <2>7. /\ mirror \in [Branches -> 0..Len(commits')] /\ origin \in [Branches -> 0..Len(commits')]
        /\ head \in 0..Len(commits')
    BY <2>6, RefsStay DEF RefsOK
  <2>8. origin' \in [Branches -> 0..Len(commits')] /\ origin'["spec"] # 0
    BY <2>1, <2>2, <2>6, <2>7 DEF RefsOK
  <2> QED
    BY <2>1, <2>6, <2>7, <2>8, GrownTypes DEF RefsOK, MemoryOK, calls, faults
<1> QED
  BY <1>1, <1>2, <1>3, <1>4

\* The labels of all others stay where one moves.
LEMMA GotoMoves ==
    ASSUME LockInv, NEW a \in Actors, NEW label, Goto(a, label)
    PROVE  pc'[a] = label /\ \A b \in Actors \ {a} : pc'[b] = pc[b]
  BY DEF LockInv, LockTypeOK, Goto

LEMMA KindsOfActors ==
    /\ Writes \subseteq Calls /\ Branching \subseteq Calls /\ Calls \subseteq Actors
    /\ Merges \subseteq Branching /\ Creates \subseteq Branching /\ Deletes \subseteq Branching
    /\ Writes \cap Branching = {} /\ Queries \cap Calls = {} /\ Queries \subseteq Actors
    /\ Merges \cap (Creates \cup Deletes) = {} /\ Creates \cap Deletes = {}
    /\ Actors = Calls \cup Queries /\ Calls = Writes \cup Branching
  BY CallsAssumption DEF Calls, Branching, Actors

\* A write gets past the wait by entering, a merge to its push by merging.
LEMMA OnlyEnterOrMerge ==
    ASSUME LockInv, [Next]_vars
    PROVE  /\ \A w \in Writes : Inside(w)' => Inside(w) \/ EnterWrite(w)
           /\ \A c \in Branching : pc'[c] = "pushMerge" => pc[c] = "pushMerge" \/ MergeTopic(c)
<1> DEFINE Fine == /\ \A w \in Writes : Inside(w)' => Inside(w) \/ EnterWrite(w)
                   /\ \A c \in Branching : pc'[c] = "pushMerge" => pc[c] = "pushMerge" \/ MergeTopic(c)
<1>1. ASSUME NEW a \in Actors, NEW label, Goto(a, label),
             a \in Writes => Inside(a) \/ EnterWrite(a) \/ label \in {"idle", "queued", "done"},
             a \in Branching => label # "pushMerge" \/ MergeTopic(a)
      PROVE  Fine
  BY <1>1, GotoMoves, KindsOfActors DEF Inside
<1>2. ASSUME UNCHANGED pc PROVE Fine
  BY <1>2 DEF Inside
<1> HIDE DEF Fine
<1>3. ASSUME NEW w \in Writes, WriteStep(w) \/ Retry(w) PROVE Fine
  <2>1. w \in Actors /\ w \notin Branching
    BY KindsOfActors
  <2>2. CASE Issue(w) \/ Retry(w)
    BY <1>1, <2>1, <2>2 DEF Issue, Retry
  <2>3. CASE EnterWrite(w)
    BY <1>1, <2>1, <2>3 DEF EnterWrite
  <2>4. CASE Apply(w) \/ Sync(w) \/ CommitWrite(w) \/ RefuseForeign(w) \/ PushWrite(w)
             \/ PushWriteRaises(w) \/ Reconcile(w) \/ ReconcileRaises(w)
    <3>1. Inside(w)
      BY <2>4 DEF Apply, Sync, CommitWrite, RefuseForeign, PushWrite, PushWriteRaises, Reconcile,
                  ReconcileRaises, Inside
    <3>2. \E label : Goto(w, label)
      BY <2>4 DEF Apply, Sync, CommitWrite, RefuseForeign, PushWrite, PushWriteRaises, Reconcile,
                  ReconcileRaises, Finish
    <3> QED
      BY <1>1, <2>1, <3>1, <3>2
  <2> QED
    BY <1>3, <2>2, <2>3, <2>4 DEF WriteStep
<1>4. ASSUME NEW c \in Branching, BranchStep(c) PROVE Fine
  <2>1. c \in Actors /\ c \notin Writes
    BY KindsOfActors
  <2>2. CASE MergeTopic(c)
    <3>1. \E label : Goto(c, label)
      BY <2>2 DEF MergeTopic, Finish
    <3> QED
      BY <1>1, <2>1, <2>2, <3>1
  <2>3. CASE ~MergeTopic(c)
    <3> DEFINE Elsewhere == \E label : Goto(c, label) /\ label # "pushMerge"
    <3>2. \A answer : Finish(c, answer) => Elsewhere
      BY DEF Finish
    <3>3. Goto(c, "queued") \/ Goto(c, "create") \/ Goto(c, "merge") \/ Goto(c, "dropTopic")
          \/ Goto(c, "refresh") \/ Goto(c, "tip") \/ Goto(c, "delete") \/ Goto(c, "done") => Elsewhere
      OBVIOUS
    <3> HIDE DEF Elsewhere
    <3>4. ASSUME Issue(c) \/ RefuseClaimed(c) PROVE Elsewhere
      BY <3>2, <3>3, <3>4 DEF Issue, RefuseClaimed
    <3>5. ASSUME CreateWork(c) \/ EnterMerge(c) \/ CheckDelete(c) PROVE Elsewhere
      BY <3>2, <3>3, <3>5 DEF CreateWork, EnterMerge, CheckDelete
    <3>6. ASSUME PushCreated(c) \/ PushMerge(c) \/ DropTopic(c) PROVE Elsewhere
      BY <3>2, <3>3, <3>6 DEF PushCreated, PushMerge, DropTopic
    <3>7. ASSUME ReadTip(c) \/ DeleteWork(c) PROVE Elsewhere
      BY <3>2, <3>3, <3>7 DEF ReadTip, DeleteWork
    <3>1. Elsewhere
      BY <1>4, <2>3, <3>4, <3>5, <3>6, <3>7 DEF BranchStep
    <3> USE DEF Elsewhere
    <3> QED
      BY <1>1, <2>1, <3>1
  <2> QED
    BY <2>2, <2>3
<1>5. ASSUME NEW a \in Actors, RootStep(a) PROVE Fine
  <2>1. \E label : Goto(a, label) /\ label # "pushMerge"
    <3>1. CASE \E label \in Labels \ {"pushMerge"} : Goto(a, label)
      BY <3>1
    <3>2. CASE Finish(a, "git failed")
      <4>1. Goto(a, "done")
        BY <3>2 DEF Finish
      <4> QED
        BY <4>1
    <3> QED
      BY <1>5, <3>1, <3>2, RootMoves
  <2>2. a \in Writes => Inside(a)
    BY <1>5, KindsOfActors, RootIsInside
  <2> QED
    BY <1>1, <2>1, <2>2
<1>6. ASSUME NEW c \in Calls, AnswerStep(c) PROVE Fine
  <2>1. \E label : Goto(c, label) /\ label # "pushMerge"
    BY <1>6 DEF AnswerStep, Refresh, Reply, Finish
  <2>2. Inside(c)
    BY <1>6 DEF AnswerStep, Refresh, Reply, Inside
  <2> QED
    BY <1>1, <2>1, <2>2, KindsOfActors
<1>7. ASSUME \/ \E l \in Logins : Claim(l)
             \/ EndLease \/ IndexRead \/ (\E e \in Edits \cup TopicEdits : AuthorPush(e))
             \/ UNCHANGED vars
      PROVE  Fine
  <2>1. UNCHANGED pc
    BY <1>7 DEF Claim, EndLease, IndexRead, AuthorPush, calls, vars
  <2> QED
    BY <1>2, <2>1
<1>8. ASSUME Crash PROVE Fine
  <2>1. \A a \in Actors : pc'[a] \in {"idle", "done"}
    BY <1>8 DEF Crash
  <2> QED
    BY <2>1, KindsOfActors DEF Fine, Inside
<1>9. Fine
  BY <1>3, <1>4, <1>5, <1>6, <1>7, <1>8 DEF Next
<1> QED
  BY <1>9 DEF Fine

LEMMA HeadStays ==
    ASSUME HistoryOK, RefsOK, MemoryOK, [Next]_vars, head' = 0
    PROVE  /\ head = 0 /\ ~(\E w \in Writes : EnterWrite(w))
           /\ ~(\E c \in Branching : MergeTopic(c))
<1>1. ASSUME NEW w \in Writes, EnterWrite(w) PROVE FALSE
  BY <1>1, FetchFacts DEF EnterWrite, WorktreeHead
<1>2. ASSUME NEW c \in Branching, MergeTopic(c) PROVE FALSE
  <2>0. Fetch
    BY <1>2 DEF MergeTopic
  <2>1. mirror'["spec"] # 0
    BY <2>0, FetchFacts, HistoryFacts
  <2>2. NewCommit # 0
    BY HistoryFacts DEF NewCommit
  <2>3. WorktreeHead(mirror'["spec"]) # 0
    BY <2>1 DEF WorktreeHead
  <2> QED
    BY <1>2, <2>1, <2>2, <2>3 DEF MergeTopic
<1>3. NewCommit # 0 /\ origin["spec"] # 0 /\ mirror["spec"] # 0
  BY HistoryFacts DEF NewCommit, RefsOK
<1>4. ASSUME \E w \in Writes : WriteStep(w) \/ Retry(w) PROVE head = 0
  BY <1>1, <1>3, <1>4 DEF WriteStep, Issue, Apply, Sync, CommitWrite, RefuseForeign, PushWrite,
                          PushWriteRaises, Reconcile, ReconcileRaises, Retry, Replay, git
<1>5. ASSUME \E c \in Branching : BranchStep(c) PROVE head = 0
  BY <1>2, <1>5 DEF BranchStep, Issue, RefuseClaimed, CreateWork, PushCreated, EnterMerge, PushMerge,
                    DropTopic, CheckDelete, ReadTip, DeleteWork, git
<1>6. ASSUME \E a \in Actors : RootStep(a) PROVE head = 0
  BY <1>6 DEF RootStep, CheckRoot, ClearRoot, ListRoot, FillRoot, SignRoot, BreakRoot, git
<1>7. ASSUME \E c \in Calls : AnswerStep(c) PROVE head = 0
  BY <1>7 DEF AnswerStep, Refresh, Reply, git
<1>8. ASSUME (\E l \in Logins : Claim(l)) \/ EndLease \/ Crash \/ UNCHANGED vars PROVE head = 0
  BY <1>8 DEF Claim, EndLease, Crash, vars, git
<1>9. ASSUME IndexRead PROVE head = 0
  BY <1>3, <1>9 DEF IndexRead, WorktreeHead
<1>10. ASSUME \E e \in Edits \cup TopicEdits : AuthorPush(e) PROVE head = 0
  BY <1>10 DEF AuthorPush
<1>11. head = 0
  BY <1>4, <1>5, <1>6, <1>7, <1>8, <1>9, <1>10 DEF Next
<1> QED
  BY <1>1, <1>2, <1>11, KindsOfActors

LEMMA TypesStep == TypeInv /\ HeadMade /\ [Next]_vars => TypesKept /\ TypeInv' /\ HeadMade'
<1> SUFFICES ASSUME TypeInv, HeadMade, [Next]_vars PROVE TypesKept /\ TypeInv' /\ HeadMade'
  OBVIOUS
<1>1. HistoryOK /\ RefsOK /\ MemoryOK /\ LockInv
  BY DEF TypeInv
<1>2. ASSUME NEW w \in Writes, WriteStep(w) \/ Retry(w) PROVE TypesKept
  BY <1>1, <1>2, CallTypes, CorpusTypes, CommitTypes, RemoteTypes, KindsOfActors DEF WriteStep
<1>3. ASSUME NEW c \in Branching, BranchStep(c) PROVE TypesKept
  BY <1>1, <1>3, CallTypes, CommitTypes, RemoteTypes, KindsOfActors DEF BranchStep
<1>4. ASSUME \E a \in Actors : RootStep(a) PROVE TypesKept
  BY <1>1, <1>4, CorpusTypes
<1>5. ASSUME \E c \in Calls : AnswerStep(c) PROVE TypesKept
  BY <1>1, <1>5, CorpusTypes, CallTypes DEF AnswerStep
<1>6. ASSUME (\E l \in Logins : Claim(l)) \/ EndLease PROVE TypesKept
  BY <1>1, <1>6, CallTypes
<1>7. ASSUME IndexRead \/ Crash PROVE TypesKept
  BY <1>1, <1>7, CorpusTypes
<1>8. ASSUME \E e \in Edits \cup TopicEdits : AuthorPush(e) PROVE TypesKept
  BY <1>1, <1>8, CommitTypes
<1>9. ASSUME UNCHANGED vars PROVE TypesKept
  <2>1. RefsOK' /\ MemoryOK' /\ UNCHANGED commits
    BY <1>1, <1>9 DEF vars, git, corpus, lease, calls, faults, RefsOK, MemoryOK
  <2> QED
    BY <1>1, <2>1, NoCommitTypes
<1>10. TypesKept
  BY <1>2, <1>3, <1>4, <1>5, <1>6, <1>7, <1>8, <1>9 DEF Next
<1>11. LockInv'
  BY <1>1, LockStep
<1>12. HeadMade'
  BY <1>1, OnlyEnterOrMerge, HeadStays DEF HeadMade
<1> QED
  BY <1>10, <1>11, <1>12 DEF TypesKept, TypeInv

LEMMA TypesInvariant == Spec => [](TypeInv /\ HeadMade)
<1>1. Init => TypeInv /\ HeadMade
  <2>1. Init => \A w \in Actors : pc[w] = "idle"
    BY DEF Init
  <2> QED
    BY <2>1, TypesInit, LockInit, KindsOfActors DEF TypeInv, HeadMade, Inside
<1>2. TypeInv /\ HeadMade /\ [Next]_vars => (TypeInv /\ HeadMade)'
  BY TypesStep
<1> QED
  BY <1>1, <1>2, PTL DEF Spec

\* Every variable keeps its type: refs, signatures and tips read for later are
\* commits made before, the spec's branch is never deleted, and the ancestors of a
\* commit are commits.
THEOREM TypesAlways == Spec => []TypeOK
<1>1. TypeInv /\ HeadMade => TypeOK
  BY TypesAreTypeOK
<1> QED
  BY <1>1, TypesInvariant, PTL

-----------------------------------------------------------------------------
(* The lease. *)

LeaseInv == \A c \in barred : c \in Branching /\ pc[c] = "queued" /\ Claimed(c)

LEMMA LeaseStep == LockInv /\ LeaseInv /\ [Next]_vars => LeaseInv'
<1> SUFFICES ASSUME LockInv, LeaseInv, [Next]_vars PROVE LeaseInv'
  OBVIOUS
<1> USE DEF lease
<1>1. ASSUME NEW a \in Actors, NEW label, Goto(a, label), UNCHANGED lease, a \notin barred
      PROVE  LeaseInv'
  BY <1>1, GotoMoves, KindsOfActors DEF LeaseInv, Claimed
<1>2. ASSUME NEW a \in Actors, pc[a] # "queued" PROVE a \notin barred
  BY <1>2 DEF LeaseInv
<1>3. ASSUME NEW c \in Calls, Issue(c) PROVE LeaseInv'
  <2>1. c \in Actors /\ pc[c] = "idle" /\ UNCHANGED claim
    BY <1>3, KindsOfActors DEF Issue
  <2>2. CASE UNCHANGED barred
    <3>1. \E label : Goto(c, label)
      BY <1>3 DEF Issue
    <3> QED
      BY <1>1, <1>2, <2>1, <2>2, <3>1
  <2>3. CASE Goto(c, "queued") /\ c \in Branching /\ Claimed(c) /\ barred' = barred \cup {c}
    BY <2>1, <2>3, GotoMoves, KindsOfActors DEF LeaseInv, Claimed
  <2> QED
    BY <1>3, <2>2, <2>3 DEF Issue
<1>4. ASSUME NEW w \in Writes, WriteStep(w) \/ Retry(w), ~Issue(w) PROVE LeaseInv'
  <2>1. w \in Actors /\ w \notin barred
    BY KindsOfActors DEF LeaseInv
  <2>2. UNCHANGED lease
    BY <1>4 DEF WriteStep, EnterWrite, Apply, Sync, CommitWrite, RefuseForeign, PushWrite,
                PushWriteRaises, Reconcile, ReconcileRaises, Retry
  <2>3. \E label : Goto(w, label)
    BY <1>4 DEF WriteStep, EnterWrite, Apply, Sync, CommitWrite, RefuseForeign, PushWrite,
                PushWriteRaises, Reconcile, ReconcileRaises, Retry, Finish
  <2> QED
    BY <1>1, <2>1, <2>2, <2>3
<1>5. ASSUME NEW c \in Branching, BranchStep(c), ~Issue(c) PROVE LeaseInv'
  <2>1. c \in Actors
    BY KindsOfActors
  <2>2. CASE RefuseClaimed(c)
    <3>1. Goto(c, "done") /\ barred' = barred \ {c} /\ UNCHANGED claim
      BY <2>2 DEF RefuseClaimed, Finish
    <3> QED
      BY <2>1, <3>1, GotoMoves, KindsOfActors DEF LeaseInv, Claimed
  <2>3. CASE CreateWork(c) \/ EnterMerge(c) \/ CheckDelete(c)
    <3>1. UNCHANGED lease /\ ~Claimed(c)
      BY <2>3 DEF CreateWork, EnterMerge, CheckDelete
    <3>2. \E label : Goto(c, label)
      BY <2>3 DEF CreateWork, EnterMerge, CheckDelete, Finish
    <3> QED
      BY <1>1, <2>1, <3>1, <3>2 DEF LeaseInv
  <2>4. CASE PushCreated(c) \/ PushMerge(c) \/ DropTopic(c) \/ MergeTopic(c) \/ ReadTip(c)
             \/ DeleteWork(c)
    <3>1. UNCHANGED lease /\ pc[c] # "queued"
      BY <2>4 DEF PushCreated, PushMerge, DropTopic, MergeTopic, ReadTip, DeleteWork
    <3>2. \E label : Goto(c, label)
      <4>1. CASE MergeTopic(c)
        BY <4>1 DEF MergeTopic, Finish
      <4>2. CASE DeleteWork(c)
        BY <4>2 DEF DeleteWork, Finish
      <4> QED
        BY <2>4, <4>1, <4>2 DEF PushCreated, PushMerge, DropTopic, ReadTip, Finish
    <3> QED
      BY <1>1, <1>2, <2>1, <3>1, <3>2
  <2> QED
    BY <1>5, <2>2, <2>3, <2>4 DEF BranchStep
<1>6. ASSUME NEW a \in Actors, RootStep(a) PROVE LeaseInv'
  <2>1. UNCHANGED lease /\ (a \in Queries \/ pc[a] # "queued")
    BY <1>6 DEF RootStep, CheckRoot, ClearRoot, ListRoot, FillRoot, SignRoot, BreakRoot
  <2>2. \E label : Goto(a, label)
    BY <1>6, RootMoves DEF Finish
  <2>3. a \notin barred
    BY <1>2, <2>1, KindsOfActors DEF LeaseInv
  <2> QED
    BY <1>1, <2>1, <2>2, <2>3
<1>7. ASSUME NEW c \in Calls, AnswerStep(c) PROVE LeaseInv'
  <2>1. UNCHANGED lease /\ pc[c] # "queued"
    BY <1>7 DEF AnswerStep, Refresh, Reply
  <2>2. \E label : Goto(c, label)
    BY <1>7 DEF AnswerStep, Refresh, Reply, Finish
  <2> QED
    BY <1>1, <1>2, <2>1, <2>2, KindsOfActors
<1>8. ASSUME NEW l \in Logins, Claim(l) PROVE LeaseInv'
  BY <1>8, CallsAssumption DEF Claim, LeaseInv, Claimed, calls
<1>9. ASSUME EndLease \/ Crash PROVE LeaseInv'
  BY <1>9 DEF EndLease, Crash, LeaseInv
<1>10. ASSUME IndexRead \/ (\E e \in Edits \cup TopicEdits : AuthorPush(e)) \/ UNCHANGED vars
       PROVE  LeaseInv'
  BY <1>10 DEF IndexRead, AuthorPush, vars, calls, LeaseInv, Claimed
<1> QED
  BY <1>3, <1>4, <1>5, <1>6, <1>7, <1>8, <1>9, <1>10, KindsOfActors DEF Next

\* A merge, a creation or a deletion that waits for the lock while another login
\* holds the spec's lease, or when it takes it, stays where it is until that lease
\* ends, it is refused or the service restarts: the check comes after the wait.
THEOREM LeaseHoldsAlways == Spec => []LeaseHolds
<1>1. Init => LeaseInv
  BY DEF Init, LeaseInv
<1>2. LeaseInv => LeaseHolds
  BY DEF LeaseInv, LeaseHolds
<1> QED
  BY <1>1, <1>2, LockInit, LockStep, LeaseStep, PTL DEF Spec
=============================================================================
