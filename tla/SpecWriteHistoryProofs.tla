------------------------- MODULE SpecWriteHistoryProofs -------------------------
(***************************************************************************)
(* What was answered, and what was pushed to a work branch, stays on the    *)
(* remote.  GitSteps sorts the steps by what they do to git: nothing to the *)
(* spec's tip, a push, a commit, an author's push.                          *)
(*                                                                          *)
(* AckedOnRemote: from a commit the worktree's branch is based on, every    *)
(* commit in the past of the spec's tip only adds to it, up to the tip, so a*)
(* replay loses nothing (ChainInv); a call that was refused runs no more and*)
(* readers outside the cast never ran (MemoInv); and an acknowledged patch  *)
(* is on the remote and in the branch, in a corpus that is signed, and in   *)
(* what a write carries from its load to its push (AckInv, which needs the  *)
(* premise Undisturbed).                                                    *)
(*                                                                          *)
(* TopicKept: every commit of a work branch that was ever made is in the    *)
(* past of a tip, and the tip a deletion is about to compare with is part of*)
(* the spec's history (TopicInv, under TopicQuiet; CastInv says who runs).  *)
(*                                                                          *)
(* MergedKept: no commit undoes what an ancestor has from a work branch. The*)
(* argument of EditsInv is repeated for the topic's commits, with one       *)
(* difference: between the merge and its push the worktree's branch is ahead*)
(* of the mirror, which only the call that holds the lock sees (MergedInv,  *)
(* while the only merge of the cast has not failed and no rebuild of the    *)
(* corpus has overlapped a write: MergingInv).                              *)
(***************************************************************************)
EXTENDS SpecWriteContentProofs

-----------------------------------------------------------------------------
(* How a step may change git, and the shape of the published history. *)

\* No commit is made and the spec's tip stays; a worktree is made, or follows.
QuietStep ==
    /\ UNCHANGED commits /\ origin'["spec"] = origin["spec"]
    /\ origin'["topic"] \in {origin["topic"], 0, mirror["spec"]}
    /\ \/ mirror' \in {mirror, origin, origin'}
       \/ mirror' = [mirror EXCEPT !["topic"] = 0]
    /\ head' = head \/ (head' \in {origin["spec"], mirror["spec"]} /\ Past(head) \subseteq Past(head'))

PushStep ==
    /\ UNCHANGED <<commits, head>> /\ head \in 1..Len(commits)
    /\ Pushed("spec", head) \/ PushRaises("spec", head)

\* All that any commit holds.
Everything == UNION {Tree(i) : i \in 0..Len(commits)}

\* The worktree's branch gets a commit: on top of it, or in place of it on the
\* remote's tip.
CommitStep ==
    /\ UNCHANGED origin /\ mirror' \in {mirror, origin}
    /\ head' = NewCommit /\ head' = Len(commits')
    /\ \E i \in 1..Len(commits), j \in 0..Len(commits), T \in SUBSET Items :
          /\ HistoryOK' /\ Added(Past(i) \cup Past(j), T)
          /\ Past(head) \subseteq Past(i) \/ i = origin["spec"]
          /\ T \subseteq tree \cup Everything

\* A merge has nothing that neither side has.
LEMMA MergedIsMade ==
    ASSUME HistoryOK, NEW i \in 1..Len(commits), NEW j \in 1..Len(commits)
    PROVE  Merged(i, j) \subseteq Everything
<1>1. Tree(i) \subseteq Everything /\ Tree(j) \subseteq Everything
  <2>1. i \in 0..Len(commits) /\ j \in 0..Len(commits)
    BY HistoryFacts
  <2> QED
    BY <2>1 DEF Everything
<1> QED
  BY <1>1, MergedIsContent

LEMMA GitSteps ==
    ASSUME TypeInv, HeadMade, [Next]_vars
    PROVE  QuietStep \/ PushStep \/ CommitStep \/ \E e \in Edits \cup TopicEdits : AuthorPush(e)
<1>1. HistoryOK /\ RefsOK /\ Len(commits) \in Nat /\ Past(0) = {}
  BY HistoryFacts DEF TypeInv
<1>2. ASSUME UNCHANGED <<commits, origin, head>>, mirror' \in {mirror, origin} PROVE QuietStep
  BY <1>2 DEF QuietStep
<1>3. ASSUME UNCHANGED git PROVE QuietStep
  BY <1>2, <1>3 DEF git
<1>4. ASSUME NEW w \in Writes, WriteStep(w) \/ Retry(w) PROVE QuietStep \/ PushStep \/ CommitStep
  <2>1. Inside(w) => head \in 1..Len(commits)
    BY <1>1, RefFacts DEF HeadMade
  <2>2. CASE Issue(w) \/ Retry(w) \/ RefuseForeign(w) \/ Apply(w)
    BY <1>3, <2>2 DEF Issue, Retry, RefuseForeign, Apply
  <2>3. CASE EnterWrite(w)
    <3>1. /\ UNCHANGED <<commits, origin>> /\ mirror' \in {mirror, origin} /\ Fetch
          /\ head' = WorktreeHead(mirror'["spec"])
      BY <2>3 DEF EnterWrite, Fetch
    <3>2. head' = head \/ (head = 0 /\ head' \in {origin["spec"], mirror["spec"]})
      BY <3>1 DEF WorktreeHead
    <3> QED
      BY <1>1, <3>1, <3>2 DEF QuietStep
  <2>4. CASE Sync(w) \/ ReconcileRaises(w)
    <3>1. UNCHANGED <<commits, origin, head>> /\ mirror' \in {mirror, origin}
      BY <2>4 DEF Sync, ReconcileRaises
    <3> QED
      BY <1>2, <3>1
  <2>5. CASE PushWrite(w) \/ PushWriteRaises(w)
    BY <2>1, <2>5 DEF PushWrite, PushWriteRaises, Inside, PushStep
  <2>6. CASE CommitWrite(w)
    <3>1. UNCHANGED <<origin, mirror>> /\ head \in 1..Len(commits)
      BY <2>1, <2>6 DEF CommitWrite, Inside
    <3>2. CASE UNCHANGED <<commits, head>>
      BY <1>2, <3>1, <3>2
    <3>3. CASE Commit(Past(head), tree, FALSE) /\ head' = NewCommit
      <4>1. Commit(Past(head) \cup Past(0), tree, FALSE)
        BY <1>1, <3>3
      <4>2. tree \in SUBSET Items /\ 0 \in 0..Len(commits)
        BY <1>1 DEF RefsOK
      <4>3. HistoryOK' /\ Added(Past(head) \cup Past(0), tree) /\ NewCommit = Len(commits')
        BY <1>1, <3>1, <4>1, <4>2, CommitOnTop
      <4> QED
        BY <3>1, <3>3, <4>2, <4>3 DEF CommitStep
    <3> QED
      BY <2>6, <3>2, <3>3 DEF CommitWrite
  <2>7. CASE Reconcile(w)
    <3>1. /\ mirror' = origin /\ UNCHANGED origin /\ head \in 1..Len(commits)
          /\ origin["spec"] \in 1..Len(commits)
      BY <1>1, <2>1, <2>7, RefFacts DEF Reconcile, Inside
    <3>2. CASE UNCHANGED <<commits, head>>
      BY <1>2, <3>1, <3>2
    <3>3. CASE UNCHANGED commits /\ head' = origin["spec"] /\ Past(head) \subseteq Past(origin["spec"])
      BY <3>1, <3>3 DEF QuietStep
    <3>4. CASE Replay
      <4> DEFINE o == origin["spec"]
                 f == \E i \in Past(head) \ Past(o) : commits[i].foreign
                 T == Merged(o, head)
      <4>1. Commit(Past(o) \cup Past(0), T, f)
        BY <1>1, <3>4 DEF Replay
      <4>2. T \in SUBSET Items /\ f \in BOOLEAN /\ 0 \in 0..Len(commits) /\ T \subseteq Everything
        BY <1>1, <3>1, MergedIsContent, MergedIsMade
      <4>3. head' = NewCommit
        BY <3>4 DEF Replay
      <4> HIDE DEF f, T, o
      <4>4. o \in 1..Len(commits) /\ o = origin["spec"]
        BY <3>1 DEF o
      <4>5. HistoryOK' /\ Added(Past(o) \cup Past(0), T) /\ NewCommit = Len(commits')
        BY <1>1, <4>1, <4>2, <4>4, CommitOnTop
      <4> QED
        BY <3>1, <4>2, <4>3, <4>4, <4>5 DEF CommitStep
    <3> QED
      BY <2>7, <3>2, <3>3, <3>4 DEF Reconcile
  <2> QED
    BY <1>4, <2>2, <2>3, <2>4, <2>5, <2>6, <2>7 DEF WriteStep
<1>5. ASSUME NEW c \in Branching, BranchStep(c) PROVE QuietStep \/ PushStep \/ CommitStep
  <2>1. CASE Issue(c) \/ RefuseClaimed(c) \/ ReadTip(c)
    BY <1>3, <2>1 DEF Issue, RefuseClaimed, ReadTip
  <2>2. CASE CreateWork(c) \/ EnterMerge(c) \/ CheckDelete(c)
    <3>1. UNCHANGED <<commits, origin, head>> /\ mirror' \in {mirror, origin}
      BY <2>2 DEF CreateWork, EnterMerge, CheckDelete, Fetch
    <3> QED
      BY <1>2, <3>1
  <2>3. CASE PushCreated(c)
    <3>1. UNCHANGED <<commits, head>> /\ mirror' \in {mirror, origin'}
      BY <2>3 DEF PushCreated, PushRaises, Refetch
    <3>2. UNCHANGED origin \/ origin' = [origin EXCEPT !["topic"] = mirror["spec"]]
      BY <2>3 DEF PushCreated, PushRaises
    <3>3. origin'["spec"] = origin["spec"] /\ origin'["topic"] \in {origin["topic"], mirror["spec"]}
      BY <1>1, <3>2 DEF RefsOK, Branches
    <3> QED
      BY <3>1, <3>3 DEF QuietStep
  <2>4. CASE PushMerge(c)
    <3>1. head \in 1..Len(commits)
      BY <1>1, <2>4, RefFacts DEF PushMerge, HeadMade
    <3> QED
      BY <2>4, <3>1 DEF PushMerge, PushStep
  <2>5. CASE DropTopic(c)
    <3>1. /\ UNCHANGED <<commits, head>>
          /\ \/ UNCHANGED <<origin, mirror>>
             \/ /\ origin' = [origin EXCEPT !["topic"] = 0]
                /\ mirror' = [mirror EXCEPT !["topic"] = 0]
      BY <2>5 DEF DropTopic
    <3>2. origin'["spec"] = origin["spec"] /\ origin'["topic"] \in {origin["topic"], 0}
      BY <1>1, <3>1 DEF RefsOK, Branches
    <3> QED
      BY <3>1, <3>2 DEF QuietStep
  <2>6. CASE DeleteWork(c)
    <3>1. UNCHANGED <<commits, head>> /\ mirror' \in {mirror, origin'}
      BY <2>6 DEF DeleteWork, Refetch
    <3>2. UNCHANGED origin \/ origin' = [origin EXCEPT !["topic"] = 0]
      BY <2>6 DEF DeleteWork
    <3>3. origin'["spec"] = origin["spec"] /\ origin'["topic"] \in {origin["topic"], 0}
      BY <1>1, <3>2 DEF RefsOK, Branches
    <3> QED
      BY <3>1, <3>3 DEF QuietStep
  <2>7. CASE MergeTopic(c)
    <3> DEFINE spec == mirror'["spec"]
               topic == mirror'["topic"]
               base == IF Past(WorktreeHead(spec)) \subseteq Past(spec) THEN spec ELSE WorktreeHead(spec)
               T == Merged(base, topic)
    <3>1. Fetch /\ UNCHANGED origin
      BY <2>7 DEF MergeTopic
    <3>2. mirror' \in {mirror, origin} /\ spec \in 1..Len(commits) /\ topic \in 0..Len(commits)
      BY <1>1, <3>1, FetchFacts
    <3>3. base \in 1..Len(commits) /\ Past(head) \subseteq Past(base)
      BY <1>1, <3>2, RefFacts DEF WorktreeHead
    <3>4. \/ UNCHANGED commits /\ head' = base
          \/ /\ ~(Past(topic) \subseteq Past(base)) /\ head' = NewCommit
             /\ Commit(Past(base) \cup Past(topic), T, FALSE)
      BY <2>7 DEF MergeTopic
    <3>5. CASE UNCHANGED commits /\ head' = base
      <4>1. base = head \/ base \in {origin["spec"], mirror["spec"]}
        BY <3>2 DEF WorktreeHead
      <4> HIDE DEF base
      <4> QED
        BY <3>1, <3>2, <3>3, <3>5, <4>1 DEF QuietStep
    <3>6. CASE /\ ~(Past(topic) \subseteq Past(base)) /\ head' = NewCommit
               /\ Commit(Past(base) \cup Past(topic), T, FALSE)
      <4>1. topic \in 1..Len(commits)
        BY <1>1, <3>2, <3>6
      <4>2. T \in SUBSET Items /\ T \subseteq Everything
        BY <1>1, <3>3, <4>1, MergedIsContent, MergedIsMade
      <4> HIDE DEF base, topic, spec, T
      <4>3. HistoryOK' /\ Added(Past(base) \cup Past(topic), T) /\ NewCommit = Len(commits')
        BY <1>1, <3>2, <3>3, <3>6, <4>2, CommitOnTop
      <4> QED
        BY <3>1, <3>2, <3>3, <3>6, <4>2, <4>3 DEF CommitStep
    <3> HIDE DEF base, topic, spec, T
    <3> QED
      BY <3>4, <3>5, <3>6
  <2> QED
    BY <1>5, <2>1, <2>2, <2>3, <2>4, <2>5, <2>6, <2>7 DEF BranchStep
<1>6. ASSUME NEW a \in Actors, RootStep(a) PROVE QuietStep
  <2>1. UNCHANGED <<commits, origin, head>> /\ mirror' \in {mirror, origin}
    BY <1>6 DEF RootStep, CheckRoot, ClearRoot, ListRoot, FillRoot, SignRoot, BreakRoot, Fetch, git
  <2> QED
    BY <1>2, <2>1
<1>7. ASSUME IndexRead PROVE QuietStep
  <2>1. UNCHANGED <<commits, origin, mirror>> /\ head' = WorktreeHead(mirror["spec"])
    BY <1>7 DEF IndexRead
  <2>2. head' = head \/ (head = 0 /\ head' = mirror["spec"])
    BY <2>1 DEF WorktreeHead
  <2> QED
    BY <1>1, <2>1, <2>2 DEF QuietStep
<1>8. ASSUME \/ \E c \in Calls : AnswerStep(c)
             \/ \E l \in Logins : Claim(l)
             \/ EndLease \/ Crash \/ UNCHANGED vars
      PROVE  QuietStep
  BY <1>3, <1>8 DEF AnswerStep, Refresh, Reply, Claim, EndLease, Crash, vars
<1> QED
  BY <1>4, <1>5, <1>6, <1>7, <1>8 DEF Next

\* From the commit p on, the history of o only adds.
Adds(p, o) == \A i, j \in Past(o) : p <= j /\ j <= i => Tree(j) \subseteq Tree(i)

\* It does so from a commit on that the branch h of the worktree is based on.
BasedOn(o, h) == \E p \in Past(o) : Adds(p, o) /\ (IF h = 0 THEN p = 1 ELSE p \in Past(h))

\* A topic forked from the spec at some commit, and its tip has all that was added since.
Forked(topic, spec) == topic # 0 =>
    \E m \in Past(topic) \cap Past(spec) : \A k \in Past(topic) : m <= k => Tree(k) \subseteq Tree(topic)

ChainInv ==
    /\ BasedOn(origin["spec"], head)
    /\ Past(mirror["spec"]) \subseteq Past(origin["spec"])
    /\ Forked(origin["topic"], origin["spec"]) /\ Forked(mirror["topic"], mirror["spec"])

\* What holds of the commits made before holds of them after.
LEMMA ChainStays ==
    ASSUME HistoryOK, Grown
    PROVE  \A o \in 0..Len(commits), h \in 0..Len(commits) :
              /\ BasedOn(o, h)' <=> BasedOn(o, h)
              /\ Forked(o, h)' <=> Forked(o, h)
<1> SUFFICES ASSUME NEW o \in 0..Len(commits), NEW h \in 0..Len(commits)
             PROVE  (BasedOn(o, h)' <=> BasedOn(o, h)) /\ (Forked(o, h)' <=> Forked(o, h))
  OBVIOUS
<1>1. Past(o)' = Past(o) /\ Past(h)' = Past(h) /\ Tree(o)' = Tree(o)
  BY DEF Grown
<1>2. \A i \in Past(o) : Tree(i)' = Tree(i)
  BY HistoryFacts DEF Grown
<1>3. \A p : Adds(p, o)' <=> Adds(p, o)
  BY <1>1, <1>2 DEF Adds
<1>4. BasedOn(o, h)' <=> BasedOn(o, h)
  BY <1>1, <1>3 DEF BasedOn
<1>5. Forked(o, h)' <=> Forked(o, h)
  BY <1>1, <1>2 DEF Forked
<1> QED
  BY <1>4, <1>5

LEMMA BasedFurther ==
    ASSUME HistoryOK, NEW o \in 1..Len(commits), NEW h \in 0..Len(commits), NEW g \in 1..Len(commits),
           BasedOn(o, h), Past(h) \subseteq Past(g)
    PROVE  BasedOn(o, g)
<1>1. PICK p \in Past(o) : Adds(p, o) /\ (IF h = 0 THEN p = 1 ELSE p \in Past(h))
  BY DEF BasedOn
<1>2. p \in Past(g) /\ g # 0
  BY <1>1, HistoryFacts
<1> QED
  BY <1>1, <1>2 DEF BasedOn

LEMMA BasedOnItself == ASSUME HistoryOK, NEW h \in 1..Len(commits) PROVE BasedOn(h, h)
<1>1. h \in Past(h) /\ \A i \in Past(h) : i <= h /\ i \in Nat
  BY HistoryFacts
<1>2. Adds(h, h)
  <2>1. \A i, j \in Past(h) : h <= j /\ j <= i => i = j
    BY <1>1
  <2> QED
    BY <2>1 DEF Adds
<1> QED
  BY <1>1, <1>2, HistoryFacts DEF BasedOn

LEMMA ForkedFurther ==
    ASSUME NEW t, NEW o, NEW g, Forked(t, o), Past(o) \subseteq Past(g) PROVE Forked(t, g)
  BY DEF Forked

\* A branch that starts at a commit of the spec.
LEMMA ForkedAt ==
    ASSUME HistoryOK, NEW t \in 1..Len(commits), NEW o, t \in Past(o) PROVE Forked(t, o)
<1>1. t \in Past(t) /\ \A k \in Past(t) : k <= t /\ k \in Nat
  BY HistoryFacts
<1>2. \A k \in Past(t) : t <= k => k = t
  BY <1>1
<1> QED
  BY <1>1, <1>2 DEF Forked

LEMMA ForkedNowhere == \A o : Forked(0, o)
  BY DEF Forked

LEMMA ChainRefs ==
    ASSUME TypeInv
    PROVE  /\ HistoryOK /\ Len(commits) \in Nat /\ Past(0) = {}
           /\ origin["spec"] \in 1..Len(commits) /\ mirror["spec"] \in 1..Len(commits)
           /\ origin["topic"] \in 0..Len(commits) /\ mirror["topic"] \in 0..Len(commits)
           /\ head \in 0..Len(commits)
           /\ origin \in [Branches -> 0..Len(commits)] /\ mirror \in [Branches -> 0..Len(commits)]
  BY HistoryFacts, RefFacts DEF TypeInv, RefsOK

\* To show the invariant of the next state, with the refs named.
LEMMA ChainByParts ==
    ASSUME NEW o, NEW m, NEW t, NEW u, NEW h,
           o = origin'["spec"], m = mirror'["spec"], t = origin'["topic"], u = mirror'["topic"], h = head',
           BasedOn(o, h)', Past(m)' \subseteq Past(o)', Forked(t, o)', Forked(u, m)'
    PROVE  ChainInv'
  BY DEF ChainInv

LEMMA QuietChain == ASSUME TypeInv, ChainInv, QuietStep PROVE ChainInv'
<1> SUFFICES ASSUME NEW o, NEW m, NEW t, NEW u, NEW h, o = origin'["spec"], m = mirror'["spec"],
                    t = origin'["topic"], u = mirror'["topic"], h = head'
             PROVE  ChainInv'
  OBVIOUS
<1>1. UNCHANGED commits /\ o = origin["spec"] /\ t \in {origin["topic"], 0, mirror["spec"]}
  BY DEF QuietStep
<1>2. \/ m = mirror["spec"] /\ u = mirror["topic"]
      \/ m = o /\ u = origin["topic"]
      \/ m = o /\ u = t
      \/ m = mirror["spec"] /\ u = 0
  BY ChainRefs DEF QuietStep, Branches
<1>3. h = head \/ (h \in 1..Len(commits) /\ Past(head) \subseteq Past(h))
  BY ChainRefs DEF QuietStep
<1>4. /\ BasedOn(o, head) /\ Past(mirror["spec"]) \subseteq Past(o)
      /\ Forked(origin["topic"], o) /\ Forked(mirror["topic"], mirror["spec"])
  BY <1>1 DEF ChainInv
<1>5. BasedOn(o, h)
  BY <1>1, <1>3, <1>4, ChainRefs, BasedFurther
<1>6. Forked(t, o)
  <2>1. mirror["spec"] \in Past(o)
    BY <1>4, ChainRefs, HistoryFacts
  <2> QED
    BY <1>1, <1>4, <2>1, ChainRefs, ForkedAt, ForkedNowhere
<1>7. Forked(u, m) /\ Past(m) \subseteq Past(o)
  BY <1>2, <1>4, <1>6, ForkedNowhere
<1>8. Grown
  BY <1>1, UnchangedGrows
<1>9. /\ o \in 0..Len(commits) /\ m \in 0..Len(commits) /\ h \in 0..Len(commits)
      /\ t \in 0..Len(commits) /\ u \in 0..Len(commits)
  BY <1>1, <1>2, <1>3, ChainRefs
<1>10. BasedOn(o, h)' /\ Forked(t, o)' /\ Forked(u, m)' /\ Past(m)' \subseteq Past(o)'
  BY <1>5, <1>6, <1>7, <1>8, <1>9, ChainStays, ChainRefs DEF Grown
<1> QED
  BY <1>10, ChainByParts

LEMMA PushChain == ASSUME TypeInv, ChainInv, PushStep PROVE ChainInv'
<1> SUFFICES ASSUME NEW o, NEW m, NEW t, NEW u, NEW h, o = origin'["spec"], m = mirror'["spec"],
                    t = origin'["topic"], u = mirror'["topic"], h = head'
             PROVE  ChainInv'
  OBVIOUS
<1>1. UNCHANGED commits /\ h = head /\ head \in 1..Len(commits)
  BY DEF PushStep
<1>2. /\ UNCHANGED origin \/ (origin' = [origin EXCEPT !["spec"] = head] /\ origin["spec"] \in Past(head))
      /\ UNCHANGED mirror \/ (mirror' = [mirror EXCEPT !["spec"] = head] /\ origin' = [origin EXCEPT !["spec"] = head]
                              /\ origin["spec"] \in Past(head))
  BY ChainRefs DEF PushStep, Pushed, PushRaises
<1>3. /\ t = origin["topic"] /\ u = mirror["topic"]
      /\ o = origin["spec"] \/ (o = head /\ origin["spec"] \in Past(head))
      /\ m = mirror["spec"] \/ (m = head /\ o = head /\ origin["spec"] \in Past(head))
  BY <1>2, ChainRefs DEF Branches
<1>4. /\ BasedOn(origin["spec"], head) /\ Past(mirror["spec"]) \subseteq Past(origin["spec"])
      /\ Forked(origin["topic"], origin["spec"]) /\ Forked(mirror["topic"], mirror["spec"])
  BY DEF ChainInv
<1>5. Past(origin["spec"]) \subseteq Past(o) /\ Past(mirror["spec"]) \subseteq Past(m) /\ Past(m) \subseteq Past(o)
  <2>1. origin["spec"] \in Past(head) => Past(origin["spec"]) \subseteq Past(head)
    BY <1>1, ChainRefs, HistoryFacts
  <2> QED
    BY <1>3, <1>4, <2>1
<1>6. BasedOn(o, h)
  BY <1>1, <1>3, <1>4, BasedOnItself, ChainRefs
<1>7. Forked(t, o) /\ Forked(u, m)
  BY <1>3, <1>4, <1>5, ForkedFurther
<1>8. Grown
  BY <1>1, UnchangedGrows
<1>9. /\ o \in 0..Len(commits) /\ m \in 0..Len(commits) /\ h \in 0..Len(commits)
      /\ t \in 0..Len(commits) /\ u \in 0..Len(commits)
  BY <1>1, <1>3, ChainRefs
<1>10. BasedOn(o, h)' /\ Forked(t, o)' /\ Forked(u, m)' /\ Past(m)' \subseteq Past(o)'
  BY <1>5, <1>6, <1>7, <1>8, <1>9, ChainStays, ChainRefs DEF Grown
<1> QED
  BY <1>10, ChainByParts

LEMMA CommitChain == ASSUME TypeInv, ChainInv, CommitStep PROVE ChainInv'
<1> SUFFICES ASSUME NEW o, NEW t, NEW m, NEW u, NEW n, o = origin["spec"], t = origin["topic"],
                    m = mirror'["spec"], u = mirror'["topic"], n = NewCommit
             PROVE  ChainInv'
  OBVIOUS
<1>1. UNCHANGED origin /\ head' = n
  BY DEF CommitStep
<1>2. PICK i \in 1..Len(commits), j \in 0..Len(commits), T \in SUBSET Items :
          /\ HistoryOK' /\ Added(Past(i) \cup Past(j), T)
          /\ Past(head) \subseteq Past(i) \/ i = origin["spec"]
  BY DEF CommitStep
<1>3. (m = mirror["spec"] /\ u = mirror["topic"]) \/ (m = o /\ u = t)
  BY DEF CommitStep
<1>4. /\ BasedOn(o, head) /\ Past(mirror["spec"]) \subseteq Past(o)
      /\ Forked(t, o) /\ Forked(mirror["topic"], mirror["spec"])
  BY DEF ChainInv
<1>5. Forked(u, m) /\ Past(m) \subseteq Past(o)
  BY <1>3, <1>4
<1>6. Grown /\ Past(n)' = Past(i) \cup Past(j) \cup {n} /\ n # 0
  BY <1>2, ChainRefs DEF Added, NewCommit
<1>7. /\ o \in 1..Len(commits) /\ o \in 0..Len(commits) /\ m \in 0..Len(commits)
      /\ t \in 0..Len(commits) /\ u \in 0..Len(commits)
  BY <1>3, ChainRefs
<1>8. Forked(t, o)' /\ Forked(u, m)' /\ Past(m)' \subseteq Past(o)'
  BY <1>4, <1>5, <1>6, <1>7, ChainStays, ChainRefs DEF Grown
<1>9. PICK p \in Past(o) : Adds(p, o) /\ (IF head = 0 THEN p = 1 ELSE p \in Past(head))
  BY <1>4 DEF BasedOn
<1>10. p \in Past(n)'
  <2>1. CASE Past(head) \subseteq Past(i)
    <3>1. 1 \in Past(i)
      BY ChainRefs, HistoryFacts
    <3> QED
      BY <1>6, <1>9, <2>1, <3>1
  <2>2. CASE i = origin["spec"]
    BY <1>6, <1>9, <2>2
  <2> QED
    BY <1>2, <2>1, <2>2
<1>11. Adds(p, o)' /\ Past(o)' = Past(o)
  <2>1. Past(o)' = Past(o) /\ \A k \in Past(o) : Tree(k)' = Tree(k)
    BY <1>6, <1>7, ChainRefs, HistoryFacts DEF Grown
  <2> QED
    BY <1>9, <2>1 DEF Adds
<1>12. BasedOn(o, n)'
  BY <1>6, <1>9, <1>10, <1>11 DEF BasedOn
<1>13. PICK x, y, z : x = origin'["spec"] /\ y = origin'["topic"] /\ z = head'
  OBVIOUS
<1>14. x = o /\ y = t /\ z = n
  BY <1>1, <1>13
<1> QED
  BY <1>8, <1>12, <1>13, <1>14, ChainByParts

LEMMA AuthorChain ==
    ASSUME TypeInv, ChainInv, NEW e \in Edits \cup TopicEdits, AuthorPush(e) PROVE ChainInv'
<1> DEFINE b == IF e \in Edits THEN "spec" ELSE "topic"
<1> SUFFICES ASSUME NEW n, NEW o, NEW t, NEW m, NEW u, NEW h, NEW T, n = NewCommit,
                    o = origin["spec"], t = origin["topic"], m = mirror["spec"], u = mirror["topic"],
                    h = head, T = Tree(origin[b]) \cup {e}
             PROVE  ChainInv'
  OBVIOUS
<1>1. /\ UNCHANGED <<mirror, head>> /\ origin[b] # 0 /\ Commit(Past(origin[b]), T, TRUE)
      /\ origin' = [origin EXCEPT ![b] = n]
  BY DEF AuthorPush
<1>2. b = "spec" \/ b = "topic"
  OBVIOUS
<1> HIDE DEF b
<1>3. PICK i \in 1..Len(commits) : i = origin[b]
  BY <1>1, <1>2, ChainRefs
<1>4. Tree(i) \subseteq T /\ T \in SUBSET Items
  BY <1>3, ChainRefs, HistoryFacts DEF Items
<1>5. Grown /\ Past(n)' = Past(i) \cup {n} /\ Tree(n)' = T /\ n = Len(commits) + 1
  <2>1. Past(i) \cup Past(0) = Past(i)
    BY ChainRefs
  <2>2. Commit(Past(i) \cup Past(0), T, TRUE)
    BY <1>1, <1>3, <2>1
  <2>3. HistoryOK /\ 0 \in 0..Len(commits) /\ TRUE \in BOOLEAN
    BY ChainRefs
  <2>4. Added(Past(i) \cup Past(0), T)
    BY <1>4, <2>2, <2>3, CommitOnTop
  <2> QED
    BY <2>1, <2>4 DEF Added, NewCommit
<1>6. n # 0 /\ \A k \in 0..Len(commits) : k < n /\ Past(k)' = Past(k) /\ Tree(k)' = Tree(k)
  BY <1>5, ChainRefs DEF Grown
<1>7. /\ BasedOn(o, h) /\ Past(m) \subseteq Past(o) /\ Forked(t, o) /\ Forked(u, m)
  BY DEF ChainInv
<1>8. /\ o \in 0..Len(commits) /\ m \in 0..Len(commits) /\ h \in 0..Len(commits)
      /\ t \in 0..Len(commits) /\ u \in 0..Len(commits)
  BY ChainRefs
<1>9. PICK x, y : x = origin'["spec"] /\ y = origin'["topic"]
  OBVIOUS
<1>10. (b = "spec" => x = n /\ y = t) /\ (b = "topic" => x = o /\ y = n)
  BY <1>1, <1>9, ChainRefs DEF Branches
<1>11. (b = "spec" => i = o) /\ (b = "topic" => i = t)
  BY <1>3
<1>12. m = mirror'["spec"] /\ u = mirror'["topic"] /\ h = head'
  BY <1>1
<1>13. /\ BasedOn(o, h)' /\ Forked(t, o)' /\ Forked(u, m)' /\ Past(m)' \subseteq Past(o)'
  BY <1>5, <1>6, <1>7, <1>8, ChainStays, ChainRefs
<1>14. CASE b = "spec"
  <2>1. Past(o)' \subseteq Past(n)'
    BY <1>5, <1>6, <1>8, <1>11, <1>14
  <2>2. Forked(t, n)'
    BY <1>13, <2>1 DEF Forked
  <2>3. BasedOn(n, h)'
    <3>1. PICK p \in Past(o)' : Adds(p, o)' /\ (IF h = 0 THEN p = 1 ELSE p \in Past(h)')
      BY <1>13 DEF BasedOn
    <3>2. /\ Past(n)' = Past(o)' \cup {n} /\ Tree(o)' \subseteq Tree(n)' /\ o \in Past(o)'
          /\ Past(o)' \subseteq Nat /\ \A k \in Past(o)' : k <= o /\ k < n
      <4>1. Past(o)' = Past(o) /\ Tree(o)' = Tree(o)
        BY <1>6, <1>8
      <4>2. o \in Past(o) /\ Past(o) \subseteq 1..o /\ Past(o) \subseteq 0..Len(commits)
        BY <1>3, <1>11, <1>14, ChainRefs, HistoryFacts
      <4> QED
        BY <1>4, <1>5, <1>6, <1>11, <1>14, <4>1, <4>2
    <3>3. ASSUME NEW k \in Past(n)', NEW l \in Past(n)', p <= l, l <= k PROVE Tree(l)' \subseteq Tree(k)'
      <4>1. CASE k # n /\ l # n
        BY <3>1, <3>2, <3>3, <4>1 DEF Adds
      <4>2. CASE k = n /\ l # n
        <5>1. Tree(l)' \subseteq Tree(o)'
          BY <3>1, <3>2, <3>3, <4>2 DEF Adds
        <5> QED
          BY <3>2, <4>2, <5>1
      <4>3. CASE l = n
        <5>1. k = n
          <6>1. k # n => k < n /\ k \in Nat
            BY <3>2
          <6>2. n \in Nat
            BY <1>5, ChainRefs
          <6> QED
            BY <3>3, <4>3, <6>1, <6>2
        <5> QED
          BY <4>3, <5>1
      <4> QED
        BY <4>1, <4>2, <4>3
    <3>4. Adds(p, n)' /\ p \in Past(n)'
      BY <3>1, <3>2, <3>3 DEF Adds
    <3> QED
      BY <3>1, <3>4 DEF BasedOn
  <2>4. Past(m)' \subseteq Past(n)'
    BY <1>13, <2>1
  <2> QED
    BY <1>9, <1>10, <1>12, <1>13, <1>14, <2>2, <2>3, <2>4, ChainByParts
<1>15. CASE b = "topic"
  <2>1. Forked(n, o)'
    <3>1. /\ Past(n)' = Past(t)' \cup {n} /\ Tree(t)' \subseteq Tree(n)' /\ t # 0
          /\ \A k \in Past(t)' : k < n /\ k \in Nat
      <4>1. Past(t)' = Past(t) /\ Tree(t)' = Tree(t)
        BY <1>6, <1>8
      <4>2. Past(t) \subseteq 0..Len(commits) /\ t # 0
        BY <1>3, <1>11, <1>15, ChainRefs, HistoryFacts
      <4> QED
        BY <1>4, <1>5, <1>6, <1>11, <1>15, <4>1, <4>2, ChainRefs
    <3>2. PICK q \in Past(t)' \cap Past(o)' : \A k \in Past(t)' : q <= k => Tree(k)' \subseteq Tree(t)'
      BY <1>13, <3>1 DEF Forked
    <3>3. \A k \in Past(n)' : q <= k => Tree(k)' \subseteq Tree(n)'
      BY <3>1, <3>2
    <3> QED
      BY <3>1, <3>2, <3>3 DEF Forked
  <2> QED
    BY <1>9, <1>10, <1>12, <1>13, <1>15, <2>1, ChainByParts
<1> QED
  BY <1>2, <1>14, <1>15

LEMMA ChainStep == TypeInv /\ HeadMade /\ ChainInv /\ [Next]_vars => ChainInv'
  BY GitSteps, QuietChain, PushChain, CommitChain, AuthorChain

LEMMA ChainInit == Init => ChainInv
<1> SUFFICES ASSUME Init PROVE ChainInv
  OBVIOUS
<1>1. /\ commits[1].past = {1} /\ head = 0 /\ mirror = origin
      /\ origin["spec"] = 1 /\ origin["topic"] \in {0, 1}
  BY DEF Init, Branches
<1>2. Past(1) = {1}
  BY <1>1 DEF Past
<1>3. BasedOn(1, 0) /\ Forked(0, 1) /\ Forked(1, 1)
  BY <1>2 DEF BasedOn, Adds, Forked
<1> QED
  BY <1>1, <1>3 DEF ChainInv

-----------------------------------------------------------------------------
(* What is acknowledged. *)

LEMMA CastStays == ASSUME [Next]_vars PROVE cast' = cast
<1>1. ASSUME NEW w \in Writes, WriteStep(w) \/ Retry(w) PROVE cast' = cast
  BY <1>1 DEF WriteStep, Issue, EnterWrite, Apply, Sync, CommitWrite, RefuseForeign, PushWrite,
              PushWriteRaises, Reconcile, ReconcileRaises, Retry, faults
<1>2. ASSUME NEW c \in Branching, BranchStep(c) PROVE cast' = cast
  BY <1>2 DEF BranchStep, Issue, RefuseClaimed, CreateWork, PushCreated, EnterMerge, MergeTopic, PushMerge,
              DropTopic, CheckDelete, ReadTip, DeleteWork, faults
<1>3. ASSUME NEW a \in Actors, RootStep(a) PROVE cast' = cast
  BY <1>3 DEF RootStep, CheckRoot, ClearRoot, ListRoot, FillRoot, SignRoot, BreakRoot, Proceed, faults
<1>4. ASSUME NEW c \in Calls, AnswerStep(c) PROVE cast' = cast
  BY <1>4 DEF AnswerStep, Refresh, Reply, faults
<1>5. ASSUME \/ \E l \in Logins : Claim(l)
             \/ EndLease \/ IndexRead \/ Crash \/ (\E e \in Edits \cup TopicEdits : AuthorPush(e))
             \/ UNCHANGED vars
      PROVE  cast' = cast
  BY <1>5 DEF Claim, EndLease, IndexRead, Crash, AuthorPush, faults, vars
<1> QED
  BY <1>1, <1>2, <1>3, <1>4, <1>5 DEF Next

Refused == Results \ {"none", "ok"}

\* A read that is not in the cast does nothing, a rebuild was started for a commit,
\* and a call whose answer is not "ok" has been answered, or never will be.
MemoInv ==
    /\ \A q \in Queries \ cast : pc[q] = "idle"
    /\ \A a \in Actors : pc[a] = "rebuild" => want[a] # 0
    /\ \A c \in Calls : result[c] \in Refused => pc[c] = "done"

LEMMA MemoMoves ==
    ASSUME LockInv, MemoInv, UNCHANGED cast, NEW a \in Actors, NEW label, Goto(a, label),
           a \in Queries => a \in cast,
           \A b \in Actors \ {a} : want'[b] = want[b],
           label = "rebuild" => want'[a] # 0,
           \A c \in Calls \ {a} : result'[c] = result[c],
           a \in Calls => result'[a] \notin Refused \/ label = "done"
    PROVE  MemoInv'
  BY GotoMoves, KindsOfActors DEF MemoInv

\* A call that goes on with no answer, or with one that is not to be repeated.
LEMMA MemoGoes ==
    ASSUME LockInv, MemoInv, UNCHANGED <<cast, want>>, NEW c \in Calls, pc[c] # "done",
           NEW label, Goto(c, label), label # "rebuild",
           UNCHANGED result \/ label = "done" \/ result'[c] = "ok",
           UNCHANGED result \/ \E x : result' = [result EXCEPT ![c] = x]
    PROVE  MemoInv'
<1>1. \A d \in Calls \ {c} : result'[d] = result[d]
  BY DEF LockInv, LockTypeOK
<1>2. result'[c] \notin Refused \/ label = "done"
  BY DEF MemoInv, Refused, Results
<1> QED
  BY <1>1, <1>2, MemoMoves, KindsOfActors

LEMMA MemoStep == TypeInv /\ MemoInv /\ [Next]_vars => MemoInv'
<1> SUFFICES ASSUME TypeInv, MemoInv, [Next]_vars PROVE MemoInv'
  OBVIOUS
<1>0. LockInv /\ cast' = cast /\ RefsOK
  BY CastStays DEF TypeInv
<1> DEFINE Goes(c) == \E label : /\ Goto(c, label) /\ label # "rebuild"
                                 /\ UNCHANGED result \/ label = "done" \/ result'[c] = "ok"
                                 /\ UNCHANGED result \/ \E x : result' = [result EXCEPT ![c] = x]
<1>1. ASSUME NEW c \in Calls, pc[c] # "done", UNCHANGED want, Goes(c) PROVE MemoInv'
  BY <1>0, <1>1, MemoGoes
<1>2. ASSUME NEW c, NEW answer, Finish(c, answer) PROVE Goes(c)
  BY <1>2 DEF Finish
<1>3. ASSUME NEW c, NEW label, label # "rebuild", Goto(c, label), UNCHANGED result PROVE Goes(c)
  BY <1>3
<1>4. ASSUME NEW c \in Calls, Issue(c) PROVE MemoInv'
  <2>1. pc[c] # "done" /\ UNCHANGED want
    BY <1>4 DEF Issue
  <2>2. Goes(c)
    BY <1>4 DEF Issue
  <2> QED
    BY <1>1, <2>1, <2>2
<1>5. ASSUME NEW w \in Writes, WriteStep(w), ~Issue(w) PROVE MemoInv'
  <2>1. pc[w] # "done" /\ UNCHANGED want /\ w \in Calls
    BY <1>5, KindsOfActors DEF WriteStep, EnterWrite, Apply, Sync, CommitWrite, RefuseForeign, PushWrite,
                PushWriteRaises, Reconcile, ReconcileRaises
  <2>2. CASE PushWrite(w)
    <3>1. Goto(w, "refresh") /\ result' = [result EXCEPT ![w] = "ok"] /\ result'[w] = "ok"
      BY <1>0, <2>1, <2>2 DEF PushWrite, LockInv, LockTypeOK
    <3> QED
      BY <1>1, <2>1, <3>1
  <2>3. CASE ~PushWrite(w)
    <3> HIDE DEF Goes
    <3>1. Goes(w)
      BY <1>2, <1>3, <1>5, <2>3 DEF WriteStep, EnterWrite, Apply, Sync, CommitWrite, RefuseForeign,
                PushWriteRaises, Reconcile, ReconcileRaises
    <3> QED
      BY <1>1, <2>1, <3>1
  <2> QED
    BY <2>2, <2>3
<1>6. ASSUME NEW w \in Writes, Retry(w) PROVE MemoInv'
  <2>1. w \in Calls /\ w \in Actors /\ w \notin Queries /\ UNCHANGED want /\ Goto(w, "idle")
        /\ result' = [result EXCEPT ![w] = "none"]
    BY <1>6, KindsOfActors DEF Retry
  <2>2. result'[w] \notin Refused /\ \A c \in Calls \ {w} : result'[c] = result[c]
    BY <1>0, <2>1 DEF LockInv, LockTypeOK, Refused, Results
  <2> QED
    BY <1>0, <2>1, <2>2, MemoMoves
<1>7. ASSUME NEW c \in Branching, BranchStep(c), ~Issue(c) PROVE MemoInv'
  <2>1. c \in Calls /\ c \in Actors /\ c \notin Queries
    BY KindsOfActors
  <2>2. CASE RefuseClaimed(c) \/ CreateWork(c) \/ EnterMerge(c) \/ CheckDelete(c)
    <3> HIDE DEF Goes
    <3>1. pc[c] # "done" /\ UNCHANGED want
      BY <2>2 DEF RefuseClaimed, CreateWork, EnterMerge, CheckDelete, Enter
    <3>2. Goes(c)
      BY <1>2, <1>3, <2>2 DEF RefuseClaimed, CreateWork, EnterMerge, CheckDelete
    <3> QED
      BY <1>1, <2>1, <3>1, <3>2
  <2>3. CASE PushCreated(c) \/ PushMerge(c) \/ MergeTopic(c) \/ DeleteWork(c)
    <3> HIDE DEF Goes
    <3>1. pc[c] # "done" /\ UNCHANGED want
      BY <2>3 DEF PushCreated, PushMerge, MergeTopic, DeleteWork
    <3>2. CASE MergeTopic(c)
      <4>1. Goes(c)
        BY <1>2, <1>3, <3>2 DEF MergeTopic
      <4> QED
        BY <1>1, <2>1, <3>1, <4>1
    <3>3. CASE ~MergeTopic(c)
      <4>1. Goes(c)
        BY <1>2, <1>3, <2>3, <3>3 DEF PushCreated, PushMerge, DeleteWork
      <4> QED
        BY <1>1, <2>1, <3>1, <4>1
    <3> QED
      BY <3>2, <3>3
  <2>4. CASE DropTopic(c)
    <3>1. /\ Goto(c, "refresh") /\ result' = [result EXCEPT ![c] = "ok"] /\ result'[c] = "ok"
          /\ pc[c] # "done" /\ UNCHANGED want
      BY <1>0, <2>1, <2>4 DEF DropTopic, LockInv, LockTypeOK
    <3> QED
      BY <1>1, <2>1, <3>1
  <2>5. CASE ReadTip(c)
    <3>1. pc[c] = "tip" /\ \A b \in Actors \ {c} : want'[b] = want[b]
      BY <1>0, <2>5 DEF ReadTip, RefsOK
    <3>2. CASE Finish(c, "not found")
      <4>1. Goto(c, "done") /\ \A d \in Calls \ {c} : result'[d] = result[d]
        BY <1>0, <3>2 DEF Finish, LockInv, LockTypeOK
      <4> QED
        BY <1>0, <2>1, <3>1, <4>1, MemoMoves
    <3>3. CASE Goto(c, "delete") /\ UNCHANGED result
      <4>1. result'[c] \notin Refused
        BY <2>1, <3>1, <3>3 DEF MemoInv
      <4> QED
        BY <1>0, <2>1, <3>1, <3>3, <4>1, MemoMoves
    <3> QED
      BY <2>5, <3>2, <3>3 DEF ReadTip
  <2> QED
    BY <1>7, <2>2, <2>3, <2>4, <2>5 DEF BranchStep
<1>8. ASSUME NEW a \in Actors, RootStep(a) PROVE MemoInv'
  <2>1. pc[a] # "done"
    BY <1>8 DEF RootStep, CheckRoot, ClearRoot, ListRoot, FillRoot, SignRoot, BreakRoot
  <2>2. a \in Queries => a \in cast
    BY <1>8, KindsOfActors DEF RootStep, CheckRoot, ClearRoot, ListRoot, FillRoot, SignRoot, BreakRoot, MemoInv
  <2>3. \A b \in Actors \ {a} : want'[b] = want[b]
    BY <1>0, <1>8 DEF RootStep, CheckRoot, ClearRoot, ListRoot, FillRoot, SignRoot, BreakRoot, RefsOK
  <2>4. CASE UNCHANGED result
    <3>1. \E label : Goto(a, label) /\ (label = "rebuild" => want'[a] # 0)
      <4>1. CASE CheckRoot(a)
        <5>1. want'[a] = mirror'["spec"] /\ Fetch
          BY <1>0, <4>1 DEF CheckRoot, RefsOK
        <5>2. mirror'["spec"] # 0
          BY <5>1, FetchFacts, HistoryFacts DEF TypeInv
        <5> QED
          BY <4>1, <5>1, <5>2 DEF CheckRoot, Proceed
      <4>2. CASE ~CheckRoot(a)
        <5>1. After(a) # "rebuild"
          BY DEF After
        <5>2. ClearRoot(a) \/ ListRoot(a) \/ FillRoot(a) \/ SignRoot(a) => \E label : Goto(a, label) /\ label # "rebuild"
          BY <5>1 DEF ClearRoot, ListRoot, FillRoot, SignRoot, Proceed
        <5>3. ASSUME BreakRoot(a) PROVE Goto(a, "done") \/ Goto(a, After(a))
          BY <5>3 DEF BreakRoot, Finish
        <5> QED
          BY <1>8, <4>2, <5>1, <5>2, <5>3 DEF RootStep
      <4> QED
        BY <4>1, <4>2
    <3>2. a \in Calls => result'[a] \notin Refused
      BY <2>1, <2>4 DEF MemoInv
    <3> QED
      BY <1>0, <2>2, <2>3, <2>4, <3>1, <3>2, MemoMoves
  <2>5. CASE Finish(a, "git failed")
    <3>1. Goto(a, "done") /\ \A c \in Calls \ {a} : result'[c] = result[c]
      BY <1>0, <2>5 DEF Finish, LockInv, LockTypeOK
    <3> QED
      BY <1>0, <2>2, <2>3, <3>1, MemoMoves
  <2> QED
    BY <1>8, <2>4, <2>5 DEF RootStep, CheckRoot, ClearRoot, ListRoot, FillRoot, SignRoot, BreakRoot
<1>9. ASSUME NEW c \in Calls, AnswerStep(c) PROVE MemoInv'
  <2>1. pc[c] # "done" /\ UNCHANGED want
    BY <1>9 DEF AnswerStep, Refresh, Reply
  <2> HIDE DEF Goes
  <2>2. Goes(c)
    BY <1>2, <1>3, <1>9 DEF AnswerStep, Refresh, Reply
  <2> QED
    BY <1>1, <2>1, <2>2
<1>10. ASSUME \/ \E l \in Logins : Claim(l)
              \/ EndLease \/ IndexRead \/ (\E e \in Edits \cup TopicEdits : AuthorPush(e))
              \/ UNCHANGED vars
       PROVE  MemoInv'
  <2>1. UNCHANGED <<pc, result, want>>
    BY <1>10 DEF Claim, EndLease, IndexRead, AuthorPush, calls, vars
  <2> QED
    BY <1>0, <2>1 DEF MemoInv
<1>11. ASSUME Crash PROVE MemoInv'
  <2>1. /\ \A a \in Actors : pc'[a] = IF pc[a] = "idle" \/ a \in Queries THEN "idle" ELSE "done"
        /\ \A c \in Calls : result'[c] = IF pc[c] \in {"idle", "done"} THEN result[c] ELSE "lost"
    BY <1>11 DEF Crash
  <2> QED
    BY <1>0, <2>1, KindsOfActors DEF MemoInv, Refused, Results
<1> QED
  BY <1>4, <1>5, <1>6, <1>7, <1>8, <1>9, <1>10, <1>11, KindsOfActors DEF Next

AckedWrites == {w \in Writes : result[w] = "ok"}

\* What is acknowledged is at the tip, was fetched, and is in the worktree's branch.
AckedKept ==
    AckedWrites \subseteq Tree(origin["spec"]) \cap Tree(mirror["spec"]) \cap Tree(head)

\* It is in the corpus too, and what the kernel has answered is, but for a rebuild.
Filling == \E c \in Calls : pc[c] \in Rebuilding
CorpusHolds ==
    /\ signature # 0 => AckedWrites \subseteq root \/ Filling
    /\ applied \subseteq root \/ Filling
    /\ \A c \in Calls : pc[c] = "fill" =>
            left \subseteq Tree(mirror["spec"]) /\ AckedWrites \subseteq root \cup left

\* A write carries itself, and all that was acknowledged, from the corpus to its commit.
Loaded == {"apply", "sync", "commit", "push", "reconcile", "repush"}
Carries(w) ==
    /\ pc[w] \in Loaded => AckedWrites \subseteq root
    /\ pc[w] \in Loaded \ {"apply"} => w \in root
    /\ pc[w] = "commit" => root = tree
    /\ pc[w] \in {"push", "reconcile", "repush"} => w \in Tree(head)
WriteCarries == \A w \in Writes : Carries(w)

\* The inductive invariant where no read, no look of the registry and no failure of
\* the local disk gets in between.
AckInv == AckedKept /\ CorpusHolds /\ WriteCarries

\* A replay loses nothing of the worktree's branch, however far authors have got.
LEMMA ReplayKeeps ==
    ASSUME TypeInv, ChainInv, head \in 1..Len(commits)
    PROVE  /\ Tree(head) \subseteq Merged(origin["spec"], head)
           /\ Past(head) \subseteq Past(origin["spec"]) => Tree(head) \subseteq Tree(origin["spec"])
<1> SUFFICES ASSUME NEW o, o = origin["spec"]
             PROVE  /\ Tree(head) \subseteq Merged(o, head)
                    /\ Past(head) \subseteq Past(o) => Tree(head) \subseteq Tree(o)
  OBVIOUS
<1>1. PICK p \in Past(o) : Adds(p, o) /\ p \in Past(head)
  <2>1. head # 0
    BY ChainRefs
  <2> QED
    BY <2>1 DEF ChainInv, BasedOn
<1>2. o \in 1..Len(commits) /\ o \in Past(o) /\ \A k \in Past(o) : k <= o /\ k \in Nat
  BY ChainRefs, HistoryFacts
<1>3. ASSUME NEW k \in Past(o), p <= k PROVE Tree(k) \subseteq Tree(o)
  BY <1>1, <1>2, <1>3 DEF Adds
<1>4. Tree(head) \subseteq Merged(o, head)
  <2>1. /\ MergeBase(o, head) \in Past(o) \cap Past(head)
        /\ \A l \in Past(o) \cap Past(head) : l <= MergeBase(o, head)
    BY <1>2, ChainRefs, MergeBaseIsNewest
  <2>2. Tree(MergeBase(o, head)) \subseteq Tree(o)
    BY <1>1, <1>3, <2>1
  <2> QED
    BY <2>2 DEF Merged
<1>5. ASSUME Past(head) \subseteq Past(o) PROVE Tree(head) \subseteq Tree(o)
  <2>1. head \in Past(head) /\ \A k \in Past(head) : k <= head
    BY ChainRefs, HistoryFacts
  <2> QED
    BY <1>1, <1>3, <1>5, <2>1
<1> QED
  BY <1>4, <1>5

\* A topic removes nothing from the spec it is merged into.
LEMMA MergeKeeps ==
    ASSUME HistoryOK, NEW s, NEW b \in 1..Len(commits), NEW t \in 1..Len(commits),
           Forked(t, s), Past(s) \subseteq Past(b)
    PROVE  Tree(b) \subseteq Merged(b, t)
<1>1. t # 0
  BY HistoryFacts
<1>2. PICK m \in Past(t) \cap Past(s) : \A k \in Past(t) : m <= k => Tree(k) \subseteq Tree(t)
  BY <1>1 DEF Forked
<1>3. /\ MergeBase(b, t) \in Past(b) \cap Past(t)
      /\ \A l \in Past(b) \cap Past(t) : l <= MergeBase(b, t)
  BY MergeBaseIsNewest
<1>4. Tree(MergeBase(b, t)) \subseteq Tree(t)
  BY <1>2, <1>3
<1> QED
  BY <1>4 DEF Merged

LEMMA NoCommitStep == ASSUME HistoryOK, UNCHANGED commits PROVE ~CommitStep
<1>1. Len(commits) \in Nat
  BY HistoryFacts
<1>2. ASSUME CommitStep PROVE Len(commits') = Len(commits) + 1
  BY <1>2 DEF CommitStep, Added
<1>3. CASE CommitStep
  BY <1>1, <1>2, <1>3
<1> QED
  BY <1>3

\* What every commit of the service keeps, all refs keep.
LEMMA KeptStays ==
    ASSUME TypeInv, HeadMade, [Next]_vars, AckedKept, AckedWrites' \subseteq AckedWrites,
           CommitStep => AckedWrites \subseteq Tree(head)'
    PROVE  AckedKept'
<1> SUFFICES ASSUME NEW A, NEW o, NEW m, NEW h, A = AckedWrites,
                    o = origin'["spec"], m = mirror'["spec"], h = head'
             PROVE  A \subseteq Tree(o)' \cap Tree(m)' \cap Tree(h)'
  BY DEF AckedKept
<1>1. A \subseteq Tree(origin["spec"]) /\ A \subseteq Tree(mirror["spec"]) /\ A \subseteq Tree(head)
  BY DEF AckedKept
<1>2. CASE QuietStep
  <2>1. o = origin["spec"] /\ m \in {origin["spec"], mirror["spec"]}
        /\ h \in {head, origin["spec"], mirror["spec"]}
    BY <1>2, ChainRefs DEF QuietStep, Branches
  <2>2. \A k : Tree(k)' = Tree(k)
    BY <1>2 DEF QuietStep, Tree
  <2> QED
    BY <1>1, <2>1, <2>2
<1>3. CASE PushStep
  <2>1. /\ UNCHANGED origin \/ origin' = [origin EXCEPT !["spec"] = head]
        /\ UNCHANGED mirror \/ mirror' = [mirror EXCEPT !["spec"] = head]
    BY <1>3 DEF PushStep, Pushed, PushRaises
  <2>2. o \in {origin["spec"], head} /\ m \in {mirror["spec"], head} /\ h = head
    BY <1>3, <2>1, ChainRefs DEF Branches, PushStep
  <2>3. \A k : Tree(k)' = Tree(k)
    BY <1>3 DEF PushStep, Tree
  <2> QED
    BY <1>1, <2>2, <2>3
<1>4. CASE CommitStep
  <2>1. Grown /\ o = origin["spec"] /\ m \in {origin["spec"], mirror["spec"]}
    BY <1>4 DEF CommitStep, Added
  <2>2. Tree(o)' = Tree(o) /\ Tree(m)' = Tree(m)
    BY <2>1, ChainRefs DEF Grown
  <2>3. A \subseteq Tree(h)'
    BY <1>4
  <2> QED
    BY <1>1, <2>1, <2>2, <2>3
<1>5. ASSUME NEW e \in Edits \cup TopicEdits, AuthorPush(e)
      PROVE  A \subseteq Tree(o)' \cap Tree(m)' \cap Tree(h)'
  <2> DEFINE b == IF e \in Edits THEN "spec" ELSE "topic"
  <2>1. /\ UNCHANGED <<mirror, head>> /\ origin[b] # 0
        /\ Commit(Past(origin[b]), Tree(origin[b]) \cup {e}, TRUE)
        /\ origin' = [origin EXCEPT ![b] = NewCommit]
    BY <1>5 DEF AuthorPush
  <2>2. PICK i \in 1..Len(commits) : i = origin[b]
    BY <2>1, ChainRefs
  <2>3. Tree(i) \cup {e} \in SUBSET Items /\ Past(i) \cup Past(0) = Past(i)
    BY ChainRefs, HistoryFacts DEF Items
  <2>4. Commit(Past(i) \cup Past(0), Tree(i) \cup {e}, TRUE)
    BY <2>1, <2>2, <2>3
  <2>5. HistoryOK /\ 0 \in 0..Len(commits) /\ TRUE \in BOOLEAN
    BY ChainRefs
  <2>6. Added(Past(i) \cup Past(0), Tree(i) \cup {e})
    BY <2>3, <2>4, <2>5, CommitOnTop
  <2>7. PICK n : n = NewCommit
    OBVIOUS
  <2>8. Grown /\ Tree(n)' = Tree(i) \cup {e}
    BY <2>6, <2>7 DEF Added
  <2>9. m = mirror["spec"] /\ h = head /\ (o = origin["spec"] \/ (o = n /\ i = origin["spec"]))
    BY <2>1, <2>2, <2>7, ChainRefs DEF Branches
  <2> HIDE DEF b
  <2>10. Tree(m)' = Tree(m) /\ Tree(h)' = Tree(h) /\ (o = origin["spec"] => Tree(o)' = Tree(o))
    BY <2>8, <2>9, ChainRefs DEF Grown
  <2> QED
    BY <1>1, <2>8, <2>9, <2>10
<1> QED
  BY <1>2, <1>3, <1>4, <1>5, GitSteps

LEMMA AckedSame == ASSUME UNCHANGED result PROVE AckedWrites' = AckedWrites
  BY DEF AckedWrites

LEMMA AckedFinish ==
    ASSUME LockInv, NEW c \in Calls, NEW answer, Finish(c, answer),
           answer # "ok" \/ c \notin Writes \/ answer = result[c]
    PROVE  AckedWrites' \subseteq AckedWrites
  BY KindsOfActors DEF AckedWrites, Finish, LockInv, LockTypeOK

LEMMA HolderOnly ==
    ASSUME LockInv, NEW c \in Calls, Holds(c), NEW label, Goto(c, label)
    PROVE  \A d \in Calls : /\ d # c => pc[d] \in {"idle", "queued", "done"}
                            /\ d # c => pc'[d] \in {"idle", "queued", "done"}
                            /\ d = c => pc'[d] = label
  BY GotoMoves, KindsOfActors DEF LockInv, OneHolder, Holds, Inside

LEMMA HolderCarries ==
    ASSUME LockInv, NEW c \in Calls, Holds(c), NEW label, Goto(c, label),
           c \in Writes => Carries(c)' \/ label \notin Loaded
    PROVE  WriteCarries'
<1> SUFFICES ASSUME NEW w \in Writes PROVE Carries(w)'
  BY DEF WriteCarries
<1>1. CASE w = c
  BY <1>1, HolderOnly, KindsOfActors DEF Carries, Loaded
<1>2. CASE w # c
  BY <1>2, HolderOnly, KindsOfActors DEF Carries, Loaded
<1> QED
  BY <1>1, <1>2

LEMMA HolderCorpus ==
    ASSUME LockInv, CorpusHolds, NEW c \in Calls, Holds(c), NEW label, Goto(c, label),
           label # "fill", pc[c] \notin Rebuilding,
           UNCHANGED <<root, applied>>, signature' \in {signature, 0},
           AckedWrites' \subseteq AckedWrites
    PROVE  CorpusHolds'
<1>1. ~Filling
  BY HolderOnly DEF Filling, Rebuilding
<1>2. \A d \in Calls : pc'[d] # "fill"
  BY HolderOnly
<1> QED
  BY <1>1, <1>2 DEF CorpusHolds

\* A call that has no part in the corpus, before the step and after it.
Waits(c) == pc[c] \notin Rebuilding /\ pc'[c] \notin Loaded \cup Rebuilding

\* Steps of nobody in particular, or of a call that waits.
LEMMA OtherAcks ==
    ASSUME TypeInv, Grown, CorpusHolds, WriteCarries,
           UNCHANGED <<mirror, head, tree, root, signature, left, applied>>,
           AckedWrites' \subseteq AckedWrites,
           \A c \in Calls : pc'[c] = pc[c] \/ Waits(c)
    PROVE  CorpusHolds' /\ WriteCarries'
<1>1. CorpusHolds'
  <2>1. Tree(mirror["spec"])' = Tree(mirror["spec"])
    BY ChainRefs DEF Grown
  <2>2. \A c \in Calls : (pc'[c] = "fill" => pc[c] = "fill") /\ (pc[c] \in Rebuilding => pc'[c] \in Rebuilding)
    BY DEF Waits, Rebuilding
  <2> QED
    BY <2>1, <2>2 DEF CorpusHolds, Filling
<1>2. ASSUME NEW w \in Writes PROVE Carries(w)'
  <2>1. Carries(w) /\ w \in Calls
    BY KindsOfActors DEF WriteCarries
  <2>2. Tree(head)' = Tree(head)
    BY ChainRefs DEF Grown
  <2> QED
    BY <2>1, <2>2 DEF Carries, Loaded, Waits
<1> QED
  BY <1>1, <1>2 DEF WriteCarries

\* The holder moves on, or answers, without a commit and without touching the corpus.
LEMMA HolderAcks ==
    ASSUME TypeInv, HeadMade, AckInv, [Next]_vars, UNCHANGED <<commits, root, applied>>,
           signature' \in {signature, 0}, AckedWrites' \subseteq AckedWrites,
           NEW c \in Calls, Holds(c), pc[c] \notin Rebuilding, NEW label, Goto(c, label), label # "fill",
           c \in Writes => Carries(c)' \/ label \notin Loaded
    PROVE  AckInv'
<1>1. LockInv
  BY DEF TypeInv
<1>2. ~CommitStep
  BY NoCommitStep DEF TypeInv
<1>3. AckedKept'
  BY <1>2, KeptStays DEF AckInv
<1>4. CorpusHolds'
  BY <1>1, HolderCorpus DEF AckInv
<1>5. WriteCarries'
  BY <1>1, HolderCarries
<1> QED
  BY <1>3, <1>4, <1>5 DEF AckInv

\* The holder answers, and acknowledges nothing new.
LEMMA HolderAnswers ==
    ASSUME TypeInv, HeadMade, AckInv, [Next]_vars, UNCHANGED <<commits, root, applied>>,
           signature' \in {signature, 0}, NEW c \in Calls, Holds(c), pc[c] \notin Rebuilding,
           NEW answer, Finish(c, answer), answer # "ok" \/ c \notin Writes \/ answer = result[c]
    PROVE  AckInv'
<1>1. AckedWrites' \subseteq AckedWrites
  BY AckedFinish DEF TypeInv
<1>2. Goto(c, "done") /\ "done" \notin Loaded
  BY DEF Finish, Loaded
<1> QED
  BY <1>1, <1>2, HolderAcks

\* A step that neither commits nor moves the head, by a call that waits or by nobody.
LEMMA OtherInv ==
    ASSUME TypeInv, HeadMade, AckInv, [Next]_vars,
           UNCHANGED <<commits, mirror, head, tree, root, signature, left, applied>>,
           AckedWrites' \subseteq AckedWrites,
           \A c \in Calls : pc'[c] = pc[c] \/ Waits(c)
    PROVE  AckInv'
<1>1. AckedKept'
  BY NoCommitStep, KeptStays DEF TypeInv, AckInv
<1>2. CorpusHolds' /\ WriteCarries'
  BY UnchangedGrows, OtherAcks DEF AckInv
<1> QED
  BY <1>1, <1>2 DEF AckInv

LEMMA IssueAcks ==
    ASSUME TypeInv, HeadMade, AckInv, [Next]_vars, NEW c \in Calls, Issue(c) PROVE AckInv'
<1>1. LockInv /\ c \in Actors /\ pc[c] = "idle"
  BY KindsOfActors DEF TypeInv, Issue
<1>2. UNCHANGED <<commits, mirror, head, tree, root, signature, left, applied>>
  BY DEF Issue, git, corpus
<1>3. AckedWrites' \subseteq AckedWrites
  <2>1. CASE UNCHANGED result
    BY <2>1, AckedSame
  <2>2. CASE result' = [result EXCEPT ![c] = "claim held"]
    BY <1>1, <2>2, KindsOfActors DEF AckedWrites, LockInv, LockTypeOK
  <2> QED
    BY <2>1, <2>2 DEF Issue
<1>4. Goto(c, "done") \/ Goto(c, "queued")
  BY DEF Issue
<1>5. \A d \in Calls : pc'[d] = pc[d] \/ Waits(d)
  BY <1>1, <1>4, GotoMoves, KindsOfActors DEF Loaded, Waits, Rebuilding
<1> QED
  BY <1>2, <1>3, <1>5, OtherInv

LEMMA EnteredHolds ==
    ASSUME TypeInv, NEW c \in Calls, pc[c] \notin {"idle", "queued", "done"} PROVE Holds(c)
  BY InsideHolds DEF TypeInv

LEMMA WriteAcks ==
    ASSUME TypeInv, HeadMade, ChainInv, MemoInv, AckInv, Undisturbed, [Next]_vars,
           NEW w \in Writes, WriteStep(w) \/ Retry(w)
    PROVE  AckInv'
<1> USE DEF Rebuilding
<1>0. w \in Calls /\ w \in Actors /\ LockInv /\ Carries(w) /\ "disk" \notin cast
  BY KindsOfActors DEF TypeInv, AckInv, WriteCarries, Undisturbed
<1>1. CASE Issue(w)
  BY <1>0, <1>1, IssueAcks
<1>2. CASE EnterWrite(w)
  <2>1. /\ Goto(w, "root") /\ Holds(w) /\ pc[w] \notin Rebuilding
        /\ UNCHANGED <<commits, root, applied, signature, result>>
    BY <1>2 DEF EnterWrite, corpus
  <2> QED
    BY <1>0, <2>1, AckedSame, HolderAcks DEF Loaded
<1>3. CASE Apply(w)
  <2>1. Holds(w) /\ pc[w] = "apply" /\ ~Filling
    <3>1. Holds(w) /\ pc[w] = "apply"
      BY <1>0, <1>3, EnteredHolds DEF Apply
    <3>2. ASSUME NEW d \in Calls, pc[d] \in Rebuilding PROVE FALSE
      <4>1. Holds(d)
        BY <3>2, EnteredHolds DEF Rebuilding
      <4> QED
        BY <3>1, <3>2, <4>1 DEF Holds, Rebuilding
    <3> QED
      BY <3>1, <3>2 DEF Filling
  <2>2. CASE Finish(w, "refused") /\ UNCHANGED <<root, applied>>
    <3>1. UNCHANGED <<commits, root, applied, signature>>
      BY <1>3, <2>2 DEF Apply, git
    <3> QED
      BY <1>0, <2>1, <2>2, <3>1, HolderAnswers
  <2>3. CASE /\ root' = (IF w \in applied THEN root ELSE root \cup {w})
             /\ applied' = applied \cup {w} /\ Goto(w, "sync") /\ UNCHANGED result
    <3>1. AckedWrites' = AckedWrites /\ UNCHANGED commits /\ signature' = signature
      BY <1>3, <2>3, AckedSame DEF Apply, git
    <3>2. AckedWrites \subseteq root /\ applied \subseteq root
      BY <1>0, <2>1 DEF Carries, Loaded, AckInv, CorpusHolds
    <3>3. AckedKept'
      BY <3>1, NoCommitStep, KeptStays DEF TypeInv, AckInv
    <3>4. w \in root' /\ root \subseteq root' /\ applied' \subseteq root'
      BY <2>3, <3>2
    <3>5. CorpusHolds'
      <4>1. \A d \in Calls : pc'[d] # "fill"
        BY <1>0, <2>1, <2>3, HolderOnly
      <4> QED
        BY <3>1, <3>2, <3>4, <4>1 DEF CorpusHolds
    <3>6. Carries(w)'
      <4>1. pc'[w] = "sync"
        BY <1>0, <2>3, GotoMoves
      <4> QED
        BY <3>1, <3>2, <3>4, <4>1 DEF Carries
    <3> QED
      BY <1>0, <2>1, <2>3, <3>3, <3>5, <3>6, HolderCarries DEF AckInv
  <2> QED
    BY <1>3, <2>2, <2>3 DEF Apply
<1>4. CASE Sync(w)
  <2>1. Holds(w) /\ pc[w] = "sync" /\ UNCHANGED <<commits, head, root, applied, signature, result>>
    BY <1>0, <1>4, EnteredHolds DEF Sync, corpus
  <2>2. w \in root /\ AckedWrites \subseteq root
    BY <1>0, <2>1 DEF Carries, Loaded
  <2>3. tree' = root /\ Goto(w, "commit")
    BY <1>0, <1>4, <2>2 DEF Sync, Fails
  <2>4. Carries(w)'
    <3>1. pc'[w] = "commit" /\ AckedWrites' = AckedWrites
      BY <1>0, <2>1, <2>3, GotoMoves, AckedSame
    <3> QED
      BY <2>1, <2>2, <2>3, <3>1 DEF Carries
  <2> QED
    BY <1>0, <2>1, <2>3, <2>4, AckedSame, HolderAcks
<1>5. CASE CommitWrite(w)
  <2>1. /\ Holds(w) /\ pc[w] = "commit" /\ UNCHANGED <<root, applied, signature, result>>
        /\ Commit(Past(head), tree, FALSE) /\ head' = NewCommit /\ Goto(w, "push")
    BY <1>0, <1>5, EnteredHolds DEF CommitWrite, corpus, Fails
  <2>2. w \in root /\ AckedWrites \subseteq root /\ root = tree /\ AckedWrites' = AckedWrites
    BY <1>0, <2>1, AckedSame DEF Carries, Loaded
  <2>3. Tree(head)' = tree
    <3>1. head \in 1..Len(commits) /\ tree \in SUBSET Items /\ 0 \in 0..Len(commits)
      BY <1>0, <2>1, ChainRefs DEF HeadMade, Inside, TypeInv, RefsOK
    <3>2. Commit(Past(head) \cup Past(0), tree, FALSE)
      BY <2>1, ChainRefs
    <3>3. Added(Past(head) \cup Past(0), tree)
      BY <3>1, <3>2, ChainRefs, CommitOnTop
    <3> QED
      BY <2>1, <3>3 DEF Added
  <2>4. AckedKept'
    BY <2>2, <2>3, KeptStays DEF AckInv
  <2>5. CorpusHolds'
    <3>1. pc[w] \notin Rebuilding
      BY <2>1
    <3> QED
      BY <1>0, <2>1, <2>2, <3>1, HolderCorpus DEF AckInv
  <2>6. Carries(w)'
    <3>1. pc'[w] = "push"
      BY <1>0, <2>1, GotoMoves
    <3> QED
      BY <2>1, <2>2, <2>3, <3>1 DEF Carries
  <2> QED
    BY <1>0, <2>1, <2>4, <2>5, <2>6, HolderCarries DEF AckInv
<1>6. CASE RefuseForeign(w)
  <2>1. Holds(w) /\ pc[w] \notin Rebuilding /\ UNCHANGED <<commits, root, applied, signature>> /\ Finish(w, "foreign")
    BY <1>0, <1>6, EnteredHolds DEF RefuseForeign, git, corpus
  <2> QED
    BY <1>0, <2>1, HolderAnswers
<1>7. CASE PushWrite(w)
  <2>1. /\ Holds(w) /\ pc[w] \in {"push", "repush"} /\ Pushed("spec", head)
        /\ UNCHANGED <<commits, head, root, applied, signature>> /\ Goto(w, "refresh")
        /\ result' = [result EXCEPT ![w] = "ok"]
    BY <1>0, <1>7, EnteredHolds DEF PushWrite, corpus
  <2>2. AckedWrites' \subseteq AckedWrites \cup {w}
    BY <1>0, <2>1 DEF AckedWrites, LockInv, LockTypeOK
  <2>3. w \in Tree(head) /\ w \in root /\ AckedWrites \subseteq root
    BY <1>0, <2>1 DEF Carries, Loaded
  <2>4. origin'["spec"] = head /\ mirror'["spec"] = head /\ head' = head
    BY <2>1, ChainRefs DEF Pushed, Branches
  <2>5. AckedKept'
    <3>1. PICK h : h = head
      OBVIOUS
    <3>2. Tree(h)' = Tree(h)
      BY <2>1 DEF Tree
    <3>3. AckedWrites' \subseteq Tree(h)'
      BY <2>2, <2>3, <3>1, <3>2 DEF AckInv, AckedKept
    <3> QED
      BY <2>4, <3>1, <3>3 DEF AckedKept
  <2>6. CorpusHolds'
    <3>1. ~Filling /\ \A d \in Calls : pc'[d] # "fill"
      BY <1>0, <2>1, HolderOnly DEF Filling, Rebuilding
    <3> QED
      BY <2>1, <2>2, <2>3, <3>1 DEF CorpusHolds, AckInv
  <2> QED
    BY <1>0, <2>1, <2>5, <2>6, HolderCarries DEF AckInv, Loaded
<1>8. CASE PushWriteRaises(w)
  <2>1. /\ Holds(w) /\ pc[w] \in {"push", "repush"} /\ UNCHANGED <<commits, head, root, applied, signature>>
        /\ (Goto(w, "reconcile") /\ UNCHANGED result) \/ Finish(w, "push failed")
    BY <1>0, <1>8, EnteredHolds DEF PushWriteRaises, corpus
  <2>2. CASE Goto(w, "reconcile") /\ UNCHANGED result
    <3>1. Carries(w)'
      <4>1. pc'[w] = "reconcile" /\ AckedWrites' = AckedWrites
        BY <1>0, <2>2, GotoMoves, AckedSame
      <4>2. Tree(head)' = Tree(head)
        BY <2>1 DEF Tree
      <4> QED
        BY <1>0, <2>1, <4>1, <4>2 DEF Carries, Loaded
    <3> QED
      BY <1>0, <2>1, <2>2, <3>1, AckedSame, HolderAcks
  <2>3. CASE Finish(w, "push failed")
    <3>1. pc[w] \notin Rebuilding
      BY <2>1
    <3> QED
      BY <1>0, <2>1, <2>3, <3>1, HolderAnswers
  <2> QED
    BY <2>1, <2>2, <2>3
<1>9. CASE Reconcile(w)
  <2>1. /\ Holds(w) /\ pc[w] = "reconcile" /\ UNCHANGED <<origin, root, applied, signature, result>>
        /\ Goto(w, "repush") /\ head \in 1..Len(commits)
    BY <1>0, <1>9, EnteredHolds, ChainRefs DEF Reconcile, corpus, HeadMade, Inside
  <2>2. /\ w \in Tree(head) /\ w \in root /\ AckedWrites \subseteq root /\ AckedWrites' = AckedWrites
        /\ AckedWrites \subseteq Tree(head)
    BY <1>0, <2>1, AckedSame DEF Carries, Loaded, AckInv, AckedKept
  <2>3. Tree(head) \subseteq Tree(head)' /\ (CommitStep => AckedWrites \subseteq Tree(head)')
    <3>1. CASE UNCHANGED <<commits, head>>
      <4>1. Tree(head)' = Tree(head)
        BY <3>1 DEF Tree
      <4> QED
        BY <2>2, <4>1
    <3>2. CASE UNCHANGED commits /\ head' = origin["spec"] /\ Past(head) \subseteq Past(origin["spec"])
      <4>1. Tree(head) \subseteq Tree(origin["spec"])
        BY <2>1, <3>2, ReplayKeeps
      <4>2. Tree(head)' = Tree(origin["spec"])
        BY <3>2 DEF Tree
      <4> QED
        BY <2>2, <4>1, <4>2
    <3>3. CASE Replay
      <4> DEFINE o == origin["spec"]
                 f == \E i \in Past(head) \ Past(o) : commits[i].foreign
                 T == Merged(o, head)
      <4>1. /\ Commit(Past(o) \cup Past(0), T, f) /\ head' = NewCommit /\ T \in SUBSET Items
            /\ f \in BOOLEAN /\ 0 \in 0..Len(commits) /\ o \in 1..Len(commits) /\ Tree(head) \subseteq T
        <5>1. Commit(Past(o) \cup Past(0), T, f) /\ head' = NewCommit
          BY <3>3, ChainRefs DEF Replay
        <5>2. f \in BOOLEAN
          OBVIOUS
        <5> HIDE DEF f
        <5> QED
          BY <2>1, <5>1, <5>2, ChainRefs, MergedIsContent, ReplayKeeps
      <4> HIDE DEF f, T, o
      <4>2. Added(Past(o) \cup Past(0), T)
        BY <4>1, ChainRefs, CommitOnTop
      <4>3. Tree(head)' = T
        BY <4>1, <4>2 DEF Added
      <4> QED
        BY <2>2, <4>1, <4>3
    <3> QED
      BY <1>9, <3>1, <3>2, <3>3 DEF Reconcile
  <2>4. AckedKept'
    BY <2>2, <2>3, KeptStays DEF AckInv
  <2>5. CorpusHolds'
    <3>1. pc[w] \notin Rebuilding
      BY <2>1
    <3> QED
      BY <1>0, <2>1, <2>2, <3>1, HolderCorpus DEF AckInv
  <2>6. Carries(w)'
    <3>1. pc'[w] = "repush"
      BY <1>0, <2>1, GotoMoves
    <3> QED
      BY <2>1, <2>2, <2>3, <3>1 DEF Carries
  <2> QED
    BY <1>0, <2>1, <2>4, <2>5, <2>6, HolderCarries DEF AckInv
<1>10. CASE ReconcileRaises(w)
  <2>1. Holds(w) /\ pc[w] \notin Rebuilding /\ UNCHANGED <<commits, root, applied, signature>> /\ Finish(w, "push failed")
    BY <1>0, <1>10, EnteredHolds DEF ReconcileRaises, corpus
  <2> QED
    BY <1>0, <2>1, HolderAnswers
<1>11. CASE Retry(w)
  <2>1. /\ pc[w] = "done" /\ Goto(w, "idle") /\ result' = [result EXCEPT ![w] = "none"]
        /\ UNCHANGED <<commits, mirror, head, tree, root, signature, left, applied>>
    BY <1>0, <1>11 DEF Retry, MemoInv, Refused, Results, git, corpus
  <2>2. AckedWrites' \subseteq AckedWrites
    BY <1>0, <2>1 DEF AckedWrites, LockInv, LockTypeOK
  <2>3. \A d \in Calls : pc'[d] = pc[d] \/ Waits(d)
    BY <1>0, <2>1, GotoMoves, KindsOfActors DEF Loaded, Waits, Rebuilding
  <2> QED
    BY <2>1, <2>2, <2>3, OtherInv
<1> QED
  BY <1>1, <1>2, <1>3, <1>4, <1>5, <1>6, <1>7, <1>8, <1>9, <1>10, <1>11 DEF WriteStep

\* A merge takes a topic into a tip that holds what is acknowledged.
LEMMA MergeAcks ==
    ASSUME TypeInv, ChainInv, AckedKept, NEW c \in Calls, MergeTopic(c), CommitStep
    PROVE  AckedWrites \subseteq Tree(head)'
<1> DEFINE spec == mirror'["spec"]
           topic == mirror'["topic"]
           base == IF Past(WorktreeHead(spec)) \subseteq Past(spec) THEN spec ELSE WorktreeHead(spec)
           T == Merged(base, topic)
<1>1. HistoryOK /\ RefsOK /\ Fetch /\ commits' # commits
  BY NoCommitStep DEF TypeInv, MergeTopic
<1>2. mirror' \in {mirror, origin} /\ spec \in 1..Len(commits) /\ topic \in 0..Len(commits)
  BY <1>1, FetchFacts
<1>3. /\ ~(Past(topic) \subseteq Past(base)) /\ head' = NewCommit /\ Past(spec) \subseteq Past(base)
      /\ Commit(Past(base) \cup Past(topic), T, FALSE)
  BY <1>1 DEF MergeTopic
<1>4. base = spec \/ (base = head /\ head # 0)
  BY DEF WorktreeHead
<1>5. AckedWrites \subseteq Tree(base) /\ base \in 1..Len(commits)
  <2>1. spec = mirror["spec"] \/ spec = origin["spec"]
    BY <1>2
  <2> HIDE DEF spec, base
  <2> QED
    BY <1>2, <1>4, <2>1, ChainRefs DEF AckedKept
<1>6. Forked(topic, spec)
  BY <1>2 DEF ChainInv
<1> HIDE DEF spec, topic, base
<1>7. topic \in 1..Len(commits)
  BY <1>2, <1>3, ChainRefs
<1>8. Tree(base) \subseteq T /\ T \in SUBSET Items
  BY <1>1, <1>3, <1>5, <1>6, <1>7, MergeKeeps, MergedIsContent
<1> HIDE DEF T
<1>9. Added(Past(base) \cup Past(topic), T)
  BY <1>1, <1>2, <1>3, <1>5, <1>8, CommitOnTop
<1> QED
  BY <1>3, <1>5, <1>8, <1>9 DEF Added

LEMMA BranchAcks ==
    ASSUME TypeInv, HeadMade, ChainInv, AckInv, [Next]_vars, NEW c \in Branching, BranchStep(c)
    PROVE  AckInv'
<1> USE DEF Rebuilding
<1>0. c \in Calls /\ c \in Actors /\ c \notin Writes /\ LockInv
  BY KindsOfActors DEF TypeInv
<1> DEFINE Moves == \E label : Goto(c, label) /\ label # "fill"
           Quiet == UNCHANGED result \/ \E answer : result' = [result EXCEPT ![c] = answer]
<1>1. ASSUME Quiet PROVE AckedWrites' \subseteq AckedWrites
  <2>1. \A w \in Writes : result'[w] = result[w]
    BY <1>0, <1>1, KindsOfActors DEF LockInv, LockTypeOK
  <2> QED
    BY <2>1 DEF AckedWrites
<1>2. ASSUME Holds(c), pc[c] \notin Rebuilding, Moves, Quiet, UNCHANGED <<commits, root, applied, signature>>
      PROVE  AckInv'
  <2>1. PICK label : Goto(c, label) /\ label # "fill"
    BY <1>2
  <2>2. AckedWrites' \subseteq AckedWrites
    BY <1>1, <1>2
  <2> HIDE DEF Moves, Quiet
  <2> QED
    BY <1>0, <1>2, <2>1, <2>2, HolderAcks
<1>3. ASSUME NEW answer, Finish(c, answer) PROVE Moves /\ Quiet
  <2>1. Goto(c, "done") /\ result' = [result EXCEPT ![c] = answer]
    BY <1>3 DEF Finish
  <2>2. Moves
    BY <2>1
  <2>3. Quiet
    BY <2>1, Zenon
  <2> QED
    BY <2>2, <2>3
<1>4. ASSUME NEW label, label # "fill", Goto(c, label), Quiet PROVE Moves /\ Quiet
  BY <1>4
<1>5. CASE Issue(c)
  BY <1>0, <1>5, IssueAcks
<1>6. CASE RefuseClaimed(c) \/ CreateWork(c) \/ EnterMerge(c) \/ CheckDelete(c)
  <2>1. Holds(c) /\ pc[c] = "queued" /\ UNCHANGED <<commits, root, applied, signature>>
    BY <1>6 DEF RefuseClaimed, CreateWork, EnterMerge, CheckDelete, Enter, git, corpus
  <2> HIDE DEF Moves, Quiet
  <2>2. UNCHANGED result => Quiet
    BY DEF Quiet
  <2>3. Moves /\ Quiet
    BY <1>3, <1>4, <1>6, <2>2 DEF RefuseClaimed, CreateWork, EnterMerge, CheckDelete
  <2> QED
    BY <1>2, <2>1, <2>3
<1>7. CASE PushCreated(c) \/ PushMerge(c) \/ DropTopic(c) \/ ReadTip(c) \/ DeleteWork(c)
  <2>1. /\ pc[c] \in {"create", "pushMerge", "dropTopic", "tip", "delete"}
        /\ UNCHANGED <<commits, root, applied, signature>>
    BY <1>7 DEF PushCreated, PushMerge, DropTopic, ReadTip, DeleteWork, git, corpus
  <2>2. Holds(c) /\ pc[c] \notin Rebuilding
    BY <1>0, <2>1, EnteredHolds
  <2>3. DropTopic(c) => Quiet /\ Goto(c, "refresh")
    BY DEF DropTopic
  <2> HIDE DEF Moves, Quiet
  <2>4. UNCHANGED result => Quiet
    BY DEF Quiet
  <2>5. Moves /\ Quiet
    <3>1. CASE DropTopic(c)
      BY <1>4, <2>3, <3>1
    <3>2. CASE PushCreated(c)
      BY <1>3, <3>2 DEF PushCreated
    <3>3. CASE PushMerge(c)
      BY <1>3, <1>4, <2>4, <3>3 DEF PushMerge
    <3>4. CASE ReadTip(c)
      BY <1>3, <1>4, <2>4, <3>4 DEF ReadTip
    <3>5. CASE DeleteWork(c)
      BY <1>3, <3>5 DEF DeleteWork
    <3> QED
      BY <1>7, <3>1, <3>2, <3>3, <3>4, <3>5
  <2> QED
    BY <1>2, <2>1, <2>2, <2>5
<1>8. CASE MergeTopic(c)
  <2>1. Holds(c) /\ pc[c] = "merge" /\ UNCHANGED <<root, applied, signature>>
    BY <1>0, <1>8, EnteredHolds DEF MergeTopic, corpus
  <2> HIDE DEF Moves, Quiet
  <2>2. UNCHANGED result => Quiet
    BY DEF Quiet
  <2>3. Moves /\ Quiet
    <3>1. (Goto(c, "pushMerge") /\ UNCHANGED result) \/ Finish(c, "git failed")
      BY <1>8 DEF MergeTopic
    <3> QED
      BY <1>3, <1>4, <2>2, <3>1
  <2>4. AckedWrites' \subseteq AckedWrites
    BY <1>1, <2>3
  <2>5. AckedKept'
    BY <1>0, <1>8, <2>4, MergeAcks, KeptStays DEF AckInv
  <2>6. PICK label : Goto(c, label) /\ label # "fill"
    BY <2>3 DEF Moves
  <2>7. CorpusHolds'
    <3>1. pc[c] \notin Rebuilding
      BY <2>1
    <3> QED
      BY <1>0, <2>1, <2>4, <2>6, <3>1, HolderCorpus DEF AckInv
  <2>8. WriteCarries'
    BY <1>0, <2>1, <2>6, HolderCarries
  <2> QED
    BY <2>5, <2>7, <2>8 DEF AckInv
<1> QED
  BY <1>5, <1>6, <1>7, <1>8 DEF BranchStep

LEMMA RootAcks ==
    ASSUME TypeInv, HeadMade, MemoInv, AckInv, Undisturbed, [Next]_vars, NEW a \in Actors, RootStep(a)
    PROVE  AckInv'
<1> USE DEF Rebuilding
<1>1. a \in Calls /\ LockInv /\ a \notin Queries
  BY KindsOfActors DEF TypeInv, MemoInv, RootStep, CheckRoot, ClearRoot, ListRoot, FillRoot, SignRoot,
                       BreakRoot, Undisturbed
<1>2. Holds(a) /\ pc[a] \in {"root", "rebuild", "list", "fill"} /\ UNCHANGED <<commits, head, tree>>
  <2>1. pc[a] \in {"root", "rebuild", "list", "fill"} /\ UNCHANGED <<commits, head, tree>>
    BY <1>1, KindsOfActors DEF RootStep, CheckRoot, ClearRoot, ListRoot, FillRoot, SignRoot, BreakRoot, git
  <2> QED
    BY <1>1, <2>1, EnteredHolds
<1>3. /\ \A d \in Calls \ {a} : pc[d] \notin Rebuilding
      /\ signature # 0 => AckedWrites \subseteq root \/ pc[a] \in Rebuilding
      /\ applied \subseteq root \/ pc[a] \in Rebuilding
      /\ pc[a] = "fill" => left \subseteq Tree(mirror["spec"]) /\ AckedWrites \subseteq root \cup left
  <2>1. \A d \in Calls \ {a} : pc[d] \notin Rebuilding
    BY <1>2, EnteredHolds DEF Holds
  <2> QED
    BY <1>1, <2>1 DEF AckInv, CorpusHolds, Filling
\* Every document listed can be read: nobody else fetches meanwhile.
<1>4. ~BreakRoot(a)
  <2>1. ~Fails("disk")
    BY DEF Fails, Undisturbed
  <2> QED
    BY <1>3, <2>1 DEF BreakRoot
<1>5. UNCHANGED result /\ AckedWrites' = AckedWrites
  <2>1. UNCHANGED result
    BY <1>4 DEF RootStep, CheckRoot, ClearRoot, ListRoot, FillRoot, SignRoot
  <2> QED
    BY <2>1, AckedSame
<1>6. AckedKept /\ AckedKept'
  BY <1>2, <1>5, NoCommitStep, KeptStays DEF TypeInv, AckInv
<1>7. ASSUME NEW label, Goto(a, label), label = "apply" => AckedWrites \subseteq root',
             label \notin Loaded \ {"apply"}
      PROVE  WriteCarries' /\ pc'[a] = label /\ \A d \in Calls \ {a} : pc'[d] \notin Rebuilding
  <2>1. pc'[a] = label /\ \A d \in Calls \ {a} : pc'[d] = pc[d]
    BY <1>1, <1>7, GotoMoves, KindsOfActors
  <2>2. Carries(a)'
    BY <1>5, <1>7, <2>1 DEF Carries, Loaded
  <2> QED
    BY <1>1, <1>2, <1>3, <1>7, <2>1, <2>2, HolderCarries
<1>8. After(a) \in {"apply", "reply"}
  BY <1>1 DEF After
<1>9. CASE CheckRoot(a)
  <2>1. pc[a] = "root" /\ UNCHANGED <<root, applied, signature>>
    BY <1>1, <1>9, KindsOfActors DEF CheckRoot, corpus
  <2>2. /\ Goto(a, IF signature = mirror'["spec"] THEN After(a) ELSE "rebuild")
        /\ mirror'["spec"] # 0
    BY <1>9, FetchFacts, HistoryFacts DEF CheckRoot, Proceed, TypeInv
  <2>3. WriteCarries' /\ \A d \in Calls : pc'[d] \notin Rebuilding
    <3>1. CASE signature = mirror'["spec"]
      <4>1. AckedWrites \subseteq root'
        BY <1>3, <2>1, <2>2, <3>1
      <4> QED
        BY <1>7, <1>8, <2>2, <3>1, <4>1 DEF Loaded
    <3>2. CASE signature # mirror'["spec"]
      BY <1>7, <2>2, <3>2 DEF Loaded
    <3> QED
      BY <3>1, <3>2
  <2>4. CorpusHolds'
    BY <1>3, <1>5, <2>1, <2>3 DEF CorpusHolds
  <2> QED
    BY <1>6, <2>3, <2>4 DEF AckInv
<1>10. CASE ClearRoot(a)
  <2>1. pc[a] = "rebuild" /\ want[a] # 0 /\ UNCHANGED <<applied, signature>>
    BY <1>10 DEF ClearRoot, MemoInv
  <2>2. CASE signature = want[a]
    <3>1. Goto(a, After(a)) /\ UNCHANGED root
      BY <1>10, <2>2 DEF ClearRoot, Proceed
    <3>2. AckedWrites \subseteq root'
      BY <1>3, <2>1, <2>2, <3>1
    <3>3. WriteCarries' /\ \A d \in Calls : pc'[d] \notin Rebuilding
      BY <1>7, <1>8, <3>1, <3>2 DEF Loaded
    <3>4. CorpusHolds'
      BY <1>3, <1>5, <2>1, <3>1, <3>2, <3>3 DEF CorpusHolds
    <3> QED
      BY <1>6, <3>3, <3>4 DEF AckInv
  <2>3. CASE signature # want[a]
    <3>1. Goto(a, "list")
      BY <1>10, <2>3 DEF ClearRoot
    <3>2. WriteCarries' /\ pc'[a] = "list" /\ \A d \in Calls \ {a} : pc'[d] \notin Rebuilding
      BY <1>7, <3>1 DEF Loaded
    <3>3. CorpusHolds'
      BY <1>1, <3>2 DEF CorpusHolds, Filling
    <3> QED
      BY <1>6, <3>2, <3>3 DEF AckInv
  <2> QED
    BY <2>2, <2>3
<1>11. CASE ListRoot(a)
  <2>1. left' = Tree(mirror["spec"]) /\ Goto(a, "fill") /\ UNCHANGED mirror
    BY <1>11 DEF ListRoot, git
  <2>2. WriteCarries' /\ pc'[a] = "fill" /\ \A d \in Calls \ {a} : pc'[d] \notin Rebuilding
    BY <1>7, <2>1 DEF Loaded
  <2>3. Tree(mirror["spec"])' = Tree(mirror["spec"])
    BY <1>2, <2>1 DEF Tree
  <2>4. CorpusHolds'
    BY <1>1, <1>5, <1>6, <2>1, <2>2, <2>3 DEF CorpusHolds, Filling, AckedKept
  <2> QED
    BY <1>6, <2>2, <2>4 DEF AckInv
<1>12. CASE FillRoot(a)
  <2>1. PICK d \in left \cap Tree(mirror["spec"]) : root' = root \cup {d} /\ left' = left \ {d}
    BY <1>12 DEF FillRoot
  <2>2. pc[a] = "fill" /\ Goto(a, "fill") /\ UNCHANGED mirror
    BY <1>12 DEF FillRoot, git
  <2>3. WriteCarries' /\ pc'[a] = "fill" /\ \A c \in Calls \ {a} : pc'[c] \notin Rebuilding
    BY <1>7, <2>2 DEF Loaded
  <2>4. Tree(mirror["spec"])' = Tree(mirror["spec"])
    BY <1>2, <2>2 DEF Tree
  <2>5. left' \subseteq Tree(mirror["spec"]) /\ AckedWrites \subseteq root' \cup left'
    BY <1>3, <2>1, <2>2
  <2>6. CorpusHolds'
    BY <1>1, <1>5, <2>3, <2>4, <2>5 DEF CorpusHolds, Filling
  <2> QED
    BY <1>6, <2>3, <2>6 DEF AckInv
<1>13. CASE SignRoot(a)
  <2>1. pc[a] = "fill" /\ left = {} /\ applied' = {} /\ Goto(a, After(a)) /\ UNCHANGED root
    BY <1>13 DEF SignRoot
  <2>2. AckedWrites \subseteq root'
    BY <1>3, <2>1
  <2>3. WriteCarries' /\ \A d \in Calls : pc'[d] \notin Rebuilding
    BY <1>7, <1>8, <2>1, <2>2 DEF Loaded
  <2>4. CorpusHolds'
    BY <1>5, <2>1, <2>2, <2>3 DEF CorpusHolds
  <2> QED
    BY <1>6, <2>3, <2>4 DEF AckInv
<1> QED
  BY <1>4, <1>9, <1>10, <1>11, <1>12, <1>13 DEF RootStep

LEMMA AnswerAcks ==
    ASSUME TypeInv, HeadMade, AckInv, [Next]_vars, NEW c \in Calls, AnswerStep(c) PROVE AckInv'
<1>1. pc[c] \in {"refresh", "reply"} /\ UNCHANGED <<commits, root, applied>> /\ signature' \in {signature, 0}
  BY DEF AnswerStep, Refresh, Reply, git, corpus
<1>2. Holds(c) /\ pc[c] \notin Rebuilding
  BY <1>1, EnteredHolds DEF Rebuilding
<1>3. CASE Refresh(c)
  <2>1. Goto(c, "root") /\ UNCHANGED result
    BY <1>3 DEF Refresh
  <2> QED
    BY <1>1, <1>2, <2>1, AckedSame, HolderAcks DEF Loaded
<1>4. CASE Reply(c)
  BY <1>1, <1>2, <1>4, HolderAnswers DEF Reply
<1> QED
  BY <1>3, <1>4 DEF AnswerStep

LEMMA CrashAcks ==
    ASSUME TypeInv, HeadMade, AckInv, [Next]_vars, Crash PROVE AckInv'
<1>1. /\ UNCHANGED <<commits, root>> /\ signature' = 0 /\ applied' = {}
      /\ \A c \in Calls : pc'[c] \in {"idle", "done"}
      /\ \A c \in Calls : result'[c] \in {result[c], "lost"}
  BY KindsOfActors DEF Crash, git
<1>2. AckedWrites' \subseteq AckedWrites
  BY <1>1, KindsOfActors DEF AckedWrites
<1>3. AckedKept'
  BY <1>1, <1>2, NoCommitStep, KeptStays DEF TypeInv, AckInv
<1>4. CorpusHolds'
  BY <1>1 DEF CorpusHolds
<1>5. WriteCarries'
  BY <1>1, KindsOfActors DEF WriteCarries, Carries, Loaded
<1> QED
  BY <1>3, <1>4, <1>5 DEF AckInv

LEMMA AuthorAcks ==
    ASSUME TypeInv, HeadMade, AckInv, [Next]_vars, NEW e \in Edits \cup TopicEdits, AuthorPush(e)
    PROVE  AckInv'
<1>1. UNCHANGED <<mirror, head, tree, root, signature, left, applied, pc, result>>
  BY DEF AuthorPush, corpus, calls
<1>2. AckedWrites' = AckedWrites
  BY <1>1, AckedSame
<1>3. Grown /\ ~CommitStep
  <2>1. PICK b \in Branches : /\ origin[b] # 0 /\ Commit(Past(origin[b]), Tree(origin[b]) \cup {e}, TRUE)
                              /\ origin' = [origin EXCEPT ![b] = NewCommit]
    BY DEF AuthorPush, Branches
  <2>2. PICK i \in 1..Len(commits) : i = origin[b]
    BY <2>1, ChainRefs DEF Branches
  <2>3. Tree(i) \cup {e} \in SUBSET Items /\ Past(i) \cup Past(0) = Past(i)
    BY ChainRefs, HistoryFacts DEF Items
  <2>4. Commit(Past(i) \cup Past(0), Tree(i) \cup {e}, TRUE)
    BY <2>1, <2>2, <2>3
  <2>5. HistoryOK /\ 0 \in 0..Len(commits) /\ TRUE \in BOOLEAN
    BY ChainRefs
  <2>6. Added(Past(i) \cup Past(0), Tree(i) \cup {e})
    BY <2>3, <2>4, <2>5, CommitOnTop
  <2>7. origin' # origin
    BY <2>1, <2>2, ChainRefs DEF NewCommit
  <2> QED
    BY <2>6, <2>7 DEF Added, CommitStep
<1>4. AckedKept'
  BY <1>2, <1>3, KeptStays DEF AckInv
<1>5. CorpusHolds' /\ WriteCarries'
  BY <1>1, <1>2, <1>3, OtherAcks DEF AckInv
<1> QED
  BY <1>4, <1>5 DEF AckInv

LEMMA AckStep ==
    TypeInv /\ HeadMade /\ ChainInv /\ MemoInv /\ (Undisturbed => AckInv) /\ [Next]_vars
        => (Undisturbed => AckInv)'
<1> SUFFICES ASSUME TypeInv, HeadMade, ChainInv, MemoInv, Undisturbed => AckInv, [Next]_vars, Undisturbed'
             PROVE  AckInv'
  OBVIOUS
<1>1. Undisturbed /\ AckInv
  BY CastStays DEF Undisturbed
<1>2. ASSUME \/ \E l \in Logins : Claim(l)
             \/ EndLease \/ UNCHANGED vars
      PROVE  AckInv'
  <2>1. UNCHANGED <<commits, mirror, head, tree, root, signature, left, applied, pc, result>>
    BY <1>2 DEF Claim, EndLease, vars, git, corpus, calls
  <2> QED
    BY <1>1, <2>1, AckedSame, OtherInv
<1>3. ~IndexRead
  BY <1>1 DEF IndexRead, Undisturbed
<1> QED
  BY <1>1, <1>2, <1>3, WriteAcks, BranchAcks, RootAcks, AnswerAcks, CrashAcks, AuthorAcks DEF Next

LEMMA AckInit == Init => MemoInv /\ AckInv
  BY KindsOfActors DEF Init, MemoInv, AckInv, AckedKept, AckedWrites, CorpusHolds, WriteCarries, Carries,
                       Loaded, Refused, Results

\* A spec_patch that is answered "ok" is at the tip of the spec's branch on the
\* remote from then on, for any number of writes, merges, creations, deletions and
\* pushes of authors, in any order, whatever pushes and fetches fail and wherever
\* the service is restarted; no read and no look of the registry in between, and
\* a local disk that works (writepath.js:84).
THEOREM AckedOnRemoteAlways == Spec => []AckedOnRemote
<1> DEFINE Inv == ChainInv /\ MemoInv /\ (Undisturbed => AckInv)
<1>1. Init => Inv
  BY ChainInit, AckInit
<1>2. TypeInv /\ HeadMade /\ Inv /\ [Next]_vars => Inv'
  <2> SUFFICES ASSUME TypeInv, HeadMade, Inv, [Next]_vars PROVE Inv'
    OBVIOUS
  <2>1. ChainInv' /\ MemoInv'
    BY ChainStep, MemoStep
  <2>2. (Undisturbed => AckInv)'
    BY AckStep
  <2> QED
    BY <2>1, <2>2
<1>3. Inv => AckedOnRemote
  BY DEF AckedOnRemote, Acked, AckInv, AckedKept, AckedWrites
<1> HIDE DEF Inv
<1> QED
  BY <1>1, <1>2, <1>3, TypesInvariant, PTL DEF Spec

-----------------------------------------------------------------------------
(* What a work branch holds. *)

Merging == {"merge", "pushMerge", "dropTopic"}

\* How a call gets to the labels of a merge and of a deletion, and how it begins.
LabelsOf(c) ==
    /\ pc'[c] \in Merging => pc[c] \in Merging \/ (c \in Branching /\ EnterMerge(c))
    /\ pc'[c] = "tip" => pc[c] = "tip" \/ (c \in Branching /\ CheckDelete(c))
    /\ pc'[c] = "delete" => pc[c] = "delete" \/ (c \in Branching /\ ReadTip(c))
    /\ pc[c] = "idle" /\ c \notin cast => pc'[c] = "idle"

LEMMA LabelSteps ==
    ASSUME LockInv, [Next]_vars, NEW c \in Calls
    PROVE  LabelsOf(c)
<1> DEFINE Special == Merging \cup {"tip", "delete"}
           Elsewhere(a) == \E label : Goto(a, label) /\ label \notin Special
<1>0. c \in Actors
  BY KindsOfActors
<1>1. ASSUME UNCHANGED pc PROVE LabelsOf(c)
  BY <1>1 DEF LabelsOf
<1>2. ASSUME NEW a \in Actors, a # c, NEW label, Goto(a, label) PROVE LabelsOf(c)
  BY <1>0, <1>1, <1>2, GotoMoves DEF LabelsOf
<1>3. ASSUME Elsewhere(c), pc[c] # "idle" \/ c \in cast PROVE LabelsOf(c)
  BY <1>0, <1>3, GotoMoves DEF LabelsOf, Merging
<1>4. ASSUME NEW a, NEW answer, Finish(a, answer) PROVE Elsewhere(a)
  BY <1>4 DEF Finish, Merging
<1>5. ASSUME NEW a, NEW label, label \notin Special, Goto(a, label) PROVE Elsewhere(a)
  BY <1>5
<1>6. ASSUME NEW a
      PROVE  /\ Goto(a, "queued") => Elsewhere(a)
             /\ Goto(a, "done") => Elsewhere(a)
             /\ Goto(a, "root") => Elsewhere(a)
             /\ Goto(a, "sync") => Elsewhere(a)
             /\ Goto(a, "commit") => Elsewhere(a)
             /\ Goto(a, "push") => Elsewhere(a)
             /\ Goto(a, "reconcile") => Elsewhere(a)
             /\ Goto(a, "repush") => Elsewhere(a)
             /\ Goto(a, "refresh") => Elsewhere(a)
             /\ Goto(a, "create") => Elsewhere(a)
             /\ \A label \in {"idle", "apply", "reply", "rebuild", "list", "fill"} : Goto(a, label) => Elsewhere(a)
  <2>1. {"queued", "done", "root", "sync", "commit", "push", "reconcile", "repush", "refresh", "create",
         "idle", "apply", "reply", "rebuild", "list", "fill"} \cap Special = {}
    BY DEF Merging
  <2> HIDE DEF Elsewhere, Special
  <2> QED
    BY <1>5, <2>1
<1>7. ASSUME NEW a \in Actors, Elsewhere(a), pc[a] # "idle" \/ a \in cast PROVE LabelsOf(c)
  BY <1>2, <1>3, <1>7
<1> HIDE DEF Elsewhere, Special
<1>8. ASSUME NEW a \in Calls, Issue(a) PROVE LabelsOf(c)
  <2>1. Elsewhere(a) /\ a \in cast
    BY <1>6, <1>8 DEF Issue
  <2> QED
    BY <1>7, <2>1, KindsOfActors
<1>9. ASSUME NEW w \in Writes, WriteStep(w), ~Issue(w) PROVE LabelsOf(c)
  <2>1. pc[w] # "idle"
    BY <1>9 DEF WriteStep, EnterWrite, Apply, Sync, CommitWrite, RefuseForeign, PushWrite, PushWriteRaises,
                Reconcile, ReconcileRaises
  <2>2. Elsewhere(w)
    BY <1>4, <1>6, <1>9 DEF WriteStep, EnterWrite, Apply, Sync, CommitWrite, RefuseForeign,
                PushWrite, PushWriteRaises, Reconcile, ReconcileRaises
  <2> QED
    BY <1>7, <2>1, <2>2, KindsOfActors
<1>10. ASSUME NEW w \in Writes, Retry(w) PROVE LabelsOf(c)
  <2>1. Goto(w, "idle") /\ w \in Actors
    BY <1>10, KindsOfActors DEF Retry
  <2>2. pc'[w] = "idle"
    BY <2>1, GotoMoves
  <2> QED
    BY <1>2, <2>1, <2>2 DEF LabelsOf, Merging
<1>11. ASSUME NEW b \in Branching, BranchStep(b), ~Issue(b) PROVE LabelsOf(c)
  <2>0. b \in Actors /\ b \in Calls
    BY KindsOfActors
  <2>1. pc[b] # "idle"
    BY <1>11 DEF BranchStep, RefuseClaimed, CreateWork, PushCreated, EnterMerge, MergeTopic, PushMerge,
                 DropTopic, CheckDelete, ReadTip, DeleteWork, Enter
  <2>2. CASE RefuseClaimed(b) \/ CreateWork(b) \/ PushCreated(b) \/ DropTopic(b) \/ DeleteWork(b)
    <3>1. Elsewhere(b)
      BY <1>4, <1>6, <2>2 DEF RefuseClaimed, CreateWork, PushCreated, DropTopic, DeleteWork
    <3> QED
      BY <1>7, <2>0, <2>1, <3>1
  <2>3. CASE EnterMerge(b) \/ MergeTopic(b) \/ PushMerge(b)
    <3>1. Elsewhere(b) \/ \E label \in Merging : Goto(b, label)
      <4>1. EnterMerge(b) => Elsewhere(b) \/ Goto(b, "merge")
        BY <1>4 DEF EnterMerge
      <4>2. MergeTopic(b) => Elsewhere(b) \/ Goto(b, "pushMerge")
        BY <1>4 DEF MergeTopic
      <4>3. PushMerge(b) => Elsewhere(b) \/ Goto(b, "dropTopic")
        BY <1>4 DEF PushMerge
      <4> QED
        BY <2>3, <4>1, <4>2, <4>3 DEF Merging
    <3>2. ASSUME NEW label \in Merging, Goto(b, label) PROVE LabelsOf(c)
      <4>1. pc'[b] = label /\ (EnterMerge(b) \/ pc[b] \in Merging)
        BY <2>0, <2>3, <3>2, GotoMoves DEF MergeTopic, PushMerge, Merging
      <4> QED
        BY <1>2, <1>11, <2>0, <2>1, <3>2, <4>1 DEF LabelsOf, Merging
    <3> QED
      BY <1>7, <2>0, <2>1, <3>1, <3>2
  <2>4. CASE CheckDelete(b)
    <3>1. Elsewhere(b) \/ Goto(b, "tip")
      BY <1>4, <2>4 DEF CheckDelete
    <3>2. ASSUME Goto(b, "tip") PROVE LabelsOf(c)
      <4>1. pc'[b] = "tip"
        BY <2>0, <3>2, GotoMoves
      <4> QED
        BY <1>2, <1>11, <2>0, <2>1, <2>4, <3>2, <4>1 DEF LabelsOf, Merging
    <3> QED
      BY <1>7, <2>0, <2>1, <3>1, <3>2
  <2>5. CASE ReadTip(b)
    <3>1. Elsewhere(b) \/ Goto(b, "delete")
      BY <1>4, <2>5 DEF ReadTip
    <3>2. ASSUME Goto(b, "delete") PROVE LabelsOf(c)
      <4>1. pc'[b] = "delete"
        BY <2>0, <3>2, GotoMoves
      <4> QED
        BY <1>2, <1>11, <2>0, <2>1, <2>5, <3>2, <4>1 DEF LabelsOf, Merging
    <3> QED
      BY <1>7, <2>0, <2>1, <3>1, <3>2
  <2> QED
    BY <1>11, <2>2, <2>3, <2>4, <2>5 DEF BranchStep
<1>12. ASSUME NEW a \in Actors, RootStep(a) PROVE LabelsOf(c)
  <2>1. \E label \in {"idle", "apply", "reply", "rebuild", "list", "fill", "done"} : Goto(a, label)
    BY <1>12 DEF RootStep, CheckRoot, ClearRoot, ListRoot, FillRoot, SignRoot, BreakRoot, Proceed, Finish, After
  <2>2. pc[a] # "idle" \/ a \in cast
    BY <1>12 DEF RootStep, CheckRoot, ClearRoot, ListRoot, FillRoot, SignRoot, BreakRoot
  <2>3. Elsewhere(a)
    BY <1>6, <2>1
  <2> QED
    BY <1>7, <2>2, <2>3
<1>13. ASSUME NEW a \in Calls, AnswerStep(a) PROVE LabelsOf(c)
  <2>1. Elsewhere(a) /\ pc[a] # "idle"
    BY <1>4, <1>6, <1>13 DEF AnswerStep, Refresh, Reply
  <2> QED
    BY <1>7, <2>1, KindsOfActors
<1>14. ASSUME \/ \E l \in Logins : Claim(l)
              \/ EndLease \/ IndexRead \/ (\E e \in Edits \cup TopicEdits : AuthorPush(e))
              \/ UNCHANGED vars
       PROVE  LabelsOf(c)
  <2>1. UNCHANGED pc
    BY <1>14 DEF Claim, EndLease, IndexRead, AuthorPush, calls, vars
  <2> QED
    BY <1>1, <2>1
<1>15. ASSUME Crash PROVE LabelsOf(c)
  <2>1. pc'[c] = IF pc[c] = "idle" \/ c \in Queries THEN "idle" ELSE "done"
    BY <1>0, <1>15 DEF Crash
  <2> QED
    BY <2>1 DEF LabelsOf, Merging
<1> QED
  BY <1>8, <1>9, <1>10, <1>11, <1>12, <1>13, <1>14, <1>15, KindsOfActors DEF Next

\* Where a call is inside, another step leaves it and what it has fetched alone,
\* but for a read that fetches, and a restart.
LEMMA InsideStays ==
    ASSUME LockInv, [Next]_vars, NEW c \in Calls, Inside(c)
    PROVE  \/ c \in Writes /\ (WriteStep(c) \/ Retry(c))
           \/ c \in Branching /\ BranchStep(c)
           \/ RootStep(c) \/ AnswerStep(c) \/ Crash
           \/ \E q \in Queries : CheckRoot(q)
           \/ pc'[c] = pc[c] /\ want'[c] = want[c] /\ UNCHANGED mirror
<1> DEFINE Kept == pc'[c] = pc[c] /\ want'[c] = want[c] /\ UNCHANGED mirror
<1>1. c \in Actors /\ \A d \in Calls : d # c => ~Holds(d) /\ ~Inside(d)
  BY KindsOfActors DEF LockInv, OneHolder, Holds
<1>2. ASSUME NEW a \in Actors, a # c, NEW label, Goto(a, label), want'[c] = want[c], UNCHANGED mirror
      PROVE  Kept
  BY <1>1, <1>2, GotoMoves
<1> HIDE DEF Kept
<1>3. ASSUME NEW d \in Calls, d # c, Issue(d) \/ Retry(d) PROVE Kept
  <2>1. (\E label : Goto(d, label)) /\ UNCHANGED <<want, mirror>>
    BY <1>3 DEF Issue, Retry, git
  <2> QED
    BY <1>2, <1>3, <2>1, KindsOfActors
<1>4. ASSUME NEW w \in Writes, w # c, WriteStep(w) PROVE Kept
  <2>1. w \in Calls
    BY KindsOfActors
  <2> QED
    BY <1>1, <1>3, <1>4, <2>1 DEF WriteStep, EnterWrite, Apply, Sync, CommitWrite, RefuseForeign, PushWrite,
                PushWriteRaises, Reconcile, ReconcileRaises, Inside
<1>5. ASSUME NEW b \in Branching, b # c, BranchStep(b) PROVE Kept
  <2>1. b \in Calls
    BY KindsOfActors
  <2> QED
    BY <1>1, <1>3, <1>5, <2>1 DEF BranchStep, RefuseClaimed, CreateWork, PushCreated, EnterMerge, MergeTopic,
                PushMerge, DropTopic, CheckDelete, ReadTip, DeleteWork, Enter, Inside
<1>6. ASSUME NEW a \in Actors, a # c, RootStep(a), ~(a \in Queries /\ CheckRoot(a)) PROVE Kept
  <2>1. CASE a \in Calls
    BY <1>1, <1>6, <2>1, KindsOfActors DEF RootStep, CheckRoot, ClearRoot, ListRoot, FillRoot, SignRoot, BreakRoot, Inside
  <2>2. CASE a \notin Calls
    <3>1. ~CheckRoot(a)
      BY <1>6, <2>2, KindsOfActors
    <3>2. UNCHANGED <<want, mirror>> /\ \E label : Goto(a, label)
      BY <1>6, <3>1 DEF RootStep, ClearRoot, ListRoot, FillRoot, SignRoot, BreakRoot, Proceed, Finish, git
    <3> QED
      BY <1>2, <1>6, <3>2
  <2> QED
    BY <2>1, <2>2
<1>7. ASSUME NEW d \in Calls, d # c, AnswerStep(d) PROVE Kept
  BY <1>1, <1>7 DEF AnswerStep, Refresh, Reply, Inside
<1>8. ASSUME \/ \E l \in Logins : Claim(l)
             \/ EndLease \/ IndexRead \/ (\E e \in Edits \cup TopicEdits : AuthorPush(e))
             \/ UNCHANGED vars
      PROVE  Kept
  BY <1>8 DEF Claim, EndLease, IndexRead, AuthorPush, git, calls, vars, Kept
<1>9. ASSUME NEW w \in Writes, Retry(w), w # c PROVE Kept
  BY <1>3, <1>9, KindsOfActors
<1> QED
  BY <1>4, <1>5, <1>6, <1>7, <1>8, <1>9 DEF Next, Kept

\* What a step may do to the files of the worktree and of the corpus.
LEMMA FilesSteps ==
    ASSUME TypeInv, HeadMade, [Next]_vars
    PROVE  /\ tree' \in {tree, root, {}} \/ \E h : h = head' /\ tree' = Tree(h)'
           /\ \/ root' \in {root, {}} \/ \E d \in Tree(mirror["spec"]) : root' = root \cup {d}
              \/ \E w \in Writes : root' = root \cup {w}
<1> DEFINE TreeMoves == tree' \in {tree, root, {}} \/ \E h : h = head' /\ tree' = Tree(h)'
           CorpusMoves == \/ root' \in {root, {}} \/ \E d \in Tree(mirror["spec"]) : root' = root \cup {d}
                        \/ \E w \in Writes : root' = root \cup {w}
<1>1. ASSUME UNCHANGED commits, tree' = Tree(head') PROVE TreeMoves
  <2>1. PICK h : h = head'
    OBVIOUS
  <2>2. Tree(h)' = Tree(h)
    BY <1>1 DEF Tree
  <2> QED
    BY <1>1, <2>1, <2>2
<1>2. ASSUME UNCHANGED tree PROVE TreeMoves
  BY <1>2
<1>3. ASSUME UNCHANGED root PROVE CorpusMoves
  BY <1>3
<1>4. ASSUME tree' = commits'[NewCommit].tree, head' = NewCommit PROVE TreeMoves
  <2>1. PICK h : h = head'
    OBVIOUS
  <2>2. h # 0
    BY <1>4, <2>1, ChainRefs DEF NewCommit
  <2>3. Tree(h)' = commits'[h].tree
    BY <2>2 DEF Tree
  <2> QED
    BY <1>4, <2>1, <2>3
<1>5. ASSUME NEW w \in Writes, WriteStep(w) \/ Retry(w) PROVE TreeMoves /\ CorpusMoves
  <2>1. CASE Issue(w) \/ Retry(w) \/ CommitWrite(w) \/ RefuseForeign(w) \/ PushWrite(w) \/ PushWriteRaises(w)
             \/ ReconcileRaises(w)
    <3>1. UNCHANGED <<tree, root>>
      BY <2>1 DEF Issue, Retry, CommitWrite, RefuseForeign, PushWrite, PushWriteRaises, ReconcileRaises,
                  git, corpus
    <3> QED
      BY <1>2, <1>3, <3>1
  <2>2. CASE EnterWrite(w)
    <3>1. UNCHANGED <<commits, root>> /\ tree' = Tree(head')
      BY <2>2 DEF EnterWrite, corpus
    <3> QED
      BY <1>1, <1>3, <3>1
  <2>3. CASE Apply(w)
    BY <2>3 DEF Apply, git
  <2>4. CASE Sync(w)
    BY <2>4 DEF Sync, corpus
  <2>5. CASE Reconcile(w)
    <3>1. UNCHANGED root
      BY <2>5 DEF Reconcile, corpus
    <3>2. \/ UNCHANGED tree
          \/ UNCHANGED commits /\ tree' = Tree(head')
          \/ tree' = commits'[NewCommit].tree /\ head' = NewCommit
      BY <2>5 DEF Reconcile, Replay
    <3> QED
      BY <1>1, <1>2, <1>3, <1>4, <3>1, <3>2
  <2> HIDE DEF TreeMoves, CorpusMoves
  <2> QED
    BY <1>5, <2>1, <2>2, <2>3, <2>4, <2>5 DEF WriteStep
<1>6. ASSUME NEW c \in Branching, BranchStep(c) PROVE TreeMoves /\ CorpusMoves
  <2>1. CASE MergeTopic(c)
    <3>1. UNCHANGED root
      BY <2>1 DEF MergeTopic, corpus
    <3>2. CASE head' = NewCommit
      BY <1>3, <1>4, <2>1, <3>1, <3>2 DEF MergeTopic
    <3>3. CASE head' # NewCommit
      <4>1. UNCHANGED commits /\ tree' = Tree(head')
        BY <2>1, <3>3 DEF MergeTopic
      <4> QED
        BY <1>1, <1>3, <3>1, <4>1
    <3> QED
      BY <3>2, <3>3
  <2>2. CASE ~MergeTopic(c)
    <3>1. UNCHANGED <<tree, root>>
      BY <1>6, <2>2 DEF BranchStep, Issue, RefuseClaimed, CreateWork, PushCreated, EnterMerge, PushMerge,
                        DropTopic, CheckDelete, ReadTip, DeleteWork, git, corpus
    <3> QED
      BY <1>2, <1>3, <3>1
  <2> QED
    BY <2>1, <2>2
<1>7. ASSUME NEW a \in Actors, RootStep(a) PROVE TreeMoves /\ CorpusMoves
  BY <1>7 DEF RootStep, CheckRoot, ClearRoot, ListRoot, FillRoot, SignRoot, BreakRoot, git, corpus
<1>8. ASSUME IndexRead PROVE TreeMoves /\ CorpusMoves
  <2>1. UNCHANGED <<commits, root>> /\ tree' = Tree(head')
    BY <1>8 DEF IndexRead, corpus
  <2> QED
    BY <1>1, <1>3, <2>1
<1>9. ASSUME \/ \E c \in Calls : AnswerStep(c)
             \/ \E l \in Logins : Claim(l)
             \/ EndLease \/ Crash \/ (\E e \in Edits \cup TopicEdits : AuthorPush(e))
             \/ UNCHANGED vars
      PROVE  TreeMoves /\ CorpusMoves
  <2>1. UNCHANGED <<tree, root>>
    BY <1>9 DEF AnswerStep, Refresh, Reply, Claim, EndLease, Crash, AuthorPush, vars, git, corpus
  <2> QED
    BY <1>2, <1>3, <2>1
<1> HIDE DEF TreeMoves, CorpusMoves
<1>10. TreeMoves /\ CorpusMoves
  BY <1>5, <1>6, <1>7, <1>8, <1>9 DEF Next
<1> QED
  BY <1>10 DEF TreeMoves, CorpusMoves

\* Of the commits on work branches, the files hold what some commit holds.
LocalIsMade == (tree \cup root) \cap TopicEdits \subseteq Everything

LEMMA EverythingGrows ==
    ASSUME HistoryOK
    PROVE  /\ Grown => Everything \subseteq Everything'
           /\ UNCHANGED commits => Everything' = Everything
           /\ \A P, T : Added(P, T) => Everything' = Everything \cup T
<1>1. Len(commits) \in Nat
  BY HistoryFacts
<1>2. UNCHANGED commits => Everything' = Everything
  BY DEF Everything, Tree
<1>3. ASSUME Grown PROVE Everything \subseteq Everything'
  <2>1. \A i \in 0..Len(commits) : i \in 0..Len(commits') /\ Tree(i)' = Tree(i)
    BY <1>1, <1>3 DEF Grown
  <2> QED
    BY <2>1 DEF Everything
<1>4. ASSUME NEW P, NEW T, Added(P, T) PROVE Everything' = Everything \cup T
  <2>1. PICK n : n = NewCommit
    OBVIOUS
  <2>2. Grown /\ Len(commits') = n /\ n = Len(commits) + 1 /\ Tree(n)' = T
    BY <1>4, <2>1 DEF Added, NewCommit
  <2>3. \A i \in 0..Len(commits') : i \in 0..Len(commits) \/ i = n
    BY <1>1, <2>2
  <2>4. n \in 0..Len(commits')
    BY <1>1, <2>2
  <2>5. \A i \in 0..Len(commits) : Tree(i)' = Tree(i)
    BY <2>2 DEF Grown
  <2>6. Everything' \subseteq Everything \cup T
    BY <2>2, <2>3, <2>5 DEF Everything
  <2>7. T \subseteq Everything'
    BY <2>2, <2>4 DEF Everything
  <2> QED
    BY <1>3, <2>2, <2>6, <2>7
<1> QED
  BY <1>2, <1>3, <1>4

\* Only an author makes what no commit held.
LEMMA MadeStep ==
    ASSUME TypeInv, HeadMade, LocalIsMade, [Next]_vars
    PROVE  /\ LocalIsMade'
           /\ \A e \in TopicEdits : e \in Everything' => e \in Everything \/ AuthorPush(e)
<1>1. HistoryOK /\ TypesKept
  BY TypesStep DEF TypeInv
<1>2. Everything \subseteq Everything' /\ Grown
  BY <1>1, EverythingGrows DEF TypesKept
<1>3. \A e \in TopicEdits : e \in Everything' => e \in Everything \/ AuthorPush(e)
  <2>1. CASE UNCHANGED commits
    BY <1>1, <2>1, EverythingGrows
  <2>2. CASE CommitStep
    <3>1. PICK P, T : Added(P, T) /\ T \subseteq tree \cup Everything
      BY <2>2 DEF CommitStep
    <3>2. Everything' = Everything \cup T
      BY <1>1, <3>1, EverythingGrows
    <3> QED
      BY <3>1, <3>2 DEF LocalIsMade
  <2>3. ASSUME NEW e \in Edits \cup TopicEdits, AuthorPush(e)
        PROVE  \A d \in TopicEdits : d \in Everything' => d \in Everything \/ AuthorPush(d)
    <3>1. PICK b \in Branches : origin[b] # 0 /\ Commit(Past(origin[b]), Tree(origin[b]) \cup {e}, TRUE)
      BY <2>3 DEF AuthorPush, Branches
    <3>2. PICK i \in 1..Len(commits) : i = origin[b]
      BY <3>1, ChainRefs DEF Branches
    <3>3. /\ Tree(i) \cup {e} \in SUBSET Items /\ Past(i) \cup Past(0) = Past(i) /\ 0 \in 0..Len(commits)
          /\ TRUE \in BOOLEAN /\ i \in 0..Len(commits)
      BY ChainRefs, HistoryFacts DEF Items
    <3>4. Commit(Past(i) \cup Past(0), Tree(i) \cup {e}, TRUE)
      BY <3>1, <3>2, <3>3
    <3>5. Added(Past(i) \cup Past(0), Tree(i) \cup {e})
      BY <1>1, <3>3, <3>4, CommitOnTop
    <3>6. Everything' = Everything \cup (Tree(i) \cup {e})
      BY <1>1, <3>5, EverythingGrows
    <3>7. Tree(i) \subseteq Everything
      BY <3>3 DEF Everything
    <3> QED
      BY <2>3, <3>6, <3>7
  <2> QED
    BY <2>1, <2>2, <2>3, GitSteps DEF QuietStep, PushStep
<1>4. LocalIsMade'
  <2>1. tree' \cap TopicEdits \subseteq Everything'
    <3>1. ASSUME NEW h, h = head', tree' = Tree(h)' PROVE tree' \subseteq Everything'
      <4>1. h \in 0..Len(commits')
        BY <1>1, <3>1 DEF TypesKept, RefsOK
      <4> QED
        BY <3>1, <4>1 DEF Everything
    <3> QED
      BY <1>2, <3>1, FilesSteps DEF LocalIsMade
  <2>2. root' \cap TopicEdits \subseteq Everything'
    <3>1. Tree(mirror["spec"]) \subseteq Everything
      <4>1. mirror["spec"] \in 0..Len(commits)
        BY DEF TypeInv, RefsOK, Branches
      <4> QED
        BY <4>1 DEF Everything
    <3>2. Writes \cap TopicEdits = {}
      BY ItemsAssumption
    <3> QED
      BY <1>2, <3>1, <3>2, FilesSteps DEF LocalIsMade
  <2> QED
    BY <2>1, <2>2 DEF LocalIsMade
<1> QED
  BY <1>3, <1>4

\* Where no merge, no forced deletion and no read is in the cast.
TopicQuiet == cast \cap (Merges \cup Forced \cup Queries) = {}

\* Who acts is in the cast, and only merges are at the labels of a merge.
CastInv ==
    /\ \A c \in Calls \ cast : pc[c] = "idle"
    /\ \A c \in Calls : pc[c] \in Merging => c \in Merges

LEMMA CastStep == TypeInv /\ CastInv /\ [Next]_vars => CastInv'
<1> SUFFICES ASSUME TypeInv, CastInv, [Next]_vars PROVE CastInv'
  OBVIOUS
<1>1. cast' = cast /\ LockInv
  BY CastStays DEF TypeInv
<1>2. \A c \in Calls : LabelsOf(c)
  BY <1>1, LabelSteps
<1> QED
  BY <1>1, <1>2 DEF CastInv, LabelsOf, EnterMerge

\* The tip a deletion is about to read, or has read, is part of the spec's history.
TipOf(c) ==
    /\ pc[c] = "tip" => Past(mirror["topic"]) \subseteq Past(origin["spec"])
    /\ pc[c] = "delete" => Past(want[c]) \subseteq Past(origin["spec"])
TipsInv == \A c \in Calls : TipOf(c)

\* The history of the spec's branch is never rewritten.
LEMMA SpecGrows ==
    ASSUME TypeInv, HeadMade, [Next]_vars
    PROVE  Past(origin["spec"]) \subseteq Past(origin["spec"])'
<1> SUFFICES ASSUME NEW o, o = origin'["spec"] PROVE Past(origin["spec"]) \subseteq Past(o)'
  OBVIOUS
<1>1. TypesKept
  BY TypesStep
<1>2. \A i \in 0..Len(commits) : Past(i)' = Past(i)
  BY <1>1 DEF TypesKept, Grown
<1>3. origin["spec"] \in 1..Len(commits) /\ origin["spec"] \in 0..Len(commits)
  BY ChainRefs, HistoryFacts
<1>4. CASE o = origin["spec"]
  BY <1>2, <1>3, <1>4
<1>5. CASE PushStep
  <2>1. o = origin["spec"] \/ (o = head /\ origin["spec"] \in Past(head))
    BY <1>3, <1>5, ChainRefs DEF PushStep, Pushed, PushRaises, Branches
  <2>2. head \in 1..Len(commits) /\ head \in 0..Len(commits)
    BY <1>5, ChainRefs DEF PushStep
  <2>3. origin["spec"] \in Past(head) => Past(origin["spec"]) \subseteq Past(head)
    BY <2>2, ChainRefs, HistoryFacts
  <2> QED
    BY <1>2, <1>4, <2>1, <2>2, <2>3
<1>6. ASSUME NEW e \in Edits \cup TopicEdits, AuthorPush(e) PROVE Past(origin["spec"]) \subseteq Past(o)'
  <2>1. PICK b \in Branches : /\ origin[b] # 0 /\ Commit(Past(origin[b]), Tree(origin[b]) \cup {e}, TRUE)
                              /\ origin' = [origin EXCEPT ![b] = NewCommit]
    BY <1>6 DEF AuthorPush, Branches
  <2>2. CASE b = "topic"
    BY <1>4, <2>1, <2>2, ChainRefs DEF Branches
  <2>3. CASE b = "spec"
    <3>1. PICK i \in 1..Len(commits) : i = origin["spec"]
      BY <1>3
    <3>2. /\ Tree(i) \cup {e} \in SUBSET Items /\ Past(i) \cup Past(0) = Past(i) /\ 0 \in 0..Len(commits)
          /\ TRUE \in BOOLEAN /\ HistoryOK
      BY ChainRefs, HistoryFacts DEF Items
    <3>3. Commit(Past(i) \cup Past(0), Tree(i) \cup {e}, TRUE)
      BY <2>1, <2>3, <3>1, <3>2
    <3>4. Added(Past(i) \cup Past(0), Tree(i) \cup {e})
      BY <3>2, <3>3, CommitOnTop
    <3>5. o = NewCommit
      BY <2>1, <2>3, ChainRefs DEF Branches
    <3> QED
      BY <3>1, <3>2, <3>4, <3>5 DEF Added
  <2> QED
    BY <2>2, <2>3, ChainRefs DEF Branches
<1> QED
  BY <1>4, <1>5, <1>6, GitSteps DEF QuietStep, CommitStep

LEMMA TipsStep ==
    ASSUME TypeInv, HeadMade, MemoInv, CastInv, TipsInv, TopicQuiet, [Next]_vars PROVE TipsInv'
<1> SUFFICES ASSUME NEW c \in Calls, pc'[c] \in {"tip", "delete"} PROVE TipOf(c)'
  BY DEF TipsInv, TipOf
<1>1. LockInv /\ LabelsOf(c) /\ c \in Actors /\ TypesKept
  BY LabelSteps, TypesStep, KindsOfActors DEF TypeInv
<1>2. \A i \in 0..Len(commits) : Past(i)' = Past(i)
  BY <1>1 DEF TypesKept, Grown
<1>3. Past(origin["spec"]) \subseteq Past(origin["spec"])'
  BY SpecGrows
<1>4. CASE CheckDelete(c)
  <2>1. Goto(c, "done") \/ Goto(c, "tip")
    BY <1>4 DEF CheckDelete, Finish
  <2>2. pc'[c] = "tip"
    BY <1>1, <2>1, GotoMoves
  <2>3. c \in cast
    BY <1>4 DEF CheckDelete, Enter, CastInv
  <2>4. ~Goto(c, "done")
    BY <1>1, <2>2, GotoMoves
  <2>5. /\ mirror' = origin /\ UNCHANGED <<commits, origin>>
        /\ Past(origin["topic"]) \subseteq Past(origin["spec"])
    BY <1>4, <2>3, <2>4 DEF CheckDelete, Finish, TopicQuiet
  <2>7. Past(mirror["topic"])' = Past(origin["topic"]) /\ Past(origin["spec"])' = Past(origin["spec"])
    BY <2>5 DEF Past
  <2> QED
    BY <2>2, <2>5, <2>7 DEF TipOf
<1>5. CASE ReadTip(c)
  <2>1. pc[c] = "tip" /\ UNCHANGED git
    BY <1>5 DEF ReadTip
  <2>2. Goto(c, "done") \/ (Goto(c, "delete") /\ want' = [want EXCEPT ![c] = mirror["topic"]])
    BY <1>5 DEF ReadTip, Finish
  <2>3. pc'[c] = "delete" /\ want'[c] = mirror["topic"]
    BY <1>1, <2>2, GotoMoves DEF TypeInv, RefsOK
  <2>4. Past(mirror["topic"]) \subseteq Past(origin["spec"])
    BY <2>1 DEF TipsInv, TipOf
  <2>5. Past(want[c])' = Past(mirror["topic"]) /\ Past(origin["spec"])' = Past(origin["spec"])
    BY <2>1, <2>3 DEF Past, git
  <2> QED
    BY <2>3, <2>4, <2>5 DEF TipOf
<1>6. CASE ~CheckDelete(c) /\ ~ReadTip(c)
  <2>1. pc[c] = pc'[c] /\ Inside(c)
    BY <1>1, <1>6 DEF LabelsOf, Inside
  <2>2. ~Crash /\ ~(\E q \in Queries : CheckRoot(q))
    <3>1. ASSUME NEW q \in Queries PROVE ~CheckRoot(q)
      BY KindsOfActors DEF CheckRoot, TopicQuiet
    <3>2. ASSUME Crash PROVE FALSE
      BY <1>1, <3>2 DEF Crash
    <3> QED
      BY <3>1, <3>2
  <2>3. ~(\E label : Goto(c, label) /\ label \notin {"tip", "delete"})
    BY <1>1, GotoMoves
  <2>4. ~RootStep(c) /\ ~AnswerStep(c) /\ ~WriteStep(c) /\ ~Retry(c)
    <3>1. c \notin Queries
      BY KindsOfActors
    <3>2. ~RootStep(c) /\ ~AnswerStep(c)
      BY <2>1, <3>1 DEF RootStep, CheckRoot, ClearRoot, ListRoot, FillRoot, SignRoot, BreakRoot, AnswerStep, Refresh,
                         Reply
    <3>3. ~Retry(c)
      <4>1. Retry(c) => Goto(c, "idle")
        BY DEF Retry
      <4> QED
        BY <1>1, <4>1, GotoMoves
    <3>4. ~WriteStep(c)
      <4>1. pc[c] = "tip" \/ pc[c] = "delete"
        BY <2>1
      <4>2. ~Issue(c) /\ ~EnterWrite(c) /\ ~Apply(c) /\ ~Sync(c) /\ ~CommitWrite(c)
        BY <4>1 DEF Issue, EnterWrite, Apply, Sync, CommitWrite
      <4>3. ~RefuseForeign(c) /\ ~PushWrite(c) /\ ~PushWriteRaises(c) /\ ~Reconcile(c) /\ ~ReconcileRaises(c)
        BY <4>1 DEF RefuseForeign, PushWrite, PushWriteRaises, Reconcile, ReconcileRaises
      <4> QED
        BY <4>2, <4>3 DEF WriteStep
    <3> QED
      BY <3>2, <3>3, <3>4
  <2>5. ~BranchStep(c)
    <3>1. ~DeleteWork(c)
      <4>1. DeleteWork(c) => Goto(c, "done")
        BY DEF DeleteWork, Finish
      <4> QED
        BY <2>3, <4>1
    <3> QED
      BY <1>6, <2>1, <3>1 DEF BranchStep, Issue, RefuseClaimed, CreateWork, PushCreated, EnterMerge, MergeTopic,
                PushMerge, DropTopic, Enter
  <2>6. want'[c] = want[c] /\ UNCHANGED mirror
    BY <1>1, <2>1, <2>2, <2>4, <2>5, InsideStays
  <2>7. /\ Past(want[c])' = Past(want[c])
        /\ Past(mirror["topic"])' = Past(mirror["topic"])
    <3>1. want[c] \in 0..Len(commits) /\ mirror["topic"] \in 0..Len(commits)
      BY <1>1, ChainRefs DEF TypeInv, RefsOK
    <3>2. PICK x, t : x = want[c] /\ t = mirror["topic"]
      OBVIOUS
    <3>3. x = want'[c] /\ t = mirror'["topic"] /\ Past(x)' = Past(x) /\ Past(t)' = Past(t)
      BY <1>2, <2>6, <3>1, <3>2
    <3> QED
      BY <3>2, <3>3
  <2>8. TipOf(c)
    BY DEF TipsInv
  <2> QED
    BY <1>3, <2>1, <2>7, <2>8 DEF TipOf
<1> QED
  BY <1>4, <1>5, <1>6

\* What the branches of the remote hold, in all their history.
Reached == UNION {Tree(i) : i \in Past(origin["spec"]) \cup Past(origin["topic"])}

\* What was on the topic stays in the history of one of the branches.
LEMMA TopicStays ==
    ASSUME TypeInv, HeadMade, ChainInv, CastInv, TipsInv, TopicQuiet, [Next]_vars
    PROVE  Past(origin["topic"]) \subseteq Past(origin["topic"])' \cup Past(origin["spec"])'
<1> SUFFICES ASSUME NEW t, t = origin["topic"], NEW u, u = origin'["topic"]
             PROVE  Past(t) \subseteq Past(u)' \cup Past(origin["spec"])'
  OBVIOUS
<1>1. TypesKept /\ LockInv
  BY TypesStep DEF TypeInv
<1>2. \A i \in 0..Len(commits) : Past(i)' = Past(i)
  BY <1>1 DEF TypesKept, Grown
<1>3. Past(origin["spec"]) \subseteq Past(origin["spec"])' /\ t \in 0..Len(commits)
  BY SpecGrows, ChainRefs
<1>4. ASSUME u = t PROVE Past(t) \subseteq Past(u)'
  BY <1>2, <1>3, <1>4
<1>5. ASSUME UNCHANGED origin \/ \E tip : origin' = [origin EXCEPT !["spec"] = tip] PROVE u = t
  BY <1>5, ChainRefs DEF Branches
<1>6. ASSUME NEW w \in Writes, WriteStep(w) \/ Retry(w) PROVE u = t
  <2>1. UNCHANGED origin \/ \E tip : origin' = [origin EXCEPT !["spec"] = tip]
    <3>1. CASE PushWrite(w) \/ PushWriteRaises(w)
      BY <3>1 DEF PushWrite, PushWriteRaises, Pushed, PushRaises
    <3>2. CASE ~(PushWrite(w) \/ PushWriteRaises(w))
      BY <1>6, <3>2 DEF WriteStep, Issue, EnterWrite, Apply, Sync, CommitWrite, RefuseForeign, Reconcile,
                        ReconcileRaises, Retry, git
    <3> QED
      BY <3>1, <3>2
  <2> QED
    BY <1>5, <2>1
<1>7. ASSUME NEW c \in Branching, BranchStep(c) PROVE Past(t) \subseteq Past(u)' \cup Past(origin["spec"])'
  <2>0. c \in Calls
    BY KindsOfActors
  <2>1. CASE PushMerge(c)
    <3>1. UNCHANGED origin \/ \E tip : origin' = [origin EXCEPT !["spec"] = tip]
      BY <2>1 DEF PushMerge, Pushed, PushRaises
    <3> QED
      BY <1>4, <1>5, <3>1
  <2>2. CASE PushCreated(c)
    <3>1. mirror["spec"] \in 1..Len(commits) /\ mirror["spec"] \in 0..Len(commits)
      BY ChainRefs
    <3>2. \/ UNCHANGED origin
          \/ t \in Past(mirror["spec"]) \cup {0} /\ origin' = [origin EXCEPT !["topic"] = mirror["spec"]]
      BY <2>2 DEF PushCreated, PushRaises
    <3>3. u = t \/ (t \in Past(mirror["spec"]) \cup {0} /\ u = mirror["spec"])
      BY <3>2, ChainRefs DEF Branches
    <3>4. t \in Past(mirror["spec"]) \cup {0} => Past(t) \subseteq Past(mirror["spec"])
      BY <3>1, ChainRefs, HistoryFacts
    <3> QED
      BY <1>2, <1>4, <3>1, <3>3, <3>4
  <2>3. CASE DropTopic(c)
    <3>1. c \in Merges /\ c \in cast
      BY <2>0, <2>3 DEF DropTopic, CastInv, Merging
    <3> QED
      BY <3>1 DEF TopicQuiet
  <2>4. CASE DeleteWork(c)
    <3>1. /\ pc[c] = "delete"
          /\ UNCHANGED origin \/ t = want[c]
      BY <2>4 DEF DeleteWork
    <3>2. Past(want[c]) \subseteq Past(origin["spec"])
      BY <2>0, <3>1 DEF TipsInv, TipOf
    <3> QED
      BY <1>3, <1>4, <3>1, <3>2
  <2>5. CASE ~PushMerge(c) /\ ~PushCreated(c) /\ ~DropTopic(c) /\ ~DeleteWork(c)
    <3>1. UNCHANGED origin
      BY <1>7, <2>5 DEF BranchStep, Issue, RefuseClaimed, CreateWork, EnterMerge, MergeTopic, CheckDelete,
                        ReadTip, git
    <3> QED
      BY <1>4, <1>5, <3>1
  <2> QED
    BY <2>1, <2>2, <2>3, <2>4, <2>5
<1>8. ASSUME NEW e \in Edits \cup TopicEdits, AuthorPush(e) PROVE Past(t) \subseteq Past(u)'
  <2>1. PICK b \in Branches : /\ origin[b] # 0 /\ Commit(Past(origin[b]), Tree(origin[b]) \cup {e}, TRUE)
                              /\ origin' = [origin EXCEPT ![b] = NewCommit]
    BY <1>8 DEF AuthorPush, Branches
  <2>2. CASE b = "spec"
    BY <1>4, <1>5, <2>1, <2>2
  <2>3. CASE b = "topic"
    <3>1. PICK i \in 1..Len(commits) : i = t
      BY <2>1, <2>3, ChainRefs
    <3>2. /\ Tree(i) \cup {e} \in SUBSET Items /\ Past(i) \cup Past(0) = Past(i) /\ 0 \in 0..Len(commits)
          /\ TRUE \in BOOLEAN /\ HistoryOK
      BY ChainRefs, HistoryFacts DEF Items
    <3>3. Commit(Past(i) \cup Past(0), Tree(i) \cup {e}, TRUE)
      BY <2>1, <2>3, <3>1, <3>2
    <3>4. Added(Past(i) \cup Past(0), Tree(i) \cup {e})
      BY <3>2, <3>3, CommitOnTop
    <3>5. u = NewCommit
      BY <2>1, <2>3, ChainRefs DEF Branches
    <3> QED
      BY <3>1, <3>2, <3>4, <3>5 DEF Added
  <2> QED
    BY <2>2, <2>3 DEF Branches
<1>9. ASSUME \/ \E a \in Actors : RootStep(a)
             \/ \E c \in Calls : AnswerStep(c)
             \/ \E l \in Logins : Claim(l)
             \/ EndLease \/ IndexRead \/ Crash \/ UNCHANGED vars
      PROVE  u = t
  <2>1. UNCHANGED origin
    BY <1>9 DEF RootStep, CheckRoot, ClearRoot, ListRoot, FillRoot, SignRoot, BreakRoot,
                AnswerStep, Refresh, Reply, Claim, EndLease, IndexRead, Crash, git, vars
  <2> QED
    BY <1>5, <2>1
<1> QED
  BY <1>4, <1>6, <1>7, <1>8, <1>9 DEF Next

\* The inductive invariant: the history of the branches holds all that was ever
\* committed to a topic.
TopicInv == TipsInv /\ Everything \cap TopicEdits \subseteq Reached

LEMMA TopicStep ==
    TypeInv /\ HeadMade /\ ChainInv /\ MemoInv /\ CastInv /\ LocalIsMade /\ (TopicQuiet => TopicInv) /\ [Next]_vars
        => (TopicQuiet => TopicInv)'
<1> SUFFICES ASSUME TypeInv, HeadMade, ChainInv, MemoInv, CastInv, LocalIsMade, TopicQuiet => TopicInv,
                    [Next]_vars, TopicQuiet'
             PROVE  TopicInv'
  OBVIOUS
<1>1. TopicQuiet /\ TipsInv /\ Everything \cap TopicEdits \subseteq Reached
  BY CastStays DEF TopicQuiet, TopicInv
<1>2. TipsInv'
  BY <1>1, TipsStep
<1>3. /\ Past(origin["spec"]) \subseteq Past(origin["spec"])'
      /\ Past(origin["topic"]) \subseteq Past(origin["topic"])' \cup Past(origin["spec"])'
  BY <1>1, SpecGrows, TopicStays
<1>4. TypesKept
  BY TypesStep
<1>5. Reached \subseteq Reached'
  <2>1. \A i \in Past(origin["spec"]) \cup Past(origin["topic"]) : Tree(i)' = Tree(i)
    <3>1. Past(origin["spec"]) \cup Past(origin["topic"]) \subseteq 0..Len(commits)
      BY ChainRefs, HistoryFacts
    <3> QED
      BY <1>4, <3>1 DEF TypesKept, Grown
  <2> QED
    BY <1>3, <2>1 DEF Reached
<1>6. ASSUME NEW e \in TopicEdits, AuthorPush(e) PROVE e \in Reached'
  <2>1. PICK b \in Branches : /\ origin[b] # 0 /\ Commit(Past(origin[b]), Tree(origin[b]) \cup {e}, TRUE)
                              /\ origin' = [origin EXCEPT ![b] = NewCommit]
    BY <1>6 DEF AuthorPush, Branches
  <2>2. PICK i \in 1..Len(commits) : i = origin[b]
    BY <2>1, ChainRefs DEF Branches
  <2>3. /\ Tree(i) \cup {e} \in SUBSET Items /\ Past(i) \cup Past(0) = Past(i) /\ 0 \in 0..Len(commits)
        /\ TRUE \in BOOLEAN /\ HistoryOK
    BY ChainRefs, HistoryFacts DEF Items
  <2>4. Commit(Past(i) \cup Past(0), Tree(i) \cup {e}, TRUE)
    BY <2>1, <2>2, <2>3
  <2>5. Added(Past(i) \cup Past(0), Tree(i) \cup {e})
    BY <2>3, <2>4, CommitOnTop
  <2>6. PICK n : n = NewCommit
    OBVIOUS
  <2>7. n \in Past(n)' /\ e \in Tree(n)'
    BY <2>5, <2>6 DEF Added
  <2>8. n = origin'["spec"] \/ n = origin'["topic"]
    BY <2>1, <2>6, ChainRefs DEF Branches
  <2> QED
    BY <2>7, <2>8 DEF Reached
<1>7. Everything' \cap TopicEdits \subseteq Reached'
  BY <1>1, <1>5, <1>6, MadeStep
<1> QED
  BY <1>2, <1>7 DEF TopicInv

LEMMA TopicInit == Init => CastInv /\ LocalIsMade /\ TopicInv
<1> SUFFICES ASSUME Init PROVE CastInv /\ LocalIsMade /\ TopicInv
  OBVIOUS
<1>1. /\ commits = <<[past |-> {1}, tree |-> {"base"}, foreign |-> FALSE]>>
      /\ origin["spec"] = 1 /\ tree = {} /\ root = {}
      /\ \A c \in Calls : pc[c] = "idle"
  BY KindsOfActors DEF Init, Branches
<1>2. Len(commits) = 1 /\ Past(1) = {1} /\ Tree(0) = {}
  BY <1>1 DEF Past, Tree
<1>3. Everything \subseteq Tree(1)
  <2>1. \A i \in 0..Len(commits) : i = 0 \/ i = 1
    BY <1>2
  <2> QED
    BY <1>2, <2>1 DEF Everything
<1>4. Tree(1) \subseteq Reached
  BY <1>1, <1>2 DEF Reached
<1>5. CastInv /\ LocalIsMade /\ TipsInv
  BY <1>1 DEF CastInv, Merging, LocalIsMade, TipsInv, TipOf
<1> QED
  BY <1>3, <1>4, <1>5 DEF TopicInv

\* No commit an author pushed to a work branch is lost: it stays in the history of
\* the spec's branch or of the topic, whatever is created, deleted without force
\* and written in the meantime, for any number of calls and commits; no merge, no
\* forced deletion and no read that fetches (spec-branches.js:226-252).
THEOREM TopicKeptAlways == Spec => []TopicKept
<1> DEFINE Inv == ChainInv /\ MemoInv /\ CastInv /\ LocalIsMade /\ (TopicQuiet => TopicInv)
<1>1. Init => Inv
  BY ChainInit, AckInit, TopicInit
<1>2. TypeInv /\ HeadMade /\ Inv /\ [Next]_vars => Inv'
  <2> SUFFICES ASSUME TypeInv, HeadMade, Inv, [Next]_vars PROVE Inv'
    OBVIOUS
  <2>1. ChainInv' /\ MemoInv' /\ CastInv' /\ LocalIsMade'
    BY ChainStep, MemoStep, CastStep, MadeStep
  <2>2. (TopicQuiet => TopicInv)'
    BY TopicStep
  <2> QED
    BY <2>1, <2>2
<1>3. TypeInv /\ Inv => TopicKept
  <2> SUFFICES ASSUME TypeInv, Inv, TopicQuiet, NEW e \in TopicEdits, NEW i \in DOMAIN commits, e \in Tree(i)
               PROVE  EditReachable(e)
    BY DEF TopicKept, TopicQuiet
  <2>1. e \in Everything
    <3>1. i \in 0..Len(commits)
      BY HistoryFacts DEF TypeInv
    <3> QED
      BY <3>1 DEF Everything
  <2>2. PICK k \in Past(origin["spec"]) \cup Past(origin["topic"]) : e \in Tree(k)
    BY <2>1 DEF TopicInv, Reached
  <2> QED
    BY <2>2 DEF EditReachable, Branches
<1> HIDE DEF Inv
<1> QED
  BY <1>1, <1>2, <1>3, TypesInvariant, PTL DEF Spec

-----------------------------------------------------------------------------
(* What a merge has brought to the spec. *)

\* Of the commits pushed to work branches, what a commit holds.
Topics(i) == Tree(i) \cap TopicEdits
SpecTopics == Topics(mirror["spec"])

\* No commit undoes what one of its ancestors has from a work branch.
HistoryKeepsTopics == \A i \in 1..Len(commits) : \A j \in Past(i) : Topics(j) \subseteq Topics(i)

\* A merge is made and not yet pushed: only then is the worktree's branch ahead.
MergeWaits == \E c \in Calls : pc[c] = "pushMerge"
Refilling == {"rebuild", "list", "fill"}
LocalTopics ==
    /\ (root \cup left) \cap TopicEdits \subseteq SpecTopics
    /\ tree \cap TopicEdits \subseteq Topics(head) \cup SpecTopics
    /\ MergeWaits \/ Topics(head) \subseteq SpecTopics
    /\ \A a \in Actors : pc[a] \in Refilling => Topics(want[a]) \subseteq SpecTopics

\* As CorpusIsSigned.
CorpusTopics ==
    /\ builder = "nobody" => Topics(signature) \subseteq root
    /\ \A a \in Actors : pc[a] \in Rebuilding => builder = a
    /\ \A a \in Actors : pc[a] = "fill" => Topics(want[a]) \subseteq root \cup left

\* What a write is about to commit holds all that the worktree's branch does.
WriteKeeps(w) ==
    /\ pc[w] \in Refilling => Topics(head) \subseteq Topics(want[w])
    /\ pc[w] \in {"apply", "sync"} => builder = "nobody" /\ Topics(head) \subseteq root
    /\ pc[w] = "commit" => Topics(head) \subseteq tree
WritesKeep == \A w \in Writes : WriteKeeps(w)

MergedInv ==
    /\ HistoryKeepsTopics /\ SpecTopics \subseteq Topics(origin["spec"])
    /\ LocalTopics /\ CorpusTopics /\ WritesKeep

\* The only merge of the cast, and it has not failed.
Sole(c) == cast \cap Merges = {c} /\ result[c] \in {"none", "ok"}

\* What a step must do to the remote and to the mirror.
SpecKeepsTopics ==
    /\ HistoryKeepsTopics' /\ SpecTopics' \subseteq Topics(origin["spec"])'
    /\ SpecTopics \subseteq SpecTopics'

LEMMA TopicsSame ==
    /\ Grown => \A i \in 0..Len(commits) : Topics(i)' = Topics(i)
    /\ UNCHANGED commits => \A i : Topics(i)' = Topics(i) /\ Tree(i)' = Tree(i) /\ Past(i)' = Past(i)
<1>1. Grown => \A i \in 0..Len(commits) : Topics(i)' = Topics(i)
  BY DEF Grown, Topics
<1>2. UNCHANGED commits => \A i : Topics(i)' = Topics(i) /\ Tree(i)' = Tree(i) /\ Past(i)' = Past(i)
  BY DEF Topics, Tree, Past
<1> QED
  BY <1>1, <1>2

\* A step that makes no commit; the tip stays, or moves to a commit that has it.
LEMMA QuietTopics ==
    ASSUME HistoryOK, RefsOK, MergedInv, UNCHANGED commits,
           \/ origin'["spec"] = origin["spec"]
           \/ origin'["spec"] \in 1..Len(commits) /\ origin["spec"] \in Past(origin'["spec"]),
           mirror'["spec"] \in {mirror["spec"], origin["spec"], origin'["spec"]}
    PROVE  SpecKeepsTopics
<1>1. /\ HistoryKeepsTopics /\ SpecTopics \subseteq Topics(origin["spec"])
  BY DEF MergedInv
<1>2. \A i : Topics(i)' = Topics(i) /\ Past(i)' = Past(i)
  BY TopicsSame
<1>3. HistoryKeepsTopics'
  BY <1>1, <1>2 DEF HistoryKeepsTopics
<1>4. Topics(origin["spec"]) \subseteq Topics(origin'["spec"])
  BY <1>1 DEF HistoryKeepsTopics
<1>5. Topics(origin["spec"])' = Topics(origin'["spec"]) /\ SpecTopics' = Topics(mirror'["spec"])
  BY <1>2 DEF SpecTopics
<1> QED
  BY <1>1, <1>3, <1>4, <1>5 DEF SpecKeepsTopics, SpecTopics

\* A commit of the worktree that has what those it is made on have.
LEMMA CommitTopics ==
    ASSUME HistoryOK, RefsOK, MergedInv, NEW i \in 1..Len(commits), NEW j \in 0..Len(commits),
           NEW T \in SUBSET Items, HistoryOK', Added(Past(i) \cup Past(j), T),
           Topics(i) \cup Topics(j) \subseteq T,
           Topics(origin["spec"]) \subseteq Topics(origin["spec"])',
           mirror'["spec"] \in {mirror["spec"], origin["spec"]}
    PROVE  SpecKeepsTopics /\ \A n \in {NewCommit} : Topics(n)' = T \cap TopicEdits
<1> SUFFICES ASSUME NEW n, n = NewCommit
             PROVE  SpecKeepsTopics /\ Topics(n)' = T \cap TopicEdits
  BY DEF NewCommit
<1>1. HistoryKeepsTopics /\ SpecTopics \subseteq Topics(origin["spec"])
  BY DEF MergedInv
<1>2. Grown /\ Len(commits') = Len(commits) + 1 /\ Past(n)' = Past(i) \cup Past(j) \cup {n} /\ Tree(n)' = T
  BY DEF Added
<1>3. \A k \in 0..Len(commits) : Topics(k)' = Topics(k) /\ Past(k)' = Past(k)
  BY <1>2, TopicsSame DEF Grown
<1>4. Topics(n)' = T \cap TopicEdits /\ Topics(i) \subseteq Topics(n)' /\ Topics(j) \subseteq Topics(n)'
  BY <1>2 DEF Topics
<1>5. Len(commits) \in Nat /\ n = Len(commits) + 1
  BY HistoryFacts DEF NewCommit
<1>6. \A k \in 1..Len(commits') : k \in 1..Len(commits) \/ k = n
  BY <1>2, <1>5
<1>7. origin["spec"] \in 0..Len(commits) /\ mirror["spec"] \in 0..Len(commits)
  BY DEF RefsOK, Branches
<1>8. SpecTopics' = Topics(mirror'["spec"])
  <2>1. \A k \in 0..Len(commits) : k = mirror'["spec"] => SpecTopics' = Topics(k)'
    BY DEF SpecTopics
  <2> QED
    BY <1>3, <1>7, <2>1
<1>9. HistoryKeepsTopics'
  <2>1. ASSUME NEW k \in 1..Len(commits'), NEW l, l \in Past(k)' PROVE Topics(l)' \subseteq Topics(k)'
    <3>1. CASE k \in 1..Len(commits)
      <4>1. l \in Past(k) /\ l \in 1..Len(commits)
        BY <1>3, <2>1, <3>1, HistoryFacts
      <4> QED
        BY <1>1, <1>3, <3>1, <4>1 DEF HistoryKeepsTopics
    <3>2. CASE k = n /\ l \in Past(i)
      <4>1. l \in 1..Len(commits) /\ Topics(l) \subseteq Topics(i)
        BY <1>1, <3>2, HistoryFacts DEF HistoryKeepsTopics
      <4> QED
        BY <1>3, <1>4, <3>2, <4>1
    <3>3. CASE k = n /\ l \in Past(j)
      <4>1. j \in 1..Len(commits)
        BY <3>3, HistoryFacts
      <4>2. l \in 1..Len(commits) /\ Topics(l) \subseteq Topics(j)
        BY <1>1, <3>3, <4>1, HistoryFacts DEF HistoryKeepsTopics
      <4> QED
        BY <1>3, <1>4, <3>3, <4>2
    <3>4. CASE k = n /\ l = n
      BY <3>4
    <3> QED
      BY <1>2, <1>6, <2>1, <3>1, <3>2, <3>3, <3>4
  <2> QED
    BY <2>1 DEF HistoryKeepsTopics
<1> QED
  BY <1>1, <1>4, <1>8, <1>9 DEF SpecKeepsTopics, SpecTopics

\* A merge has what both sides have.
LEMMA MergedTopics ==
    ASSUME HistoryOK, HistoryKeepsTopics, NEW i \in 1..Len(commits), NEW j \in 1..Len(commits)
    PROVE  Merged(i, j) \cap TopicEdits = Topics(i) \cup Topics(j)
<1>1. MergeBase(i, j) \in Past(i) /\ MergeBase(i, j) \in Past(j)
  BY MergeBaseIsNewest
<1>2. Topics(MergeBase(i, j)) \subseteq Topics(i) /\ Topics(MergeBase(i, j)) \subseteq Topics(j)
  BY <1>1 DEF HistoryKeepsTopics
<1> QED
  BY <1>2 DEF Merged, Topics

\* The invariant of the next state, from what the step does to each place.
LEMMA MergedByParts ==
    ASSUME RefsOK, MergedInv, Grown, SpecKeepsTopics, WritesKeep',
           root' = root \/ root' \cap TopicEdits \subseteq SpecTopics',
           left' = left \/ left' \cap TopicEdits \subseteq SpecTopics',
           \/ UNCHANGED <<tree, head>>
           \/ tree' \cap TopicEdits \subseteq Topics(head)' \cup SpecTopics',
           MergeWaits' \/ (UNCHANGED head /\ ~MergeWaits) \/ Topics(head)' \subseteq SpecTopics',
           \A a \in Actors : pc'[a] \in Refilling =>
              \/ pc[a] \in Refilling /\ want'[a] = want[a]
              \/ Topics(want[a])' \subseteq SpecTopics',
           CorpusTopics' \/ RebuildStays
    PROVE  MergedInv'
<1>1. LocalTopics /\ CorpusTopics
  BY DEF MergedInv
<1>2. \A i \in 0..Len(commits) : Topics(i)' = Topics(i)
  BY TopicsSame
<1>3. SpecTopics \subseteq SpecTopics'
  BY DEF SpecKeepsTopics
<1>4. UNCHANGED head => Topics(head)' = Topics(head)
  <2>1. ASSUME UNCHANGED head PROVE \A i \in 0..Len(commits) : i = head => Topics(head)' = Topics(i)'
    BY <2>1
  <2> QED
    BY <1>2, <2>1 DEF RefsOK
<1>5. ASSUME NEW a \in Actors, want'[a] = want[a] PROVE Topics(want[a])' = Topics(want[a])
  <2>1. \A i \in 0..Len(commits) : i = want[a] => Topics(want[a])' = Topics(i)'
    BY <1>5
  <2> QED
    BY <1>2, <2>1 DEF RefsOK
<1>6. (root' \cup left') \cap TopicEdits \subseteq SpecTopics'
  BY <1>1, <1>3 DEF LocalTopics
<1>7. tree' \cap TopicEdits \subseteq Topics(head)' \cup SpecTopics'
  BY <1>1, <1>3, <1>4 DEF LocalTopics
<1>8. MergeWaits' \/ Topics(head)' \subseteq SpecTopics'
  BY <1>1, <1>3, <1>4 DEF LocalTopics
<1>9. \A a \in Actors : pc'[a] \in Refilling => Topics(want[a])' \subseteq SpecTopics'
  BY <1>1, <1>3, <1>5 DEF LocalTopics
<1>10. ASSUME RebuildStays PROVE CorpusTopics'
  <2>1. Topics(signature)' \subseteq Topics(signature)
    <3>1. CASE signature' = signature
      <4>1. \A i \in 0..Len(commits) : i = signature => Topics(signature)' = Topics(i)'
        BY <3>1
      <4> QED
        BY <1>2, <4>1 DEF RefsOK
    <3>2. CASE signature' = 0
      BY <3>2 DEF Topics, Tree
    <3> QED
      BY <1>10, <3>1, <3>2 DEF RebuildStays
  <2>2. \A a \in Actors : pc'[a] = "fill" => Topics(want[a])' \subseteq root' \cup left'
    BY <1>1, <1>5, <1>10 DEF RebuildStays, CorpusTopics, Rebuilding
  <2>3. \A a \in Actors : pc'[a] \in Rebuilding => builder' = a
    BY <1>1, <1>10 DEF RebuildStays, CorpusTopics
  <2> QED
    BY <1>1, <1>10, <2>1, <2>2, <2>3 DEF RebuildStays, CorpusTopics
<1>11. LocalTopics'
  BY <1>6, <1>7, <1>8, <1>9 DEF LocalTopics
<1> QED
  BY <1>10, <1>11 DEF MergedInv, SpecKeepsTopics

LEMMA HolderKeeps ==
    ASSUME LockInv, NEW c \in Calls, Holds(c), NEW label, Goto(c, label), c \in Writes => WriteKeeps(c)'
    PROVE  WritesKeep'
<1> SUFFICES ASSUME NEW w \in Writes, w # c PROVE WriteKeeps(w)'
  BY DEF WritesKeep
<1>1. pc'[w] \in {"idle", "queued", "done"}
  BY HolderAlone, GotoMoves, KindsOfActors DEF Inside
<1> QED
  BY <1>1 DEF WriteKeeps, Refilling

LEMMA HolderLeaves ==
    ASSUME LockInv, NEW c \in Calls, Holds(c), Leaves(c)
    PROVE  /\ WritesKeep'
           /\ \A a \in Actors : pc'[a] \in Refilling => pc[a] \in Refilling /\ a # c
<1>1. PICK label : Goto(c, label) /\ label \notin Carrying
  BY DEF Leaves
<1>2. pc'[c] = label /\ \A b \in Actors \ {c} : pc'[b] = pc[b]
  BY <1>1, GotoMoves, KindsOfActors
<1>3. WritesKeep'
  BY <1>1, <1>2, HolderKeeps DEF WriteKeeps, Carrying, Refilling
<1> QED
  BY <1>1, <1>2, <1>3 DEF Refilling, Carrying

LEMMA KeepsStay ==
    ASSUME RefsOK, MergedInv, Grown, UNCHANGED <<head, tree, root, builder>>,
           \A w \in Writes : /\ want'[w] = want[w]
                             /\ pc'[w] = pc[w] \/ pc'[w] \notin Carrying
    PROVE  WritesKeep'
<1> SUFFICES ASSUME NEW w \in Writes PROVE WriteKeeps(w)'
  BY DEF WritesKeep
<1>1. WriteKeeps(w)
  BY DEF MergedInv, WritesKeep
<1>2. \A i \in 0..Len(commits) : Topics(i)' = Topics(i)
  BY TopicsSame
<1>3. \A i \in 0..Len(commits), j \in 0..Len(commits) : i = head /\ j = want[w]
         => Topics(head)' = Topics(i)' /\ Topics(want[w])' = Topics(j)'
  OBVIOUS
<1>4. Topics(head)' = Topics(head) /\ Topics(want[w])' = Topics(want[w])
  BY <1>2, <1>3, KindsOfActors DEF RefsOK
<1> QED
  BY <1>1, <1>4 DEF WriteKeeps, Carrying, Refilling

\* Whoever holds the lock, and is not about to push a merge: nobody is.
LEMMA NoMergeWaits ==
    ASSUME LockInv, NEW c \in Calls, Holds(c), pc[c] # "pushMerge" PROVE ~MergeWaits
  BY HolderAlone DEF MergeWaits, Inside

LEMMA MergeStillWaits ==
    ASSUME LockInv, NEW a \in Actors, pc[a] # "pushMerge", NEW label, Goto(a, label), MergeWaits
    PROVE  MergeWaits'
  BY GotoMoves, KindsOfActors DEF MergeWaits

\* Steps that touch neither git nor the corpus, but for its signature.
LEMMA CallTopics ==
    ASSUME TypeInv, CastInv, MergedInv, TypesKept,
           \/ \E c \in Calls : Issue(c) \/ Reply(c) \/ Refresh(c)
           \/ \E l \in Logins : Claim(l)
           \/ EndLease \/ (Crash /\ ~MergeWaits)
           \/ \E w \in Writes : Retry(w) \/ RefuseForeign(w)
           \/ \E c \in Branching : RefuseClaimed(c)
           \/ UNCHANGED vars
    PROVE  MergedInv'
<1>1. /\ UNCHANGED <<commits, origin, mirror, head, tree, root, want>>
      /\ signature' = signature \/ signature' = 0
      /\ UNCHANGED <<builder, left>> \/ (Crash /\ signature' = 0 /\ left' = {})
  BY DEF Issue, Reply, Refresh, Claim, EndLease, Crash, Retry, RefuseForeign, RefuseClaimed, git, corpus,
         calls, vars
<1>2. LockInv /\ HistoryOK /\ RefsOK /\ Grown
  BY DEF TypeInv, TypesKept
<1>3. SpecKeepsTopics
  BY <1>1, <1>2, QuietTopics
<1> DEFINE Moved == /\ \A a \in Actors : pc'[a] = pc[a] \/ pc'[a] \notin Carrying \cup Refilling
                    /\ MergeWaits => MergeWaits'
<1>4. ASSUME NEW c \in Calls, pc[c] # "pushMerge", NEW label \in {"queued", "done", "idle", "root"}, Goto(c, label)
      PROVE  Moved
  <2>1. \A a \in Actors : pc'[a] = pc[a] \/ pc'[a] = label
    BY <1>2, <1>4, GotoMoves, KindsOfActors
  <2> QED
    BY <1>2, <1>4, <2>1, MergeStillWaits, KindsOfActors DEF Carrying, Refilling
<1>5. Moved
  <2>1. ASSUME NEW c \in Calls, Issue(c) \/ Reply(c) \/ Refresh(c) \/ RefuseForeign(c) \/ RefuseClaimed(c)
        PROVE  Moved
    <3>1. Goto(c, "queued") \/ Goto(c, "done") \/ Goto(c, "root")
      BY <2>1 DEF Issue, Reply, Refresh, RefuseForeign, RefuseClaimed, Finish
    <3>2. pc[c] # "pushMerge"
      BY <2>1 DEF Issue, Reply, Refresh, RefuseForeign, RefuseClaimed, Enter
    <3> HIDE DEF Moved
    <3> QED
      BY <1>4, <3>1, <3>2
  <2>2. ASSUME Crash, ~MergeWaits PROVE Moved
    <3>1. \A a \in Actors : pc'[a] \in {"idle", "done"}
      BY <2>2 DEF Crash
    <3> QED
      BY <2>2, <3>1 DEF Carrying, Refilling
  <2>3. ASSUME (\E l \in Logins : Claim(l)) \/ EndLease \/ UNCHANGED vars PROVE Moved
    <3>1. UNCHANGED pc
      BY <2>3 DEF Claim, EndLease, calls, vars
    <3> QED
      BY <3>1 DEF MergeWaits
  <2>4. ASSUME NEW w \in Writes, Retry(w) PROVE Moved
    <3>1. Goto(w, "idle") /\ w \in Actors /\ w \notin Branching
      BY <2>4, KindsOfActors DEF Retry
    <3>2. \A a \in Actors : pc'[a] = pc[a] \/ pc'[a] = "idle"
      BY <1>2, <3>1, GotoMoves
    <3>3. ASSUME MergeWaits PROVE MergeWaits'
      <4>1. PICK c \in Calls : pc[c] = "pushMerge"
        BY <3>3 DEF MergeWaits
      <4>2. c # w
        BY <3>1, <4>1, KindsOfActors DEF CastInv, Merging
      <4> QED
        BY <1>2, <3>1, <4>1, <4>2, GotoMoves, KindsOfActors DEF MergeWaits
    <3> QED
      BY <3>2, <3>3 DEF Carrying, Refilling
  <2> HIDE DEF Moved
  <2> QED
    BY <2>1, <2>2, <2>3, <2>4, KindsOfActors
<1>6. CASE UNCHANGED <<builder, left>>
  <2>1. WritesKeep'
    BY <1>1, <1>2, <1>5, <1>6, KeepsStay, KindsOfActors
  <2>2. RebuildStays
    BY <1>1, <1>5, <1>6 DEF RebuildStays, Rebuilding, Carrying
  <2> QED
    BY <1>1, <1>2, <1>3, <1>5, <1>6, <2>1, <2>2, MergedByParts DEF Refilling
<1>7. CASE Crash /\ signature' = 0 /\ left' = {}
  <2>1. \A a \in Actors : pc'[a] \in {"idle", "done"}
    BY <1>7 DEF Crash
  <2>2. WritesKeep'
    BY <2>1, KindsOfActors DEF WritesKeep, WriteKeeps, Refilling
  <2>3. CorpusTopics'
    BY <1>7, <2>1 DEF CorpusTopics, Rebuilding, Topics, Tree
  <2> QED
    BY <1>1, <1>2, <1>3, <1>5, <1>7, <2>2, <2>3, MergedByParts DEF Refilling
<1> QED
  BY <1>1, <1>6, <1>7

\* Fetches, pushes and deletions: the holder of the lock, and no commit.
LEMMA RemoteTopics ==
    ASSUME TypeInv, HeadMade, MergedInv, TypesKept,
           \/ \E w \in Writes : PushWrite(w) \/ PushWriteRaises(w) \/ ReconcileRaises(w)
           \/ \E c \in Branching : \/ CreateWork(c) \/ PushCreated(c) \/ EnterMerge(c) \/ DropTopic(c)
                                   \/ CheckDelete(c) \/ ReadTip(c) \/ DeleteWork(c)
                                   \/ (PushMerge(c) /\ Pushed("spec", head))
    PROVE  MergedInv'
<1>1. LockInv /\ HistoryOK /\ RefsOK /\ RefsOK' /\ Grown
  BY DEF TypeInv, TypesKept
<1>2. UNCHANGED <<commits, head, tree, root, builder, left, signature>>
  BY DEF PushWrite, PushWriteRaises, ReconcileRaises, CreateWork, PushCreated, EnterMerge, PushMerge,
         DropTopic, CheckDelete, ReadTip, DeleteWork, git, corpus
<1>3. \A i : Topics(i)' = Topics(i)
  BY <1>2, TopicsSame
<1>4. ASSUME NEW c \in Calls, Holds(c), Leaves(c),
             \A a \in Actors \ {c} : want'[a] = want[a],
             \/ origin'["spec"] = origin["spec"]
             \/ origin'["spec"] \in 1..Len(commits) /\ origin["spec"] \in Past(origin'["spec"]),
             mirror'["spec"] \in {mirror["spec"], origin["spec"], origin'["spec"]},
             pc[c] # "pushMerge" \/ mirror'["spec"] = head
      PROVE  MergedInv'
  <2>1. SpecKeepsTopics
    BY <1>1, <1>2, <1>4, QuietTopics
  <2>2. WritesKeep' /\ \A a \in Actors : pc'[a] \in Refilling => pc[a] \in Refilling /\ want'[a] = want[a]
    BY <1>1, <1>4, HolderLeaves
  <2>4. RebuildStays
    BY <1>1, <1>2, <1>4, LeavesRebuild
  <2>3. (UNCHANGED head /\ ~MergeWaits) \/ Topics(head)' \subseteq SpecTopics'
    <3>1. CASE pc[c] # "pushMerge"
      BY <1>1, <1>2, <1>4, <3>1, NoMergeWaits
    <3>2. CASE mirror'["spec"] = head
      BY <1>2, <1>3, <3>2 DEF SpecTopics
    <3> QED
      BY <1>4, <3>1, <3>2
  <2> QED
    BY <1>1, <1>2, <2>1, <2>2, <2>3, <2>4, MergedByParts
<1>5. ASSUME NEW c \in Calls, NEW label, Goto(c, label) PROVE pc'[c] = label
  BY <1>1, <1>5, GotoMoves, KindsOfActors
<1>6. ASSUME NEW c \in Calls, NEW answer, Finish(c, answer) PROVE Leaves(c)
  <2>1. Goto(c, "done")
    BY <1>6 DEF Finish
  <2> QED
    BY <1>5, <1>6, <2>1, LeavesWith
<1>7. ASSUME NEW c \in Calls, NEW label \in Labels \ Carrying, Goto(c, label)
      PROVE  Leaves(c)
  BY <1>5, <1>7, LeavesWith
<1>8. /\ {"reconcile", "refresh", "create", "merge", "dropTopic", "tip", "delete"}
            \subseteq Labels \ Carrying
      /\ origin["spec"] \in 1..Len(commits)
  BY <1>1, RefFacts DEF Labels, Carrying
<1>9. ASSUME head \in 1..Len(commits), Pushed("spec", head) \/ PushRaises("spec", head)
      PROVE  /\ \/ origin'["spec"] = origin["spec"]
                \/ origin'["spec"] \in 1..Len(commits) /\ origin["spec"] \in Past(origin'["spec"])
             /\ mirror'["spec"] \in {mirror["spec"], origin'["spec"]}
             /\ Pushed("spec", head) => mirror'["spec"] = head
  <2>1. UNCHANGED origin \/ (origin' = [origin EXCEPT !["spec"] = head] /\ origin["spec"] \in Past(head))
    BY <1>8, <1>9 DEF Pushed, PushRaises
  <2>2. \/ UNCHANGED mirror
        \/ Pushed("spec", head) /\ mirror' = [mirror EXCEPT !["spec"] = head]
             /\ origin' = [origin EXCEPT !["spec"] = head]
    BY <1>9 DEF Pushed, PushRaises
  <2>3. /\ origin' = [origin EXCEPT !["spec"] = head] => origin'["spec"] = head
        /\ mirror' = [mirror EXCEPT !["spec"] = head] => mirror'["spec"] = head
    BY <1>1 DEF RefsOK, Branches
  <2>4. Pushed("spec", head) => mirror' = [mirror EXCEPT !["spec"] = head]
    BY DEF Pushed
  <2> QED
    BY <1>9, <2>1, <2>2, <2>3, <2>4
<1>10. ASSUME NEW w \in Writes, PushWrite(w) \/ PushWriteRaises(w) PROVE MergedInv'
  <2>1. /\ w \in Calls /\ Holds(w) /\ head \in 1..Len(commits) /\ UNCHANGED want /\ pc[w] # "pushMerge"
        /\ Pushed("spec", head) \/ PushRaises("spec", head)
    BY <1>1, <1>10, InsideHolds, KindsOfActors, RefFacts DEF PushWrite, PushWriteRaises, HeadMade, Inside
  <2>2. Leaves(w)
    BY <1>6, <1>7, <1>8, <1>10, <2>1 DEF PushWrite, PushWriteRaises
  <2> QED
    BY <1>4, <1>9, <2>1, <2>2
<1>11. ASSUME NEW w \in Writes, ReconcileRaises(w) PROVE MergedInv'
  <2>1. /\ w \in Calls /\ Holds(w) /\ pc[w] # "pushMerge" /\ UNCHANGED <<origin, want>>
        /\ mirror' \in {mirror, origin} /\ Finish(w, "push failed")
    BY <1>1, <1>11, InsideHolds, KindsOfActors DEF ReconcileRaises
  <2> QED
    BY <1>4, <1>6, <2>1
<1>12. ASSUME NEW c \in Branching, CreateWork(c) \/ EnterMerge(c) \/ CheckDelete(c) PROVE MergedInv'
  <2>1. /\ c \in Calls /\ Holds(c) /\ pc[c] # "pushMerge" /\ UNCHANGED <<origin, want>>
        /\ mirror' \in {mirror, origin}
    BY <1>12, KindsOfActors DEF CreateWork, EnterMerge, CheckDelete, Enter, Fetch
  <2>2. Leaves(c)
    <3>1. CASE CreateWork(c)
      BY <1>6, <1>7, <1>8, <2>1, <3>1 DEF CreateWork
    <3>2. CASE EnterMerge(c)
      BY <1>6, <1>7, <1>8, <2>1, <3>2 DEF EnterMerge
    <3>3. CASE CheckDelete(c)
      BY <1>6, <1>7, <1>8, <2>1, <3>3 DEF CheckDelete
    <3> QED
      BY <1>12, <3>1, <3>2, <3>3
  <2> QED
    BY <1>4, <2>1, <2>2
<1>13. ASSUME NEW c \in Branching, PushCreated(c) \/ DropTopic(c) \/ DeleteWork(c) PROVE MergedInv'
  <2>1. c \in Calls /\ Holds(c) /\ pc[c] # "pushMerge" /\ UNCHANGED want
    BY <1>1, <1>13, InsideHolds, KindsOfActors DEF PushCreated, DropTopic, DeleteWork
  <2>2. UNCHANGED origin \/ \E x : origin' = [origin EXCEPT !["topic"] = x]
    BY <1>13 DEF PushCreated, PushRaises, DropTopic, DeleteWork
  <2>3. origin'["spec"] = origin["spec"]
    BY <1>1, <2>2 DEF RefsOK, Branches
  <2>4. mirror' \in {mirror, origin'} \/ mirror' = [mirror EXCEPT !["topic"] = 0]
    BY <1>13 DEF PushCreated, PushRaises, DropTopic, DeleteWork, Refetch
  <2>5. mirror'["spec"] \in {mirror["spec"], origin["spec"]}
    BY <1>1, <2>3, <2>4 DEF RefsOK, Branches
  <2>6. Leaves(c)
    <3>1. Goto(c, "done") \/ Goto(c, "refresh")
      BY <1>13 DEF PushCreated, DropTopic, DeleteWork, Finish
    <3> QED
      BY <1>5, <2>1, <3>1, LeavesWith
  <2> QED
    BY <1>4, <2>1, <2>3, <2>5, <2>6
<1>14. ASSUME NEW c \in Branching, ReadTip(c) PROVE MergedInv'
  <2>1. c \in Calls /\ Holds(c) /\ pc[c] # "pushMerge" /\ UNCHANGED <<origin, mirror>>
    BY <1>1, <1>14, InsideHolds, KindsOfActors DEF ReadTip, git
  <2>2. UNCHANGED want \/ want' = [want EXCEPT ![c] = mirror["topic"]]
    BY <1>14 DEF ReadTip
  <2>3. \A a \in Actors \ {c} : want'[a] = want[a]
    BY <1>1, <2>2 DEF RefsOK
  <2>4. Leaves(c)
    BY <1>6, <1>7, <1>8, <1>14, <2>1 DEF ReadTip
  <2> QED
    BY <1>4, <2>1, <2>3, <2>4
<1>15. ASSUME NEW c \in Branching, PushMerge(c), Pushed("spec", head) PROVE MergedInv'
  <2>1. c \in Calls /\ Holds(c) /\ head \in 1..Len(commits) /\ UNCHANGED want
    BY <1>1, <1>15, InsideHolds, KindsOfActors, RefFacts DEF PushMerge, HeadMade
  <2>2. Leaves(c)
    BY <1>6, <1>7, <1>8, <1>15, <2>1 DEF PushMerge
  <2> QED
    BY <1>4, <1>9, <1>15, <2>1, <2>2
<1> QED
  BY <1>10, <1>11, <1>12, <1>13, <1>14, <1>15

\* Steps that move the worktree's branch.
LEMMA BranchTopics ==
    ASSUME TypeInv, HeadMade, MergedInv, TypesKept,
           \/ \E w \in Writes : EnterWrite(w) \/ CommitWrite(w) \/ Reconcile(w)
           \/ \E c \in Branching : MergeTopic(c)
    PROVE  MergedInv'
<1>1. /\ LockInv /\ HistoryOK /\ RefsOK /\ RefsOK' /\ Grown /\ Len(commits) \in Nat
      /\ HistoryKeepsTopics /\ SpecTopics \subseteq Topics(origin["spec"]) /\ LocalTopics /\ WritesKeep
  BY HistoryFacts DEF TypeInv, TypesKept, MergedInv
<1>2. UNCHANGED <<origin, root, builder, left, signature, want>>
  BY DEF EnterWrite, CommitWrite, Reconcile, MergeTopic, corpus
<1>3. \A i \in 0..Len(commits) : Topics(i)' = Topics(i)
  BY <1>1, TopicsSame
<1>4. ASSUME NEW c \in Calls, Holds(c), NEW label, Goto(c, label), label \notin Carrying,
             SpecKeepsTopics,
             label = "pushMerge" \/ Topics(head)' \subseteq SpecTopics',
             \/ UNCHANGED <<tree, head>>
             \/ tree' \cap TopicEdits \subseteq Topics(head)' \cup SpecTopics'
      PROVE  MergedInv'
  <2>1. pc'[c] = label
    BY <1>1, <1>4, GotoMoves, KindsOfActors
  <2>2. WritesKeep' /\ \A a \in Actors : pc'[a] \in Refilling => pc[a] \in Refilling /\ want'[a] = want[a]
    BY <1>1, <1>2, <1>4, <2>1, HolderLeaves DEF Leaves
  <2>4. RebuildStays
    BY <1>1, <1>2, <1>4, LeavesRebuild DEF Leaves
  <2>3. label = "pushMerge" => MergeWaits'
    BY <2>1 DEF MergeWaits
  <2> QED
    BY <1>1, <1>2, <1>4, <2>2, <2>3, <2>4, MergedByParts
<1>5. ASSUME UNCHANGED commits, mirror' = mirror \/ mirror' = origin
      PROVE  /\ SpecKeepsTopics /\ \A i : Topics(i)' = Topics(i) /\ Tree(i)' = Tree(i)
             /\ SpecTopics' = Topics(mirror'["spec"])
             /\ SpecTopics \subseteq Topics(mirror'["spec"])
  <2>1. \A i : Topics(i)' = Topics(i) /\ Tree(i)' = Tree(i)
    BY <1>5, TopicsSame
  <2>2. SpecKeepsTopics
    BY <1>1, <1>2, <1>5, QuietTopics
  <2>3. SpecTopics' = Topics(mirror'["spec"])
    BY <2>1 DEF SpecTopics
  <2> QED
    BY <2>1, <2>2, <2>3 DEF SpecKeepsTopics
<1>6. ASSUME NEW w \in Writes, EnterWrite(w) \/ CommitWrite(w) \/ Reconcile(w)
      PROVE  w \in Calls /\ Holds(w) /\ Topics(head) \subseteq SpecTopics
  <2>1. w \in Calls /\ Holds(w) /\ pc[w] # "pushMerge"
    BY <1>1, <1>6, InsideHolds, KindsOfActors DEF EnterWrite, CommitWrite, Reconcile
  <2> QED
    BY <1>1, <2>1, NoMergeWaits DEF LocalTopics
<1>7. {"root", "push", "reconcile", "repush", "pushMerge", "done"} \cap Carrying = {}
  BY DEF Carrying
<1>8. ASSUME NEW w \in Writes, EnterWrite(w) PROVE MergedInv'
  <2>1. /\ Goto(w, "root") /\ UNCHANGED commits /\ head' = WorktreeHead(mirror'["spec"])
        /\ tree' = Tree(head') /\ (mirror' = mirror \/ mirror' = origin)
    BY <1>8 DEF EnterWrite, Fetch
  <2>2. /\ SpecKeepsTopics /\ \A i : Topics(i)' = Topics(i)
        /\ SpecTopics' = Topics(mirror'["spec"]) /\ SpecTopics \subseteq Topics(mirror'["spec"])
    BY <1>5, <2>1
  <2>3. Topics(head)' = Topics(head') /\ tree' \cap TopicEdits = Topics(head')
    BY <2>1, <2>2 DEF Topics
  <2>4. Topics(head') \subseteq Topics(mirror'["spec"])
    BY <1>6, <1>8, <2>1, <2>2 DEF WorktreeHead
  <2> QED
    BY <1>4, <1>6, <1>7, <1>8, <2>1, <2>2, <2>3, <2>4
<1>9. ASSUME NEW w \in Writes, CommitWrite(w) PROVE MergedInv'
  <2>1. pc[w] = "commit" /\ head \in 1..Len(commits) /\ UNCHANGED <<mirror, tree>>
    BY <1>1, <1>9, RefFacts DEF CommitWrite, HeadMade, Inside
  <2>2. CASE UNCHANGED <<commits, head>>
    <3>1. SpecKeepsTopics /\ Topics(head)' \subseteq SpecTopics'
      <4>1. SpecKeepsTopics /\ \A i : Topics(i)' = Topics(i)
        BY <1>5, <2>1, <2>2
      <4>2. Topics(head)' = Topics(head)
        BY <2>2, <4>1
      <4> QED
        BY <1>6, <1>9, <4>1, <4>2 DEF SpecKeepsTopics
    <3>2. Goto(w, "push") \/ Goto(w, "reconcile")
      BY <1>9 DEF CommitWrite
    <3> QED
      BY <1>4, <1>6, <1>7, <1>9, <2>1, <2>2, <3>1, <3>2
  <2>3. CASE Commit(Past(head), tree, FALSE) /\ head' = NewCommit /\ Goto(w, "push")
    <3>1. tree \in SUBSET Items /\ 0 \in 0..Len(commits) /\ origin["spec"] \in 0..Len(commits)
      BY <1>1 DEF RefsOK, Branches
    <3>2. Commit(Past(head) \cup Past(0), tree, FALSE)
      BY <1>1, <2>3, HistoryFacts
    <3>3. HistoryOK' /\ Added(Past(head) \cup Past(0), tree)
      BY <1>1, <2>1, <3>1, <3>2, CommitOnTop
    <3>4. Topics(head) \cup Topics(0) \subseteq tree
      BY <1>1, <1>9, <2>1 DEF WritesKeep, WriteKeeps, Topics, Tree
    <3>5. tree \cap TopicEdits \subseteq SpecTopics
      BY <1>1, <1>6, <1>9 DEF LocalTopics
    <3>6. Topics(origin["spec"]) \subseteq Topics(origin["spec"])'
      <4>1. \A i \in 0..Len(commits) : i = origin["spec"] => Topics(origin["spec"])' = Topics(i)'
        BY <1>2
      <4> QED
        BY <1>3, <3>1, <4>1
    <3>7. SpecKeepsTopics /\ \A n \in {NewCommit} : Topics(n)' = tree \cap TopicEdits
      BY <1>1, <2>1, <3>1, <3>3, <3>4, <3>6, CommitTopics
    <3>8. \A n : n = head' => Topics(head)' = Topics(n)'
      OBVIOUS
    <3>9. Topics(head)' = tree \cap TopicEdits
      BY <2>3, <3>7, <3>8
    <3>10. SpecTopics \subseteq SpecTopics'
      BY <3>7 DEF SpecKeepsTopics
    <3> QED
      BY <1>4, <1>6, <1>7, <1>9, <2>1, <2>3, <3>5, <3>7, <3>9, <3>10
  <2> QED
    BY <1>9, <2>2, <2>3 DEF CommitWrite
<1>10. ASSUME NEW w \in Writes, Reconcile(w) PROVE MergedInv'
  <2>1. /\ Goto(w, "repush") /\ mirror' = origin
        /\ head \in 1..Len(commits) /\ origin["spec"] \in 1..Len(commits)
    BY <1>1, <1>10, RefFacts DEF Reconcile, HeadMade, Inside
  <2>2. Topics(origin["spec"])' = Topics(origin["spec"]) /\ SpecTopics' = Topics(origin["spec"])
    <3>1. \A n \in 0..Len(commits) : n = origin["spec"] /\ n = mirror'["spec"]
             => Topics(origin["spec"])' = Topics(n)' /\ SpecTopics' = Topics(n)'
      BY <1>2 DEF SpecTopics
    <3> QED
      BY <1>2, <1>3, <2>1, <3>1
  <2>3. Topics(head) \subseteq Topics(origin["spec"])
    BY <1>1, <1>6, <1>10
  <2>4. CASE UNCHANGED <<commits, head, tree>>
    <3>1. SpecKeepsTopics /\ Topics(head)' = Topics(head)
      BY <1>5, <2>1, <2>4
    <3> QED
      BY <1>4, <1>6, <1>7, <1>10, <2>1, <2>2, <2>3, <2>4, <3>1
  <2>5. CASE UNCHANGED commits /\ head' = origin["spec"] /\ tree' = Tree(head')
    <3>1. SpecKeepsTopics /\ Topics(head)' = Topics(head') /\ tree' \cap TopicEdits = Topics(head')
      BY <1>5, <2>1, <2>5 DEF Topics
    <3> QED
      BY <1>4, <1>6, <1>7, <1>10, <2>1, <2>2, <2>5, <3>1
  <2>6. CASE Replay
    <3> DEFINE o == origin["spec"]
               f == \E i \in Past(head) \ Past(o) : commits[i].foreign
               T == Merged(o, head)
    <3>1. Commit(Past(o) \cup Past(0), T, f)
      BY <1>1, <2>6, HistoryFacts DEF Replay
    <3>2. T \in SUBSET Items /\ f \in BOOLEAN /\ 0 \in 0..Len(commits)
      BY <1>1, <2>1, MergedIsContent
    <3>3. T \cap TopicEdits = Topics(o)
      <4>1. T \cap TopicEdits = Topics(o) \cup Topics(head)
        BY <1>1, <2>1, MergedTopics
      <4> QED
        BY <2>3, <4>1
    <3>4. head' = NewCommit /\ tree' = commits'[NewCommit].tree
      BY <2>6 DEF Replay
    <3> HIDE DEF o, f, T
    <3>5. o \in 1..Len(commits) /\ o = origin["spec"]
      BY <2>1 DEF o
    <3>6. HistoryOK' /\ Added(Past(o) \cup Past(0), T) /\ commits'[NewCommit].tree = T
      BY <1>1, <3>1, <3>2, <3>5, CommitOnTop
    <3>7. Topics(o) \cup Topics(0) \subseteq T
      BY <3>3 DEF Topics, Tree
    <3>8. SpecKeepsTopics /\ \A n \in {NewCommit} : Topics(n)' = T \cap TopicEdits
      <4>1. /\ Topics(origin["spec"]) \subseteq Topics(origin["spec"])'
            /\ mirror'["spec"] \in {mirror["spec"], origin["spec"]} /\ MergedInv /\ HistoryOK'
        BY <2>1, <2>2, <3>6
      <4> QED
        BY <1>1, <3>2, <3>5, <3>6, <3>7, <4>1, CommitTopics
    <3>9. \A n : n = head' => Topics(head)' = Topics(n)'
      OBVIOUS
    <3> QED
      BY <1>4, <1>6, <1>7, <1>10, <2>1, <2>2, <3>3, <3>4, <3>5, <3>6, <3>8, <3>9
  <2> QED
    BY <1>10, <2>4, <2>5, <2>6 DEF Reconcile
<1>11. ASSUME NEW c \in Branching, MergeTopic(c) PROVE MergedInv'
  <2> DEFINE spec == mirror'["spec"]
             topic == mirror'["topic"]
             base == IF Past(WorktreeHead(spec)) \subseteq Past(spec) THEN spec ELSE WorktreeHead(spec)
             T == Merged(base, topic)
             NewTree == IF head' = NewCommit THEN commits'[NewCommit].tree ELSE Tree(head')
  <2>1. Fetch /\ c \in Calls /\ Holds(c) /\ (mirror' = mirror \/ mirror' = origin) /\ pc[c] = "merge"
    BY <1>1, <1>11, InsideHolds, KindsOfActors DEF MergeTopic, Fetch
  <2>2. spec \in 1..Len(commits) /\ topic \in 0..Len(commits) /\ spec \in {mirror["spec"], origin["spec"]}
        /\ origin["spec"] \in 0..Len(commits)
    BY <1>1, <2>1, FetchFacts DEF RefsOK, Branches
  <2>3. base \in 1..Len(commits)
    BY <1>1, <2>2, RefFacts DEF WorktreeHead
  <2>4. tree' = NewTree
    BY <1>11 DEF MergeTopic
  <2>5. \/ UNCHANGED commits /\ head' = base /\ (Goto(c, "pushMerge") \/ Goto(c, "done"))
        \/ /\ ~(Past(topic) \subseteq Past(base)) /\ head' = NewCommit /\ Goto(c, "pushMerge")
           /\ Commit(Past(base) \cup Past(topic), T, FALSE)
    BY <1>11 DEF MergeTopic, Finish
  <2>6. Topics(base) \subseteq Topics(spec)
    <3>1. Topics(head) \subseteq SpecTopics /\ SpecTopics \subseteq Topics(spec)
      BY <1>1, <2>1, <2>2, NoMergeWaits DEF LocalTopics, SpecTopics
    <3> QED
      BY <3>1 DEF WorktreeHead
  <2>7. CASE UNCHANGED commits /\ head' = base /\ (Goto(c, "pushMerge") \/ Goto(c, "done"))
    <3>1. NewCommit # head'
      BY <1>1, <2>3, <2>7 DEF NewCommit
    <3>2. tree' = Tree(head')
      BY <2>4, <3>1
    <3>3. SpecKeepsTopics /\ Topics(head)' = Topics(head') /\ SpecTopics' = Topics(spec)
      BY <1>5, <2>1, <2>7
    <3>4. tree' \cap TopicEdits = Topics(head')
      BY <3>2 DEF Topics
    <3> HIDE DEF base, spec
    <3> QED
      BY <1>4, <1>7, <2>1, <2>6, <2>7, <3>3, <3>4
  <2>8. CASE /\ ~(Past(topic) \subseteq Past(base)) /\ head' = NewCommit /\ Goto(c, "pushMerge")
             /\ Commit(Past(base) \cup Past(topic), T, FALSE)
    <3>1. topic \in 1..Len(commits)
      BY <1>1, <2>2, <2>8, HistoryFacts
    <3>2. T \in SUBSET Items
      BY <1>1, <2>3, <3>1, MergedIsContent
    <3>3. T \cap TopicEdits = Topics(base) \cup Topics(topic)
      BY <1>1, <2>3, <3>1, MergedTopics
    <3>4. tree' = commits'[NewCommit].tree
      BY <2>4, <2>8
    <3> HIDE DEF base, topic, spec, T
    <3>5. HistoryOK' /\ Added(Past(base) \cup Past(topic), T) /\ commits'[NewCommit].tree = T
      BY <1>1, <2>2, <2>3, <2>8, <3>2, CommitOnTop
    <3>6. Topics(base) \cup Topics(topic) \subseteq T
      BY <3>3
    <3>7. Topics(origin["spec"]) \subseteq Topics(origin["spec"])'
      <4>1. \A i \in 0..Len(commits) : i = origin["spec"] => Topics(origin["spec"])' = Topics(i)'
        BY <1>2
      <4> QED
        BY <1>3, <2>2, <4>1
    <3>8. SpecKeepsTopics /\ \A n \in {NewCommit} : Topics(n)' = T \cap TopicEdits
      <4>1. mirror'["spec"] \in {mirror["spec"], origin["spec"]}
        BY <2>1
      <4>2. HistoryOK /\ RefsOK /\ MergedInv
        BY <1>1
      <4>3. topic \in 0..Len(commits)
        BY <2>2
      <4>4. HistoryOK' /\ Added(Past(base) \cup Past(topic), T)
        BY <3>5
      <4> HIDE DEF NewTree
      <4> QED
        BY <2>3, <3>2, <3>6, <3>7, <4>1, <4>2, <4>3, <4>4, CommitTopics
    <3>9. \A n : n = head' => Topics(head)' = Topics(n)'
      OBVIOUS
    <3> QED
      BY <1>4, <1>7, <2>1, <2>8, <3>4, <3>5, <3>8, <3>9
  <2> HIDE DEF base, topic, spec, T
  <2> QED
    BY <2>5, <2>7, <2>8
<1> QED
  BY <1>8, <1>9, <1>10, <1>11

\* The rebuild of the corpus: a write that goes on finds in it all that the
\* worktree's branch has, unless somebody else rebuilds it.
LEMMA RootTopics ==
    ASSUME TypeInv, MergedInv, TypesKept, ~raced', NEW a \in Actors, RootStep(a)
    PROVE  MergedInv'
<1>1. /\ LockInv /\ HistoryOK /\ RefsOK /\ RefsOK' /\ Grown
      /\ LocalTopics /\ CorpusTopics /\ WritesKeep
  BY DEF TypeInv, TypesKept, MergedInv
<1>2. UNCHANGED <<commits, origin, head, tree>> /\ (mirror' = mirror \/ mirror' = origin)
  BY DEF RootStep, CheckRoot, ClearRoot, ListRoot, FillRoot, SignRoot, BreakRoot, Fetch, git
<1>3. \A i : Topics(i)' = Topics(i)
  BY <1>2, TopicsSame
<1>4. SpecKeepsTopics
  BY <1>1, <1>2, QuietTopics
<1>5. SpecTopics' = Topics(mirror'["spec"]) /\ Topics(head)' = Topics(head) /\ SpecTopics \subseteq SpecTopics'
  BY <1>2, <1>3, <1>4 DEF SpecTopics, SpecKeepsTopics
<1>6. pc[a] # "pushMerge" /\ (a \in Calls => Holds(a) /\ Topics(head) \subseteq SpecTopics)
  <2>1. pc[a] # "pushMerge" /\ (a \in Calls => pc[a] \notin {"idle", "queued", "done"})
    BY KindsOfActors DEF RootStep, CheckRoot, ClearRoot, ListRoot, FillRoot, SignRoot, BreakRoot
  <2>2. a \in Calls => Holds(a)
    BY <1>1, <2>1, InsideHolds
  <2> QED
    BY <1>1, <2>1, <2>2, NoMergeWaits DEF LocalTopics
<1>7. (a \in Writes => a \in Calls) /\ a # "nobody"
  BY KindsOfActors, CallsAssumption
<1>8. ASSUME NEW label, Goto(a, label) PROVE MergeWaits' \/ (UNCHANGED head /\ ~MergeWaits)
  BY <1>1, <1>2, <1>6, <1>8, MergeStillWaits
<1>9. \A b \in Actors : Topics(want[b])' = Topics(want'[b])
  BY <1>3
<1>10. ASSUME NEW label, Goto(a, label) PROVE pc'[a] = label /\ \A b \in Actors \ {a} : pc'[b] = pc[b]
  BY <1>1, <1>10, GotoMoves
<1>11. a \in Writes => After(a) \in {"apply", "reply"}
  BY KindsOfActors DEF After
<1>12. After(a) \notin Refilling /\ "rebuild" \notin Rebuilding /\ Rebuilding \subseteq Refilling
  BY DEF After, Rebuilding, Refilling
\* It is enough to look at the writes that are there while a read rebuilds.
<1>13. ASSUME NEW label, Goto(a, label), a \in Writes => WriteKeeps(a)',
              a \notin Calls => \A w \in Writes : WriteKeeps(w)'
       PROVE  WritesKeep'
  <2>1. CASE a \in Calls
    BY <1>1, <1>6, <1>13, <2>1, HolderKeeps
  <2>2. CASE a \notin Calls
    BY <1>13, <2>2 DEF WritesKeep
  <2> QED
    BY <2>1, <2>2
\* A write that goes on with the corpus that is there.
<1>14. ASSUME Proceed(a), a \in Writes, UNCHANGED <<root, builder>>, Topics(head) \subseteq Topics(signature)
       PROVE  WriteKeeps(a)'
  <2>1. pc'[a] = After(a)
    BY <1>10, <1>14 DEF Proceed
  <2>2. After(a) = "apply" => builder = "nobody"
    BY <1>14 DEF Proceed
  <2>3. CASE After(a) = "apply"
    <3>1. builder' = "nobody" /\ Topics(head)' \subseteq root'
      BY <1>1, <1>5, <1>14, <2>2, <2>3 DEF CorpusTopics
    <3> QED
      BY <2>1, <2>3, <3>1 DEF WriteKeeps, Refilling
  <2>4. CASE After(a) = "reply"
    BY <2>1, <2>4 DEF WriteKeeps, Refilling
  <2> QED
    BY <1>11, <1>14, <2>3, <2>4
<1>15. ASSUME CheckRoot(a) PROVE MergedInv'
  <2>1. /\ want' = [want EXCEPT ![a] = mirror'["spec"]]
        /\ UNCHANGED <<root, signature, builder, left>>
        /\ \/ signature = mirror'["spec"] /\ Proceed(a)
           \/ Goto(a, "rebuild")
    BY <1>15 DEF CheckRoot
  <2>2. want'[a] = mirror'["spec"] /\ \A b \in Actors \ {a} : want'[b] = want[b]
    BY <1>1, <2>1 DEF RefsOK
  <2>3. PICK label : Goto(a, label) /\ label \in {After(a), "rebuild"}
    BY <2>1 DEF Proceed
  <2>4. ASSUME a \in Writes PROVE WriteKeeps(a)'
    <3>1. CASE signature = mirror'["spec"] /\ Proceed(a)
      <4>1. Topics(head) \subseteq Topics(signature)
        BY <1>5, <1>6, <1>7, <2>4, <3>1
      <4> QED
        BY <1>14, <2>1, <2>4, <3>1, <4>1
    <3>2. CASE Goto(a, "rebuild")
      <4>1. pc'[a] = "rebuild"
        BY <1>10, <3>2
      <4>2. Topics(head)' \subseteq Topics(want[a])'
        BY <1>5, <1>6, <1>7, <1>9, <2>2, <2>4
      <4> QED
        BY <4>1, <4>2 DEF WriteKeeps
    <3> QED
      BY <2>1, <3>1, <3>2
  <2>5. ASSUME a \notin Calls, NEW w \in Writes PROVE WriteKeeps(w)'
    <3>1. w \in Actors \ {a}
      BY <2>5, KindsOfActors
    <3>2. pc'[w] = pc[w] /\ want'[w] = want[w]
      BY <1>10, <2>2, <2>3, <3>1
    <3>3. WriteKeeps(w) /\ Topics(want[w])' = Topics(want[w])
      BY <1>1, <1>9, <3>1, <3>2 DEF WritesKeep
    <3> QED
      BY <1>2, <1>5, <2>1, <3>2, <3>3 DEF WriteKeeps
  <2>6. WritesKeep'
    BY <1>13, <2>3, <2>4, <2>5
  <2>7. \A b \in Actors : pc'[b] \in Refilling =>
           (pc[b] \in Refilling /\ want'[b] = want[b]) \/ Topics(want[b])' \subseteq SpecTopics'
    <3>1. \A b \in Actors \ {a} : pc'[b] = pc[b]
      BY <1>10, <2>3
    <3> QED
      BY <1>5, <1>9, <2>2, <3>1
  <2>8. RebuildStays
    <3>1. pc'[a] \notin Rebuilding
      BY <1>10, <1>12, <2>3
    <3>2. \A b \in Actors \ {a} : pc'[b] = pc[b] /\ want'[b] = want[b]
      BY <1>10, <2>2, <2>3
    <3> QED
      BY <2>1, <3>1, <3>2 DEF RebuildStays
  <2> QED
    BY <1>1, <1>2, <1>4, <1>8, <2>1, <2>3, <2>6, <2>7, <2>8, MergedByParts
\* What the other steps leave to show.
<1>16. ASSUME NEW label, Goto(a, label), UNCHANGED want, pc[a] \in Refilling
       PROVE  \A b \in Actors : pc'[b] \in Refilling => pc[b] \in Refilling /\ want'[b] = want[b]
  BY <1>10, <1>16
<1>17. ASSUME NEW label, Goto(a, label), UNCHANGED want, pc[a] \in Refilling, WritesKeep',
              root' = root \/ root' \cap TopicEdits \subseteq SpecTopics',
              left' = left \/ left' \cap TopicEdits \subseteq SpecTopics',
              CorpusTopics' \/ RebuildStays
       PROVE  MergedInv'
  <2>1. MergeWaits' \/ (UNCHANGED head /\ ~MergeWaits)
    BY <1>8, <1>17
  <2>2. \A b \in Actors : pc'[b] \in Refilling => pc[b] \in Refilling /\ want'[b] = want[b]
    BY <1>16, <1>17
  <2> QED
    BY <1>1, <1>2, <1>4, <1>17, <2>1, <2>2, MergedByParts
<1>18. ASSUME ClearRoot(a) PROVE MergedInv'
  <2>1. UNCHANGED <<signature, want, left>> /\ pc[a] = "rebuild" /\ pc[a] \in Refilling
    BY <1>18 DEF ClearRoot, Refilling
  <2>2. CASE signature = want[a] /\ Proceed(a) /\ UNCHANGED <<root, builder>>
    <3>1. Goto(a, After(a))
      BY <2>2 DEF Proceed
    <3>2. ASSUME a \in Writes PROVE WriteKeeps(a)'
      <4>1. Topics(head) \subseteq Topics(want[a])
        BY <1>1, <2>1, <3>2 DEF WritesKeep, WriteKeeps
      <4> QED
        BY <1>14, <2>2, <3>2, <4>1
    <3>3. ASSUME a \notin Calls, NEW w \in Writes PROVE WriteKeeps(w)'
      <4>1. w \in Actors \ {a}
        BY <3>3, KindsOfActors
      <4>2. pc'[w] = pc[w]
        BY <1>10, <3>1, <4>1
      <4>3. WriteKeeps(w) /\ Topics(want[w])' = Topics(want[w])
        BY <1>1, <1>9, <2>1, <4>1 DEF WritesKeep
      <4> QED
        BY <1>2, <1>5, <2>2, <4>2, <4>3 DEF WriteKeeps
    <3>4. WritesKeep'
      BY <1>13, <3>1, <3>2, <3>3
    <3>5. RebuildStays
      BY <1>10, <1>12, <2>1, <2>2, <3>1 DEF RebuildStays
    <3> QED
      BY <1>17, <2>1, <2>2, <3>1, <3>4, <3>5
  <2>3. CASE /\ builder = "nobody" /\ Goto(a, "list") /\ root' = {} /\ builder' = a
             /\ ~\E w \in Writes : pc[w] \in {"apply", "sync"}
    <3>1. pc'[a] = "list"
      BY <1>10, <2>3
    <3>2. ASSUME a \in Writes PROVE WriteKeeps(a)'
      <4>1. Topics(head) \subseteq Topics(want[a])
        BY <1>1, <2>1, <3>2 DEF WritesKeep, WriteKeeps
      <4> QED
        BY <1>5, <1>9, <2>1, <3>1, <4>1 DEF WriteKeeps
    <3>3. ASSUME a \notin Calls, NEW w \in Writes PROVE WriteKeeps(w)'
      <4>1. w \in Actors \ {a}
        BY <3>3, KindsOfActors
      <4>2. pc'[w] = pc[w] /\ pc[w] \notin {"apply", "sync"}
        BY <1>10, <2>3, <4>1
      <4>3. WriteKeeps(w) /\ Topics(want[w])' = Topics(want[w])
        BY <1>1, <1>9, <2>1, <4>1 DEF WritesKeep
      <4> QED
        BY <1>2, <1>5, <4>2, <4>3 DEF WriteKeeps
    <3>4. WritesKeep'
      BY <1>13, <2>3, <3>2, <3>3
    <3>5. \A b \in Actors \ {a} : pc'[b] \notin Rebuilding
      <4>1. \A b \in Actors : pc[b] \notin Rebuilding
        BY <1>1, <2>3, CallsAssumption DEF CorpusTopics
      <4> QED
        BY <1>10, <2>3, <4>1
    <3>6. CorpusTopics'
      BY <1>7, <2>3, <3>1, <3>5 DEF CorpusTopics, Rebuilding
    <3>7. root' \cap TopicEdits \subseteq SpecTopics'
      BY <2>3
    <3> QED
      BY <1>17, <2>1, <2>3, <3>4, <3>6, <3>7
  <2> QED
    BY <1>18, <2>2, <2>3 DEF ClearRoot
\* The steps of the one that rebuilds.
<1>19. ASSUME pc[a] \in Rebuilding
       PROVE  builder = a /\ pc[a] \in Refilling /\ \A b \in Actors \ {a} : pc[b] \notin Rebuilding
  BY <1>1, <1>12, <1>19 DEF CorpusTopics
<1>20. ASSUME NEW label, Goto(a, label), pc[a] \in Rebuilding, UNCHANGED want, a \notin Calls,
              NEW w \in Writes
       PROVE  WriteKeeps(w)'
  <2>1. w \in Actors \ {a}
    BY <1>20, KindsOfActors
  <2>2. pc'[w] = pc[w]
    BY <1>10, <1>20, <2>1
  <2>3. WriteKeeps(w) /\ Topics(want[w])' = Topics(want[w])
    BY <1>1, <1>9, <1>20, <2>1 DEF WritesKeep
  <2>4. pc[w] \notin {"apply", "sync"}
    BY <1>7, <1>19, <1>20, <2>3 DEF WriteKeeps
  <2> QED
    BY <1>2, <1>5, <2>2, <2>3, <2>4 DEF WriteKeeps
<1>21. ASSUME NEW label \in Rebuilding, Goto(a, label), pc[a] \in Rebuilding, UNCHANGED want
       PROVE  WritesKeep' /\ builder = a /\ pc'[a] = label /\ \A b \in Actors \ {a} : pc'[b] \notin Rebuilding
  <2>1. ASSUME a \in Writes PROVE WriteKeeps(a)'
    <3>1. Topics(head) \subseteq Topics(want[a])
      BY <1>1, <1>12, <1>21, <2>1 DEF WritesKeep, WriteKeeps
    <3>2. pc'[a] \in {"list", "fill"} /\ Topics(head)' \subseteq Topics(want[a])'
      BY <1>5, <1>9, <1>10, <1>21, <3>1 DEF Rebuilding
    <3> QED
      BY <3>2 DEF WriteKeeps
  <2>2. WritesKeep'
    BY <1>13, <1>20, <1>21, <2>1
  <2> QED
    BY <1>10, <1>19, <1>21, <2>2
<1>22. ASSUME ListRoot(a) PROVE MergedInv'
  <2>1. /\ UNCHANGED <<mirror, root, signature, builder, want>> /\ pc[a] = "list"
        /\ Goto(a, "fill") /\ left' = Tree(mirror["spec"])
    BY <1>22 DEF ListRoot, git
  <2>2. pc[a] \in Rebuilding /\ "fill" \in Rebuilding
    BY <2>1 DEF Rebuilding
  <2>3. WritesKeep' /\ builder = a /\ pc'[a] = "fill" /\ \A b \in Actors \ {a} : pc'[b] \notin Rebuilding
    BY <1>21, <2>1, <2>2
  <2>4. left' \cap TopicEdits = SpecTopics /\ SpecTopics \subseteq left'
    BY <2>1 DEF Topics, SpecTopics
  <2>5. Topics(want[a]) \subseteq SpecTopics
    BY <1>1, <1>19, <2>2 DEF LocalTopics
  <2>6. Topics(want[a])' \subseteq root' \cup left'
    BY <1>9, <2>1, <2>4, <2>5
  <2>7. CorpusTopics'
    BY <1>7, <2>1, <2>3, <2>6 DEF CorpusTopics, Rebuilding
  <2>8. left' \cap TopicEdits \subseteq SpecTopics'
    BY <1>5, <2>4
  <2> QED
    BY <1>17, <1>19, <2>1, <2>2, <2>3, <2>7, <2>8
<1>23. ASSUME FillRoot(a) PROVE MergedInv'
  <2>1. /\ UNCHANGED <<mirror, signature, builder, want>> /\ pc[a] = "fill" /\ Goto(a, "fill")
    BY <1>23 DEF FillRoot, git
  <2>2. PICK d \in left \cap Tree(mirror["spec"]) : root' = root \cup {d} /\ left' = left \ {d}
    BY <1>23 DEF FillRoot
  <2>3. pc[a] \in Rebuilding /\ "fill" \in Rebuilding
    BY <2>1 DEF Rebuilding
  <2>4. WritesKeep' /\ builder = a /\ pc'[a] = "fill" /\ \A b \in Actors \ {a} : pc'[b] \notin Rebuilding
    BY <1>21, <2>1, <2>3
  <2>5. Topics(want[a])' \subseteq root' \cup left'
    BY <1>1, <1>9, <2>1, <2>2 DEF CorpusTopics
  <2>6. CorpusTopics'
    BY <1>7, <2>1, <2>4, <2>5 DEF CorpusTopics, Rebuilding
  <2>7. /\ left' \cap TopicEdits \subseteq SpecTopics'
        /\ root' \cap TopicEdits \subseteq SpecTopics'
    <3>1. {d} \cap TopicEdits \subseteq SpecTopics
      BY <2>2 DEF Topics, SpecTopics
    <3>2. (root \cup left) \cap TopicEdits \subseteq SpecTopics
      BY <1>1 DEF LocalTopics
    <3> QED
      BY <1>5, <2>2, <3>1, <3>2
  <2> QED
    BY <1>17, <1>19, <2>1, <2>3, <2>4, <2>6, <2>7
<1>24. ASSUME SignRoot(a) PROVE MergedInv'
  <2>1. /\ UNCHANGED <<root, left, want>> /\ pc[a] = "fill" /\ Goto(a, After(a))
        /\ left = {} /\ signature' = want[a] /\ builder' = "nobody"
    BY <1>24 DEF SignRoot
  <2>2. pc[a] \in Rebuilding /\ pc[a] \in Refilling /\ pc'[a] = After(a) /\ builder = a
    BY <1>10, <1>19, <2>1 DEF Rebuilding
  <2>3. Topics(want[a]) \subseteq root
    BY <1>1, <2>1 DEF CorpusTopics
  <2>4. ASSUME a \in Writes PROVE WriteKeeps(a)'
    <3>1. Topics(head) \subseteq Topics(want[a])
      BY <1>1, <2>2, <2>4 DEF WritesKeep, WriteKeeps
    <3>2. Topics(head)' \subseteq root'
      BY <1>5, <2>1, <2>3, <3>1
    <3>3. pc'[a] \in {"apply", "reply"}
      BY <1>11, <2>2, <2>4
    <3> QED
      BY <2>1, <3>2, <3>3 DEF WriteKeeps, Refilling
  <2>5. WritesKeep'
    BY <1>13, <1>20, <2>1, <2>2, <2>4
  <2>6. Topics(signature)' \subseteq root'
    BY <1>3, <2>1, <2>3
  <2>7. \A b \in Actors : pc'[b] \notin Rebuilding
    BY <1>10, <1>12, <1>19, <2>1, <2>2
  <2>8. CorpusTopics'
    BY <2>6, <2>7 DEF CorpusTopics, Rebuilding
  <2> QED
    BY <1>17, <2>1, <2>2, <2>5, <2>8
<1>25. ~BreakRoot(a)
  BY DEF BreakRoot
<1> QED
  BY <1>15, <1>18, <1>22, <1>23, <1>24, <1>25 DEF RootStep

\* The kernel's answer, the copy and the registry's look at the worktree.
LEMMA CopyTopics ==
    ASSUME TypeInv, HeadMade, MergedInv, TypesKept,
           \/ \E w \in Writes : Apply(w) \/ Sync(w)
           \/ IndexRead
    PROVE  MergedInv'
<1>1. /\ LockInv /\ HistoryOK /\ RefsOK /\ RefsOK' /\ Grown
      /\ LocalTopics /\ CorpusTopics /\ WritesKeep
  BY DEF TypeInv, TypesKept, MergedInv
<1>2. UNCHANGED <<commits, origin, mirror, signature, builder, left, want>>
  BY DEF Apply, Sync, IndexRead, git, corpus, calls
<1>3. \A i : Topics(i)' = Topics(i) /\ Tree(i)' = Tree(i)
  BY <1>2, TopicsSame
<1>4. SpecKeepsTopics
  BY <1>1, <1>2, QuietTopics
<1>5. SpecTopics' = SpecTopics /\ Topics(signature)' = Topics(signature)
  BY <1>2, <1>3 DEF SpecTopics
<1>6. ASSUME NEW w \in Writes, Apply(w) \/ Sync(w)
      PROVE  /\ w \in Calls /\ Holds(w) /\ UNCHANGED head /\ ~MergeWaits /\ Topics(head)' = Topics(head)
             /\ builder = "nobody" /\ Topics(head) \subseteq root
             /\ \A label : Goto(w, label) /\ label \notin Refilling =>
                   /\ pc'[w] = label /\ \A a \in Actors \ {w} : pc'[a] = pc[a]
                   /\ \A a \in Actors : pc'[a] \in Refilling => pc[a] \in Refilling /\ want'[a] = want[a]
  <2>1. w \in Calls /\ Holds(w) /\ UNCHANGED head /\ pc[w] \in {"apply", "sync"}
    BY <1>1, <1>6, InsideHolds, KindsOfActors DEF Apply, Sync, git
  <2>2. ~MergeWaits /\ Topics(head)' = Topics(head)
    BY <1>1, <1>3, <2>1, NoMergeWaits
  <2>3. builder = "nobody" /\ Topics(head) \subseteq root
    BY <1>1, <2>1 DEF WritesKeep, WriteKeeps
  <2> QED
    BY <1>1, <1>2, <2>1, <2>2, <2>3, GotoMoves, KindsOfActors
<1>7. ASSUME NEW w \in Writes, Apply(w) PROVE MergedInv'
  <2>1. /\ UNCHANGED tree
        /\ root' = root \/ root' = root \cup {w}
        /\ Goto(w, "sync") \/ Goto(w, "done")
    BY <1>7 DEF Apply, Finish, git
  <2>2. PICK label \in {"sync", "done"} : Goto(w, label)
    BY <2>1
  <2>3. w \notin TopicEdits /\ label \notin Refilling
    BY ItemsAssumption DEF Refilling
  <2>4. WriteKeeps(w)'
    BY <1>2, <1>6, <1>7, <2>1, <2>2, <2>3 DEF WriteKeeps, Refilling
  <2>5. WritesKeep'
    BY <1>1, <1>6, <1>7, <2>2, <2>4, HolderKeeps
  <2>6. root' \cap TopicEdits \subseteq SpecTopics'
    BY <1>1, <1>5, <2>1, <2>3 DEF LocalTopics
  <2>7. CorpusTopics'
    <3>1. \A a \in Actors : pc[a] \notin Rebuilding
      BY <1>1, <1>6, <1>7, CallsAssumption DEF CorpusTopics
    <3>2. \A a \in Actors : pc'[a] \notin Rebuilding
      BY <1>6, <1>7, <2>2, <2>3, <3>1 DEF Rebuilding, Refilling
    <3> QED
      BY <1>1, <1>2, <1>5, <1>6, <1>7, <2>1, <3>2 DEF CorpusTopics, Rebuilding
  <2> QED
    BY <1>1, <1>2, <1>4, <1>6, <1>7, <2>1, <2>2, <2>3, <2>5, <2>6, <2>7, MergedByParts
<1>8. ASSUME NEW w \in Writes, Sync(w) PROVE MergedInv'
  <2>1. /\ UNCHANGED root
        /\ \/ root # {} /\ tree' = root /\ Goto(w, "commit")
           \/ tree' = {} /\ Goto(w, "reconcile")
    BY <1>8 DEF Sync, corpus
  <2>2. PICK label \in {"commit", "reconcile"} : Goto(w, label) /\ (label = "commit" => root # {} /\ tree' = root)
    BY <2>1
  <2>3. label \notin Refilling
    BY DEF Refilling
  <2>4. WriteKeeps(w)'
    BY <1>6, <1>8, <2>2, <2>3 DEF WriteKeeps, Refilling
  <2>5. WritesKeep'
    BY <1>1, <1>6, <1>8, <2>2, <2>4, HolderKeeps
  <2>6. tree' \cap TopicEdits \subseteq Topics(head)' \cup SpecTopics'
    BY <1>1, <1>5, <2>1 DEF LocalTopics
  <2>7. RebuildStays
    BY <1>2, <1>6, <1>8, <2>1, <2>2, <2>3 DEF RebuildStays, Rebuilding, Refilling
  <2> QED
    BY <1>1, <1>2, <1>4, <1>6, <1>8, <2>1, <2>2, <2>3, <2>5, <2>6, <2>7, MergedByParts
<1>9. ASSUME IndexRead PROVE MergedInv'
  <2>1. head' = WorktreeHead(mirror["spec"]) /\ tree' = Tree(head') /\ UNCHANGED <<root, pc>>
    BY <1>9 DEF IndexRead, corpus, calls
  <2>2. Topics(head)' = Topics(head') /\ tree' \cap TopicEdits = Topics(head') /\ Topics(head') \subseteq tree'
    BY <1>3, <2>1 DEF Topics
  <2>3. UNCHANGED head \/ (head = 0 /\ head' = mirror["spec"])
    BY <2>1 DEF WorktreeHead
  <2>4. MergeWaits' <=> MergeWaits
    BY <2>1 DEF MergeWaits
  <2>5. MergeWaits' \/ (UNCHANGED head /\ ~MergeWaits) \/ Topics(head)' \subseteq SpecTopics'
    BY <1>5, <2>2, <2>3, <2>4 DEF SpecTopics
  <2>6. ASSUME NEW w \in Writes PROVE WriteKeeps(w)'
    <3>1. CASE Inside(w)
      <4>1. head' = head
        BY <2>3, <3>1 DEF HeadMade
      <4>2. WriteKeeps(w) /\ Topics(want[w])' = Topics(want[w])
        BY <1>1, <1>2, <1>3 DEF WritesKeep
      <4> QED
        BY <1>2, <2>1, <2>2, <4>1, <4>2 DEF WriteKeeps
    <3>2. CASE ~Inside(w)
      BY <2>1, <3>2 DEF WriteKeeps, Inside, Refilling
    <3> QED
      BY <3>1, <3>2
  <2>7. WritesKeep'
    BY <2>6 DEF WritesKeep
  <2>8. RebuildStays
    BY <1>2, <2>1 DEF RebuildStays
  <2> QED
    BY <1>1, <1>2, <1>4, <2>1, <2>2, <2>5, <2>7, <2>8, MergedByParts
<1> QED
  BY <1>7, <1>8, <1>9

\* An author's commit adds to what its branch has.
LEMMA AuthorTopics ==
    ASSUME TypeInv, MergedInv, TypesKept, NEW e \in Edits \cup TopicEdits, AuthorPush(e)
    PROVE  MergedInv'
<1> DEFINE b == IF e \in Edits THEN "spec" ELSE "topic"
           T == Tree(origin[b]) \cup {e}
<1>1. /\ LockInv /\ HistoryOK /\ RefsOK /\ HistoryOK' /\ RefsOK' /\ Grown /\ Len(commits) \in Nat
      /\ Past(0) = {}
  BY HistoryFacts DEF TypeInv, TypesKept
<1>2. /\ UNCHANGED <<mirror, head, tree, root, signature, builder, left, want, pc>>
      /\ origin[b] # 0 /\ Commit(Past(origin[b]), T, TRUE)
      /\ origin' = [origin EXCEPT ![b] = NewCommit]
  BY DEF AuthorPush, corpus, calls
<1>3. b \in Branches
  BY DEF Branches
<1> HIDE DEF b
<1>4. PICK i \in 1..Len(commits) : i = origin[b]
  BY <1>1, <1>2, <1>3 DEF RefsOK
<1>5. T \in SUBSET Items /\ Topics(i) \cup Topics(0) \subseteq T
  <2>1. T \in SUBSET Items /\ Topics(i) \subseteq T
    BY <1>1, <1>4, HistoryFacts DEF Topics, Items
  <2>2. Topics(0) = {}
    BY DEF Topics, Tree
  <2> QED
    BY <2>1, <2>2
<1> HIDE DEF T
<1>6. HistoryOK' /\ Added(Past(i) \cup Past(0), T)
  <2>1. Past(i) \cup Past(0) = Past(i) /\ 0 \in 0..Len(commits) /\ TRUE \in BOOLEAN
    BY <1>1
  <2>2. Commit(Past(i), T, TRUE)
    BY <1>2, <1>4
  <2>3. Commit(Past(i) \cup Past(0), T, TRUE)
    BY <2>1, <2>2
  <2> QED
    BY <1>1, <1>5, <2>1, <2>3, CommitOnTop
<1>7. Topics(origin["spec"]) \subseteq Topics(origin["spec"])'
  <2>1. PICK n : n = NewCommit
    OBVIOUS
  <2>2. Topics(n)' = T \cap TopicEdits
    BY <1>6, <2>1 DEF Added, Topics
  <2>3. \A k \in 0..Len(commits) : Topics(k)' = Topics(k)
    BY <1>1, TopicsSame
  <2>4. CASE b = "spec"
    <3>1. origin'["spec"] = n /\ i = origin["spec"]
      BY <1>1, <1>2, <1>4, <2>1, <2>4 DEF RefsOK, Branches
    <3>2. Topics(origin["spec"])' = Topics(n)'
      BY <3>1
    <3> QED
      BY <1>5, <2>2, <3>1, <3>2 DEF Topics
  <2>5. CASE b # "spec"
    <3>1. origin'["spec"] = origin["spec"] /\ origin["spec"] \in 0..Len(commits)
      BY <1>1, <1>2, <1>3, <2>5 DEF RefsOK, Branches
    <3>2. \A k \in 0..Len(commits) : k = origin["spec"] => Topics(origin["spec"])' = Topics(k)'
      BY <3>1
    <3> QED
      BY <2>3, <3>1, <3>2
  <2> QED
    BY <2>4, <2>5
<1>8. SpecKeepsTopics
  <2>1. 0 \in 0..Len(commits) /\ mirror'["spec"] \in {mirror["spec"], origin["spec"]}
    BY <1>1, <1>2
  <2> QED
    BY <1>1, <1>5, <1>6, <1>7, <2>1, CommitTopics
<1>9. WritesKeep'
  BY <1>1, <1>2, KeepsStay
<1>10. MergeWaits' <=> MergeWaits
  BY <1>2 DEF MergeWaits
<1>11. MergeWaits' \/ (UNCHANGED head /\ ~MergeWaits)
  BY <1>2, <1>10
<1>12. RebuildStays
  BY <1>2 DEF RebuildStays
<1> QED
  BY <1>1, <1>2, <1>8, <1>9, <1>11, <1>12, MergedByParts

\* A branch operation that was refused keeps its answer.
LEMMA RefusalStays ==
    ASSUME LockInv, MemoInv, [Next]_vars, NEW c \in Branching, result[c] \in Refused
    PROVE  result'[c] = result[c]
<1>1. pc[c] = "done" /\ c \in Calls /\ c \notin Writes
  BY KindsOfActors DEF MemoInv
<1>2. ASSUME NEW d, d # c, UNCHANGED result \/ \E x : result' = [result EXCEPT ![d] = x]
      PROVE  result'[c] = result[c]
  BY <1>1, <1>2 DEF LockInv, LockTypeOK
<1>3. ASSUME NEW w \in Writes, WriteStep(w) \/ Retry(w) PROVE result'[c] = result[c]
  <2>1. UNCHANGED result \/ \E x : result' = [result EXCEPT ![w] = x]
    BY <1>3 DEF WriteStep, Issue, EnterWrite, Apply, Sync, CommitWrite, RefuseForeign, PushWrite,
                PushWriteRaises, Reconcile, ReconcileRaises, Retry, Finish
  <2> QED
    BY <1>1, <1>2, <2>1
<1>4. ASSUME NEW d \in Branching, BranchStep(d) PROVE result'[c] = result[c]
  <2>1. d # c
    BY <1>1, <1>4 DEF BranchStep, Issue, RefuseClaimed, CreateWork, PushCreated, EnterMerge, MergeTopic,
                PushMerge, DropTopic, CheckDelete, ReadTip, DeleteWork, Enter
  <2>2. CASE \/ Issue(d) \/ RefuseClaimed(d) \/ CreateWork(d) \/ PushCreated(d) \/ EnterMerge(d)
             \/ MergeTopic(d)
    <3>1. UNCHANGED result \/ \E x : result' = [result EXCEPT ![d] = x]
      BY <2>2 DEF Issue, RefuseClaimed, CreateWork, PushCreated, EnterMerge, MergeTopic, Finish
    <3> QED
      BY <1>2, <2>1, <3>1
  <2>3. CASE PushMerge(d) \/ DropTopic(d) \/ CheckDelete(d) \/ ReadTip(d) \/ DeleteWork(d)
    <3>1. UNCHANGED result \/ \E x : result' = [result EXCEPT ![d] = x]
      BY <2>3 DEF PushMerge, DropTopic, CheckDelete, ReadTip, DeleteWork, Finish
    <3> QED
      BY <1>2, <2>1, <3>1
  <2> QED
    BY <1>4, <2>2, <2>3 DEF BranchStep
<1>5. ASSUME NEW d \in Calls, AnswerStep(d) PROVE result'[c] = result[c]
  <2>1. d # c
    BY <1>1, <1>5 DEF AnswerStep, Refresh, Reply
  <2>2. UNCHANGED result \/ \E x : result' = [result EXCEPT ![d] = x]
    BY <1>5 DEF AnswerStep, Refresh, Reply, Finish
  <2> QED
    BY <1>2, <2>1, <2>2
<1>6. ASSUME NEW a \in Actors, RootStep(a) PROVE result'[c] = result[c]
  <2>1. UNCHANGED result \/ (a # c /\ \E x : result' = [result EXCEPT ![a] = x])
    <3>1. CASE BreakRoot(a)
      <4>1. a # c
        BY <1>1, <3>1 DEF BreakRoot
      <4> QED
        BY <3>1, <4>1 DEF BreakRoot, Finish
    <3>2. CASE ~BreakRoot(a)
      BY <1>6, <3>2 DEF RootStep, CheckRoot, ClearRoot, ListRoot, FillRoot, SignRoot
    <3> QED
      BY <3>1, <3>2
  <2> QED
    BY <1>2, <2>1
<1>8. ASSUME \/ \E l \in Logins : Claim(l)
             \/ EndLease \/ IndexRead \/ (\E e \in Edits \cup TopicEdits : AuthorPush(e))
             \/ UNCHANGED vars
      PROVE  result'[c] = result[c]
  BY <1>8 DEF Claim, EndLease, IndexRead, AuthorPush, calls, vars
<1>7. ASSUME Crash PROVE result'[c] = result[c]
  BY <1>1, <1>7 DEF Crash
<1> QED
  BY <1>3, <1>4, <1>5, <1>6, <1>7, <1>8 DEF Next

\* While the only merge of the cast has not failed, and no rebuild has overlapped a
\* write.
MergingInv == raced \/ ((\E c \in Merges : Sole(c)) => MergedInv)

LEMMA MergingStep ==
    ASSUME TypeInv, HeadMade, CastInv, MemoInv, MergingInv, [Next]_vars
    PROVE  MergingInv'
<1> SUFFICES ASSUME NEW c \in Merges, Sole(c)', ~raced' PROVE MergedInv'
  BY DEF MergingInv
<1>0. ~raced
  BY RacedStays
<1>1. TypesKept /\ LockInv /\ cast' = cast
  BY TypesStep, CastStays DEF TypeInv
<1>2. c \in Branching /\ c \in Calls
  BY KindsOfActors
<1>3. cast \cap Merges = {c} /\ result'[c] \in {"none", "ok"}
  BY <1>1 DEF Sole
<1>4. result[c] \notin Refused
  BY <1>1, <1>2, <1>3, RefusalStays DEF Refused
<1>5. MergedInv
  <2>1. result[c] \in {"none", "ok"}
    BY <1>1, <1>2, <1>4 DEF LockInv, LockTypeOK, Refused
  <2> QED
    BY <1>0, <1>3, <2>1 DEF MergingInv, Sole
<1>6. ASSUME NEW d \in Calls, pc[d] \in Merging PROVE d = c
  BY <1>3, <1>6 DEF CastInv, Merging
<1>7. ASSUME NEW w \in Writes, WriteStep(w) \/ Retry(w) PROVE MergedInv'
  <2>1. w \in Calls
    BY KindsOfActors
  <2> QED
    BY <1>1, <1>5, <1>7, <2>1, CallTopics, CopyTopics, RemoteTopics, BranchTopics DEF WriteStep
<1>8. ASSUME NEW d \in Branching, BranchStep(d) PROVE MergedInv'
  <2>1. d \in Calls
    BY KindsOfActors
  <2>2. CASE PushMerge(d)
    <3>1. d = c
      BY <1>6, <2>1, <2>2 DEF PushMerge, Merging
    <3>2. ~(\E x : Finish(d, "git failed"))
      BY <1>1, <1>2, <1>3, <3>1 DEF Finish, LockInv, LockTypeOK
    <3>3. Pushed("spec", head)
      BY <2>2, <3>2 DEF PushMerge
    <3> QED
      BY <1>1, <1>5, <2>2, <3>3, RemoteTopics
  <2>3. CASE ~PushMerge(d)
    BY <1>1, <1>5, <1>8, <2>1, <2>3, CallTopics, RemoteTopics, BranchTopics DEF BranchStep
  <2> QED
    BY <2>2, <2>3
<1>9. ASSUME Crash PROVE MergedInv'
  <2>1. ASSUME NEW d \in Calls, pc[d] = "pushMerge" PROVE FALSE
    <3>1. d = c
      BY <1>6, <2>1 DEF Merging
    <3>2. result'[c] = "lost"
      BY <1>2, <1>9, <2>1, <3>1 DEF Crash
    <3> QED
      BY <1>3, <3>2
  <2>2. ~MergeWaits
    BY <2>1 DEF MergeWaits
  <2> QED
    BY <1>1, <1>5, <1>9, <2>2, CallTopics
<1>10. CASE \E a \in Actors : RootStep(a)
  BY <1>1, <1>5, <1>10, RootTopics
<1>11. CASE (\E d \in Calls : AnswerStep(d)) \/ (\E l \in Logins : Claim(l)) \/ EndLease \/ UNCHANGED vars
  BY <1>1, <1>5, <1>11, CallTopics DEF AnswerStep
<1>12. CASE IndexRead
  BY <1>1, <1>5, <1>12, CopyTopics
<1>13. CASE \E e \in Edits \cup TopicEdits : AuthorPush(e)
  BY <1>1, <1>5, <1>13, AuthorTopics
<1> QED
  BY <1>7, <1>8, <1>9, <1>10, <1>11, <1>12, <1>13 DEF Next

LEMMA MergingInit == Init => MergingInv
<1> SUFFICES ASSUME Init PROVE MergedInv
  BY DEF MergingInv
<1>1. /\ Len(commits) = 1 /\ commits[1] = [past |-> {1}, tree |-> {"base"}, foreign |-> FALSE]
      /\ origin["spec"] = 1 /\ mirror = origin
      /\ head = 0 /\ tree = {} /\ root = {} /\ left = {} /\ signature = 0
      /\ \A a \in Actors : want[a] = 0 /\ pc[a] = "idle"
  BY DEF Init, Branches
<1>2. Past(1) = {1} /\ Topics(0) = {}
  BY <1>1 DEF Past, Topics, Tree
<1>3. HistoryKeepsTopics /\ SpecTopics \subseteq Topics(origin["spec"])
  BY <1>1, <1>2 DEF HistoryKeepsTopics, SpecTopics
<1>4. LocalTopics /\ CorpusTopics
  BY <1>1, <1>2 DEF LocalTopics, CorpusTopics, Refilling, Rebuilding
<1>5. WritesKeep
  BY <1>1, KindsOfActors DEF WritesKeep, WriteKeeps, Refilling
<1> QED
  BY <1>3, <1>4, <1>5 DEF MergedInv

\* What a merge answered "ok" has brought to the spec stays in its tip until a rebuild
\* of the corpus overlaps the apply and copy of a write: no later write or replay drops
\* it, whoever reads, wherever a git command fails and wherever the service restarts, if
\* it is the only merge.
THEOREM MergedKeptAlways == Spec => []MergedKept
<1> DEFINE Inv == MemoInv /\ CastInv /\ MergingInv
<1>1. Init => Inv
  BY AckInit, TopicInit, MergingInit
<1>2. TypeInv /\ HeadMade /\ Inv /\ [Next]_vars => Inv'
  BY MemoStep, CastStep, MergingStep
<1>3. TypeInv /\ Inv => MergedKept
  <2> SUFFICES ASSUME TypeInv, MergingInv, ~raced, NEW c \in Merges, NEW e \in TopicEdits,
                      cast \cap Merges = {c}, result[c] = "ok",
                      NEW i \in Past(origin["spec"]), e \in Tree(i)
               PROVE  e \in Tree(origin["spec"])
    BY DEF MergedKept
  <2>1. MergedInv
    BY DEF MergingInv, Sole
  <2>2. origin["spec"] \in 1..Len(commits)
    BY ChainRefs
  <2>3. Topics(i) \subseteq Topics(origin["spec"])
    BY <2>1, <2>2 DEF MergedInv, HistoryKeepsTopics
  <2> QED
    BY <2>3 DEF Topics
<1> HIDE DEF Inv
<1> QED
  BY <1>1, <1>2, <1>3, TypesInvariant, PTL DEF Spec

=============================================================================
