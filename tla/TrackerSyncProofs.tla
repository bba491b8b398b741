-------------------------- MODULE TrackerSyncProofs --------------------------
(***************************************************************************)
(* Theorems about TrackerSync: its variables keep their types, the heads of *)
(* a complete marker are those its board was read at, a complete marker was *)
(* written, and the tracker's status is written back only where somebody    *)
(* chose it. The second follows the corpora through rebuilds and writes: one *)
(* that is cached for the remote's tip, and holds no patch the remote has    *)
(* not moved since, is the tip, and so is what its service has read of it;   *)
(* and a run from project to project: a project that is done has its board   *)
(* at its head, and so has the one being read if its remote does not move.   *)
(* The third follows a run from card to card: what is done is as the run     *)
(* means it, what is due is as the run saw it or was moved by hand since.    *)
(* The fourth follows a sweep: the cards it read fit the marker it read, or  *)
(* it knows that they may not.                                               *)
(***************************************************************************)
EXTENDS TrackerSync, SequenceTheorems, TLAPS

RunLabels == {"idle", "check", "before", "head", "query", "after", "cards", "upsert", "stale", "publish"}
Commits(p) == [TasksOf(p) -> Statuses]
Cached == Statuses \cup {"unread"}
Worktrees == [base : Statuses \cup {"none"}, first : Statuses \cup {"none"}]

RunType == [pc : RunLabels, ptr : MarkerType, whole : BOOLEAN, heads : [Projects -> Nat],
            board : [Tasks -> Statuses], seen : [Tasks -> CardType], ids : [Tasks -> Nat],
            failed : BOOLEAN, left : SUBSET (Projects \cup Tasks), lag : BOOLEAN,
            svc : {"current", "dropped"}, old : [Tasks -> Cached]]
JobType == [pc : {"idle", "reading", "patching"}, scope : SUBSET Tasks,
            due : SUBSET {"board", "marker", "cards"}, board : [Tasks -> Statuses],
            marker : MarkerType, seen : [Tasks -> CardType], plan : SUBSET Tasks,
            unsure : BOOLEAN]

HistoryOK ==
    /\ history = [p \in Projects |-> history[p]]
    /\ \A p \in Projects : history[p] \in Seq(Commits(p)) /\ Remote(p) # 0
CorpusOK ==
    /\ root \in [Tasks -> Statuses] /\ graph \in [Tasks -> Cached]
    /\ worktree \in [Tasks -> Worktrees]
    /\ moved \in BOOLEAN /\ unshared \subseteq Projects /\ bound \subseteq Projects
SignatureOK ==
    /\ signature \in [Projects -> Nat]
    /\ \A p \in Projects : signature[p] <= Remote(p)
\* A rebuild writes the documents of its project, of a commit the remote has.
RefillOK ==
    /\ refill \in [Projects -> RefillType]
    /\ \A p \in Projects : /\ refill[p].to <= Remote(p) /\ refill[p].left \subseteq TasksOf(p)
                           /\ refill[p].by # "nobody" => refill[p].to # 0
\* A write is about a task of its project.
PatchOK ==
    /\ patch \in [Projects -> PatchType]
    /\ \A p \in Projects : patch[p].pc # "idle" => patch[p].task \in TasksOf(p)
\* A writer that rebuilds the corpus waits for it.
WaitersOK == \A p \in Projects : refill[p].by = "writer" => patch[p].pc \in {"renew", "refresh"}
SpecsOK == HistoryOK /\ CorpusOK /\ SignatureOK /\ RefillOK /\ PatchOK /\ WaitersOK
TrackerOK ==
    /\ cards \in [Tasks -> CardType] /\ issues \in Nat /\ copied \subseteq Tasks
    /\ marker \in MarkerType /\ index \in [Projects -> {"none", "partial", "complete"}]
\* A run that reads or publishes has projects left, one that writes cards has tasks.
RunOK ==
    /\ run \in RunType
    /\ run.pc \in {"before", "head", "query", "after", "publish"} => run.left \subseteq Projects
    /\ run.pc \in {"head", "query", "after"} => run.left # {}
    /\ run.pc \in {"upsert", "stale"} => run.left \subseteq Tasks
\* Only a job that is patching has a plan, of tasks whose State has a status.
GoodJob(j) ==
    /\ j \in JobType
    /\ j.pc # "patching" => j.plan = {}
    /\ \A t \in j.plan : SpecStatus(j.seen[t].state) # "unmapped"
JobOK == GoodJob(job)
RestOK == dirty \in BOOLEAN /\ torn \in BOOLEAN /\ events \subseteq Tasks /\ made \subseteq Edits \cup Moves

Types == SpecsOK /\ TrackerOK /\ RunOK /\ JobOK /\ RestOK

-----------------------------------------------------------------------------
(* What the operators of TrackerSync return. *)

LEMMA FirstIsMember == ASSUME NEW S, S # {} PROVE First(S) \in S
  BY DEF First

LEMMA Empties ==
    /\ NoMarker \in MarkerType /\ NoCards \in [Tasks -> CardType]
    /\ IdleRun \in RunType /\ IdleJob \in JobType /\ GoodJob(IdleJob)
<1>1. NoMarker \in MarkerType
  BY DEF NoMarker, MarkerType, NoHeads, Nothing, NoIds, Statuses
<1>2. NoCards \in [Tasks -> CardType]
  BY DEF NoCards, None, CardType
<1>3. IdleRun \in RunType
  BY <1>1, <1>2 DEF IdleRun, RunType, RunLabels, NoHeads, Nothing, NoIds, Statuses, Cached
<1>4. IdleJob \in JobType
  BY <1>1, <1>2 DEF IdleJob, JobType, Nothing, Statuses
<1>5. GoodJob(IdleJob)
  BY <1>4 DEF GoodJob, IdleJob
<1> QED
  BY <1>1, <1>2, <1>3, <1>4, <1>5

LEMMA NoneBusy == NoRefill \in RefillType /\ NoPatch \in PatchType
  BY DEF NoRefill, RefillType, NoPatch, PatchType, Statuses

LEMMA IdleIsOK == run' = IdleRun => RunOK'
  BY Empties DEF RunOK, IdleRun

LEMMA StatesAndStatuses ==
    /\ \A status : DesiredState(status) \in States
    /\ \A state : SpecStatus(state) \in Statuses \cup {"unmapped"}
  BY DEF DesiredState, SpecStatus, States, Statuses

LEMMA RemoteType ==
    ASSUME HistoryOK, NEW p \in Projects
    PROVE  Remote(p) \in Nat /\ Remote(p) >= 1
<1>1. Remote(p) \in Nat /\ Remote(p) # 0
  BY DEF HistoryOK, Remote
<1> QED
  BY <1>1

LEMMA TipType ==
    ASSUME HistoryOK, NEW p \in Projects, NEW k \in 1..Remote(p)
    PROVE  /\ Content(p, k) \in Commits(p)
           /\ \A t \in TasksOf(p) : Content(p, k)[t] \in Statuses
<1>1. history[p] \in Seq(Commits(p)) /\ k \in 1..Len(history[p])
  BY DEF HistoryOK, Remote
<1>2. history[p][k] \in Commits(p)
  BY <1>1, ElementOfSeq
<1> QED
  BY <1>2 DEF Commits, Content

LEMMA TaskProject == \A t \in Tasks : ProjectOf[t] \in Projects /\ t \in TasksOf(ProjectOf[t])
  BY TasksAssumption DEF TasksOf

LEMMA TaskTip == ASSUME HistoryOK, NEW t \in Tasks PROVE Tip(t) \in Statuses
<1>1. Remote(ProjectOf[t]) \in 1..Remote(ProjectOf[t])
  BY TaskProject, RemoteType
<1> QED
  BY <1>1, TaskProject, TipType DEF Tip

\* What the service answers, and a corpus of which one project is replaced.
LEMMA AnswerType == ASSUME CorpusOK, NEW g \in [Tasks -> Cached] PROVE Answer(g) \in [Tasks -> Statuses]
  BY DEF CorpusOK, Answer, Cached

LEMMA OnType ==
    ASSUME NEW S, NEW p, NEW new \in [Tasks -> S], NEW old \in [Tasks -> S]
    PROVE  /\ On(p, new, old) \in [Tasks -> S]
           /\ \A t \in Tasks : On(p, new, old)[t] = IF ProjectOf[t] = p THEN new[t] ELSE old[t]
  BY DEF On

\* Histories only grow.
Grows ==
    \A p \in Projects : /\ Remote(p) \in Nat /\ Len(history'[p]) \in Nat /\ Len(history'[p]) >= Remote(p)
                        /\ \A k \in 1..Remote(p) : history'[p][k] = history[p][k]

LEMMA UnchangedGrows == HistoryOK /\ UNCHANGED history => Grows
  BY RemoteType DEF Grows, Remote

\* A commit: the history of one project is longer by one content.
LEMMA CommittedType ==
    ASSUME HistoryOK, NEW t \in Tasks, NEW status \in Statuses, Committed(t, status)
    PROVE  /\ HistoryOK' /\ Grows
           /\ Remote(ProjectOf[t])' > Remote(ProjectOf[t])
           /\ \A p \in Projects \ {ProjectOf[t]} : history'[p] = history[p]
<1> DEFINE P == ProjectOf[t]
           new == [Content(P, Remote(P)) EXCEPT ![t] = status]
<1>1. P \in Projects /\ t \in TasksOf(P)
  BY TaskProject
<1>2. new \in Commits(P)
  <2>1. Remote(P) \in 1..Remote(P)
    BY <1>1, RemoteType
  <2>2. Content(P, Remote(P)) \in [TasksOf(P) -> Statuses]
    BY <1>1, <2>1, TipType DEF Commits
  <2> QED
    BY <2>2 DEF Commits
<1>3. history' = [history EXCEPT ![P] = Append(history[P], new)]
  BY <1>1 DEF Committed, HistoryOK, Remote
<1> HIDE DEF P, new
<1>4. \A p \in Projects : history'[p] = IF p = P THEN Append(history[p], new) ELSE history[p]
  BY <1>1, <1>3 DEF HistoryOK
<1>5. history' = [p \in Projects |-> history'[p]]
  BY <1>1, <1>3 DEF HistoryOK
<1>6. ASSUME NEW p \in Projects
      PROVE  /\ history'[p] \in Seq(Commits(p)) /\ Len(history'[p]) \in Nat /\ Len(history'[p]) >= Remote(p)
             /\ p = P => Len(history'[p]) > Remote(p)
             /\ \A k \in 1..Remote(p) : history'[p][k] = history[p][k]
  <2>1. CASE p = P
    <3>1. history[p] \in Seq(Commits(p)) /\ new \in Commits(p) /\ history'[p] = Append(history[p], new)
      BY <2>1, <1>2, <1>4 DEF HistoryOK
    <3>2. Len(history'[p]) = Len(history[p]) + 1 /\ Len(history[p]) \in Nat
      BY <3>1, AppendProperties
    <3> QED
      BY <3>1, <3>2, AppendProperties DEF Remote
  <2>2. CASE p # P
    BY <2>2, <1>4, <1>6 DEF HistoryOK, Remote
  <2> QED
    BY <2>1, <2>2
<1>7. \A p \in Projects : Remote(p) \in Nat /\ Remote(p) >= 1
  BY RemoteType
<1>8. HistoryOK'
  <2>1. \A p \in Projects : Len(history'[p]) # 0
    BY <1>6, <1>7
  <2> QED
    BY <1>5, <1>6, <2>1 DEF HistoryOK, Remote, Commits
<1>9. Grows
  BY <1>6, <1>7 DEF Grows
<1> QED
  BY <1>1, <1>4, <1>6, <1>8, <1>9 DEF P, Remote

-----------------------------------------------------------------------------
(* Steps of the specs. *)

\* What refers to the remote stands when the remote grows.
LEMMA GrownKeeps ==
    ASSUME HistoryOK, Grows
    PROVE  /\ SignatureOK /\ UNCHANGED signature => SignatureOK'
           /\ RefillOK /\ UNCHANGED refill => RefillOK'
<1>1. \A p \in Projects : Remote(p) \in Nat /\ Remote(p)' \in Nat /\ Remote(p)' >= Remote(p)
  BY DEF Grows, Remote
<1>2. ASSUME SignatureOK, UNCHANGED signature PROVE SignatureOK'
  <2>1. ASSUME NEW p \in Projects PROVE signature'[p] <= Remote(p)'
    <3>1. signature[p] \in Nat /\ signature[p] <= Remote(p)
      BY <1>2 DEF SignatureOK
    <3> QED
      BY <1>1, <1>2, <3>1
  <2> QED
    BY <1>2, <2>1 DEF SignatureOK
<1>3. ASSUME RefillOK, UNCHANGED refill PROVE RefillOK'
  <2>1. ASSUME NEW p \in Projects PROVE refill'[p].to <= Remote(p)'
    <3>1. refill[p].to \in Nat /\ refill[p].to <= Remote(p)
      BY <1>3 DEF RefillOK, RefillType
    <3> QED
      BY <1>1, <1>3, <3>1
  <2> QED
    BY <1>3, <2>1 DEF RefillOK, TasksOf
<1> QED
  BY <1>2, <1>3

LEMMA HistoryStays == ASSUME HistoryOK, UNCHANGED history PROVE HistoryOK'
  BY DEF HistoryOK, Remote, Commits, TasksOf

LEMMA PatchStays == ASSUME PatchOK, UNCHANGED patch PROVE PatchOK'
  BY DEF PatchOK, TasksOf

\* A write begins, goes on or is answered.
LEMMA PatchKeeps ==
    ASSUME PatchOK, NEW p \in Projects, NEW new \in PatchType, patch' = [patch EXCEPT ![p] = new],
           new.pc = "idle" \/ new.task \in TasksOf(p)
    PROVE  PatchOK'
  BY DEF PatchOK, TasksOf

LEMMA AnsweredKeeps == ASSUME PatchOK, NEW p \in Projects, Answered(p) PROVE PatchOK'
  BY NoneBusy, PatchKeeps DEF Answered, NoPatch

LEMMA GoesKeeps ==
    ASSUME PatchOK, NEW p \in Projects, patch[p].pc # "idle",
           NEW label \in {"renew", "apply", "push", "drop", "refresh", "tell"}, Goes(p, label)
    PROVE  PatchOK'
<1> DEFINE new == [patch[p] EXCEPT !.pc = label]
<1>1. new \in PatchType /\ new.task = patch[p].task /\ patch' = [patch EXCEPT ![p] = new]
  BY DEF PatchOK, PatchType, Goes
<1> QED
  BY <1>1, PatchKeeps DEF PatchOK

LEMMA ServedKeeps ==
    ASSUME PatchOK, NEW p \in Projects, patch[p].pc \in {"renew", "refresh"}, Served(p)
    PROVE  PatchOK'
<1>1. Goes(p, "apply") \/ Goes(p, "tell")
  BY DEF Served, Goes
<1> QED
  BY <1>1, GoesKeeps

LEMMA EditTypes ==
    \A e \in Edits : EditOf[e].task \in Tasks /\ EditOf[e].status \in Statuses
  BY EditsAssumption

LEMMA BeganKeeps ==
    ASSUME Types, NEW by \in {"client", "listener"}, NEW t \in Tasks, NEW status \in Statuses,
           Began(by, t, status)
    PROVE  /\ PatchOK' /\ worktree' \in [Tasks -> Worktrees]
           /\ UNCHANGED refill => WaitersOK'
<1> DEFINE p == ProjectOf[t]
           new == [pc |-> "renew", by |-> by, task |-> t, status |-> status]
<1>1. p \in Projects /\ t \in TasksOf(p)
  BY TaskProject
<1>2. new \in PatchType /\ patch' = [patch EXCEPT ![p] = new]
  BY DEF PatchType, Began
<1>3. PatchOK'
  BY <1>1, <1>2, PatchKeeps DEF Types, SpecsOK
<1>4. worktree[t] \in Worktrees /\ Tip(t) \in Statuses
  BY TaskTip DEF Types, SpecsOK, CorpusOK
<1>5. \E base \in Statuses \cup {"none"} : worktree' = [worktree EXCEPT ![t].base = base]
  <2>1. worktree[t].base \in Statuses \cup {"none"}
    BY <1>4 DEF Worktrees
  <2> QED
    BY <1>4, <2>1 DEF Began
<1>6. worktree' \in [Tasks -> Worktrees]
  BY <1>5 DEF Types, SpecsOK, CorpusOK, Worktrees
<1>7. ASSUME UNCHANGED refill PROVE WaitersOK'
  BY <1>1, <1>7 DEF Began, Types, SpecsOK, WaitersOK, PatchOK
<1> QED
  BY <1>3, <1>6, <1>7

LEMMA WriteTypes == ASSUME Types, NEW e \in Edits, Write(e) PROVE Types'
<1>1. PatchOK' /\ WaitersOK' /\ worktree' \in [Tasks -> Worktrees]
  BY EditTypes, BeganKeeps DEF Write, PatchOnly
<1>2. SpecsOK'
  BY <1>1, HistoryStays, GrownKeeps, UnchangedGrows DEF Write, PatchOnly, Types, SpecsOK, CorpusOK
<1> QED
  BY <1>2 DEF Write, PatchOnly, Types, TrackerOK, RunOK, JobOK, RestOK, tracker

LEMMA OutsideTypes == ASSUME Types, NEW e \in Edits, Outside(e) PROVE Types'
<1>1. HistoryOK' /\ Grows
  BY EditTypes, CommittedType DEF Outside, Types, SpecsOK
<1>2. SpecsOK'
  BY <1>1, GrownKeeps, PatchStays DEF Outside, Types, SpecsOK, CorpusOK, WaitersOK
<1> QED
  BY <1>2 DEF Outside, Types, TrackerOK, RunOK, JobOK, RestOK, tracker, ghosts

-----------------------------------------------------------------------------
(* Steps of rebuilds and of writes. *)

\* A step that changes corpora and writes and commits nothing.
LEMMA CorpusStepTypes ==
    ASSUME Types, UNCHANGED <<history, tracker, events, made>>,
           CorpusOK', SignatureOK', RefillOK', PatchOK', WaitersOK', RunOK', JobOK', dirty' \in BOOLEAN, torn' \in BOOLEAN
    PROVE  Types'
  BY HistoryStays DEF Types, SpecsOK, TrackerOK, RestOK, tracker

LEMMA SignatureKeeps ==
    ASSUME HistoryOK, SignatureOK, UNCHANGED history, NEW p \in Projects, NEW k \in 0..Remote(p),
           signature' = [signature EXCEPT ![p] = k]
    PROVE  SignatureOK'
<1>1. signature' \in [Projects -> Nat]
  BY DEF SignatureOK
<1>2. \A q \in Projects : signature'[q] <= Remote(q)'
  BY DEF SignatureOK, Remote
<1> QED
  BY <1>1, <1>2 DEF SignatureOK

LEMMA RefillKeeps ==
    ASSUME HistoryOK, RefillOK, UNCHANGED history, NEW p \in Projects, NEW new \in RefillType,
           refill' = [refill EXCEPT ![p] = new], new.to <= Remote(p), new.left \subseteq TasksOf(p),
           new.by # "nobody" => new.to # 0
    PROVE  RefillOK'
<1>1. refill' \in [Projects -> RefillType]
  BY DEF RefillOK
<1>2. \A q \in Projects : /\ refill'[q].to <= Remote(q)' /\ refill'[q].left \subseteq TasksOf(q)
                          /\ refill'[q].by # "nobody" => refill'[q].to # 0
  BY DEF RefillOK, Remote
<1> QED
  BY <1>1, <1>2 DEF RefillOK, TasksOf

LEMMA RefillEnds ==
    ASSUME HistoryOK, RefillOK, UNCHANGED history, NEW p \in Projects, refill' = [refill EXCEPT ![p] = NoRefill]
    PROVE  RefillOK'
<1>1. NoRefill \in RefillType /\ NoRefill.to = 0 /\ NoRefill.left = {} /\ NoRefill.by = "nobody"
  BY NoneBusy DEF NoRefill
<1>2. NoRefill.to <= Remote(p) /\ NoRefill.left \subseteq TasksOf(p)
  BY <1>1, RemoteType
<1> QED
  BY <1>1, <1>2, RefillKeeps

Callers == {"reconciler", "client", "writer"}

LEMMA ClearTypes == ASSUME Types, NEW who \in Callers, NEW p \in Projects, Clear(who, p) PROVE Types'
<1> DEFINE new == [by |-> who, to |-> Remote(p), left |-> TasksOf(p)]
<1>1. UNCHANGED history /\ refill' = [refill EXCEPT ![p] = new] /\ root' = On(p, Nothing, root)
  BY DEF Clear, CorpusOnly
<1>2. Remote(p) \in Nat /\ Remote(p) >= 1
  BY RemoteType DEF Types, SpecsOK
<1>3. RefillOK'
  <2>1. /\ new \in RefillType /\ new.to = Remote(p) /\ new.left = TasksOf(p) /\ Remote(p) <= Remote(p)
        /\ HistoryOK /\ RefillOK
    BY <1>2 DEF RefillType, Callers, TasksOf, Types, SpecsOK
  <2>2. UNCHANGED history /\ refill' = [refill EXCEPT ![p] = new]
        /\ new.to <= Remote(p) /\ new.left \subseteq TasksOf(p) /\ new.to # 0
    BY <1>1, <1>2, <2>1
  <2> HIDE DEF new
  <2> QED
    BY <2>1, <2>2, RefillKeeps
<1>4. Nothing \in [Tasks -> Statuses]
  BY DEF Nothing, Statuses
<1>5. CorpusOK'
  <2>1. root' \in [Tasks -> Statuses]
    BY <1>1, <1>4, OnType DEF Types, SpecsOK, CorpusOK
  <2> QED
    BY <2>1 DEF Clear, CorpusOnly, Types, SpecsOK, CorpusOK
<1>6. SignatureOK' /\ PatchOK'
  BY GrownKeeps, UnchangedGrows, PatchStays DEF Clear, CorpusOnly, Types, SpecsOK
<1>7. WaitersOK'
  BY <1>1 DEF Clear, Asks, Types, SpecsOK, RefillOK, WaitersOK
<1> QED
  BY <1>3, <1>5, <1>6, <1>7, CorpusStepTypes DEF Clear, CorpusOnly, Types, RunOK, JobOK, RestOK

LEMMA FillTypes == ASSUME Types, NEW p \in Projects, Fill(p) PROVE Types'
<1>1. PICK t \in refill[p].left, k \in refill[p].to..Remote(p) :
          /\ root' = [root EXCEPT ![t] = Content(p, k)[t]]
          /\ refill' = [refill EXCEPT ![p].left = @ \ {t}]
  BY DEF Fill
<1>2. UNCHANGED history
  BY DEF Fill, CorpusOnly
<1>3. t \in TasksOf(p) /\ refill[p] \in RefillType /\ refill[p].to <= Remote(p)
      /\ refill[p].left \subseteq TasksOf(p) /\ refill[p].to # 0
  BY DEF Fill, Types, SpecsOK, RefillOK
<1>4. Content(p, k)[t] \in Statuses
  <2>1. k \in 1..Remote(p)
    BY <1>3, RemoteType DEF RefillType, Types, SpecsOK
  <2> QED
    BY <1>3, <2>1, TipType DEF Types, SpecsOK
<1>5. RefillOK'
  <2> DEFINE new == [refill[p] EXCEPT !.left = @ \ {t}]
  <2>1. /\ new \in RefillType /\ new.to = refill[p].to /\ new.left \subseteq refill[p].left
        /\ refill' = [refill EXCEPT ![p] = new]
    BY <1>1, <1>3 DEF RefillType, Types, SpecsOK, RefillOK
  <2> QED
    BY <1>2, <1>3, <2>1, RefillKeeps DEF Types, SpecsOK
<1>6. CorpusOK'
  BY <1>1, <1>3, <1>4 DEF Fill, CorpusOnly, Types, SpecsOK, CorpusOK, TasksOf
<1>7. SignatureOK' /\ PatchOK'
  BY GrownKeeps, UnchangedGrows, PatchStays DEF Fill, CorpusOnly, Types, SpecsOK
<1>8. WaitersOK'
  BY <1>1 DEF Fill, CorpusOnly, Types, SpecsOK, RefillOK, RefillType, WaitersOK
<1> QED
  BY <1>5, <1>6, <1>7, <1>8, CorpusStepTypes DEF Fill, CorpusOnly, Types, RunOK, JobOK, RestOK

\* The run keeps the service object it has taken.
KeptRun == [run EXCEPT !.svc = "dropped", !.old = graph]
LEMMA KeptRunFields ==
    ASSUME Types
    PROVE  /\ KeptRun \in RunType
           /\ KeptRun.pc = run.pc /\ KeptRun.left = run.left /\ KeptRun.heads = run.heads /\ KeptRun.board = run.board
           /\ KeptRun.lag = run.lag /\ KeptRun.ids = run.ids /\ KeptRun.seen = run.seen /\ KeptRun.ptr = run.ptr
           /\ KeptRun.failed = run.failed /\ KeptRun.svc = "dropped"
  BY DEF KeptRun, Types, RunOK, RunType, SpecsOK, CorpusOK

LEMMA UnreadType == Unread \in [Tasks -> Cached]
  BY DEF Unread, Cached

LEMMA SealTypes == ASSUME Types, NEW p \in Projects, Seal(p) PROVE Types'
<1>1. /\ UNCHANGED history /\ refill' = [refill EXCEPT ![p] = NoRefill]
      /\ signature' = [signature EXCEPT ![p] = refill[p].to]
      /\ graph' = On(p, Unread, graph)
  BY DEF Seal, CorpusOnly
<1>2. RefillOK'
  BY <1>1, RefillEnds DEF Types, SpecsOK
<1>3. SignatureOK'
  <2>1. refill[p].to \in 0..Remote(p)
    BY RemoteType DEF Types, SpecsOK, RefillOK, RefillType
  <2> QED
    BY <1>1, <2>1, SignatureKeeps DEF Types, SpecsOK
<1>4. PatchOK' /\ WaitersOK'
  <2>1. CASE refill[p].by = "writer"
    <3>1. patch[p].pc \in {"renew", "refresh"} /\ Served(p)
      BY <2>1 DEF Seal, Types, SpecsOK, WaitersOK
    <3>2. PatchOK'
      BY <3>1, ServedKeeps DEF Types, SpecsOK
    <3>3. WaitersOK'
      BY <1>1, <3>1 DEF Served, Types, SpecsOK, RefillOK, WaitersOK, NoRefill, PatchOK
    <3> QED
      BY <3>2, <3>3
  <2>2. CASE refill[p].by # "writer"
    <3>1. UNCHANGED patch
      BY <2>2 DEF Seal
    <3> QED
      BY <1>1, <3>1, PatchStays DEF Types, SpecsOK, RefillOK, WaitersOK, NoRefill
  <2> QED
    BY <2>1, <2>2
<1>5. CorpusOK'
  <2>1. graph' \in [Tasks -> Cached]
    BY <1>1, UnreadType, OnType DEF Types, SpecsOK, CorpusOK
  <2> QED
    BY <2>1 DEF Seal, CorpusOnly, Types, SpecsOK, CorpusOK
<1>6. RunOK'
  <2>1. run' = run \/ run' = KeptRun
    BY DEF Seal, KeptRun
  <2> QED
    BY <2>1, KeptRunFields DEF Types, RunOK
<1> QED
  BY <1>1, <1>2, <1>3, <1>4, <1>5, <1>6, CorpusStepTypes DEF Seal, CorpusOnly, Types, JobOK, RestOK

LEMMA BreakTypes == ASSUME Types, NEW p \in Projects, Break(p) PROVE Types'
<1>1. UNCHANGED history /\ refill' = [refill EXCEPT ![p] = NoRefill]
  BY DEF Break, CorpusOnly
<1>2. RefillOK'
  BY <1>1, RefillEnds DEF Types, SpecsOK
<1>3. UNCHANGED patch \/ (patch[p].pc = "refresh" /\ Served(p)) \/ Answered(p)
  BY DEF Break, Answered
<1>4. PatchOK'
  BY <1>3, PatchStays, ServedKeeps, AnsweredKeeps DEF Types, SpecsOK
<1>5. WaitersOK'
  BY <1>1, <1>3 DEF Served, Answered, Types, SpecsOK, RefillOK, PatchOK, WaitersOK, NoRefill
<1>6. CorpusOK' /\ SignatureOK' /\ RunOK'
  BY GrownKeeps, UnchangedGrows DEF Break, CorpusOnly, Types, SpecsOK, CorpusOK, RunOK
<1> QED
  BY <1>2, <1>4, <1>5, <1>6, CorpusStepTypes DEF Break, CorpusOnly, Types, JobOK, RestOK

LEMMA AfterReconcileTypes == ASSUME Types, AfterReconcile PROVE Types'
<1>1. CorpusOK' /\ SignatureOK' /\ RefillOK' /\ PatchOK' /\ WaitersOK'
  BY GrownKeeps, UnchangedGrows, PatchStays
  DEF AfterReconcile, CorpusOnly, Types, SpecsOK, CorpusOK, WaitersOK
<1> QED
  BY <1>1, CorpusStepTypes DEF AfterReconcile, SyncNow, CorpusOnly, Types, RunOK, JobOK, RestOK

\* A step of a write that leaves the rebuilds alone.
LEMMA PatchStepTypes ==
    ASSUME Types, PatchOnly, UNCHANGED made, HistoryOK', Grows, CorpusOK', SignatureOK', PatchOK', WaitersOK',
           dirty' \in BOOLEAN
    PROVE  Types'
<1>1. RefillOK'
  BY GrownKeeps DEF PatchOnly, Types, SpecsOK
<1> QED
  BY <1>1 DEF PatchOnly, Types, SpecsOK, TrackerOK, RunOK, JobOK, RestOK, tracker

\* A write that rebuilds nothing goes on.
LEMMA WaitersKeep ==
    ASSUME Types, NEW p \in Projects, NEW new, patch' = [patch EXCEPT ![p] = new],
           refill[p].by # "writer", UNCHANGED refill
    PROVE  WaitersOK'
  BY DEF Types, SpecsOK, PatchOK, WaitersOK

LEMMA StepWaiters ==
    ASSUME Types, NEW p \in Projects, patch[p].pc \notin {"renew", "refresh"},
           Answered(p) \/ \E label : Goes(p, label), UNCHANGED refill
    PROVE  WaitersOK'
<1>1. refill[p].by # "writer"
  BY DEF Types, SpecsOK, WaitersOK
<1>2. \E new : patch' = [patch EXCEPT ![p] = new]
  BY DEF Answered, Goes, Types, SpecsOK, PatchOK
<1> QED
  BY <1>1, <1>2, WaitersKeep

LEMMA RenewedTypes == ASSUME Types, NEW p \in Projects, Renewed(p) PROVE Types'
<1>1. patch[p].pc \in {"renew", "refresh"} /\ refill[p].by # "writer" /\ (Served(p) \/ Answered(p))
  BY DEF Renewed, At
<1>2. PatchOK'
  BY <1>1, ServedKeeps, AnsweredKeeps DEF Types, SpecsOK
<1>3. UNCHANGED <<history, root, signature, graph, worktree, moved, unshared, bound, refill>> /\ PatchOnly
  BY DEF Renewed, PatchOnly
<1>4. HistoryOK' /\ Grows /\ CorpusOK' /\ SignatureOK'
  BY <1>3, HistoryStays, UnchangedGrows, GrownKeeps DEF Types, SpecsOK, CorpusOK
<1>5. WaitersOK'
  <2>1. \E new : patch' = [patch EXCEPT ![p] = new]
    BY <1>1 DEF Answered, Served, Types, SpecsOK, PatchOK
  <2> QED
    BY <1>1, <1>3, <2>1, WaitersKeep
<1> QED
  BY <1>2, <1>3, <1>4, <1>5, PatchStepTypes DEF Renewed, Types, RestOK

LEMMA ApplyTypes == ASSUME Types, NEW p \in Projects, Apply(p) PROVE Types'
<1> DEFINE t == patch[p].task
           status == patch[p].status
<1>1. t \in Tasks /\ status \in Statuses /\ patch[p].pc = "apply"
  BY DEF Apply, At, Types, SpecsOK, PatchOK, PatchType, TasksOf
<1>2. Answered(p) \/ Goes(p, "push")
  BY DEF Apply
<1>3. PatchOK'
  BY <1>1, <1>2, AnsweredKeeps, GoesKeeps DEF Types, SpecsOK
<1>4. UNCHANGED <<history, signature, worktree, moved, bound, refill>> /\ PatchOnly
  BY DEF Apply, PatchOnly
<1>5. WaitersOK'
  BY <1>1, <1>2, <1>4, StepWaiters
<1>6. UNCHANGED root \/ root' = [root EXCEPT ![t] = status]
  BY DEF Apply
<1>7. root' \in [Tasks -> Statuses] /\ root' \in [Tasks -> Cached]
  <2> HIDE DEF t, status
  <2> QED
    BY <1>1, <1>6 DEF Types, SpecsOK, CorpusOK, Cached
<1>8. graph' \in [Tasks -> Cached]
  BY <1>7, OnType DEF Apply, Types, SpecsOK, CorpusOK
<1>9. HistoryOK' /\ Grows /\ CorpusOK' /\ SignatureOK'
  <2>1. unshared' \subseteq Projects
    BY DEF Apply, Types, SpecsOK, CorpusOK
  <2> QED
    BY <2>1, <1>4, <1>7, <1>8, HistoryStays, UnchangedGrows, GrownKeeps DEF Types, SpecsOK, CorpusOK
<1> QED
  BY <1>3, <1>4, <1>5, <1>9, PatchStepTypes DEF Apply, Types, RestOK

\* What a push does to the history, to what is shared and to the worktree.
LEMMA PushParts ==
    ASSUME Types, NEW p \in Projects, Push(p)
    PROVE  /\ Answered(p) \/ Goes(p, "drop")
           /\ patch[p].task \in Tasks /\ ProjectOf[patch[p].task] = p /\ patch[p].pc = "push"
           /\ \/ UNCHANGED <<history, unshared>>
              \/ /\ \E status \in Statuses : Committed(patch[p].task, status)
                 /\ unshared' = unshared \ {p}
           /\ worktree' \in [Tasks -> Worktrees]
<1>1. PICK t \in Tasks : t = patch[p].task /\ ProjectOf[t] = p /\ patch[p].pc = "push"
  BY DEF Push, At, Types, SpecsOK, PatchOK, PatchType, TasksOf
<1> DEFINE new   == root[t]
           base  == worktree[t].base
           waits == worktree[t].first # "none"
           first == IF worktree[t].first \in {"none", base} THEN new ELSE worktree[t].first
           lands == Tip(t) = base \/ first \in {base, Tip(t)}
           Shares(status) == worktree' = [worktree EXCEPT ![t] = [base |-> status, first |-> "none"]]
           Pushes(status) == Committed(t, status) /\ Shares(status) /\ unshared' = unshared \ {p}
           Stays == UNCHANGED <<history, unshared>>
<1>2. new \in Statuses /\ Tip(t) \in Statuses /\ first \in Statuses \cup {"none"}
  BY <1>1, TaskTip DEF Types, SpecsOK, CorpusOK, Worktrees
<1>3. /\ Answered(p) \/ Goes(p, "drop")
      /\ \/ Pushes(new)
         \/ Pushes(Tip(t))
         \/ Shares(new) /\ Stays
         \/ Stays /\ worktree' = [worktree EXCEPT ![t].first = first]
         \/ Stays /\ UNCHANGED worktree
  <2>1. /\ \/ /\ lands /\ Works /\ Goes(p, "drop")
              /\ CASE Tip(t) = base          -> Pushes(new)
                   [] Tip(t) # base /\ first = base -> Pushes(Tip(t))
                   [] OTHER                  -> IF waits THEN Pushes(new) ELSE Shares(new) /\ Stays
           \/ /\ (~lands /\ Works) \/ Fails
              /\ Answered(p) /\ Stays
              /\ worktree' = [worktree EXCEPT ![t].first = first]
           \/ Tip(t) = base /\ Fails /\ Answered(p) /\ Pushes(new)
           \/ new = "absent" /\ Works /\ Stays /\ UNCHANGED worktree /\ (Goes(p, "drop") \/ Answered(p))
    BY <1>1 DEF Push
  <2> HIDE DEF new, base, waits, first, lands, Shares, Pushes, Stays
  <2> QED
    BY <2>1
<1>4. worktree' \in [Tasks -> Worktrees]
  <2>1. \A status \in Statuses : [base |-> status, first |-> "none"] \in Worktrees
    BY DEF Worktrees
  <2>2. \A status \in Statuses : Shares(status) => worktree' \in [Tasks -> Worktrees]
    BY <2>1 DEF Types, SpecsOK, CorpusOK
  <2>3. worktree' = [worktree EXCEPT ![t].first = first] => worktree' \in [Tasks -> Worktrees]
    <3> HIDE DEF first
    <3> QED
      BY <1>2 DEF Types, SpecsOK, CorpusOK, Worktrees
  <2>4. UNCHANGED worktree => worktree' \in [Tasks -> Worktrees]
    BY DEF Types, SpecsOK, CorpusOK
  <2> HIDE DEF new, first, Shares, Stays
  <2> QED
    BY <1>2, <1>3, <2>2, <2>3, <2>4
<1>5. Stays \/ ((\E status \in Statuses : Committed(t, status)) /\ unshared' = unshared \ {p})
  <2> HIDE DEF new, first, Shares, Stays
  <2> QED
    BY <1>2, <1>3
<1> QED
  BY <1>1, <1>3, <1>4, <1>5

LEMMA PushTypes == ASSUME Types, NEW p \in Projects, Push(p) PROVE Types'
<1>1. /\ Answered(p) \/ Goes(p, "drop")
      /\ patch[p].task \in Tasks /\ patch[p].pc = "push"
      /\ \/ UNCHANGED <<history, unshared>>
         \/ /\ \E status \in Statuses : Committed(patch[p].task, status)
            /\ unshared' = unshared \ {p}
      /\ worktree' \in [Tasks -> Worktrees]
  BY PushParts
<1>2. PatchOK'
  BY <1>1, AnsweredKeeps, GoesKeeps DEF Types, SpecsOK
<1>3. PatchOnly /\ UNCHANGED <<root, signature, graph, dirty, made, refill, moved, bound>>
  BY DEF Push, PatchOnly
<1>4. WaitersOK'
  BY <1>1, <1>3, StepWaiters
<1>5. HistoryOK' /\ Grows
  BY <1>1, CommittedType, HistoryStays, UnchangedGrows DEF Types, SpecsOK
<1>6. CorpusOK' /\ SignatureOK'
  BY <1>1, <1>3, <1>5, GrownKeeps DEF Types, SpecsOK, CorpusOK
<1> QED
  BY <1>2, <1>3, <1>4, <1>5, <1>6, PatchStepTypes DEF Types, RestOK

LEMMA DropTypes == ASSUME Types, NEW p \in Projects, Drop(p) PROVE Types'
<1>1. /\ patch[p].pc = "drop" /\ Goes(p, "refresh") /\ PatchOnly
      /\ signature' = [signature EXCEPT ![p] = 0]
      /\ UNCHANGED <<history, root, graph, worktree, unshared, dirty, made, moved, bound, refill>>
  BY DEF Drop, At, PatchOnly
<1>2. PatchOK' /\ WaitersOK'
  BY <1>1, GoesKeeps, StepWaiters DEF Types, SpecsOK
<1>3. SignatureOK'
  <2>1. 0 \in 0..Remote(p)
    BY RemoteType DEF Types, SpecsOK
  <2> QED
    BY <1>1, <2>1, SignatureKeeps DEF Types, SpecsOK
<1>4. HistoryOK' /\ Grows /\ CorpusOK'
  BY <1>1, HistoryStays, UnchangedGrows DEF Types, SpecsOK, CorpusOK
<1> QED
  BY <1>1, <1>2, <1>3, <1>4, PatchStepTypes DEF Types, RestOK

LEMMA TellTypes == ASSUME Types, NEW p \in Projects, Tell(p) PROVE Types'
<1>1. /\ patch[p].pc = "tell" /\ Answered(p) /\ PatchOnly /\ dirty' = TRUE
      /\ graph' = On(p, Unread, graph)
      /\ UNCHANGED <<history, root, signature, worktree, unshared, made, moved, bound, refill>>
  BY DEF Tell, At, PatchOnly, SyncNow
<1>2. PatchOK' /\ WaitersOK'
  BY <1>1, AnsweredKeeps, StepWaiters DEF Types, SpecsOK
<1>3. CorpusOK'
  <2>1. graph' \in [Tasks -> Cached]
    BY <1>1, UnreadType, OnType DEF Types, SpecsOK, CorpusOK
  <2> QED
    BY <1>1, <2>1 DEF Types, SpecsOK, CorpusOK
<1>4. HistoryOK' /\ Grows /\ SignatureOK'
  BY <1>1, HistoryStays, UnchangedGrows, GrownKeeps DEF Types, SpecsOK
<1> QED
  BY <1>1, <1>2, <1>3, <1>4, PatchStepTypes

LEMMA UnbindTypes == ASSUME Types, NEW p \in Projects, Unbind(p) PROVE Types'
<1>1. UNCHANGED corpus
  BY DEF Unbind
<1>2. CorpusOK' /\ SignatureOK' /\ RefillOK' /\ PatchOK' /\ WaitersOK'
  <2> USE DEF Unbind, corpus, Types, SpecsOK
  <2>1. CorpusOK'
    BY DEF CorpusOK
  <2>2. SignatureOK' /\ RefillOK'
    BY UnchangedGrows, GrownKeeps
  <2> QED
    BY <2>1, <2>2, PatchStays DEF WaitersOK
<1> QED
  BY <1>2, CorpusStepTypes DEF Unbind, SyncNow, Types, RunOK, JobOK, RestOK

LEMMA CrashTypes == ASSUME Types, Crash PROVE Types'
<1>1. UNCHANGED <<history, tracker, events, made>> /\ torn' = (torn \/ run.pc # "idle") /\ dirty' = TRUE
  BY DEF Crash, SyncNow
<1>2. RunOK' /\ JobOK'
  BY IdleIsOK DEF Crash, Types, JobOK
<1>3. SignatureOK'
  <2>1. signature' = [p \in Projects |-> IF p \in bound THEN Remote(p) ELSE 0]
    BY DEF Crash
  <2>2. ASSUME NEW p \in Projects PROVE signature'[p] \in Nat /\ signature'[p] <= Remote(p)'
    <3>1. Remote(p) \in Nat /\ Remote(p)' = Remote(p)
      BY <1>1, RemoteType DEF Types, SpecsOK, Remote
    <3> QED
      BY <2>1, <3>1
  <2> QED
    BY <2>1, <2>2 DEF SignatureOK
<1>4. RefillOK'
  <2>1. refill' = [p \in Projects |-> NoRefill]
    BY DEF Crash
  <2>2. ASSUME NEW p \in Projects PROVE NoRefill.to <= Remote(p)'
    <3>1. Remote(p) \in Nat /\ Remote(p)' = Remote(p)
      BY <1>1, RemoteType DEF Types, SpecsOK, Remote
    <3> QED
      BY <3>1 DEF NoRefill
  <2> QED
    BY <2>1, <2>2, NoneBusy DEF RefillOK, NoRefill
<1>5. PatchOK' /\ WaitersOK'
  BY NoneBusy DEF Crash, PatchOK, WaitersOK, NoRefill, NoPatch
<1>6. CorpusOK'
  <2>1. root' \in [Tasks -> Statuses]
    BY TaskTip DEF Crash, Types, SpecsOK, CorpusOK
  <2>2. graph' \in [Tasks -> Cached]
    BY <2>1 DEF Crash, Cached
  <2>3. worktree' \in [Tasks -> Worktrees]
    <3>1. \A t \in Tasks : [worktree[t] EXCEPT !.first = root[t]] \in Worktrees /\ worktree[t] \in Worktrees
      BY DEF Types, SpecsOK, CorpusOK, Worktrees
    <3> QED
      BY <3>1 DEF Crash, Types, SpecsOK, CorpusOK
  <2> QED
    BY <2>1, <2>2, <2>3 DEF Crash, Types, SpecsOK, CorpusOK
<1> QED
  BY <1>1, <1>2, <1>3, <1>4, <1>5, <1>6, CorpusStepTypes DEF Types, RestOK

-----------------------------------------------------------------------------
(* Steps of the projection run. *)

LEMMA SpecsStay == ASSUME Types, UNCHANGED specs PROVE SpecsOK'
<1>1. UNCHANGED <<history, root, signature, graph, refill, patch, worktree, moved, unshared, bound>>
  BY DEF specs, corpus
<1>2. HistoryOK' /\ SignatureOK' /\ RefillOK' /\ PatchOK'
  BY <1>1, HistoryStays, UnchangedGrows, GrownKeeps, PatchStays DEF Types, SpecsOK
<1>3. CorpusOK' /\ WaitersOK'
  BY <1>1 DEF Types, SpecsOK, CorpusOK, WaitersOK
<1> QED
  BY <1>2, <1>3 DEF SpecsOK

\* A step of the run that touches nothing else.
LEMMA RunOnlyTypes ==
    ASSUME Types, RunOnly, RunOK', dirty' \in BOOLEAN, torn' \in BOOLEAN
    PROVE  Types'
  BY SpecsStay DEF Types, RunOnly, tracker, TrackerOK, JobOK, RestOK

LEMMA AbortedTypes == Aborted => RunOK' /\ torn' \in BOOLEAN
  BY IdleIsOK DEF Aborted, Over

LEMMA StartTypes == ASSUME Types, Start PROVE Types'
<1>1. CASE Fails /\ Aborted
  BY <1>1, AbortedTypes, RunOnlyTypes DEF Start
<1>2. CASE Works /\ UNCHANGED torn /\
           run' = [IdleRun EXCEPT !.pc = "check", !.ptr = marker,
                     !.whole = \A p \in Projects : marker.heads[p] # 0 => index[p] = "complete"]
  <2>1. run' \in RunType /\ run'.pc = "check"
    <3> DEFINE w == \A p \in Projects : marker.heads[p] # 0 => index[p] = "complete"
    <3>1. w \in BOOLEAN
      OBVIOUS
    <3> HIDE DEF w
    <3>2. run' = [IdleRun EXCEPT !.pc = "check", !.ptr = marker, !.whole = w]
      BY <1>2 DEF w
    <3> QED
      BY <3>1, <3>2, Empties DEF Types, TrackerOK, RunType, RunLabels
  <2>2. RunOK'
    BY <2>1 DEF RunOK
  <2> QED
    BY <1>2, <2>2, RunOnlyTypes DEF Start, Types, RestOK
<1> QED
  BY <1>1, <1>2 DEF Start

LEMMA CheckTypes == ASSUME Types, Check PROVE Types'
<1>1. RunOK'
  <2>1. CASE Over
    BY <2>1, IdleIsOK DEF Over
  <2>2. CASE run' = [run EXCEPT !.pc = "before", !.left = Projects]
    BY <2>2 DEF Types, RunOK, RunType, RunLabels
  <2> QED
    BY <2>1, <2>2 DEF Check
<1> QED
  BY <1>1, RunOnlyTypes DEF Check, Types, RestOK

LEMMA TakeServiceTypes == ASSUME Types, TakeService PROVE Types'
<1> DEFINE p == First(run.left)
<1>1. \/ run' = [run EXCEPT !.pc = "head", !.svc = "current"]
      \/ run' = [run EXCEPT !.left = @ \ {p}]
  BY DEF TakeService
<1>2. RunOK'
  BY <1>1 DEF TakeService, Types, RunOK, RunType, RunLabels
<1> QED
  BY <1>2, RunOnlyTypes DEF TakeService, Types, RestOK

LEMMA HeadBeforeTypes == ASSUME Types, HeadBefore PROVE Types'
<1> DEFINE p == First(run.left)
           lag == run.lag \/ Behind(p)
<1>1. p \in Projects /\ Remote(p) \in Nat
  BY FirstIsMember, RemoteType DEF HeadBefore, Types, RunOK, SpecsOK
<1>2. (p \in bound /\ run' = [run EXCEPT !.pc = "query", !.heads[p] = Remote(p), !.lag = lag]) \/ Aborted
  BY DEF HeadBefore
<1>3. lag \in BOOLEAN
  BY DEF Behind
<1>4. RunOK' /\ torn' \in BOOLEAN
  <2>1. CASE Aborted
    BY <2>1, AbortedTypes
  <2>2. CASE p \in bound /\ run' = [run EXCEPT !.pc = "query", !.heads[p] = Remote(p), !.lag = lag]
    <3>1. UNCHANGED torn
      BY <2>2 DEF HeadBefore
    <3> HIDE DEF p, lag
    <3> QED
      BY <3>1, <2>2, <1>1, <1>3 DEF HeadBefore, Types, RunOK, RunType, RunLabels, RestOK
  <2> QED
    BY <1>2, <2>1, <2>2
<1> QED
  BY <1>4, RunOnlyTypes DEF HeadBefore, Types, RestOK

LEMMA QueryBoardTypes == ASSUME Types, QueryBoard PROVE Types'
<1> DEFINE p == First(run.left)
           known == Answer(IF run.svc = "current" THEN graph ELSE run.old)
           board == On(p, known, run.board)
           lag == run.lag \/ p \in unshared
<1>1. known \in [Tasks -> Statuses] /\ board \in [Tasks -> Statuses]
  <2>1. known \in [Tasks -> Statuses]
    BY AnswerType DEF Types, SpecsOK, CorpusOK, RunOK, RunType
  <2> HIDE DEF known
  <2> QED
    BY <2>1, OnType DEF Types, RunOK, RunType
<1>2. \/ /\ run' = [run EXCEPT !.pc = "after", !.board = board, !.lag = lag]
         /\ graph' = On(p, known, graph) \/ UNCHANGED graph
         /\ UNCHANGED torn
      \/ Aborted /\ UNCHANGED graph
  BY DEF QueryBoard
<1>3. lag \in BOOLEAN
  OBVIOUS
<1>4. RunOK' /\ torn' \in BOOLEAN
  <2>1. CASE Aborted
    BY <2>1, AbortedTypes
  <2>2. CASE run' = [run EXCEPT !.pc = "after", !.board = board, !.lag = lag] /\ UNCHANGED torn
    <3> HIDE DEF p, known, board, lag
    <3> QED
      BY <1>1, <1>3, <2>2 DEF QueryBoard, Types, RunOK, RunType, RunLabels, RestOK
  <2> QED
    BY <1>2, <2>1, <2>2
<1>5. graph' \in [Tasks -> Cached]
  <2>1. known \in [Tasks -> Cached] /\ graph \in [Tasks -> Cached]
    BY <1>1 DEF Cached, Types, SpecsOK, CorpusOK
  <2> HIDE DEF p, known
  <2> QED
    BY <1>2, <2>1, OnType
<1>6. CorpusOK' /\ SignatureOK' /\ RefillOK' /\ PatchOK' /\ WaitersOK'
  BY <1>5, GrownKeeps, UnchangedGrows, PatchStays DEF QueryBoard, Types, SpecsOK, CorpusOK, WaitersOK
<1> QED
  BY <1>4, <1>6, CorpusStepTypes DEF QueryBoard, Types, JobOK, RestOK

LEMMA HeadAfterTypes == ASSUME Types, HeadAfter PROVE Types'
<1>1. RunOK' /\ torn' \in BOOLEAN
  <2>1. CASE Aborted
    BY <2>1, AbortedTypes
  <2>2. CASE run' = [run EXCEPT !.pc = "before", !.left = @ \ {First(run.left)}] /\ UNCHANGED torn
    BY <2>2 DEF HeadAfter, Types, RunOK, RunType, RunLabels, RestOK
  <2> QED
    BY <2>1, <2>2 DEF HeadAfter
<1> QED
  BY <1>1, RunOnlyTypes DEF HeadAfter, Types, RestOK

LEMMA DecideTypes == ASSUME Types, Decide PROVE Types'
<1>1. RunOK'
  <2>1. CASE Over
    BY <2>1, IdleIsOK DEF Over
  <2>2. CASE run' = [run EXCEPT !.pc = "cards"]
    BY <2>2 DEF Types, RunOK, RunType, RunLabels
  <2> QED
    BY <2>1, <2>2 DEF Decide
<1> QED
  BY <1>1, RunOnlyTypes DEF Decide, Types, RestOK

LEMMA ReadCardsTypes == ASSUME Types, ReadCards PROVE Types'
<1>1. RunOK' /\ torn' \in BOOLEAN
  <2>1. CASE Aborted
    BY <2>1, AbortedTypes
  <2>2. CASE /\ run' = [run EXCEPT !.pc = "upsert", !.ptr = marker, !.seen = cards, !.left = Wanted]
             /\ UNCHANGED torn
    <3>1. Wanted \subseteq Tasks
      BY DEF Wanted
    <3> QED
      BY <2>2, <3>1 DEF Types, TrackerOK, RunOK, RunType, RunLabels, RestOK
  <2> QED
    BY <2>1, <2>2 DEF ReadCards
<1> QED
  BY <1>1, RunOnlyTypes DEF ReadCards, Types, RestOK

-----------------------------------------------------------------------------
(* Steps that write cards and markers. *)

LEMMA TodoIsTask ==
    ASSUME Types, run.pc \in {"upsert", "stale"}, run.left # {}
    PROVE  Todo \in Tasks
  BY FirstIsMember DEF Todo, Types, RunOK

\* Types of the parts a write touches.
LEMMA WriteOnlyTypes ==
    ASSUME Types, UNCHANGED <<specs, dirty, events, made>>, Blur,
           TrackerOK', RunOK', torn' \in BOOLEAN
    PROVE  Types'
<1>1. SpecsOK' /\ RestOK'
  BY SpecsStay DEF Types, RestOK
<1>2. JobOK'
  <2> DEFINE u == job.unsure \/ job.pc = "reading"
  <2>1. u \in BOOLEAN
    OBVIOUS
  <2>2. job' = [job EXCEPT !.unsure = u]
    BY DEF Blur
  <2> HIDE DEF u
  <2> QED
    BY <2>1, <2>2 DEF Types, JobOK, GoodJob, JobType
<1> QED
  BY <1>1, <1>2 DEF Types

LEMMA CardDoneTypes ==
    ASSUME Types, run.pc = "upsert", run.left # {}, NEW id \in Nat, NEW failed \in BOOLEAN,
           CardDone(id, failed)
    PROVE  RunOK'
<1> DEFINE t == Todo
           f == run.failed \/ failed
<1>1. t \in Tasks
  BY TodoIsTask
<1>2. f \in BOOLEAN
  OBVIOUS
<1>3. run' = [run EXCEPT !.left = @ \ {t}, !.ids[t] = id, !.failed = f]
  BY DEF CardDone
<1> HIDE DEF t, f
<1> QED
  BY <1>1, <1>2, <1>3 DEF Types, RunOK, RunType, RunLabels

LEMMA PatchCardTypes == ASSUME Types, PatchCard PROVE Types'
<1> DEFINE state == DesiredState(run.board[Todo])
<1>1. Todo \in Tasks
  BY TodoIsTask DEF PatchCard
<1>2. state \in States
  BY StatesAndStatuses
<1>3. RunOK'
  <2>1. run.seen[Todo].id \in Nat
    BY <1>1 DEF Types, RunOK, RunType, CardType
  <2>2. \E failed \in BOOLEAN : CardDone(run.seen[Todo].id, failed)
    BY DEF PatchCard
  <2> QED
    BY <2>1, <2>2, CardDoneTypes DEF PatchCard
<1>4. UNCHANGED cards \/ cards' = [cards EXCEPT ![Todo].state = state, ![Todo].by = "run"]
  BY DEF PatchCard, Stated
<1>5. cards' \in [Tasks -> CardType]
  <2> HIDE DEF state
  <2>1. cards \in [Tasks -> CardType] /\ cards[Todo] \in CardType
    BY <1>1 DEF Types, TrackerOK
  <2>2. [cards[Todo] EXCEPT !.state = state, !.by = "run"] \in CardType
    BY <1>2, <2>1 DEF CardType
  <2>3. UNCHANGED cards \/ cards' = [cards EXCEPT ![Todo] = [cards[Todo] EXCEPT !.state = state, !.by = "run"]]
    BY <1>1, <1>4, <2>1
  <2> QED
    BY <2>1, <2>2, <2>3, <1>1
<1>6. TrackerOK' /\ torn' \in BOOLEAN
  BY <1>5 DEF PatchCard, UpsertOnly, WriteOnly, Types, TrackerOK, RestOK
<1> QED
  BY <1>3, <1>6, WriteOnlyTypes DEF PatchCard, UpsertOnly, WriteOnly

LEMMA CreateCardTypes == ASSUME Types, CreateCard PROVE Types'
<1> DEFINE state == DesiredState(run.board[Todo])
<1>1. Todo \in Tasks /\ issues \in Nat /\ cards \in [Tasks -> CardType]
  BY TodoIsTask DEF CreateCard, Types, TrackerOK
<1>2. state \in States /\ "Submitted" \in States
  BY StatesAndStatuses DEF States
<1>3. RunOK'
  <2>1. CardDone(issues + 1, FALSE) \/ CardDone(0, TRUE)
    BY DEF CreateCard
  <2>2. issues + 1 \in Nat /\ run.pc = "upsert" /\ run.left # {}
    BY <1>1 DEF CreateCard
  <2>3. CASE CardDone(issues + 1, FALSE)
    BY <2>2, <2>3, CardDoneTypes
  <2>4. CASE CardDone(0, TRUE)
    BY <2>2, <2>4, CardDoneTypes
  <2> QED
    BY <2>1, <2>3, <2>4
<1>4. \/ UNCHANGED <<cards, issues>>
      \/ /\ issues' = issues + 1
         /\ \E first \in States : cards' = [cards EXCEPT ![Todo] = [id |-> issues + 1, state |-> first, by |-> "run"]]
  BY <1>2 DEF CreateCard
<1>5. cards' \in [Tasks -> CardType] /\ issues' \in Nat
  <2>1. \A first \in States : [id |-> issues + 1, state |-> first, by |-> "run"] \in CardType
    BY <1>1 DEF CardType
  <2> QED
    BY <1>1, <1>4, <2>1
<1>6. TrackerOK' /\ torn' \in BOOLEAN
  BY <1>5 DEF CreateCard, UpsertOnly, WriteOnly, Types, TrackerOK, RestOK
<1> QED
  BY <1>3, <1>6, WriteOnlyTypes DEF CreateCard, UpsertOnly, WriteOnly

LEMMA UpsertedTypes == ASSUME Types, Upserted PROVE Types'
<1>1. Stale \subseteq Tasks
  BY DEF Stale
<1>2. RunOK'
  BY <1>1 DEF Upserted, Types, RunOK, RunType, RunLabels
<1> QED
  BY <1>2, RunOnlyTypes DEF Upserted, Types, RestOK

LEMMA RemovedTypes == ASSUME Types, Removed PROVE Types'
<1>1. InMarker \subseteq Projects
  BY DEF InMarker
<1>2. RunOK'
  BY <1>1 DEF Removed, Types, RunOK, RunType, RunLabels
<1> QED
  BY <1>2, RunOnlyTypes DEF Removed, Types, RestOK

\* One item of what is left is done.
LEMMA OneLessTypes ==
    ASSUME Types, run.pc \in {"stale", "publish"}, run' = [run EXCEPT !.left = @ \ {Todo}]
    PROVE  RunOK'
  BY DEF Types, RunOK, RunType, RunLabels

LEMMA RemoveCardTypes == ASSUME Types, RemoveCard PROVE Types'
<1>1. RunOK' /\ torn' \in BOOLEAN
  BY AbortedTypes, OneLessTypes DEF RemoveCard, Types, RestOK
<1>2. Todo \in Tasks
  BY TodoIsTask DEF RemoveCard
<1>3. None \in CardType
  BY DEF None, CardType
<1>4. cards' = cards \/ cards' = [cards EXCEPT ![Todo] = None]
  BY DEF RemoveCard
<1>5. TrackerOK'
  BY <1>2, <1>3, <1>4 DEF RemoveCard, WriteOnly, Types, TrackerOK
<1> QED
  BY <1>1, <1>5, WriteOnlyTypes DEF RemoveCard, WriteOnly

LEMMA PublishProjectTypes == ASSUME Types, PublishProject PROVE Types'
<1>1. RunOK' /\ torn' \in BOOLEAN
  BY AbortedTypes, OneLessTypes DEF PublishProject, Types, RestOK
<1>2. UNCHANGED index \/ \E value \in {"complete", "partial"} : index' = [index EXCEPT ![Todo] = value]
  BY DEF PublishProject
<1>3. index' \in [Projects -> {"none", "partial", "complete"}]
  BY <1>2 DEF Types, TrackerOK
<1>4. TrackerOK'
  BY <1>3 DEF PublishProject, WriteOnly, Types, TrackerOK
<1> QED
  BY <1>1, <1>4, WriteOnlyTypes DEF PublishProject, WriteOnly

LEMMA PublishRootTypes == ASSUME Types, PublishRoot PROVE Types'
<1>1. RunOK' /\ torn' \in BOOLEAN
  BY AbortedTypes, IdleIsOK DEF PublishRoot, Over
<1> DEFINE written == [valid |-> TRUE, complete |-> Complete, heads |-> run.heads,
                       board |-> run.board, ids |-> run.ids]
<1>2. UNCHANGED marker \/ marker' = written
  BY DEF PublishRoot
<1>3. written \in MarkerType
  BY DEF Complete, Types, RunOK, RunType, MarkerType
<1>4. \/ UNCHANGED index
      \/ index' = [p \in Projects |-> IF p \in InMarker THEN index[p] ELSE "none"]
  BY DEF PublishRoot
<1>5. index' \in [Projects -> {"none", "partial", "complete"}]
  BY <1>4 DEF Types, TrackerOK
<1>6. TrackerOK'
  BY <1>2, <1>3, <1>5 DEF PublishRoot, Types, TrackerOK
<1> QED
  BY <1>1, <1>6, WriteOnlyTypes DEF PublishRoot

-----------------------------------------------------------------------------
(* Steps of people and of the listener. *)

LEMMA MoveTypes == ASSUME Types, NEW m \in Moves, Move(m) PROVE Types'
<1> DEFINE t == MoveOf[m].task
           state == MoveOf[m].state
           card == [id    |-> IF state = "none" THEN 0 ELSE cards[t].id,
                    state |-> state,
                    by    |-> "user"]
<1>1. t \in Tasks /\ state \in States \cup {"none"}
  BY MovesAssumption
<1>2. card \in CardType
  BY <1>1 DEF Types, TrackerOK, CardType
<1>3. cards' = [cards EXCEPT ![t] = card] /\ events' \in {events, events \cup {t}}
  BY <1>1 DEF Move, Types, TrackerOK
<1> HIDE DEF t, state, card
<1>4. TrackerOK'
  BY <1>1, <1>2, <1>3 DEF Move, Types, TrackerOK
<1>5. RestOK'
  BY <1>1, <1>3 DEF Move, ghosts, Types, RestOK
<1> QED
  BY <1>4, <1>5, SpecsStay DEF Move, Types, RunOK, JobOK

LEMMA CopyTypes == ASSUME Types, NEW t \in Tasks, Copy(t) PROVE Types'
  BY SpecsStay DEF Copy, ghosts, Types, TrackerOK, RunOK, JobOK, RestOK

LEMMA TamperTypes == ASSUME Types, Tamper PROVE Types'
<1>1. TrackerOK'
  <2>1. marker' \in MarkerType
    BY Empties DEF Tamper, Types, TrackerOK
  <2>2. UNCHANGED index \/ \E p \in Projects : index' = [index EXCEPT ![p] = "none"]
    BY DEF Tamper
  <2>3. index' \in [Projects -> {"none", "partial", "complete"}]
    BY <2>2 DEF Types, TrackerOK
  <2> QED
    BY <2>1, <2>3 DEF Tamper, Types, TrackerOK
<1> QED
  BY <1>1, SpecsStay DEF Tamper, Types, RunOK, JobOK, RestOK

\* A step of the listener: the parts it may touch.
LEMMA JobOnlyTypes ==
    ASSUME Types, JobOnly, SpecsOK', JobOK', UNCHANGED dirty, events' \subseteq events
    PROVE  Types'
  BY DEF Types, JobOnly, tracker, TrackerOK, RunOK, RestOK

\* A sweep or an event begins to read.
LEMMA StartJobTypes ==
    ASSUME NEW scope \in SUBSET Tasks,
           job' = [IdleJob EXCEPT !.pc = "reading", !.scope = scope,
                                 !.due = {"board", "marker", "cards"}, !.unsure = Unsure]
    PROVE  JobOK'
<1> DEFINE u == Unsure
<1>1. u \in BOOLEAN
  BY DEF Unsure
<1>2. job' = [IdleJob EXCEPT !.pc = "reading", !.scope = scope,
                            !.due = {"board", "marker", "cards"}, !.unsure = u]
  OBVIOUS
<1> HIDE DEF u
<1>3. job' \in JobType /\ job'.plan = {}
  BY <1>1, <1>2, Empties DEF JobType, IdleJob
<1> QED
  BY <1>3 DEF JobOK, GoodJob

LEMMA StartSweepTypes == ASSUME Types, StartSweep PROVE Types'
<1>1. JobOK'
  BY StartJobTypes DEF StartSweep
<1> QED
  BY <1>1, SpecsStay, JobOnlyTypes DEF StartSweep

LEMMA StartEventTypes == ASSUME Types, NEW t \in Tasks, StartEvent(t) PROVE Types'
<1>1. {t} \in SUBSET Tasks
  OBVIOUS
<1>2. JobOK'
  BY <1>1, StartJobTypes DEF StartEvent
<1> QED
  BY <1>2, SpecsStay, JobOnlyTypes DEF StartEvent

\* A read keeps a job good; the last one plans for States that have a status.
LEMMA ReadType ==
    ASSUME NEW j \in JobType, j.plan = {}, NEW what
    PROVE  GoodJob(Read(j, what))
<1> DEFINE read == [j EXCEPT !.due = @ \ {what}]
           full == [read EXCEPT !.pc = "patching", !.plan = PlanOf(read)]
<1>1. read \in JobType /\ read.plan = {}
  BY DEF JobType
<1>2. PlanOf(read) \subseteq Tasks
  BY <1>1 DEF PlanOf, JobType
<1>3. \A t \in PlanOf(read) : SpecStatus(read.seen[t].state) # "unmapped"
  BY DEF PlanOf, Decision
<1>4. full \in JobType /\ full.plan = PlanOf(read) /\ full.seen = read.seen /\ full.pc = "patching"
  <2> HIDE DEF read
  <2> QED
    BY <1>1, <1>2 DEF JobType
<1>5. GoodJob(full)
  <2> HIDE DEF full, read
  <2> QED
    BY <1>3, <1>4 DEF GoodJob
<1>6. GoodJob(read)
  <2> HIDE DEF read
  <2> QED
    BY <1>1 DEF GoodJob
<1> QED
  BY <1>5, <1>6 DEF Read

LEMMA ReadCardTypes == ASSUME Types, ReadCard PROVE Types'
<1>1. [job EXCEPT !.seen = cards] \in JobType /\ [job EXCEPT !.seen = cards].plan = {}
  BY DEF ReadCard, MayRead, Types, TrackerOK, JobOK, GoodJob, JobType
<1>2. JobOK'
  BY <1>1, ReadType, Empties DEF ReadCard, JobOK
<1> QED
  BY <1>2, SpecsStay, JobOnlyTypes DEF ReadCard

LEMMA ReadMarkerTypes == ASSUME Types, ReadMarker PROVE Types'
<1>1. [job EXCEPT !.marker = marker] \in JobType /\ [job EXCEPT !.marker = marker].plan = {}
  BY DEF ReadMarker, MayRead, Types, TrackerOK, JobOK, GoodJob, JobType
<1>2. JobOK'
  BY <1>1, ReadType, Empties DEF ReadMarker, JobOK
<1> QED
  BY <1>2, SpecsStay, JobOnlyTypes DEF ReadMarker

\* What the listener reads of the specs is a board.
Shown == [t \in Tasks |-> IF ProjectOf[t] \in Named THEN Answer(graph)[t] ELSE "absent"]
LEMMA ShownType == ASSUME Types PROVE Shown \in [Tasks -> Statuses]
<1>1. \A t \in Tasks : Answer(graph)[t] \in Statuses
  BY AnswerType DEF Types, SpecsOK, CorpusOK
<1>2. "absent" \in Statuses
  BY DEF Statuses
<1> QED
  BY <1>1, <1>2 DEF Shown

LEMMA ReadSpecsReads ==
    ASSUME Types, ReadSpecs
    PROVE  /\ job' = Read([job EXCEPT !.board = Shown], "board") \/ job' = IdleJob
           /\ graph' \in [Tasks -> Cached]
<1> DEFINE read == [t \in Tasks |-> IF ProjectOf[t] \in Named THEN Answer(graph)[t] ELSE graph[t]]
<1>1. \/ /\ graph' = read
         /\ job' = Read([job EXCEPT !.board = [t \in Tasks |-> IF ProjectOf[t] \in Named
                                                              THEN graph'[t] ELSE "absent"]], "board")
      \/ job' = IdleJob /\ UNCHANGED graph
  BY DEF ReadSpecs
<1>2. \A t \in Tasks : Answer(graph)[t] \in Statuses /\ graph[t] \in Cached
  BY AnswerType DEF Types, SpecsOK, CorpusOK
<1>3. read \in [Tasks -> Cached]
  BY <1>2 DEF Cached
<1>4. graph' = read =>
          [t \in Tasks |-> IF ProjectOf[t] \in Named THEN graph'[t] ELSE "absent"] = Shown
  BY DEF Shown
<1>5. UNCHANGED graph => graph' \in [Tasks -> Cached]
  BY DEF Types, SpecsOK, CorpusOK
<1> HIDE DEF read
<1> QED
  BY <1>1, <1>3, <1>4, <1>5

LEMMA ReadSpecsTypes == ASSUME Types, ReadSpecs PROVE Types'
<1>1. Shown \in [Tasks -> Statuses]
  BY ShownType
<1>2. job' = Read([job EXCEPT !.board = Shown], "board") \/ job' = IdleJob
  BY ReadSpecsReads
<1>3. [job EXCEPT !.board = Shown] \in JobType /\ [job EXCEPT !.board = Shown].plan = {}
  BY <1>1 DEF ReadSpecs, MayRead, Types, JobOK, GoodJob, JobType
<1>4. JobOK'
  BY <1>2, <1>3, ReadType, Empties DEF JobOK
<1>5. SpecsOK'
  <2>1. graph' \in [Tasks -> Cached]
    BY ReadSpecsReads
  <2> QED
    BY <2>1, HistoryStays, UnchangedGrows, GrownKeeps, PatchStays
    DEF ReadSpecs, Types, SpecsOK, CorpusOK, WaitersOK
<1> QED
  BY <1>4, <1>5, JobOnlyTypes DEF ReadSpecs

LEMMA WriteBackTypes == ASSUME Types, NEW t \in Tasks, WriteBack(t) PROVE Types'
<1>1. JobOK'
  BY DEF WriteBack, Types, JobOK, GoodJob, JobType
<1>2. UNCHANGED <<history, root, signature, graph, refill, moved, unshared, bound>> /\ JobOnly
  BY DEF WriteBack
<1>3. PatchOK' /\ WaitersOK' /\ worktree' \in [Tasks -> Worktrees]
  <2>1. CASE UNCHANGED <<patch, worktree>>
    BY <2>1, <1>2, PatchStays DEF Types, SpecsOK, CorpusOK, WaitersOK
  <2>2. CASE ~UNCHANGED <<patch, worktree>>
    <3> DEFINE status == SpecStatus(job.seen[t].state)
    <3>1. Began("listener", t, status)
      BY <2>2 DEF WriteBack
    <3>2. status \in Statuses
      <4>1. t \in job.plan
        BY FirstIsMember DEF WriteBack
      <4>2. status # "unmapped"
        BY <4>1 DEF Types, JobOK, GoodJob
      <4> QED
        BY <4>2, StatesAndStatuses
    <3> HIDE DEF status
    <3> QED
      BY <3>1, <3>2, <1>2, BeganKeeps
  <2> QED
    BY <2>1, <2>2
<1>4. SpecsOK'
  BY <1>2, <1>3, HistoryStays, UnchangedGrows, GrownKeeps DEF Types, SpecsOK, CorpusOK
<1> QED
  BY <1>1, <1>2, <1>4, JobOnlyTypes DEF WriteBack

LEMMA EndJobTypes == ASSUME Types, EndJob PROVE Types'
<1>1. JobOK'
  BY Empties DEF EndJob, JobOK
<1> QED
  BY <1>1, SpecsStay, JobOnlyTypes DEF EndJob

-----------------------------------------------------------------------------
(* Types hold. *)

LEMMA InitTypes == Init => Types
<1> SUFFICES ASSUME Init PROVE Types
  OBVIOUS
<1>1. ASSUME NEW p \in Projects PROVE history[p] \in Seq(Commits(p)) /\ Remote(p) = 1
  <2> DEFINE first == [t \in TasksOf(p) |-> StartOf[t]]
  <2>1. first \in Commits(p) /\ history[p] = <<first>>
    BY TasksAssumption DEF Init, Commits, TasksOf
  <2> HIDE DEF first
  <2>2. <<first>> \in Seq(Commits(p)) /\ Len(<<first>>) = 1
    BY <2>1
  <2> QED
    BY <2>1, <2>2 DEF Remote
<1>2. HistoryOK
  <2>1. history = [p \in Projects |-> history[p]]
    BY DEF Init
  <2> QED
    BY <1>1, <2>1 DEF HistoryOK
<1>3. CorpusOK
  BY TasksAssumption DEF Init, CorpusOK, Cached, Worktrees
<1>4. SignatureOK
  <2>1. signature = [p \in Projects |-> 1]
    BY DEF Init
  <2> QED
    BY <1>1, <2>1 DEF SignatureOK
<1>5. RefillOK /\ PatchOK /\ WaitersOK
  <2>1. /\ refill = [p \in Projects |-> NoRefill] /\ NoRefill.to = 0 /\ NoRefill.left = {} /\ NoRefill.by = "nobody"
        /\ patch = [p \in Projects |-> NoPatch] /\ NoPatch.pc = "idle"
    BY DEF Init, NoRefill, NoPatch
  <2>2. \A p \in Projects : 0 <= Remote(p)
    BY <1>1
  <2> QED
    BY <2>1, <2>2, NoneBusy DEF RefillOK, PatchOK, WaitersOK
<1>6. TrackerOK
  BY Empties DEF Init, TrackerOK
<1>7. RunOK /\ JobOK
  BY Empties DEF Init, RunOK, JobOK, IdleRun
<1> QED
  BY <1>2, <1>3, <1>4, <1>5, <1>6, <1>7 DEF Init, Types, SpecsOK, RestOK

LEMMA StutterTypes == ASSUME Types, UNCHANGED vars PROVE Types'
  BY SpecsStay DEF Types, vars, tracker, ghosts, TrackerOK, RunOK, JobOK, RestOK

LEMMA NextTypes == ASSUME Types, Next PROVE Types'
<1>1. CASE \E e \in Edits : Write(e) \/ Outside(e)
  BY <1>1, WriteTypes, OutsideTypes
<1>2. ASSUME NEW p \in Projects,
             RefillStep(p) \/ Break(p) \/ PatchStep(p) \/ Unbind(p) \/ \E who \in Callers : Clear(who, p)
      PROVE  Types'
  BY <1>2, FillTypes, SealTypes, BreakTypes, RenewedTypes, ApplyTypes, PushTypes, DropTypes, TellTypes,
     UnbindTypes, ClearTypes DEF RefillStep, PatchStep
<1>3. CASE AfterReconcile \/ Crash
  BY <1>3, AfterReconcileTypes, CrashTypes
<1>4. CASE ProjectionStep
  BY <1>4, StartTypes, CheckTypes, TakeServiceTypes, HeadBeforeTypes, QueryBoardTypes, HeadAfterTypes,
     DecideTypes, ReadCardsTypes, PatchCardTypes, CreateCardTypes, UpsertedTypes, RemoveCardTypes,
     RemovedTypes, PublishProjectTypes, PublishRootTypes DEF ProjectionStep
<1>5. CASE \E m \in Moves : Move(m)
  BY <1>5, MoveTypes
<1>6. CASE \E t \in Tasks : Copy(t) \/ StartEvent(t)
  BY <1>6, CopyTypes, StartEventTypes
<1>7. CASE Tamper \/ StartSweep
  BY <1>7, TamperTypes, StartSweepTypes
<1>8. CASE JobStep
  BY <1>8, ReadCardTypes, ReadMarkerTypes, ReadSpecsTypes, WriteBackTypes, EndJobTypes DEF JobStep
<1> QED
  BY <1>1, <1>2, <1>3, <1>4, <1>5, <1>6, <1>7, <1>8 DEF Next, Callers

LEMMA TypesImplyTypeOK == Types => TypeOK
<1> SUFFICES ASSUME Types PROVE TypeOK
  OBVIOUS
<1>1. \A p \in Projects : history[p] \in Seq([TasksOf(p) -> Statuses]) /\ signature[p] \in 0..Remote(p)
  BY RemoteType DEF Types, SpecsOK, HistoryOK, SignatureOK, Commits
<1> QED
  BY <1>1 DEF Types, SpecsOK, CorpusOK, RefillOK, PatchOK, TrackerOK, RunOK, JobOK, GoodJob, RestOK,
     RunType, RunLabels, JobType, Cached, Worktrees, TypeOK

\* Every variable keeps its type: whatever the tracker, the specs and the faults do,
\* a card shows a State of the tracker, a marker and what a run has read are complete
\* records, no corpus is cached for a commit the remote does not have, and the listener
\* only ever writes a status the specs can hold.
THEOREM TypeOKAlways == Spec => []TypeOK
<1>1. Types /\ [Next]_vars => Types'
  BY NextTypes, StutterTypes
<1> QED
  BY <1>1, InitTypes, TypesImplyTypeOK, PTL DEF Spec

-----------------------------------------------------------------------------
(* What a corpus holds.                                                    *)

\* A board has the statuses of a project's k-th commit.
Says(board, p, k) == \A t \in TasksOf(p) : board[t] = Content(p, k)[t]

\* A corpus cached for the remote's tip, without a patch the remote has not moved since,
\* is the tip, and its service has read nothing else.
InSync(p) ==
    signature[p] = Remote(p) /\ p \notin unshared =>
        Says(root, p, Remote(p)) /\ \A t \in TasksOf(p) : graph[t] \in {"unread", root[t]}
\* A rebuild has begun because the corpus was behind; what it has written of the remote's
\* tip is the tip.
Filling(p) ==
    refill[p].by # "nobody" =>
        /\ signature[p] < Remote(p)
        /\ refill[p].to = Remote(p) /\ p \notin unshared
              => \A t \in TasksOf(p) \ refill[p].left : root[t] = Content(p, Remote(p))[t]
CorpusVouched == \A p \in Projects : InSync(p) /\ Filling(p)

LEMMA Numbers ==
    ASSUME Types, NEW p \in Projects
    PROVE  /\ Remote(p) \in Nat /\ Remote(p) >= 1
           /\ signature[p] \in Nat /\ signature[p] <= Remote(p)
           /\ refill[p].to \in Nat /\ refill[p].to <= Remote(p)
  BY RemoteType DEF Types, SpecsOK, SignatureOK, RefillOK, RefillType

\* Nobody touches the corpus; its service may read it, or forget it.
LEMMA CorpusStays ==
    ASSUME Types, CorpusVouched, NEW q \in Projects, history'[q] = history[q], signature'[q] = signature[q],
           refill'[q] = refill[q] \/ refill'[q].by = "nobody", q \in unshared => q \in unshared',
           \A t \in TasksOf(q) : root'[t] = root[t] /\ graph'[t] \in {"unread", graph[t], root[t]}
    PROVE  InSync(q)' /\ Filling(q)'
<1>1. Remote(q)' = Remote(q) /\ TasksOf(q)' = TasksOf(q)
  BY DEF Remote, TasksOf
<1>2. \A t \in TasksOf(q) : Content(q, Remote(q))'[t] = Content(q, Remote(q))[t]
  BY <1>1 DEF Content
<1>3. InSync(q) /\ Filling(q)
  BY DEF CorpusVouched
<1>4. InSync(q)'
  BY <1>1, <1>2, <1>3 DEF InSync, Says
<1>5. Filling(q)'
  BY <1>1, <1>2, <1>3 DEF Filling
<1> QED
  BY <1>4, <1>5

\* The remote has moved: a corpus is behind it, and so is what is being written.
LEMMA RemoteMoves ==
    ASSUME Types, CorpusVouched, NEW q \in Projects, Remote(q)' \in Nat, Remote(q)' > Remote(q),
           UNCHANGED <<signature, refill>>
    PROVE  InSync(q)' /\ Filling(q)'
<1>1. /\ Remote(q) \in Nat /\ signature[q] \in Nat /\ signature[q] <= Remote(q)
      /\ refill[q].to \in Nat /\ refill[q].to <= Remote(q)
  BY Numbers
<1>2. signature'[q] < Remote(q)' /\ signature'[q] # Remote(q)' /\ refill'[q].to # Remote(q)'
  BY <1>1
<1>3. InSync(q)'
  BY <1>2 DEF InSync
<1>4. Filling(q)'
  BY <1>2 DEF Filling
<1> QED
  BY <1>3, <1>4

LEMMA CommittedVouched ==
    ASSUME Types, CorpusVouched, NEW t \in Tasks, NEW status \in Statuses, Committed(t, status),
           UNCHANGED <<root, graph, signature, refill>>, unshared' = unshared \ {ProjectOf[t]}
    PROVE  CorpusVouched'
<1>1. Remote(ProjectOf[t])' > Remote(ProjectOf[t]) /\ Grows
      /\ \A p \in Projects \ {ProjectOf[t]} : history'[p] = history[p]
  BY CommittedType DEF Types, SpecsOK
<1>2. ASSUME NEW q \in Projects PROVE InSync(q)' /\ Filling(q)'
  <2>1. CASE q = ProjectOf[t]
    <3>1. Remote(q)' \in Nat
      BY <1>1 DEF Grows, Remote
    <3> QED
      BY <1>1, <2>1, <3>1, RemoteMoves
  <2>2. CASE q # ProjectOf[t]
    BY <1>1, <2>2, CorpusStays
  <2> QED
    BY <2>1, <2>2
<1> QED
  BY <1>2 DEF CorpusVouched

LEMMA ClearVouched == ASSUME Types, CorpusVouched, NEW who, NEW p \in Projects, Clear(who, p) PROVE CorpusVouched'
<1>1. /\ UNCHANGED <<history, signature, graph, unshared>> /\ signature[p] # Remote(p)
      /\ refill' = [refill EXCEPT ![p] = [by |-> who, to |-> Remote(p), left |-> TasksOf(p)]]
      /\ root' = On(p, Nothing, root)
  BY DEF Clear, CorpusOnly
<1>2. ASSUME NEW q \in Projects PROVE InSync(q)' /\ Filling(q)'
  <2>1. CASE q = p
    <3>1. Remote(p)' = Remote(p) /\ signature'[p] # Remote(p)' /\ signature'[p] < Remote(p)'
      BY <1>1, Numbers DEF Remote
    <3>2. refill'[p].left = TasksOf(p)
      BY <1>1 DEF Types, SpecsOK, RefillOK
    <3>3. InSync(p)'
      BY <3>1 DEF InSync
    <3>4. Filling(p)'
      BY <3>1, <3>2 DEF Filling, TasksOf
    <3> QED
      BY <2>1, <3>3, <3>4
  <2>2. CASE q # p
    <3>1. \A t \in TasksOf(q) : root'[t] = root[t]
      BY <1>1, <2>2 DEF On, TasksOf
    <3>2. refill'[q] = refill[q]
      BY <1>1, <2>2 DEF Types, SpecsOK, RefillOK
    <3> QED
      BY <1>1, <3>1, <3>2, CorpusStays
  <2> QED
    BY <2>1, <2>2
<1> QED
  BY <1>2 DEF CorpusVouched

LEMMA FillVouched == ASSUME Types, CorpusVouched, NEW p \in Projects, Fill(p) PROVE CorpusVouched'
<1>1. PICK t \in refill[p].left, k \in refill[p].to..Remote(p) :
          /\ root' = [root EXCEPT ![t] = Content(p, k)[t]]
          /\ refill' = [refill EXCEPT ![p].left = @ \ {t}]
  BY DEF Fill
<1>2. UNCHANGED <<history, signature, graph, unshared>> /\ refill[p].by # "nobody"
  BY DEF Fill, CorpusOnly
<1>3. refill[p].left \subseteq TasksOf(p) /\ t \in TasksOf(p)
  BY DEF Types, SpecsOK, RefillOK
<1>4. \A u \in Tasks : root'[u] = IF u = t THEN Content(p, k)[t] ELSE root[u]
  BY <1>1, <1>3 DEF Types, SpecsOK, CorpusOK, TasksOf
<1>5. ASSUME NEW q \in Projects PROVE InSync(q)' /\ Filling(q)'
  <2>1. CASE q = p
    <3>1. Remote(p)' = Remote(p) /\ Content(p, Remote(p))' = Content(p, Remote(p))
      BY <1>2 DEF Remote, Content
    <3>2. signature[p] < Remote(p)
      BY <1>2 DEF CorpusVouched, Filling
    <3>3. InSync(p)'
      BY <1>2, <3>1, <3>2, Numbers DEF InSync
    <3>4. refill'[p].to = refill[p].to /\ refill'[p].left = refill[p].left \ {t}
      BY <1>1 DEF Types, SpecsOK, RefillOK, RefillType
    <3>5. ASSUME refill[p].to = Remote(p), p \notin unshared,
                 NEW u \in TasksOf(p) \ (refill[p].left \ {t})
          PROVE  root'[u] = Content(p, Remote(p))[u]
      <4>1. k = Remote(p)
        BY <3>5, Numbers
      <4>2. u # t => root[u] = Content(p, Remote(p))[u]
        BY <1>2, <3>5 DEF CorpusVouched, Filling
      <4> QED
        BY <1>4, <4>1, <4>2 DEF TasksOf
    <3>6. Filling(p)'
      BY <1>2, <3>1, <3>2, <3>4, <3>5 DEF Filling, TasksOf
    <3> QED
      BY <2>1, <3>3, <3>6
  <2>2. CASE q # p
    <3>1. \A u \in TasksOf(q) : root'[u] = root[u]
      BY <1>3, <1>4, <2>2 DEF TasksOf
    <3>2. refill'[q] = refill[q]
      BY <1>1, <2>2 DEF Types, SpecsOK, RefillOK
    <3> QED
      BY <1>2, <3>1, <3>2, CorpusStays
  <2> QED
    BY <2>1, <2>2
<1> QED
  BY <1>5 DEF CorpusVouched

\* Every document is written: the corpus is the commit it is cached for now.
LEMMA SealVouched == ASSUME Types, CorpusVouched, NEW p \in Projects, Seal(p) PROVE CorpusVouched'
<1>1. /\ UNCHANGED <<history, root, unshared>> /\ refill[p].by # "nobody" /\ refill[p].left = {}
      /\ signature' = [signature EXCEPT ![p] = refill[p].to]
      /\ refill' = [refill EXCEPT ![p] = NoRefill] /\ graph' = On(p, Unread, graph)
  BY DEF Seal, CorpusOnly
<1>2. ASSUME NEW q \in Projects PROVE InSync(q)' /\ Filling(q)'
  <2>1. CASE q = p
    <3>1. Remote(p)' = Remote(p) /\ Content(p, Remote(p))' = Content(p, Remote(p))
      BY <1>1 DEF Remote, Content
    <3>2. signature'[p] = refill[p].to
      BY <1>1 DEF Types, SpecsOK, SignatureOK
    <3>3. \A t \in TasksOf(p) : graph'[t] = "unread"
      BY <1>1 DEF On, Unread, TasksOf
    <3>4. InSync(p)'
      BY <1>1, <3>1, <3>2, <3>3 DEF InSync, Says, CorpusVouched, Filling, TasksOf
    <3>5. refill'[p].by = "nobody"
      BY <1>1 DEF Types, SpecsOK, RefillOK, NoRefill
    <3>6. Filling(p)'
      BY <3>5 DEF Filling
    <3> QED
      BY <2>1, <3>4, <3>6
  <2>2. CASE q # p
    <3>1. \A t \in TasksOf(q) : graph'[t] = graph[t]
      BY <1>1, <2>2 DEF On, TasksOf
    <3>2. refill'[q] = refill[q] /\ signature'[q] = signature[q]
      BY <1>1, <2>2 DEF Types, SpecsOK, RefillOK, SignatureOK
    <3> QED
      BY <1>1, <3>1, <3>2, CorpusStays
  <2> QED
    BY <2>1, <2>2
<1> QED
  BY <1>2 DEF CorpusVouched

\* A patch makes the corpus differ from the remote, and is noted.
LEMMA ApplyVouched == ASSUME Types, CorpusVouched, NEW p \in Projects, Apply(p) PROVE CorpusVouched'
<1>1. /\ UNCHANGED <<history, signature, refill>> /\ graph' = On(p, root', graph)
      /\ UNCHANGED <<root, unshared>> \/ (root' = [root EXCEPT ![patch[p].task] = patch[p].status]
                                          /\ unshared' = unshared \cup {p})
  BY DEF Apply, PatchOnly
<1>2. ProjectOf[patch[p].task] = p
  BY DEF Apply, At, Types, SpecsOK, PatchOK, TasksOf
<1>3. ASSUME NEW q \in Projects, q # p \/ UNCHANGED <<root, unshared>> PROVE InSync(q)' /\ Filling(q)'
  <2>1. \A t \in TasksOf(q) : root'[t] = root[t]
    BY <1>1, <1>2, <1>3 DEF TasksOf, Types, SpecsOK, CorpusOK
  <2>2. \A t \in TasksOf(q) : graph'[t] \in {graph[t], root[t]}
    BY <1>1, <2>1 DEF On, TasksOf
  <2> QED
    BY <1>1, <2>1, <2>2, CorpusStays
<1>4. ASSUME unshared' = unshared \cup {p} PROVE InSync(p)' /\ Filling(p)'
  <2>1. Remote(p)' = Remote(p)
    BY <1>1 DEF Remote
  <2> QED
    BY <1>1, <1>4, <2>1 DEF InSync, Filling, CorpusVouched
<1> QED
  BY <1>1, <1>3, <1>4 DEF CorpusVouched

LEMMA DropVouched == ASSUME Types, CorpusVouched, NEW p \in Projects, Drop(p) PROVE CorpusVouched'
<1>1. UNCHANGED <<history, root, graph, refill, unshared>> /\ signature' = [signature EXCEPT ![p] = 0]
  BY DEF Drop, PatchOnly
<1>2. ASSUME NEW q \in Projects PROVE InSync(q)' /\ Filling(q)'
  <2>1. CASE q = p
    <3>1. /\ signature'[p] = 0 /\ Remote(p)' = Remote(p) /\ 0 < Remote(p) /\ 0 # Remote(p)
          /\ Content(p, Remote(p))' = Content(p, Remote(p))
      BY <1>1, Numbers DEF Types, SpecsOK, SignatureOK, Remote, Content
    <3>2. InSync(p)'
      BY <3>1 DEF InSync
    <3>3. Filling(p)'
      BY <1>1, <3>1 DEF Filling, CorpusVouched, TasksOf
    <3> QED
      BY <2>1, <3>2, <3>3
  <2>2. CASE q # p
    <3>1. signature'[q] = signature[q]
      BY <1>1, <2>2 DEF Types, SpecsOK, SignatureOK
    <3> QED
      BY <1>1, <3>1, CorpusStays
  <2> QED
    BY <2>1, <2>2
<1> QED
  BY <1>2 DEF CorpusVouched

LEMMA CrashVouched == ASSUME Types, Crash PROVE CorpusVouched'
<1>1. /\ UNCHANGED history /\ graph' = root' /\ refill' = [p \in Projects |-> NoRefill]
      /\ root' = [t \in Tasks |-> IF ProjectOf[t] \in bound THEN Tip(t) ELSE root[t]]
      /\ signature' = [p \in Projects |-> IF p \in bound THEN Remote(p) ELSE 0]
  BY DEF Crash
<1>2. ASSUME NEW q \in Projects PROVE InSync(q)' /\ Filling(q)'
  <2>1. Remote(q)' = Remote(q) /\ Content(q, Remote(q))' = Content(q, Remote(q)) /\ Remote(q) # 0
    BY <1>1, Numbers DEF Remote, Content
  <2>2. signature'[q] = Remote(q) => q \in bound
    BY <1>1, <2>1
  <2>3. \A t \in TasksOf(q) : q \in bound => root'[t] = Content(q, Remote(q))[t]
    BY <1>1 DEF TasksOf, Tip
  <2>4. InSync(q)'
    BY <1>1, <2>1, <2>2, <2>3 DEF InSync, Says, TasksOf
  <2>5. Filling(q)'
    BY <1>1 DEF Filling, NoRefill
  <2> QED
    BY <2>4, <2>5
<1> QED
  BY <1>2 DEF CorpusVouched

\* A step that leaves the corpora alone; services may read them, or forget them.
LEMMA QuietVouched ==
    ASSUME Types, CorpusVouched, UNCHANGED <<history, root, signature, unshared>>,
           \A p \in Projects : refill'[p] = refill[p] \/ refill'[p].by = "nobody",
           \A t \in Tasks : graph'[t] \in {"unread", graph[t], root[t]}
    PROVE  CorpusVouched'
<1>1. \A p \in Projects : InSync(p)' /\ Filling(p)'
  BY CorpusStays DEF TasksOf
<1> QED
  BY <1>1 DEF CorpusVouched

LEMMA AnswerReads == \A t \in Tasks : Answer(graph)[t] \in {graph[t], root[t]}
  BY DEF Answer

LEMMA BreakVouched == ASSUME Types, CorpusVouched, NEW p \in Projects, Break(p) PROVE CorpusVouched'
<1>1. refill' = [refill EXCEPT ![p] = NoRefill]
  BY DEF Break
<1>2. \A q \in Projects : refill'[q] = refill[q] \/ refill'[q].by = "nobody"
  BY <1>1 DEF NoRefill, Types, SpecsOK, RefillOK
<1> QED
  BY <1>2, QuietVouched DEF Break, CorpusOnly

LEMMA TellVouched == ASSUME Types, CorpusVouched, NEW p \in Projects, Tell(p) PROVE CorpusVouched'
<1>1. \A t \in Tasks : graph'[t] \in {"unread", graph[t]}
  BY DEF Tell, On, Unread
<1> QED
  BY <1>1, QuietVouched DEF Tell, PatchOnly

LEMMA QueryBoardReads == ASSUME Types, QueryBoard PROVE \A t \in Tasks : graph'[t] \in {graph[t], root[t]}
<1>1. UNCHANGED graph \/ graph' = On(First(run.left), Answer(graph), graph)
  BY DEF QueryBoard
<1> QED
  BY <1>1, AnswerReads DEF On

LEMMA ReadSpecsVouched == ASSUME Types, CorpusVouched, ReadSpecs PROVE CorpusVouched'
<1>1. \A t \in Tasks : graph'[t] \in {graph[t], root[t]}
  BY AnswerReads DEF ReadSpecs
<1> QED
  BY <1>1, QuietVouched DEF ReadSpecs

LEMMA PushVouched == ASSUME Types, CorpusVouched, NEW p \in Projects, Push(p) PROVE CorpusVouched'
<1>1. /\ patch[p].task \in Tasks /\ ProjectOf[patch[p].task] = p
      /\ \/ UNCHANGED <<history, unshared>>
         \/ /\ \E status \in Statuses : Committed(patch[p].task, status)
            /\ unshared' = unshared \ {p}
  BY PushParts
<1>2. UNCHANGED <<root, graph, signature, refill>>
  BY DEF Push, PatchOnly
<1>3. CASE UNCHANGED <<history, unshared>>
  BY <1>2, <1>3, QuietVouched
<1>4. CASE (\E status \in Statuses : Committed(patch[p].task, status)) /\ unshared' = unshared \ {p}
  BY <1>1, <1>2, <1>4, CommittedVouched
<1> QED
  BY <1>1, <1>3, <1>4

LEMMA NextCorpus == ASSUME Types, CorpusVouched, Next PROVE CorpusVouched'
<1>1. CASE UNCHANGED <<history, root, signature, unshared, refill, graph>>
  BY <1>1, QuietVouched
<1>2. ASSUME NEW e \in Edits, Write(e) \/ Outside(e) PROVE CorpusVouched'
  <2>1. CASE Write(e)
    BY <2>1, <1>1 DEF Write, PatchOnly
  <2>2. CASE Outside(e)
    BY <2>2, EditTypes, CommittedVouched DEF Outside
  <2> QED
    BY <1>2, <2>1, <2>2
<1>3. ASSUME NEW p \in Projects,
             RefillStep(p) \/ Break(p) \/ PatchStep(p) \/ Unbind(p) \/ \E who \in Callers : Clear(who, p)
      PROVE  CorpusVouched'
  <2>1. CASE RefillStep(p) \/ Break(p) \/ \E who \in Callers : Clear(who, p)
    BY <2>1, FillVouched, SealVouched, BreakVouched, ClearVouched DEF RefillStep
  <2>2. CASE PatchStep(p)
    <3>1. CASE Renewed(p)
      BY <3>1, <1>1 DEF Renewed, PatchOnly
    <3> QED
      BY <2>2, <3>1, ApplyVouched, PushVouched, DropVouched, TellVouched DEF PatchStep
  <2>3. CASE Unbind(p)
    BY <2>3, <1>1 DEF Unbind, corpus
  <2> QED
    BY <1>3, <2>1, <2>2, <2>3
<1>4. CASE AfterReconcile \/ Crash
  BY <1>1, <1>4, CrashVouched DEF AfterReconcile, CorpusOnly
<1>5. CASE ProjectionStep
  <2>1. CASE QueryBoard
    BY <2>1, QueryBoardReads, QuietVouched DEF QueryBoard
  <2>2. CASE ~QueryBoard
    BY <1>1, <1>5, <2>2
    DEF ProjectionStep, Start, Check, TakeService, HeadBefore, HeadAfter, Decide, ReadCards, PatchCard,
        CreateCard, Upserted, RemoveCard, Removed, PublishProject, PublishRoot, UpsertOnly, WriteOnly,
        RunOnly, specs, corpus
  <2> QED
    BY <2>1, <2>2
<1>6. CASE (\E m \in Moves : Move(m)) \/ (\E t \in Tasks : Copy(t) \/ StartEvent(t)) \/ Tamper \/ StartSweep
  BY <1>1, <1>6 DEF Move, Copy, StartEvent, Tamper, StartSweep, specs, corpus
<1>7. CASE JobStep
  <2>1. CASE ReadSpecs
    BY <2>1, ReadSpecsVouched
  <2>2. ASSUME NEW t \in Tasks, WriteBack(t) PROVE CorpusVouched'
    BY <2>2, <1>1 DEF WriteBack
  <2>3. CASE ReadCard \/ ReadMarker \/ EndJob
    BY <2>3, <1>1 DEF ReadCard, ReadMarker, EndJob, specs, corpus
  <2> QED
    BY <1>7, <2>1, <2>2, <2>3 DEF JobStep
<1> QED
  BY <1>2, <1>3, <1>4, <1>5, <1>6, <1>7 DEF Next, Callers

LEMMA InitCorpus == Init => CorpusVouched
<1> SUFFICES ASSUME Init, NEW p \in Projects PROVE InSync(p) /\ Filling(p)
  BY DEF CorpusVouched
<1> DEFINE first == [t \in TasksOf(p) |-> StartOf[t]]
<1>1. history[p] = <<first>> /\ signature[p] = 1 /\ root = StartOf /\ graph = StartOf
      /\ refill[p].by = "nobody"
  BY DEF Init, NoRefill
<1>2. Content(p, 1) = first /\ \A t \in TasksOf(p) : first[t] = root[t]
  BY <1>1 DEF Content
<1> HIDE DEF first
<1>3. Remote(p) = 1
  BY <1>1 DEF Remote
<1> QED
  BY <1>1, <1>2, <1>3 DEF InSync, Filling, Says

-----------------------------------------------------------------------------
(* What a run has read.                                                    *)

ReadAt(p) == run.heads[p] # 0 => Says(run.board, p, run.heads[p])

ReadingPcs == {"before", "head", "query", "after"}
WritingPcs == {"cards", "upsert", "stale", "publish"}

\* The projects whose head was not sampled yet.
NotYet == CASE run.pc = "check"             -> Projects
            [] run.pc \in {"before", "head"} -> run.left
            [] run.pc \in {"query", "after"} -> run.left \ {First(run.left)}
            [] OTHER                        -> {}

\* Between the head and the board: unless the remote moves or a patch is applied, the
\* corpus is the remote's and the service the one that reads it.
InHand(p) ==
    run.heads[p] = Remote(p) /\ p \notin unshared =>
        run.svc = "current" /\ signature[p] = Remote(p) /\ ~Writing(p)

\* No head is ahead of the remote.  Unless a corpus was behind or ahead, the board of
\* each project read so far is at its head, and so is the board of the project whose
\* head is about to be sampled again, if its remote is where it was.
RunVouched ==
    /\ \A p \in Projects : run.heads[p] \in 0..Remote(p)
    /\ \A p \in NotYet : run.heads[p] = 0
    /\ ~run.lag =>
          /\ run.pc \in ReadingPcs => \A p \in Projects \ run.left : ReadAt(p)
          /\ run.pc \in WritingPcs => \A p \in Projects : ReadAt(p)
          /\ run.pc = "query" => InHand(First(run.left))
          /\ run.pc = "after" /\ run.heads[First(run.left)] = Remote(First(run.left))
                => Says(run.board, First(run.left), Remote(First(run.left)))
MarkerVouched ==
    /\ \A p \in Projects : marker.heads[p] \in 0..Remote(p)
    /\ HeadsVouch
Vouched == CorpusVouched /\ RunVouched /\ MarkerVouched

LEMMA GrowthMarker ==
    ASSUME Types, MarkerVouched, Grows, UNCHANGED <<marker, lagged>>
    PROVE  MarkerVouched'
<1>1. \A p \in Projects : Remote(p) \in Nat /\ Remote(p)' \in Nat /\ Remote(p)' >= Remote(p)
  BY DEF Grows, Remote
<1>2. \A p \in Projects : marker'.heads[p] \in 0..Remote(p)'
  BY <1>1 DEF MarkerVouched
<1>3. HeadsVouch'
  <2> SUFFICES ASSUME marker.complete, ~lagged, NEW p \in Projects, marker.heads[p] # 0
               PROVE  Says(marker.board, p, marker.heads[p])'
    BY DEF HeadsVouch, Says
  <2>1. Says(marker.board, p, marker.heads[p]) /\ marker.heads[p] \in 1..Remote(p)
    BY <1>1 DEF MarkerVouched, HeadsVouch, Says
  <2>2. \A k \in 1..Remote(p) : Says(marker.board, p, k) => \A t \in TasksOf(p) : marker.board[t] = history'[p][k][t]
    BY DEF Grows, Says, Content
  <2> QED
    BY <2>1, <2>2 DEF Says, Content
<1> QED
  BY <1>2, <1>3 DEF MarkerVouched

\* A step that leaves the project in the run's hand as it is, or moves its remote, or
\* changes its corpus by a patch.
Calm(p) ==
    \/ Remote(p)' > Remote(p)
    \/ p \in unshared'
    \/ /\ Remote(p)' = Remote(p) /\ p \notin unshared
       /\ signature[p] = Remote(p) /\ ~Writing(p)
             => signature'[p] = signature[p] /\ ~Writing(p)' /\ run'.svc = run.svc

\* A step that lets histories grow; of the run it may only change the service object.
LEMMA GrowthRun ==
    ASSUME Types, RunVouched, Grows,
           UNCHANGED <<run.pc, run.heads, run.board, run.left, run.lag>>,
           \A p \in Projects : p = First(run.left) => Calm(p)
    PROVE  RunVouched'
<1>1. \A p \in Projects : Remote(p) \in Nat /\ Remote(p)' \in Nat /\ Remote(p)' >= Remote(p)
  BY DEF Grows, Remote
<1>2. \A p \in Projects : run'.heads[p] \in 0..Remote(p)'
  BY <1>1 DEF RunVouched
<1>3. \A p \in Projects : \A k \in 1..Remote(p) : Says(run.board, p, k) => Says(run.board, p, k)'
  BY DEF Grows, Says, Content
<1>4. \A p \in Projects : ReadAt(p) => ReadAt(p)'
  BY <1>1, <1>3 DEF ReadAt, RunVouched, Says, Content
<1>5. NotYet' = NotYet
  BY DEF NotYet
<1>6. ASSUME ~run.lag, run.pc = "query" PROVE InHand(First(run.left))'
  <2>1. PICK p \in Projects : p = First(run.left)
    BY <1>6, FirstIsMember DEF Types, RunOK
  <2>2. Calm(p) /\ InHand(p) /\ run.heads[p] \in 0..Remote(p)
    BY <1>6, <2>1 DEF RunVouched
  <2>3. InHand(p)'
    BY <1>1, <2>2 DEF Calm, InHand
  <2> QED
    BY <2>1, <2>3
<1>7. ASSUME ~run.lag, run.pc = "after", run'.heads[First(run'.left)] = Remote(First(run.left))'
      PROVE  Says(run.board, First(run.left), Remote(First(run.left)))'
  <2>1. PICK p \in Projects : p = First(run.left)
    BY <1>7, FirstIsMember DEF Types, RunOK
  <2>2. run.heads[p] = Remote(p) /\ Remote(p)' = Remote(p) /\ Remote(p) \in 1..Remote(p)
    <3>1. run.heads[p] \in 0..Remote(p) /\ Remote(p) >= 1
      BY Numbers DEF RunVouched
    <3> QED
      BY <1>1, <1>7, <2>1, <3>1
  <2>3. Says(run.board, p, Remote(p))
    BY <1>7, <2>1, <2>2 DEF RunVouched
  <2>4. \A t \in TasksOf(p) : run.board[t] = history'[p][Remote(p)][t]
    BY <2>2, <2>3 DEF Grows, Says, Content
  <2> QED
    BY <2>1, <2>2, <2>4 DEF Says, Content, TasksOf
<1> QED
  BY <1>2, <1>4, <1>5, <1>6, <1>7 DEF RunVouched

LEMMA CalmStays ==
    ASSUME NEW p \in Projects, history'[p] = history[p], signature'[p] = signature[p], p \in unshared => p \in unshared',
           Writing(p)' => Writing(p), run'.svc = run.svc
    PROVE  Calm(p)
  BY DEF Calm, Remote

\* A write that begins, or one that waited, has not changed the corpus.
LEMMA CalmBegan ==
    ASSUME Types, NEW by, NEW t \in Tasks, NEW status, Began(by, t, status),
           UNCHANGED <<history, signature, unshared, run>>, NEW p \in Projects
    PROVE  Calm(p)
<1>1. Writing(p)' => Writing(p)
  <2>1. patch'[p] = patch[p] \/ patch'[p].pc = "renew"
    BY DEF Began, Types, SpecsOK, PatchOK
  <2> QED
    BY <2>1 DEF Writing
<1> QED
  BY <1>1, CalmStays

\* What a step does to the write of a project.
LEMMA PatchMoves ==
    ASSUME Types, NEW q \in Projects
    PROVE  /\ Answered(q) => \A p \in Projects : Writing(p)' => Writing(p)
           /\ Served(q) /\ patch[q].pc \in {"renew", "refresh"} => \A p \in Projects : Writing(p)' => Writing(p)
           /\ \A label : Goes(q, label) => \A p \in Projects \ {q} : Writing(p)' => Writing(p)
<1>1. patch \in [Projects -> PatchType]
  BY DEF Types, SpecsOK, PatchOK
<1>2. ASSUME Answered(q) PROVE \A p \in Projects : Writing(p)' => Writing(p)
  BY <1>1, <1>2 DEF Answered, NoPatch, Writing
<1>3. ASSUME Served(q), patch[q].pc \in {"renew", "refresh"} PROVE \A p \in Projects : Writing(p)' => Writing(p)
  <2>1. \A p \in Projects \ {q} : patch'[p] = patch[p]
    BY <1>1, <1>3 DEF Served
  <2>2. patch'[q].pc = IF patch[q].pc = "renew" THEN "apply" ELSE "tell"
    BY <1>1, <1>3 DEF Served, PatchType
  <2> QED
    BY <1>3, <2>1, <2>2 DEF Writing
<1>4. \A label : Goes(q, label) => \A p \in Projects \ {q} : Writing(p)' => Writing(p)
  BY <1>1 DEF Goes, Writing
<1> QED
  BY <1>2, <1>3, <1>4

LEMMA CalmCommitted ==
    ASSUME Types, NEW t \in Tasks, NEW status \in Statuses, Committed(t, status),
           UNCHANGED <<signature, run>>, unshared' = unshared \ {ProjectOf[t]},
           NEW p \in Projects, p # ProjectOf[t] => (Writing(p)' => Writing(p))
    PROVE  Calm(p)
<1>1. Remote(ProjectOf[t])' > Remote(ProjectOf[t])
      /\ \A q \in Projects \ {ProjectOf[t]} : history'[q] = history[q]
  BY CommittedType DEF Types, SpecsOK
<1>2. CASE p = ProjectOf[t]
  BY <1>1, <1>2 DEF Calm
<1>3. CASE p # ProjectOf[t]
  BY <1>1, <1>3, CalmStays
<1> QED
  BY <1>2, <1>3

LEMMA CalmRefill ==
    ASSUME Types, CorpusVouched, NEW q \in Projects,
           RefillStep(q) \/ Break(q) \/ \E who \in Callers : Clear(who, q),
           NEW p \in Projects, p = First(run.left)
    PROVE  Calm(p)
<1>1. UNCHANGED <<history, unshared>>
  BY DEF RefillStep, Fill, Seal, Break, Clear, CorpusOnly
<1>2. CASE Fill(q) \/ \E who \in Callers : Clear(who, q)
  <2>1. UNCHANGED <<signature, patch, run>>
    BY <1>2 DEF Fill, Clear
  <2> QED
    BY <1>1, <2>1, CalmStays DEF Writing
<1>3. ASSUME Break(q) PROVE Calm(p)
  <2>1. UNCHANGED <<signature, run>>
    BY <1>3 DEF Break
  <2>2. UNCHANGED patch \/ (patch[q].pc = "refresh" /\ Served(q)) \/ Answered(q)
    BY <1>3 DEF Break, Answered
  <2>3. Writing(p)' => Writing(p)
    BY <2>2, PatchMoves DEF Writing
  <2> QED
    BY <1>1, <2>1, <2>3, CalmStays
<1>4. ASSUME Seal(q) PROVE Calm(p)
  <2>1. UNCHANGED patch \/ (patch[q].pc \in {"renew", "refresh"} /\ Served(q))
    BY <1>4 DEF Seal, Types, SpecsOK, WaitersOK
  <2>2. Writing(p)' => Writing(p)
    BY <2>1, PatchMoves DEF Writing
  <2>3. CASE p = q
    <3>1. signature[p] < Remote(p) /\ signature[p] # Remote(p)
      BY <1>4, <2>3, Numbers DEF Seal, CorpusVouched, Filling
    <3> QED
      BY <1>1, <3>1 DEF Calm, Remote
  <2>4. CASE p # q
    <3>1. UNCHANGED run /\ signature'[p] = signature[p]
      BY <1>4, <2>4 DEF Seal, Types, SpecsOK, SignatureOK
    <3> QED
      BY <1>1, <2>2, <3>1, CalmStays
  <2> QED
    BY <2>3, <2>4
<1> QED
  BY <1>2, <1>3, <1>4 DEF RefillStep

LEMMA CalmPatch == ASSUME Types, NEW q \in Projects, PatchStep(q), NEW p \in Projects PROVE Calm(p)
<1>1. UNCHANGED run
  BY DEF PatchStep, Renewed, Apply, Push, Drop, Tell, PatchOnly
<1>2. CASE Renewed(q)
  <2>1. Writing(p)' => Writing(p)
    BY <1>2, PatchMoves DEF Renewed, At
  <2> QED
    BY <1>1, <1>2, <2>1, CalmStays DEF Renewed
<1>3. CASE Apply(q)
  <2>1. UNCHANGED <<history, signature>>
        /\ ((Answered(q) /\ UNCHANGED unshared) \/ (Goes(q, "push") /\ unshared' = unshared \cup {q}))
    BY <1>3 DEF Apply
  <2>2. CASE Answered(q) /\ UNCHANGED unshared
    BY <1>1, <2>1, <2>2, PatchMoves, CalmStays
  <2>3. CASE Goes(q, "push") /\ unshared' = unshared \cup {q}
    <3>1. p # q => (Writing(p)' => Writing(p))
      BY <2>3, PatchMoves
    <3>2. CASE p = q
      BY <2>3, <3>2 DEF Calm
    <3>3. CASE p # q
      BY <1>1, <2>1, <2>3, <3>1, <3>3, CalmStays
    <3> QED
      BY <3>2, <3>3
  <2> QED
    BY <2>1, <2>2, <2>3
<1>4. CASE Push(q)
  <2>1. /\ Answered(q) \/ Goes(q, "drop")
        /\ patch[q].task \in Tasks /\ ProjectOf[patch[q].task] = q /\ patch[q].pc = "push"
        /\ \/ UNCHANGED <<history, unshared>>
           \/ /\ \E status \in Statuses : Committed(patch[q].task, status)
              /\ unshared' = unshared \ {q}
    BY <1>4, PushParts
  <2>2. Writing(p)' => Writing(p)
    <3>1. p # q => (Writing(p)' => Writing(p))
      BY <2>1, PatchMoves
    <3>2. Writing(q)
      BY <2>1 DEF Writing
    <3> QED
      BY <3>1, <3>2
  <2>3. UNCHANGED signature
    BY <1>4 DEF Push
  <2>4. CASE UNCHANGED <<history, unshared>>
    BY <1>1, <2>2, <2>3, <2>4, CalmStays
  <2>5. ASSUME NEW status \in Statuses, Committed(patch[q].task, status), unshared' = unshared \ {q} PROVE Calm(p)
    BY <1>1, <2>1, <2>2, <2>3, <2>5, CalmCommitted
  <2> QED
    BY <2>1, <2>4, <2>5
<1>5. CASE Drop(q)
  <2>1. UNCHANGED <<history, unshared>> /\ signature' = [signature EXCEPT ![q] = 0]
        /\ Goes(q, "refresh") /\ patch[q].pc = "drop"
    BY <1>5 DEF Drop, At
  <2>2. CASE p = q
    <3>1. Writing(p) /\ Remote(p)' = Remote(p)
      BY <2>1, <2>2 DEF Writing, Remote
    <3> QED
      BY <2>1, <3>1 DEF Calm
  <2>3. CASE p # q
    <3>1. Writing(p)' => Writing(p)
      BY <2>1, <2>3, PatchMoves
    <3>2. signature'[p] = signature[p]
      BY <2>1, <2>3 DEF Types, SpecsOK, SignatureOK
    <3> QED
      BY <1>1, <2>1, <3>1, <3>2, CalmStays
  <2> QED
    BY <2>2, <2>3
<1>6. CASE Tell(q)
  <2>1. Writing(p)' => Writing(p)
    BY <1>6, PatchMoves DEF Tell
  <2> QED
    BY <1>1, <1>6, <2>1, CalmStays DEF Tell
<1> QED
  BY <1>2, <1>3, <1>4, <1>5, <1>6 DEF PatchStep

\* A run that is over has read nothing.
LEMMA OverVouched == ASSUME Types, run' = IdleRun, UNCHANGED history PROVE RunVouched'
<1>1. \A p \in Projects : Remote(p)' = Remote(p) /\ Remote(p) \in Nat
  BY Numbers DEF Remote
<1>2. /\ run'.pc = "idle" /\ run'.heads = NoHeads /\ NotYet' = {}
  BY DEF IdleRun, NotYet
<1> QED
  BY <1>1, <1>2 DEF RunVouched, NoHeads, ReadingPcs, WritingPcs

\* The board is complete and the run goes on to write it.
LEMMA WritingKeeps ==
    ASSUME Types, RunVouched, UNCHANGED history, run.pc \in WritingPcs \/ (run.pc = "before" /\ run.left = {}),
           run'.pc \in WritingPcs, run'.heads = run.heads, run'.board = run.board, run'.lag = run.lag
    PROVE  RunVouched'
<1>1. \A p \in Projects : run'.heads[p] \in 0..Remote(p)'
  BY DEF RunVouched, Remote
<1>2. ~run.lag => \A p \in Projects : ReadAt(p)
  BY DEF RunVouched, ReadingPcs
<1>3. \A p \in Projects : ReadAt(p) => ReadAt(p)'
  BY DEF ReadAt, Says, Content
<1>4. run'.pc \notin ReadingPcs /\ run'.pc # "query" /\ run'.pc # "after"
  BY DEF WritingPcs, ReadingPcs
<1>5. NotYet' = {}
  BY DEF NotYet, WritingPcs
<1> QED
  BY <1>1, <1>2, <1>3, <1>4, <1>5 DEF RunVouched

\* A project without a repository is passed over.
LEMMA TakeServiceVouched == ASSUME Types, RunVouched, TakeService PROVE RunVouched'
<1> DEFINE p == First(run.left)
<1>1. p \in Projects /\ p \in run.left
  BY FirstIsMember DEF TakeService, Types, RunOK
<1>2. UNCHANGED history
  BY DEF TakeService, RunOnly, specs
<1>3. \A q \in Projects : ReadAt(q) => ReadAt(q)' \/ run'.heads # run.heads \/ run'.board # run.board
  BY <1>2 DEF ReadAt, Says, Content
<1>4. /\ run' = [run EXCEPT !.pc = "head", !.svc = "current"] \/ run' = [run EXCEPT !.left = @ \ {p}]
      /\ run.pc = "before"
  BY DEF TakeService
<1> HIDE DEF p
<1>5. /\ run'.heads = run.heads /\ run'.board = run.board /\ run'.lag = run.lag
      /\ \/ run'.pc = "head" /\ run'.left = run.left
         \/ run'.pc = "before" /\ run'.left = run.left \ {p}
  BY <1>4 DEF Types, RunOK, RunType
<1>6. NotYet = run.left /\ NotYet' = run'.left
  BY <1>4, <1>5 DEF NotYet
<1>7. run.heads[p] = 0
  BY <1>1, <1>6 DEF RunVouched
<1>8. ~run.lag => \A q \in Projects \ run'.left : ReadAt(q)'
  BY <1>3, <1>4, <1>5, <1>7 DEF RunVouched, ReadingPcs, ReadAt
<1> QED
  BY <1>2, <1>4, <1>5, <1>6, <1>8 DEF RunVouched, WritingPcs, Remote

\* The head is sampled; if nothing is under way, the corpus is the remote's.
LEMMA HeadBeforeVouched == ASSUME Types, RunVouched, HeadBefore, ~Aborted PROVE RunVouched'
<1>1. PICK p \in Projects : p = First(run.left) /\ p \in run.left /\ run.pc = "head"
  BY FirstIsMember DEF HeadBefore, Types, RunOK
<1> DEFINE lag == run.lag \/ Behind(p)
<1>2. UNCHANGED <<history, signature, unshared, patch>> /\ Remote(p) \in Nat
  BY <1>1, Numbers DEF HeadBefore, RunOnly, specs, corpus
<1>3. run' = [run EXCEPT !.pc = "query", !.heads[p] = Remote(p), !.lag = lag]
  BY <1>1 DEF HeadBefore
<1>4. ~lag => ~run.lag /\ ~Behind(p)
  OBVIOUS
<1>5. lag \in BOOLEAN
  BY DEF Behind
<1> HIDE DEF lag
<1>6. /\ run'.pc = "query" /\ run'.left = run.left /\ run'.board = run.board /\ run'.lag = lag
      /\ run'.heads = [run.heads EXCEPT ![p] = Remote(p)] /\ run'.svc = run.svc
  BY <1>3 DEF Types, RunOK, RunType
<1>7. \A q \in Projects : run'.heads[q] = IF q = p THEN Remote(p) ELSE run.heads[q]
  BY <1>6 DEF Types, RunOK, RunType
<1>8. \A q \in Projects : run'.heads[q] \in 0..Remote(q)'
  BY <1>2, <1>7 DEF RunVouched, Remote
<1>9. \A q \in Projects \ run.left : ReadAt(q) => ReadAt(q)'
  BY <1>1, <1>2, <1>6, <1>7 DEF ReadAt, Says, Content
<1>10. \A q \in NotYet' : run'.heads[q] = 0
  <2>1. NotYet = run.left /\ NotYet' = run.left \ {p}
    BY <1>1, <1>6 DEF NotYet
  <2>2. \A q \in run.left : q \in Projects /\ run.heads[q] = 0
    BY <1>1, <2>1 DEF RunVouched, Types, RunOK
  <2> QED
    BY <1>7, <2>1, <2>2
<1>11. ~lag => InHand(p)'
  <2>1. ~Behind(p) => run.svc # "dropped" /\ signature[p] = Remote(p) /\ ~Writing(p)
    BY DEF Behind
  <2>2. run.svc \in {"current", "dropped"}
    BY DEF Types, RunOK, RunType
  <2> QED
    BY <1>2, <1>4, <1>6, <2>1, <2>2 DEF InHand, Writing, Remote
<1>12. First(run'.left) = p
  BY <1>1, <1>6
<1> QED
  BY <1>1, <1>4, <1>6, <1>8, <1>9, <1>10, <1>11, <1>12 DEF RunVouched, ReadingPcs, WritingPcs

\* The service reads the corpus, or has read it: the board of the project in hand is the
\* remote's if the remote is where it was; the other projects' stay.
LEMMA QueryBoardVouched ==
    ASSUME Types, CorpusVouched, RunVouched, QueryBoard, ~Aborted
    PROVE  RunVouched'
<1>1. PICK p \in Projects : p = First(run.left) /\ p \in run.left
  BY FirstIsMember DEF QueryBoard, Types, RunOK
<1> DEFINE known == Answer(IF run.svc = "current" THEN graph ELSE run.old)
           board == On(p, known, run.board)
           lag == run.lag \/ p \in unshared
<1>2. run' = [run EXCEPT !.pc = "after", !.board = board, !.lag = lag] /\ run.pc = "query"
  BY <1>1 DEF QueryBoard
<1>3. UNCHANGED history
  BY DEF QueryBoard
<1>4. lag \in BOOLEAN /\ (~lag => ~run.lag /\ p \notin unshared)
  OBVIOUS
<1>5. \A t \in Tasks : board[t] = IF ProjectOf[t] = p THEN known[t] ELSE run.board[t]
  BY DEF On
<1>6. ASSUME run.heads[p] = Remote(p), ~lag PROVE Says(board, p, Remote(p))
  <2>1. run.svc = "current" /\ signature[p] = Remote(p) /\ p \notin unshared
    BY <1>1, <1>2, <1>4, <1>6 DEF RunVouched, InHand
  <2>2. Says(root, p, Remote(p)) /\ \A t \in TasksOf(p) : graph[t] \in {"unread", root[t]}
    BY <2>1 DEF CorpusVouched, InSync
  <2>3. \A t \in TasksOf(p) : known[t] = root[t]
    BY <2>1, <2>2 DEF Answer, TasksOf
  <2> HIDE DEF known, board
  <2> QED
    BY <1>5, <2>2, <2>3 DEF Says, TasksOf
<1>7. \A q \in Projects \ {p} : \A t \in TasksOf(q) : board[t] = run.board[t]
  BY <1>5 DEF TasksOf
<1> HIDE DEF known, board, lag
<1>8. /\ run'.pc = "after" /\ run'.left = run.left /\ run'.heads = run.heads
      /\ run'.board = board /\ run'.lag = lag
  BY <1>2 DEF Types, RunOK, RunType
<1>9. NotYet' = NotYet
  BY <1>2, <1>8 DEF NotYet
<1>10. ASSUME ~lag PROVE \A q \in Projects \ run.left : ReadAt(q)'
  <2>1. \A q \in Projects \ run.left : ReadAt(q)
    BY <1>2, <1>4, <1>10 DEF RunVouched, ReadingPcs
  <2> QED
    BY <2>1, <1>1, <1>3, <1>7, <1>8 DEF ReadAt, Says, Content
<1>11. ASSUME ~lag, run'.heads[p] = Remote(p)' PROVE Says(run.board, p, Remote(p))'
  BY <1>3, <1>6, <1>8, <1>11 DEF Says, Content, Remote, TasksOf
<1>12. First(run'.left) = p
  BY <1>1, <1>8
<1> QED
  BY <1>3, <1>8, <1>9, <1>10, <1>11, <1>12 DEF RunVouched, ReadingPcs, WritingPcs, Remote

\* The tip is where it was before the query: the board is the head's.
LEMMA HeadAfterVouched == ASSUME Types, RunVouched, HeadAfter, ~Aborted PROVE RunVouched'
<1> DEFINE p == First(run.left)
<1>1. p \in Projects /\ p \in run.left /\ run.pc = "after"
  BY FirstIsMember DEF HeadAfter, Types, RunOK
<1>2. UNCHANGED history /\ Remote(p) \in Nat
  BY <1>1, Numbers DEF HeadAfter, RunOnly, specs
<1>3. StillAt(p)
  BY DEF HeadAfter
<1>4. ASSUME ~run.lag PROVE ReadAt(p)
  <2>1. SUFFICES ASSUME run.heads[p] # 0 PROVE Says(run.board, p, run.heads[p])
    BY DEF ReadAt
  <2>2. Remote(p) = run.heads[p]
    BY <1>3, <2>1 DEF StillAt, ProjectHead
  <2> QED
    BY <1>1, <1>4, <2>2 DEF RunVouched
<1>5. run' = [run EXCEPT !.pc = "before", !.left = @ \ {p}]
  BY DEF HeadAfter
<1> HIDE DEF p
<1>6. /\ run'.pc = "before" /\ run'.left = run.left \ {p} /\ run'.heads = run.heads
      /\ run'.board = run.board /\ run'.lag = run.lag
  BY <1>5 DEF Types, RunOK, RunType
<1>7. NotYet' = NotYet
  BY <1>1, <1>6 DEF NotYet, p
<1>8. \A q \in Projects : ReadAt(q) => ReadAt(q)'
  BY <1>2, <1>6 DEF ReadAt, Says, Content
<1>9. ~run.lag => \A q \in Projects \ run'.left : ReadAt(q)'
  BY <1>1, <1>4, <1>6, <1>8 DEF RunVouched, ReadingPcs
<1> QED
  BY <1>2, <1>6, <1>7, <1>9 DEF RunVouched, WritingPcs, Remote

\* The marker is what the run has read.
LEMMA PublishRootVouched == ASSUME Types, RunVouched, MarkerVouched, PublishRoot PROVE MarkerVouched'
<1>1. UNCHANGED history
  BY DEF PublishRoot, specs
<1>2. CASE UNCHANGED <<marker, lagged>>
  BY <1>1, <1>2, GrowthMarker, UnchangedGrows DEF Types, SpecsOK
<1>3. CASE ~UNCHANGED <<marker, lagged>>
  <2> DEFINE c == Complete
  <2>1. /\ marker' = [valid |-> TRUE, complete |-> c, heads |-> run.heads,
                      board |-> run.board, ids |-> run.ids]
        /\ lagged' = run.lag
    BY <1>3 DEF PublishRoot
  <2> HIDE DEF c
  <2>2. marker'.heads = run.heads /\ marker'.board = run.board
    BY <2>1
  <2>3. \A p \in Projects : run.heads[p] \in 0..Remote(p)
    BY DEF RunVouched
  <2>4. ~run.lag => \A p \in Projects : ReadAt(p)
    BY DEF PublishRoot, RunVouched, WritingPcs
  <2> QED
    BY <1>1, <2>1, <2>2, <2>3, <2>4 DEF MarkerVouched, HeadsVouch, ReadAt, Says, Remote, Content
<1> QED
  BY <1>2, <1>3

\* While cards and markers are written, what the run has read stays as it is.
LEMMA WritingVouched ==
    ASSUME Types, RunVouched,
           Decide \/ ReadCards \/ PatchCard \/ CreateCard \/ Upserted \/ RemoveCard \/ Removed \/ PublishProject
    PROVE  RunVouched'
<1>1. UNCHANGED history
  BY DEF Decide, ReadCards, PatchCard, CreateCard, Upserted, RemoveCard, Removed, PublishProject,
     UpsertOnly, WriteOnly, RunOnly, specs
<1>2. \/ run' = IdleRun
      \/ /\ run.pc \in WritingPcs \/ (run.pc = "before" /\ run.left = {})
         /\ run'.pc \in WritingPcs /\ run'.heads = run.heads /\ run'.board = run.board /\ run'.lag = run.lag
  <2> USE DEF Aborted, Over, WritingPcs, Types, RunOK, RunType
  <2>1. CASE Decide
    BY <2>1 DEF Decide
  <2>2. CASE ReadCards
    BY <2>2 DEF ReadCards
  <2>3. CASE PatchCard \/ CreateCard
    <3>1. run.pc = "upsert" /\ \E id, failed : CardDone(id, failed)
      BY <2>3 DEF PatchCard, CreateCard
    <3> QED
      BY <3>1 DEF CardDone
  <2>4. CASE Upserted \/ Removed
    BY <2>4 DEF Upserted, Removed
  <2>5. CASE RemoveCard \/ PublishProject
    BY <2>5 DEF RemoveCard, PublishProject
  <2> QED
    BY <2>1, <2>2, <2>3, <2>4, <2>5
<1> QED
  BY <1>1, <1>2, OverVouched, WritingKeeps

LEMMA ReadingVouched ==
    ASSUME Types, CorpusVouched, RunVouched,
           Start \/ Check \/ TakeService \/ HeadBefore \/ QueryBoard \/ HeadAfter
    PROVE  RunVouched'
<1>1. UNCHANGED history
  BY DEF Start, Check, TakeService, HeadBefore, QueryBoard, HeadAfter, RunOnly, specs
<1>2. CASE run' = IdleRun
  BY <1>1, <1>2, OverVouched
<1>3. CASE run' # IdleRun
  <2>1. CASE Start
    <3>1. /\ run'.pc = "check" /\ run'.heads = NoHeads /\ run'.lag = FALSE
      BY <1>3, <2>1 DEF Start, Aborted, Over, IdleRun
    <3>2. \A p \in Projects : Remote(p)' \in Nat
      BY <1>1, Numbers DEF Remote
    <3> QED
      BY <1>1, <3>1, <3>2 DEF RunVouched, NotYet, NoHeads, ReadingPcs, WritingPcs
  <2>2. CASE Check
    <3>1. run' = [run EXCEPT !.pc = "before", !.left = Projects]
      BY <1>3, <2>2 DEF Check, Over
    <3>2. /\ run'.pc = "before" /\ run'.left = Projects /\ run'.heads = run.heads
      BY <3>1 DEF Types, RunOK, RunType
    <3>3. NotYet = Projects /\ NotYet' = Projects
      BY <2>2, <3>2 DEF Check, NotYet
    <3> QED
      BY <1>1, <3>2, <3>3 DEF RunVouched, ReadingPcs, WritingPcs, Remote
  <2>3. ~Aborted
    BY <1>3 DEF Aborted, Over
  <2> QED
    BY <1>3, <2>1, <2>2, <2>3, TakeServiceVouched, HeadBeforeVouched, QueryBoardVouched, HeadAfterVouched
<1> QED
  BY <1>2, <1>3

\* Steps of nobody's run.
LEMMA OthersVouched ==
    ASSUME Types, CorpusVouched, RunVouched,
           \/ \E e \in Edits : Write(e) \/ Outside(e)
           \/ \E p \in Projects :
                 \/ RefillStep(p) \/ Break(p) \/ PatchStep(p) \/ Unbind(p)
                 \/ \E who \in Callers : Clear(who, p)
           \/ AfterReconcile
           \/ \E m \in Moves : Move(m)
           \/ \E t \in Tasks : Copy(t) \/ StartEvent(t)
           \/ Tamper \/ StartSweep \/ JobStep
    PROVE  RunVouched' /\ Grows
<1>1. ASSUME UNCHANGED <<history, signature, unshared, run, patch>> PROVE RunVouched' /\ Grows
  <2>1. Grows
    BY <1>1, UnchangedGrows DEF Types, SpecsOK
  <2>2. \A p \in Projects : Calm(p)
    BY <1>1, CalmStays DEF Writing
  <2> QED
    BY <1>1, <2>1, <2>2, GrowthRun
<1>2. ASSUME Grows, \A p \in Projects : p = First(run.left) => Calm(p),
             UNCHANGED <<run.pc, run.heads, run.board, run.left, run.lag>>
      PROVE  RunVouched' /\ Grows
  BY <1>2, GrowthRun
<1>3. ASSUME NEW e \in Edits, Write(e) \/ Outside(e) PROVE RunVouched' /\ Grows
  <2>1. CASE Write(e)
    <3>1. UNCHANGED <<history, signature, unshared, run>>
      BY <2>1 DEF Write, PatchOnly
    <3>2. \A p \in Projects : Calm(p)
      BY <2>1, <3>1, EditTypes, CalmBegan DEF Write
    <3> QED
      BY <3>1, <3>2, <1>2, UnchangedGrows DEF Types, SpecsOK
  <2>2. CASE Outside(e)
    <3> DEFINE t == EditOf[e].task
               status == EditOf[e].status
    <3>1. t \in Tasks /\ status \in Statuses /\ Committed(t, status) /\ unshared' = unshared \ {ProjectOf[t]}
          /\ UNCHANGED <<signature, run, patch>>
      BY <2>2, EditTypes DEF Outside
    <3> HIDE DEF t, status
    <3>2. Grows
      BY <3>1, CommittedType DEF Types, SpecsOK
    <3>3. \A p \in Projects : Writing(p)' => Writing(p)
      BY <3>1 DEF Writing
    <3>4. \A p \in Projects : Calm(p)
      BY <3>1, <3>3, CalmCommitted
    <3> QED
      BY <3>1, <3>2, <3>4, <1>2
  <2> QED
    BY <1>3, <2>1, <2>2
<1>4. ASSUME NEW q \in Projects, RefillStep(q) \/ Break(q) \/ \E who \in Callers : Clear(who, q)
      PROVE  RunVouched' /\ Grows
  <2>1. UNCHANGED history /\ (run' = run \/ run' = KeptRun)
    BY <1>4 DEF RefillStep, Fill, Seal, Break, Clear, CorpusOnly, KeptRun
  <2>2. UNCHANGED <<run.pc, run.heads, run.board, run.left, run.lag>>
    BY <2>1, KeptRunFields
  <2>3. \A p \in Projects : p = First(run.left) => Calm(p)
    BY <1>4, CalmRefill
  <2> QED
    BY <2>1, <2>2, <2>3, <1>2, UnchangedGrows DEF Types, SpecsOK
<1>5. ASSUME NEW q \in Projects, PatchStep(q) PROVE RunVouched' /\ Grows
  <2>1. UNCHANGED run
    BY <1>5 DEF PatchStep, Renewed, Apply, Push, Drop, Tell, PatchOnly
  <2>2. Grows
    <3>1. CASE UNCHANGED history
      BY <3>1, UnchangedGrows DEF Types, SpecsOK
    <3>2. CASE ~UNCHANGED history
      <4>1. Push(q)
        BY <1>5, <3>2 DEF PatchStep, Renewed, Apply, Drop, Tell
      <4>2. patch[q].task \in Tasks /\ \E status \in Statuses : Committed(patch[q].task, status)
        BY <3>2, <4>1, PushParts
      <4> QED
        BY <4>2, CommittedType DEF Types, SpecsOK
    <3> QED
      BY <3>1, <3>2
  <2>3. \A p \in Projects : Calm(p)
    BY <1>5, CalmPatch
  <2> QED
    BY <2>1, <2>2, <2>3, <1>2
<1>6. CASE (\E p \in Projects : Unbind(p)) \/ AfterReconcile
  BY <1>6, <1>1 DEF Unbind, AfterReconcile, CorpusOnly, corpus
<1>7. CASE (\E m \in Moves : Move(m)) \/ (\E t \in Tasks : Copy(t) \/ StartEvent(t)) \/ Tamper \/ StartSweep
  BY <1>7, <1>1 DEF Move, Copy, StartEvent, Tamper, StartSweep, JobOnly, specs, corpus
<1>8. CASE JobStep
  <2>1. CASE ReadCard \/ ReadMarker \/ ReadSpecs \/ EndJob
    BY <2>1, <1>1 DEF ReadCard, ReadMarker, ReadSpecs, EndJob, JobOnly, specs, corpus
  <2>2. ASSUME NEW t \in Tasks, WriteBack(t) PROVE RunVouched' /\ Grows
    <3>1. UNCHANGED <<history, signature, unshared, run>>
      BY <2>2 DEF WriteBack, JobOnly
    <3>2. UNCHANGED patch \/ \E status : Began("listener", t, status)
      BY <2>2 DEF WriteBack
    <3>3. CASE UNCHANGED patch
      BY <3>1, <3>3, <1>1
    <3>4. CASE \E status : Began("listener", t, status)
      <4>1. \A p \in Projects : Calm(p)
        BY <3>1, <3>4, CalmBegan
      <4> QED
        BY <3>1, <4>1, <1>2, UnchangedGrows DEF Types, SpecsOK
    <3> QED
      BY <3>2, <3>3, <3>4
  <2> QED
    BY <1>8, <2>1, <2>2 DEF JobStep
<1> QED
  BY <1>3, <1>4, <1>5, <1>6, <1>7, <1>8

LEMMA NextVouched == ASSUME Types, Vouched, Next PROVE Vouched'
<1>1. CorpusVouched'
  BY NextCorpus DEF Vouched
<1>2. CASE ProjectionStep /\ ~PublishRoot
  <2>1. RunVouched'
    BY <1>2, ReadingVouched, WritingVouched DEF ProjectionStep, Vouched
  <2>2. UNCHANGED <<history, marker, lagged>>
    BY <1>2
    DEF ProjectionStep, Start, Check, TakeService, HeadBefore, QueryBoard, HeadAfter, Decide, ReadCards,
        PatchCard, CreateCard, Upserted, RemoveCard, Removed, PublishProject, UpsertOnly, WriteOnly,
        RunOnly, specs, tracker
  <2>3. MarkerVouched'
    BY <2>2, GrowthMarker, UnchangedGrows DEF Types, SpecsOK, Vouched
  <2> QED
    BY <1>1, <2>1, <2>3 DEF Vouched
<1>3. CASE PublishRoot
  <2>1. run' = IdleRun /\ UNCHANGED history
    BY <1>3 DEF PublishRoot, Aborted, Over, specs
  <2> QED
    BY <1>1, <1>3, <2>1, OverVouched, PublishRootVouched DEF Vouched
<1>4. CASE Crash
  <2>1. run' = IdleRun /\ UNCHANGED <<history, marker, lagged>>
    BY <1>4 DEF Crash, tracker
  <2>2. MarkerVouched'
    BY <2>1, GrowthMarker, UnchangedGrows DEF Types, SpecsOK, Vouched
  <2> QED
    BY <1>1, <2>1, <2>2, OverVouched DEF Vouched
<1>5. CASE ~ProjectionStep /\ ~Crash
  <2>1. RunVouched' /\ Grows
    BY <1>5, OthersVouched DEF Next, Vouched, Callers
  <2>2. UNCHANGED lagged /\ (UNCHANGED marker \/ marker' = NoMarker)
    BY <1>5
    DEF Next, Write, Outside, RefillStep, Fill, Seal, Break, PatchStep, Renewed, Apply, Push, Drop, Tell,
        Unbind, Clear, AfterReconcile, Move, Copy, StartEvent, Tamper, StartSweep, JobStep, ReadCard,
        ReadMarker, ReadSpecs, WriteBack, EndJob, JobOnly, CorpusOnly, PatchOnly, tracker, ghosts
  <2>3. CASE UNCHANGED marker
    BY <1>1, <2>1, <2>2, <2>3, GrowthMarker DEF Vouched
  <2>4. CASE marker' = NoMarker
    <3>1. \A p \in Projects : Remote(p)' \in Nat
      BY <2>1 DEF Grows, Remote
    <3>2. MarkerVouched'
      BY <2>4, <3>1 DEF MarkerVouched, HeadsVouch, NoMarker, NoHeads
    <3> QED
      BY <1>1, <2>1, <3>2 DEF Vouched
  <2> QED
    BY <2>2, <2>3, <2>4
<1> QED
  BY <1>2, <1>3, <1>4, <1>5

LEMMA InitVouched == Init => Vouched
<1> SUFFICES ASSUME Init PROVE Vouched
  OBVIOUS
<1>1. \A p \in Projects : Remote(p) \in Nat
  BY InitTypes, Numbers
<1>2. RunVouched
  BY <1>1 DEF Init, RunVouched, IdleRun, NoHeads, NotYet, ReadingPcs, WritingPcs
<1>3. MarkerVouched
  BY <1>1 DEF Init, MarkerVouched, HeadsVouch, NoMarker, NoHeads
<1> QED
  BY <1>2, <1>3, InitCorpus DEF Vouched

\* The heads of a complete marker are those its board was read at (mergedBoard), whatever
\* is committed, written, rebuilt or dropped between the samples, whatever fails and
\* whoever edits markers: comparing heads, as the next run does, is as good as comparing
\* boards - unless, when the head was sampled, the corpus was behind the remote, its
\* service dropped or a write refreshing it, or the corpus held a patch the remote has not.
THEOREM HeadsVouchAlways == Spec => []HeadsVouch
<1>1. Types /\ Vouched /\ [Next]_vars => Types' /\ Vouched'
  <2>1. ASSUME Types, Vouched, UNCHANGED vars PROVE Vouched'
    <3>1. UNCHANGED <<history, root, signature, graph, refill, patch, unshared, run, marker, lagged>>
      BY <2>1 DEF vars, specs, corpus, tracker, ghosts
    <3>2. CorpusVouched'
      BY <2>1, <3>1, QuietVouched DEF Vouched
    <3>3. Grows
      BY <2>1, <3>1, UnchangedGrows DEF Types, SpecsOK
    <3>4. \A p \in Projects : Calm(p)
      BY <3>1, CalmStays DEF Writing
    <3> QED
      BY <2>1, <3>1, <3>2, <3>3, <3>4, GrowthRun, GrowthMarker DEF Vouched
  <2> QED
    BY <2>1, NextTypes, StutterTypes, NextVouched
<1>2. Vouched => HeadsVouch
  BY DEF Vouched, MarkerVouched
<1> QED
  BY <1>1, <1>2, InitTypes, InitVouched, PTL DEF Spec

-----------------------------------------------------------------------------
(* A complete marker was written. *)

Upserting == {"upsert", "stale", "publish"}

\* A card as the run means it; as the run found it; as the marker says.
AsMeant(t)  == \/ cards[t].by = "user"
               \/ cards[t].id = run.ids[t] /\ cards[t].state = DesiredState(run.board[t])
AsSeen(t)   == cards[t] = run.seen[t] \/ cards[t].by = "user"
AsMarked(t) == IF marker.board[t] = "absent"
               THEN t \in listed => cards[t].id = 0
               ELSE \/ cards[t].by = "user"
                    \/ cards[t].id = marker.ids[t] /\ cards[t].state = DesiredState(marker.board[t])

\* The card of a listed task is one the next run will find in the marker.
Known == \A t \in Tasks : t \in listed => marker.valid /\ (marker.ids[t] # 0 \/ cards[t].id = 0)

Standing == marker.complete /\ ~torn /\ run.pc \notin Upserting => \A t \in Tasks : AsMarked(t)

\* What the run has still to do, and what it has done.
Due == IF run.pc \in {"upsert", "stale"} THEN run.left ELSE {}
Done ==
    /\ run.pc = "upsert" => Due \subseteq Wanted /\ \A t \in Due : AsSeen(t)
    /\ run.pc = "stale" => Due \subseteq Stale
    /\ ~run.failed => \A t \in Wanted \ Due : AsMeant(t)
    /\ \A t \in Tasks \ Wanted :
          /\ run.ids[t] = 0 /\ cards[t].id \in {0, run.seen[t].id}
          /\ t \in listed => run.seen[t].id = 0 \/ t \in Stale
    /\ run.pc # "upsert" => \A t \in Stale \ Due : cards[t].id = 0

Written == /\ Known /\ Standing
           /\ IF run.pc \in Upserting THEN Done ELSE run.ids = NoIds

\* The run does not write cards, or breaks off.
LEMMA NoWritingKeeps ==
    ASSUME Written, UNCHANGED <<cards, marker, listed>>, run'.pc \notin Upserting, run'.ids = NoIds,
           torn' \/ (run.pc \notin Upserting /\ UNCHANGED torn)
    PROVE  Written'
  BY DEF Written, Known, Standing, AsMarked

\* What the run has to say of its cards stays.
KeepsWriting == UNCHANGED <<run.pc, run.left, run.ids, run.board, run.seen, run.ptr, run.failed>>

\* Somebody changes cards by hand, or nothing happens to them.
LEMMA ByHandKeeps ==
    ASSUME Types, Written, UNCHANGED <<marker, listed, torn>>, KeepsWriting,
           \A t \in Tasks : \/ cards'[t] = cards[t]
                            \/ cards'[t].by = "user" /\ cards'[t].id \in {cards[t].id, 0}
    PROVE  Written'
<1> USE DEF KeepsWriting
<1>1. Wanted' = Wanted /\ Stale' = Stale /\ Due' = Due
  BY DEF Wanted, Stale, Due
<1>2. Known'
  BY DEF Written, Known
<1>3. \A t \in Tasks : AsMarked(t) => AsMarked(t)'
  BY DEF AsMarked
<1>4. Standing'
  BY <1>3 DEF Written, Standing
<1>5. \A t \in Tasks : (AsSeen(t) => AsSeen(t)') /\ (AsMeant(t) => AsMeant(t)')
  BY DEF AsSeen, AsMeant
<1>6. Wanted \subseteq Tasks /\ Stale \subseteq Tasks
  BY DEF Wanted, Stale
<1>7. ASSUME Done PROVE Done'
  <2>1. run.pc = "upsert" => Due \subseteq Wanted /\ \A t \in Due : AsSeen(t)'
    BY <1>5, <1>6, <1>7 DEF Done
  <2>2. ~run.failed => \A t \in Wanted \ Due : AsMeant(t)'
    BY <1>5, <1>6, <1>7 DEF Done
  <2>3. \A t \in Tasks \ Wanted : cards'[t].id \in {0, run.seen[t].id}
    BY <1>7 DEF Done
  <2>4. run.pc # "upsert" => \A t \in Stale \ Due : cards'[t].id = 0
    BY <1>6, <1>7 DEF Done
  <2> QED
    BY <1>1, <1>7, <2>1, <2>2, <2>3, <2>4 DEF Done
<1> QED
  BY <1>2, <1>4, <1>7 DEF Written

LEMMA TamperWritten == ASSUME Types, Written, Tamper PROVE Written'
<1>1. CASE UNCHANGED <<marker, listed>>
  BY <1>1, ByHandKeeps DEF Tamper, KeepsWriting
<1>2. CASE marker' = NoMarker /\ listed' = {}
  <2>1. UNCHANGED <<cards, run, torn>>
    BY DEF Tamper
  <2>2. Wanted' = Wanted /\ Stale' = Stale /\ Due' = Due
    BY <2>1 DEF Wanted, Stale, Due
  <2>3. \A t : AsSeen(t)' = AsSeen(t) /\ AsMeant(t)' = AsMeant(t)
    BY <2>1 DEF AsSeen, AsMeant
  <2>4. Done => Done'
    BY <1>2, <2>1, <2>2, <2>3 DEF Done
  <2>5. ~marker'.complete
    BY <1>2 DEF NoMarker
  <2> QED
    BY <1>2, <2>1, <2>4, <2>5 DEF Written, Known, Standing
<1> QED
  BY <1>1, <1>2 DEF Tamper

\* The run reads the cards: nothing is written yet.
LEMMA ReadCardsWritten == ASSUME Types, Written, ReadCards, ~Aborted PROVE Written'
<1>1. /\ run' = [run EXCEPT !.pc = "upsert", !.ptr = marker, !.seen = cards, !.left = Wanted]
      /\ UNCHANGED <<cards, marker, listed, torn>> /\ run.pc = "cards"
  BY DEF ReadCards, RunOnly, tracker
<1>2. /\ run'.pc = "upsert" /\ run'.ptr = marker /\ run'.seen = cards /\ run'.left = Wanted
      /\ run'.board = run.board /\ run'.ids = run.ids
  BY <1>1 DEF Types, RunOK, RunType
<1>3. run.ids = NoIds
  BY <1>1 DEF Written, Upserting
<1>4. Wanted' = Wanted /\ Due' = Wanted
  BY <1>2 DEF Wanted, Due
<1>5. \A t \in Tasks : t \in listed => marker.valid /\ (marker.ids[t] # 0 \/ cards[t].id = 0)
  BY DEF Written, Known
<1>6. \A t \in Tasks \ Wanted : t \in listed => cards[t].id = 0 \/ t \in Stale'
  BY <1>2, <1>4, <1>5 DEF Stale
<1>7. Done'
  BY <1>1, <1>2, <1>3, <1>4, <1>6 DEF Done, AsSeen, NoIds
<1> QED
  BY <1>1, <1>2, <1>7 DEF Written, Known, Standing, Upserting

\* The effect of CardDone on the run.
LEMMA CardDoneFields ==
    ASSUME Types, run.pc = "upsert", run.left # {}, NEW id \in Nat, NEW failed \in BOOLEAN, CardDone(id, failed)
    PROVE  /\ run'.pc = "upsert" /\ run'.left = run.left \ {Todo} /\ run'.failed = (run.failed \/ failed)
           /\ run'.ids = [run.ids EXCEPT ![Todo] = id]
           /\ run'.ptr = run.ptr /\ run'.seen = run.seen /\ run'.board = run.board
<1> DEFINE t == Todo
           f == run.failed \/ failed
<1>1. t \in Tasks
  BY TodoIsTask
<1>2. f \in BOOLEAN
  OBVIOUS
<1>3. run' = [run EXCEPT !.left = @ \ {t}, !.ids[t] = id, !.failed = f]
  BY DEF CardDone
<1> HIDE DEF t, f
<1>4. /\ run'.pc = "upsert" /\ run'.left = run.left \ {t} /\ run'.failed = f
      /\ run'.ids = [run.ids EXCEPT ![t] = id]
      /\ run'.ptr = run.ptr /\ run'.seen = run.seen /\ run'.board = run.board
  BY <1>1, <1>2, <1>3 DEF Types, RunOK, RunType
<1> QED
  BY <1>4 DEF t, f

\* One card more is as the run means it, or the run knows that it is not.
LEMMA CardKeeps ==
    ASSUME Types, Written, run.pc = "upsert", run.left # {},
           NEW id \in Nat, NEW failed \in BOOLEAN, CardDone(id, failed),
           UNCHANGED marker, listed' \subseteq listed,
           \A t \in Tasks \ {Todo} : cards'[t] = cards[t],
           failed \/ cards'[Todo].by = "user"
                  \/ (cards'[Todo].id = id /\ cards'[Todo].state = DesiredState(run.board[Todo])),
           Todo \in listed' => marker.ids[Todo] # 0 \/ cards'[Todo].id = cards[Todo].id
    PROVE  Written'
<1>1. PICK a \in Tasks : a = Todo
  BY TodoIsTask
<1>2. /\ run'.pc = "upsert" /\ run'.left = run.left \ {a} /\ run'.failed = (run.failed \/ failed)
      /\ run'.ids = [run.ids EXCEPT ![a] = id]
      /\ run'.ptr = run.ptr /\ run'.seen = run.seen /\ run'.board = run.board
  BY <1>1, CardDoneFields
<1>3. Wanted' = Wanted /\ Stale' = Stale /\ Due = run.left /\ Due' = run.left \ {a}
  BY <1>2 DEF Wanted, Stale, Due
<1>4. Done /\ Known
  BY DEF Written, Upserting
<1>5. a \in run.left /\ a \in Wanted
  BY <1>1, <1>3, <1>4, FirstIsMember DEF Todo, Done
<1>6. \A t \in Tasks : run'.ids[t] = IF t = a THEN id ELSE run.ids[t]
  BY <1>2 DEF Types, RunOK, RunType
<1>7. Known'
  <2> SUFFICES ASSUME NEW t \in Tasks, t \in listed'
               PROVE  marker'.valid /\ (marker'.ids[t] # 0 \/ cards'[t].id = 0)
    BY DEF Known
  <2>1. marker.valid /\ (marker.ids[t] # 0 \/ cards[t].id = 0)
    BY <1>4 DEF Known
  <2> QED
    BY <1>1, <2>1
<1>8. Wanted \subseteq Tasks
  BY DEF Wanted
<1>9. \A t \in Due' : AsSeen(t)'
  BY <1>1, <1>2, <1>3, <1>4, <1>8 DEF Done, AsSeen
<1>10. ASSUME ~run'.failed, NEW t \in Wanted \ Due' PROVE AsMeant(t)'
  <2>1. ~run.failed /\ ~failed
    BY <1>2, <1>10
  <2>2. CASE t = a
    BY <1>1, <1>2, <1>6, <2>1, <2>2 DEF AsMeant
  <2>3. CASE t # a
    <3>1. AsMeant(t) /\ t \in Tasks
      BY <1>3, <1>4, <1>8, <1>10, <2>1, <2>3 DEF Done
    <3> QED
      BY <1>1, <1>2, <1>6, <2>3, <3>1 DEF AsMeant
  <2> QED
    BY <2>2, <2>3
<1>11. ASSUME NEW t \in Tasks \ Wanted
       PROVE  /\ run'.ids[t] = 0 /\ cards'[t].id \in {0, run'.seen[t].id}
              /\ t \in listed' => run'.seen[t].id = 0 \/ t \in Stale
  <2>1. t # a /\ t \in Tasks
    BY <1>5
  <2> QED
    BY <1>1, <1>2, <1>4, <1>6, <2>1 DEF Done
<1>12. Done'
  <2>1. Due' \subseteq Wanted'
    BY <1>3, <1>4 DEF Done
  <2> QED
    BY <1>2, <1>3, <1>9, <1>10, <1>11, <2>1 DEF Done
<1> QED
  BY <1>2, <1>7, <1>12 DEF Written, Standing, Upserting

LEMMA PatchCardWritten == ASSUME Types, Written, PatchCard PROVE Written'
<1> DEFINE state == DesiredState(run.board[Todo])
           id == run.seen[Todo].id
<1>1. PICK a \in Tasks : a = Todo
  BY TodoIsTask DEF PatchCard
<1>2. /\ run.pc = "upsert" /\ run.left # {} /\ UNCHANGED <<marker, listed>>
      /\ id \in Nat /\ cards \in [Tasks -> CardType]
  BY <1>1 DEF PatchCard, UpsertOnly, Types, TrackerOK, RunOK, RunType, CardType
<1>3. AsSeen(a)
  BY <1>1, <1>2, FirstIsMember DEF Todo, Written, Upserting, Done, Due
<1>4. \/ run.seen[a].state = state /\ CardDone(id, FALSE) /\ UNCHANGED cards
      \/ cards[a].id = id /\ Stated(state) /\ \E failed \in BOOLEAN : CardDone(id, failed)
      \/ CardDone(id, TRUE) /\ UNCHANGED cards
  BY <1>1 DEF PatchCard
<1>5. Stated(state) => /\ cards'[a].id = cards[a].id /\ cards'[a].state = state
                       /\ \A t \in Tasks \ {a} : cards'[t] = cards[t]
  <2> HIDE DEF state
  <2>1. cards[a] \in CardType
    BY <1>2
  <2>2. PICK card : card = [cards[a] EXCEPT !.state = state, !.by = "run"]
    OBVIOUS
  <2>3. card.id = cards[a].id /\ card.state = state
    BY <2>1, <2>2 DEF CardType
  <2>4. Stated(state) => cards' = [cards EXCEPT ![a] = card]
    BY <1>1, <1>2, <2>2 DEF Stated
  <2> QED
    BY <1>2, <2>3, <2>4
<1>6. CASE run.seen[a].state = state /\ CardDone(id, FALSE) /\ UNCHANGED cards
  <2>1. cards'[a].by = "user" \/ (cards'[a].id = id /\ cards'[a].state = state)
    BY <1>1, <1>3, <1>6 DEF AsSeen
  <2> QED
    BY <1>1, <1>2, <1>6, <2>1, CardKeeps
<1>7. ASSUME NEW failed \in BOOLEAN, CardDone(id, failed), cards[a].id = id, Stated(state) PROVE Written'
  <2>1. cards'[a].id = id /\ cards'[a].state = state
    BY <1>5, <1>7
  <2> QED
    BY <1>1, <1>2, <1>5, <1>7, <2>1, CardKeeps
<1>8. CASE CardDone(id, TRUE) /\ UNCHANGED cards
  BY <1>1, <1>2, <1>8, CardKeeps
<1> QED
  BY <1>4, <1>6, <1>7, <1>8

LEMMA CreateCardWritten == ASSUME Types, Written, CreateCard PROVE Written'
<1> DEFINE state == DesiredState(run.board[Todo])
           Made(first) == cards' = [cards EXCEPT ![Todo] = [id |-> issues + 1, state |-> first, by |-> "run"]]
           Unlisted == listed' = IF marker.ids[Todo] = 0 THEN listed \ {Todo} ELSE listed
<1>1. PICK a \in Tasks : a = Todo
  BY TodoIsTask DEF CreateCard
<1>2. /\ run.pc = "upsert" /\ run.left # {} /\ UNCHANGED marker
      /\ issues + 1 \in Nat /\ cards \in [Tasks -> CardType]
  BY DEF CreateCard, UpsertOnly, Types, TrackerOK
<1>3. \/ Made(state) /\ Unlisted /\ CardDone(issues + 1, FALSE)
      \/ (\E first \in States : Made(first)) /\ Unlisted /\ CardDone(0, TRUE)
      \/ UNCHANGED <<cards, listed>> /\ CardDone(0, TRUE)
  <2>1. state \in States /\ "Submitted" \in States
    BY StatesAndStatuses DEF States
  <2> QED
    BY <2>1 DEF CreateCard
<1>4. Unlisted => listed' \subseteq listed /\ (a \in listed' => marker.ids[a] # 0)
  BY <1>1
<1>5. \A first : Made(first) => /\ cards'[a].id = issues + 1 /\ cards'[a].state = first
                                /\ \A t \in Tasks \ {a} : cards'[t] = cards[t]
  BY <1>1, <1>2
<1>6. CASE Made(state) /\ Unlisted /\ CardDone(issues + 1, FALSE)
  <2>1. /\ cards'[Todo].id = issues + 1 /\ cards'[Todo].state = state
        /\ \A t \in Tasks \ {Todo} : cards'[t] = cards[t]
        /\ listed' \subseteq listed /\ (Todo \in listed' => marker.ids[Todo] # 0)
    BY <1>1, <1>4, <1>5, <1>6
  <2> HIDE DEF Made, Unlisted
  <2> QED
    BY <1>2, <1>6, <2>1, CardKeeps
<1>7. CASE (\E first \in States : Made(first)) /\ Unlisted /\ CardDone(0, TRUE)
  <2>1. /\ \A t \in Tasks \ {Todo} : cards'[t] = cards[t]
        /\ listed' \subseteq listed /\ (Todo \in listed' => marker.ids[Todo] # 0)
    BY <1>1, <1>4, <1>5, <1>7
  <2> HIDE DEF Made, Unlisted
  <2> QED
    BY <1>2, <1>7, <2>1, CardKeeps
<1>8. CASE UNCHANGED <<cards, listed>> /\ CardDone(0, TRUE)
  BY <1>2, <1>8, CardKeeps
<1> QED
  BY <1>3, <1>6, <1>7, <1>8

\* Steps between two writes of cards, and the markers of the projects.
LEMMA StaysWritten ==
    ASSUME Types, Written, UNCHANGED <<cards, marker, listed>>, run.pc \in Upserting, run'.pc \in Upserting,
           UNCHANGED <<run.board, run.seen, run.ptr, run.ids, run.failed>>,
           \/ run.pc = "upsert" /\ run.left = {} /\ run'.pc = "stale" /\ run'.left = Stale
           \/ run.pc = "stale" /\ run.left = {} /\ run'.pc = "publish"
           \/ run.pc = "publish" /\ run'.pc = "publish"
    PROVE  Written'
<1>1. Wanted' = Wanted /\ Stale' = Stale /\ Stale \cap Wanted = {}
  BY DEF Wanted, Stale
<1>2. Due = {} /\ Due' = IF run'.pc = "stale" THEN Stale ELSE {}
  BY DEF Due
<1>3. \A t : AsMeant(t)' = AsMeant(t)
  BY DEF AsMeant
<1>4. Done
  BY DEF Written
<1>5. ~run'.failed => \A t \in Wanted' \ Due' : AsMeant(t)'
  BY <1>1, <1>2, <1>3, <1>4 DEF Done
<1>6. \A t \in Tasks \ Wanted' :
          /\ run'.ids[t] = 0 /\ cards'[t].id \in {0, run'.seen[t].id}
          /\ t \in listed' => run'.seen[t].id = 0 \/ t \in Stale'
  BY <1>1, <1>4 DEF Done
<1>7. \A t \in Stale' \ Due' : cards'[t].id = 0
  BY <1>1, <1>2, <1>4 DEF Done
<1>8. run'.pc # "upsert" /\ (run'.pc = "stale" => Due' \subseteq Stale')
  BY <1>1, <1>2
<1>9. Done'
  BY <1>5, <1>6, <1>7, <1>8 DEF Done
<1> QED
  BY <1>9 DEF Written, Known, Standing

LEMMA BetweenWritten ==
    ASSUME Types, Written, Upserted \/ Removed \/ (PublishProject /\ ~Aborted)
    PROVE  Written'
<1> USE DEF Types, RunOK, RunType
<1>1. CASE Upserted
  <2>1. UNCHANGED <<cards, marker, listed>> /\ run.pc = "upsert" /\ run.left = {}
        /\ run' = [run EXCEPT !.pc = "stale", !.left = Stale]
    BY <1>1 DEF Upserted, RunOnly, tracker
  <2> QED
    BY <2>1, StaysWritten DEF Upserting
<1>2. CASE Removed
  <2>1. UNCHANGED <<cards, marker, listed>> /\ run.pc = "stale" /\ run.left = {}
        /\ run' = [run EXCEPT !.pc = "publish", !.left = InMarker]
    BY <1>2 DEF Removed, RunOnly, tracker
  <2> QED
    BY <2>1, StaysWritten DEF Upserting
<1>3. CASE PublishProject /\ ~Aborted
  <2>1. UNCHANGED <<cards, marker, listed>> /\ run.pc = "publish"
        /\ run' = [run EXCEPT !.left = @ \ {Todo}]
    BY <1>3 DEF PublishProject
  <2> QED
    BY <2>1, StaysWritten DEF Upserting
<1> QED
  BY <1>1, <1>2, <1>3

LEMMA RemoveCardWritten == ASSUME Types, Written, RemoveCard, ~Aborted PROVE Written'
<1>1. PICK a \in Tasks : a = Todo
  BY TodoIsTask DEF RemoveCard
<1>2. /\ run.pc = "stale" /\ run.left # {} /\ UNCHANGED <<marker, listed>>
      /\ cards' = [cards EXCEPT ![a] = None] /\ run' = [run EXCEPT !.left = @ \ {a}]
  BY <1>1 DEF RemoveCard
<1>3. /\ run'.pc = "stale" /\ run'.left = run.left \ {a} /\ run'.failed = run.failed /\ run'.ids = run.ids
      /\ run'.ptr = run.ptr /\ run'.seen = run.seen /\ run'.board = run.board
  BY <1>2 DEF Types, RunOK, RunType
<1>4. cards'[a].id = 0 /\ \A t \in Tasks \ {a} : cards'[t] = cards[t]
  BY <1>2 DEF Types, TrackerOK, None
<1>5. Wanted' = Wanted /\ Stale' = Stale /\ Due = run.left /\ Due' = run.left \ {a}
  BY <1>2, <1>3 DEF Wanted, Stale, Due
<1>6. Done /\ Known
  BY <1>2 DEF Written, Upserting
<1>7. Stale \subseteq Tasks \ Wanted /\ Wanted \subseteq Tasks
  BY DEF Stale, Wanted
<1>8. run.left \subseteq Stale /\ a \in run.left
  BY <1>1, <1>2, <1>5, <1>6, FirstIsMember DEF Todo, Done
<1>9. Known'
  BY <1>2, <1>4, <1>6 DEF Known
<1>10. ~run.failed => \A t \in Wanted \ Due' : AsMeant(t)'
  BY <1>3, <1>4, <1>5, <1>6, <1>7, <1>8 DEF Done, AsMeant
<1>11. \A t \in Tasks \ Wanted :
           /\ run.ids[t] = 0 /\ cards'[t].id \in {0, run.seen[t].id}
           /\ t \in listed => run.seen[t].id = 0 \/ t \in Stale
  BY <1>4, <1>6 DEF Done
<1>12. \A t \in Stale \ Due' : cards'[t].id = 0
  BY <1>2, <1>4, <1>5, <1>6, <1>7 DEF Done
<1>13. Done'
  BY <1>2, <1>3, <1>5, <1>8, <1>10, <1>11, <1>12 DEF Done
<1> QED
  BY <1>3, <1>9, <1>13 DEF Written, Standing, Upserting

\* The marker says what was written, and what it does not name is gone.
LEMMA PublishRootWritten == ASSUME Types, Written, PublishRoot, ~Aborted PROVE Written'
<1> DEFINE c == Complete
           named == {t \in Tasks : run.ids[t] # 0}
<1>1. /\ marker' = [valid |-> TRUE, complete |-> c, heads |-> run.heads, board |-> run.board, ids |-> run.ids]
      /\ run' = IdleRun /\ listed' = (listed \ Wanted) \cup named
      /\ UNCHANGED cards /\ run.pc = "publish"
  BY DEF PublishRoot, Over
<1>2. c => ~run.failed
  BY DEF Complete
<1> HIDE DEF c
<1>3. marker'.valid /\ marker'.complete = c /\ marker'.board = run.board /\ marker'.ids = run.ids
  BY <1>1
<1>4. Done /\ Due = {} /\ Stale \subseteq Tasks
  BY <1>1 DEF Written, Upserting, Due, Stale
<1>5. ASSUME NEW t \in Tasks \ Wanted, t \in listed' PROVE cards[t].id = 0
  <2>1. t \in listed
    BY <1>1, <1>4, <1>5 DEF Done
  <2>2. cards[t].id = 0 \/ t \in Stale
    BY <1>4, <2>1 DEF Done
  <2> QED
    BY <1>1, <1>4, <2>2 DEF Done
<1>6. Known'
  <2> SUFFICES ASSUME NEW t \in Tasks, t \in listed'
               PROVE  marker'.valid /\ (marker'.ids[t] # 0 \/ cards'[t].id = 0)
    BY DEF Known
  <2>1. t \in Wanted => run.ids[t] # 0
    BY <1>1
  <2> QED
    BY <1>1, <1>3, <1>5, <2>1
<1>7. ASSUME c, NEW t \in Tasks PROVE AsMarked(t)'
  <2>1. CASE t \in Wanted
    <3>1. AsMeant(t) /\ run.board[t] # "absent"
      BY <1>2, <1>4, <1>7, <2>1 DEF Done, Wanted
    <3> QED
      BY <1>1, <1>3, <3>1 DEF AsMeant, AsMarked
  <2>2. CASE t \notin Wanted
    <3>1. run.board[t] = "absent"
      BY <2>2 DEF Wanted
    <3> QED
      BY <1>1, <1>3, <1>5, <2>2, <3>1 DEF AsMarked
  <2> QED
    BY <2>1, <2>2
<1>8. Standing'
  BY <1>3, <1>7 DEF Standing
<1> QED
  BY <1>1, <1>6, <1>8 DEF Written, IdleRun, Upserting

LEMMA IdleFields == IdleRun.pc = "idle" /\ IdleRun.pc \notin Upserting /\ IdleRun.ids = NoIds
  BY DEF IdleRun, Upserting

\* A run that breaks off has written what it has written.
LEMMA AbortedWritten ==
    ASSUME Types, Written, Aborted, ReadCards \/ RemoveCard \/ PublishProject \/ PublishRoot
    PROVE  Written'
<1>1. run' = IdleRun /\ torn'
  BY DEF Aborted, Over
<1>2. UNCHANGED <<cards, marker, listed>>
  <2>1. CASE ReadCards
    BY <2>1 DEF ReadCards, RunOnly, tracker
  <2>2. CASE RemoveCard
    <3>1. run.pc = "stale" /\ run' # [run EXCEPT !.left = @ \ {Todo}]
      BY <1>1, <2>2, IdleFields DEF RemoveCard, Types, RunOK, RunType
    <3> QED
      BY <2>2, <3>1 DEF RemoveCard
  <2>3. CASE PublishProject
    BY <2>3 DEF PublishProject
  <2>4. CASE PublishRoot
    BY <1>1, <2>4 DEF PublishRoot
  <2> QED
    BY <2>1, <2>2, <2>3, <2>4
<1> QED
  BY <1>1, <1>2, IdleFields, NoWritingKeeps

LEMMA ReadingWritten ==
    ASSUME Types, Written, Start \/ Check \/ TakeService \/ HeadBefore \/ QueryBoard \/ HeadAfter \/ Decide
    PROVE  Written'
<1>1. UNCHANGED <<cards, marker, listed>> /\ run.pc \notin Upserting
  BY DEF Start, Check, TakeService, HeadBefore, QueryBoard, HeadAfter, Decide, RunOnly, tracker, Upserting
<1>2. run.ids = NoIds
  BY <1>1 DEF Written
<1>3. run' = IdleRun \/ (run'.pc \notin Upserting /\ run'.ids = NoIds)
  <2> USE DEF Aborted, Over, Upserting, Types, RunOK, RunType
  <2>1. CASE Start
    <3>1. run' # IdleRun => run'.pc = "check" /\ run'.ids = IdleRun.ids
      BY <2>1 DEF Start, IdleRun
    <3> QED
      BY <3>1, IdleFields
  <2>2. CASE Check \/ TakeService \/ Decide
    BY <1>2, <2>2 DEF Check, TakeService, Decide
  <2>3. CASE HeadBefore
    <3> DEFINE p == First(run.left)
               head == Remote(p)
               lag == run.lag \/ Behind(p)
    <3>1. run' = IdleRun \/ run' = [run EXCEPT !.pc = "query", !.heads[p] = head, !.lag = lag]
      BY <2>3 DEF HeadBefore
    <3> HIDE DEF p, head, lag
    <3> QED
      BY <1>2, <3>1
  <2>4. CASE QueryBoard
    <3> DEFINE p == First(run.left)
               board == On(p, Answer(IF run.svc = "current" THEN graph ELSE run.old), run.board)
               lag == run.lag \/ p \in unshared
    <3>1. run' = IdleRun \/ run' = [run EXCEPT !.pc = "after", !.board = board, !.lag = lag]
      BY <2>4 DEF QueryBoard
    <3> HIDE DEF p, board, lag
    <3> QED
      BY <1>2, <3>1
  <2>5. CASE HeadAfter
    BY <1>2, <2>5 DEF HeadAfter
  <2> QED
    BY <2>1, <2>2, <2>3, <2>4, <2>5
<1>4. torn' \/ UNCHANGED torn
  BY DEF Start, Check, TakeService, HeadBefore, QueryBoard, HeadAfter, Decide, Aborted
<1> QED
  BY <1>1, <1>3, <1>4, IdleFields, NoWritingKeeps

LEMMA ProjectionWritten == ASSUME Types, Written, ProjectionStep PROVE Written'
<1>1. CASE Start \/ Check \/ TakeService \/ HeadBefore \/ QueryBoard \/ HeadAfter \/ Decide
  BY <1>1, ReadingWritten
<1>2. CASE ReadCards \/ RemoveCard \/ PublishProject \/ PublishRoot
  BY <1>2, AbortedWritten, ReadCardsWritten, RemoveCardWritten, BetweenWritten, PublishRootWritten
<1>3. CASE PatchCard \/ CreateCard \/ Upserted \/ Removed
  BY <1>3, PatchCardWritten, CreateCardWritten, BetweenWritten
<1> QED
  BY <1>1, <1>2, <1>3 DEF ProjectionStep

LEMMA NextWritten == ASSUME Types, Written, Next PROVE Written'
<1>0. ASSUME UNCHANGED <<cards, marker, listed, torn, run>> PROVE Written'
  BY <1>0, ByHandKeeps DEF KeepsWriting
<1>1. CASE \E e \in Edits : Write(e) \/ Outside(e)
  BY <1>0, <1>1 DEF Write, Outside, PatchOnly, tracker, ghosts
<1>2. ASSUME NEW p \in Projects,
             RefillStep(p) \/ Break(p) \/ PatchStep(p) \/ Unbind(p) \/ \E who \in Callers : Clear(who, p)
      PROVE  Written'
  <2>1. CASE Fill(p) \/ Break(p) \/ \E who \in Callers : Clear(who, p)
    BY <1>0, <2>1 DEF Fill, Break, Clear, CorpusOnly, tracker
  <2>2. CASE Seal(p)
    <3>1. UNCHANGED <<cards, marker, listed, torn>> /\ (run' = run \/ run' = KeptRun)
      BY <2>2 DEF Seal, CorpusOnly, tracker, KeptRun
    <3>2. KeepsWriting
      BY <3>1, KeptRunFields DEF KeepsWriting
    <3> QED
      BY <3>1, <3>2, ByHandKeeps
  <2>3. CASE PatchStep(p)
    BY <1>0, <2>3 DEF PatchStep, Renewed, Apply, Push, Drop, Tell, PatchOnly, tracker
  <2>4. CASE Unbind(p)
    BY <1>0, <2>4 DEF Unbind, tracker
  <2> QED
    BY <1>2, <2>1, <2>2, <2>3, <2>4 DEF RefillStep
<1>3. CASE ProjectionStep
  BY <1>3, ProjectionWritten
<1>4. CASE Crash
  <2>1. run' = IdleRun /\ UNCHANGED <<cards, marker, listed>> /\ torn' = (torn \/ run.pc # "idle")
    BY <1>4 DEF Crash, tracker
  <2>2. torn' \/ (run.pc \notin Upserting /\ UNCHANGED torn)
    BY <2>1 DEF Types, RestOK, Upserting
  <2> QED
    BY <2>1, <2>2, IdleFields, NoWritingKeeps
<1>5. ASSUME NEW m \in Moves, Move(m) PROVE Written'
  <2> DEFINE state == MoveOf[m].state
  <2>1. PICK t \in Tasks : t = MoveOf[m].task
    BY MovesAssumption
  <2>2. cards' = [cards EXCEPT ![t] = [id    |-> IF state = "none" THEN 0 ELSE cards[t].id,
                                       state |-> state,
                                       by    |-> "user"]]
    BY <1>5, <2>1 DEF Move, Types, TrackerOK
  <2>3. \A u \in Tasks : \/ cards'[u] = cards[u]
                         \/ cards'[u].by = "user" /\ cards'[u].id \in {cards[u].id, 0}
    BY <2>2 DEF Types, TrackerOK
  <2> QED
    BY <1>5, <2>3, ByHandKeeps DEF Move, ghosts, KeepsWriting
<1>6. CASE (\E t \in Tasks : Copy(t) \/ StartEvent(t)) \/ AfterReconcile
  BY <1>0, <1>6 DEF Copy, StartEvent, AfterReconcile, CorpusOnly, JobOnly, tracker, ghosts
<1>7. CASE Tamper
  BY <1>7, TamperWritten
<1>8. CASE StartSweep \/ JobStep
  <2>1. JobOnly
    BY <1>8 DEF StartSweep, JobStep, ReadCard, ReadMarker, ReadSpecs, WriteBack, EndJob
  <2> QED
    BY <1>0, <2>1 DEF JobOnly, tracker
<1> QED
  BY <1>1, <1>2, <1>3, <1>4, <1>5, <1>6, <1>7, <1>8 DEF Next, Callers

\* Whatever fails, crashes, is committed meanwhile or is done to cards and markers by
\* hand: once a run is over that did not break off, a complete marker says what its
\* cards show, except for those somebody moved since, and no card is left of a listed
\* task that the board has lost (upsertCards, removeStaleCards, publishCommitted).
THEOREM CompleteIsWrittenAlways == Spec => []CompleteIsWritten
<1>1. Init => Written
  BY DEF Init, Written, Known, Standing, IdleRun, NoMarker, Upserting
<1>2. Types /\ Written /\ [Next]_vars => Types' /\ Written'
  <2>1. Types /\ Written /\ UNCHANGED vars => Written'
    BY ByHandKeeps DEF vars, tracker, ghosts, KeepsWriting
  <2> QED
    BY <2>1, NextTypes, StutterTypes, NextWritten
<1>3. Written => CompleteIsWritten
  BY DEF Written, Standing, AsMarked, Upserting, CompleteIsWritten
<1> QED
  BY <1>1, <1>2, <1>3, InitTypes, PTL DEF Spec

-----------------------------------------------------------------------------
(* What is written back was chosen in the tracker. *)

\* Cards show what a marker says was written, apart from those moved by hand.
Fits(cs, m) ==
    m.complete => \A t \in Tasks : \/ m.board[t] = "absent" \/ cs[t].by = "user"
                                   \/ cs[t].state = DesiredState(m.board[t])

\* The cards and the marker of a job: as it read them, or as it will.
CardsOf(j)  == IF "cards" \in j.due THEN cards ELSE j.seen
MarkerOf(j) == IF "marker" \in j.due THEN marker ELSE j.marker

Chosen(j) == /\ j.pc = "patching" => j.due = {}
             /\ \A t \in j.plan : Decision(SpecStatus(j.seen[t].state), j.board[t], j.marker.board[t])
ReadFits == job.pc # "idle" /\ ~job.unsure => Fits(CardsOf(job), MarkerOf(job))
Heard == Chosen(job) /\ ReadFits

LEMMA IdleJobFields == IdleJob.pc = "idle" /\ IdleJob.plan = {} /\ IdleJob.unsure = FALSE
  BY DEF IdleJob

LEMMA IdleHeard == ASSUME job' = IdleJob PROVE Heard'
  BY IdleJobFields DEF Heard, Chosen, ReadFits

\* Cards change by hand, or not; the marker stays or becomes invalid.
LEMMA ByHandHeard ==
    ASSUME Heard, UNCHANGED job, marker' = marker \/ ~marker'.complete,
           \A t \in Tasks : cards'[t] = cards[t] \/ cards'[t].by = "user"
    PROVE  Heard'
<1>1. Fits(CardsOf(job), MarkerOf(job)) => Fits(CardsOf(job)', MarkerOf(job)')
  BY DEF Fits, CardsOf, MarkerOf
<1> QED
  BY <1>1 DEF Heard, Chosen, ReadFits

\* A run that writes beside a job that reads makes the job unsure.
LEMMA BlurHeard == ASSUME Types, Heard, Blur PROVE Heard'
<1>1. job \in JobType
  BY DEF Types, JobOK, GoodJob
<1>2. /\ job'.pc = job.pc /\ job'.due = job.due /\ job'.plan = job.plan /\ job'.seen = job.seen
      /\ job'.board = job.board /\ job'.marker = job.marker
      /\ job'.unsure = (job.unsure \/ job.pc = "reading")
  BY <1>1 DEF Blur, JobType
<1>3. Chosen(job)'
  BY <1>2 DEF Heard, Chosen
<1>4. ASSUME job.pc = "patching" PROVE CardsOf(job)' = CardsOf(job) /\ MarkerOf(job)' = MarkerOf(job)
  BY <1>2, <1>4 DEF Heard, Chosen, CardsOf, MarkerOf
<1>5. job.pc \in {"idle", "reading", "patching"}
  BY <1>1 DEF JobType
<1>6. ReadFits'
  BY <1>2, <1>4, <1>5 DEF Heard, ReadFits
<1> QED
  BY <1>3, <1>6 DEF Heard

\* A job that begins while no run writes and none broke off finds cards that fit.
LEMMA StartJobHeard ==
    ASSUME Written, NEW scope \in SUBSET Tasks, UNCHANGED <<cards, marker>>,
           job' = [IdleJob EXCEPT !.pc = "reading", !.scope = scope,
                                  !.due = {"board", "marker", "cards"}, !.unsure = Unsure]
    PROVE  Heard'
<1>1. /\ job'.pc = "reading" /\ job'.due = {"board", "marker", "cards"} /\ job'.unsure = Unsure
      /\ job'.plan = {}
  BY DEF IdleJob
<1>2. ~Unsure => Fits(cards, marker)
  BY DEF Unsure, Written, Standing, Upserting, AsMarked, Fits
<1>3. CardsOf(job)' = cards /\ MarkerOf(job)' = marker
  BY <1>1 DEF CardsOf, MarkerOf
<1> QED
  BY <1>1, <1>2, <1>3 DEF Heard, Chosen, ReadFits

\* One more thing is read; with the last one the patches are planned.
LEMMA ReadHeard ==
    ASSUME NEW j \in JobType, j.pc = "reading", j.plan = {}, NEW what, job' = Read(j, what),
           UNCHANGED <<cards, marker>>,
           ~j.unsure => Fits(IF "cards" \in j.due \ {what} THEN cards ELSE j.seen,
                             IF "marker" \in j.due \ {what} THEN marker ELSE j.marker)
    PROVE  Heard'
<1>1. PICK k \in JobType : k = [j EXCEPT !.due = @ \ {what}]
  BY DEF JobType
<1>2. /\ k.pc = "reading" /\ k.plan = {} /\ k.due = j.due \ {what} /\ k.unsure = j.unsure
      /\ k.seen = j.seen /\ k.marker = j.marker /\ k.board = j.board
  BY <1>1 DEF JobType
<1>3. job' = IF k.due = {} THEN [k EXCEPT !.pc = "patching", !.plan = PlanOf(k)] ELSE k
  BY <1>1 DEF Read
<1>4. /\ job'.due = k.due /\ job'.unsure = k.unsure /\ job'.seen = k.seen
      /\ job'.marker = k.marker /\ job'.board = k.board
      /\ job'.pc = "patching" => k.due = {}
      /\ job'.plan = IF k.due = {} THEN PlanOf(k) ELSE {}
  <2> HIDE DEF PlanOf
  <2> QED
    BY <1>2, <1>3 DEF JobType
<1>5. Chosen(job)'
  BY <1>4 DEF Chosen, PlanOf
<1>6. ReadFits'
  BY <1>2, <1>4 DEF ReadFits, CardsOf, MarkerOf
<1> QED
  BY <1>5, <1>6 DEF Heard

LEMMA JobHeard == ASSUME Types, Heard, JobStep PROVE Heard'
<1>0. JobOnly /\ UNCHANGED <<cards, marker>>
  BY DEF JobStep, ReadCard, ReadMarker, ReadSpecs, WriteBack, EndJob, JobOnly, tracker
<1>1. job \in JobType /\ (job.pc # "patching" => job.plan = {}) /\ cards \in [Tasks -> CardType]
      /\ marker \in MarkerType
  BY DEF Types, JobOK, GoodJob, TrackerOK
<1>2. job.pc = "reading" /\ ~job.unsure => Fits(CardsOf(job), MarkerOf(job))
  BY DEF Heard, ReadFits
<1>3. CASE job' = IdleJob
  BY <1>3, IdleHeard
<1>4. ASSUME ReadCard, job' # IdleJob PROVE Heard'
  <2>1. PICK j \in JobType : j = [job EXCEPT !.seen = cards]
    BY <1>1 DEF JobType
  <2>2. /\ job.pc = "reading" /\ job' = Read(j, "cards")
    BY <1>4, <2>1 DEF ReadCard, MayRead
  <2>3. /\ j.pc = "reading" /\ j.plan = {} /\ j.due = job.due /\ j.unsure = job.unsure
        /\ j.seen = cards /\ j.marker = job.marker
    BY <1>1, <2>1, <2>2 DEF JobType
  <2>4. "cards" \in job.due
    BY <1>4 DEF ReadCard, MayRead
  <2>5. ~j.unsure => Fits(IF "cards" \in j.due \ {"cards"} THEN cards ELSE j.seen,
                          IF "marker" \in j.due \ {"cards"} THEN marker ELSE j.marker)
    BY <1>2, <2>2, <2>3, <2>4 DEF CardsOf, MarkerOf
  <2> QED
    BY <1>0, <2>2, <2>3, <2>5, ReadHeard
<1>5. ASSUME ReadMarker, job' # IdleJob PROVE Heard'
  <2>1. PICK j \in JobType : j = [job EXCEPT !.marker = marker]
    BY <1>1 DEF JobType
  <2>2. /\ job.pc = "reading" /\ job' = Read(j, "marker")
    BY <1>5, <2>1 DEF ReadMarker, MayRead
  <2>3. /\ j.pc = "reading" /\ j.plan = {} /\ j.due = job.due /\ j.unsure = job.unsure
        /\ j.seen = job.seen /\ j.marker = marker
    BY <1>1, <2>1, <2>2 DEF JobType
  <2>4. "marker" \in job.due
    BY <1>5 DEF ReadMarker, MayRead
  <2>5. ~j.unsure => Fits(IF "cards" \in j.due \ {"marker"} THEN cards ELSE j.seen,
                          IF "marker" \in j.due \ {"marker"} THEN marker ELSE j.marker)
    BY <1>2, <2>2, <2>3, <2>4 DEF CardsOf, MarkerOf
  <2> QED
    BY <1>0, <2>2, <2>3, <2>5, ReadHeard
<1>6. ASSUME ReadSpecs, job' # IdleJob PROVE Heard'
  <2> DEFINE board == Shown
  <2>1. job.pc = "reading" /\ job' = Read([job EXCEPT !.board = board], "board")
    BY <1>6, ReadSpecsReads DEF ReadSpecs, MayRead
  <2>2. board \in [Tasks -> Statuses]
    BY ShownType
  <2> HIDE DEF board
  <2>3. PICK j \in JobType : j = [job EXCEPT !.board = board]
    BY <1>1, <2>2 DEF JobType
  <2>4. /\ j.pc = "reading" /\ j.plan = {} /\ j.due = job.due /\ j.unsure = job.unsure
        /\ j.seen = job.seen /\ j.marker = job.marker
    BY <1>1, <2>1, <2>3 DEF JobType
  <2>5. ~j.unsure => Fits(IF "cards" \in j.due \ {"board"} THEN cards ELSE j.seen,
                          IF "marker" \in j.due \ {"board"} THEN marker ELSE j.marker)
    BY <1>2, <2>1, <2>4 DEF CardsOf, MarkerOf
  <2> QED
    BY <1>0, <2>1, <2>3, <2>4, <2>5, ReadHeard
<1>7. ASSUME NEW t \in Tasks, WriteBack(t) PROVE Heard'
  <2>1. /\ job'.pc = job.pc /\ job'.due = job.due /\ job'.plan = job.plan \ {t}
        /\ job'.seen = job.seen /\ job'.board = job.board /\ job'.marker = job.marker
        /\ job'.unsure = job.unsure
    BY <1>1, <1>7 DEF WriteBack, JobType
  <2>2. Chosen(job)'
    BY <2>1 DEF Heard, Chosen
  <2>3. CardsOf(job)' = CardsOf(job) /\ MarkerOf(job)' = MarkerOf(job)
    BY <1>0, <2>1 DEF CardsOf, MarkerOf
  <2> QED
    BY <2>1, <2>2, <2>3 DEF Heard, ReadFits
<1> QED
  BY <1>3, <1>4, <1>5, <1>6, <1>7 DEF JobStep, EndJob

LEMMA NextHeard == ASSUME Types, Written, Heard, Next PROVE Heard'
<1>0. ASSUME UNCHANGED <<job, cards, marker>> PROVE Heard'
  BY <1>0, ByHandHeard
<1>1. CASE (\E e \in Edits : Write(e) \/ Outside(e)) \/ AfterReconcile \/ Crash
  BY <1>0, <1>1 DEF Write, Outside, AfterReconcile, Crash, CorpusOnly, PatchOnly, tracker
<1>2. ASSUME NEW p \in Projects,
             RefillStep(p) \/ Break(p) \/ PatchStep(p) \/ Unbind(p) \/ \E who \in Callers : Clear(who, p)
      PROVE  Heard'
  <2>1. CASE RefillStep(p) \/ Break(p) \/ \E who \in Callers : Clear(who, p)
    BY <1>0, <2>1 DEF RefillStep, Fill, Seal, Break, Clear, CorpusOnly, tracker
  <2>2. CASE PatchStep(p) \/ Unbind(p)
    BY <1>0, <2>2 DEF PatchStep, Renewed, Apply, Push, Drop, Tell, Unbind, PatchOnly, tracker
  <2> QED
    BY <1>2, <2>1, <2>2
<1>3. CASE ProjectionStep
  <2>1. CASE Start \/ Check \/ TakeService \/ HeadBefore \/ QueryBoard \/ HeadAfter \/ Decide
    BY <1>0, <2>1 DEF Start, Check, TakeService, HeadBefore, QueryBoard, HeadAfter, Decide, RunOnly, tracker
  <2>2. CASE ReadCards \/ Upserted \/ Removed
    BY <1>0, <2>2 DEF ReadCards, Upserted, Removed, RunOnly, tracker
  <2>3. CASE PatchCard \/ CreateCard
    BY <2>3, BlurHeard DEF PatchCard, CreateCard, UpsertOnly
  <2>4. CASE RemoveCard \/ PublishProject \/ PublishRoot
    BY <2>4, BlurHeard DEF RemoveCard, PublishProject, PublishRoot
  <2> QED
    BY <1>3, <2>1, <2>2, <2>3, <2>4 DEF ProjectionStep
<1>4. ASSUME NEW m \in Moves, Move(m) PROVE Heard'
  <2>1. PICK t \in Tasks : t = MoveOf[m].task
    BY MovesAssumption
  <2>2. \A u \in Tasks : cards'[u] = cards[u] \/ cards'[u].by = "user"
    BY <1>4, <2>1 DEF Move, Types, TrackerOK
  <2>3. UNCHANGED <<job, marker>>
    BY <1>4 DEF Move
  <2> QED
    BY <2>2, <2>3, ByHandHeard
<1>5. ASSUME NEW t \in Tasks, Copy(t) PROVE Heard'
  BY <1>5, ByHandHeard DEF Copy
<1>6. CASE Tamper
  <2>1. marker' = marker \/ ~marker'.complete
    BY <1>6 DEF Tamper, NoMarker
  <2> QED
    BY <1>6, <2>1, ByHandHeard DEF Tamper
<1>7. ASSUME NEW t \in Tasks, StartEvent(t) PROVE Heard'
  <2>1. /\ {t} \in SUBSET Tasks /\ UNCHANGED <<cards, marker>>
        /\ job' = [IdleJob EXCEPT !.pc = "reading", !.scope = {t},
                                  !.due = {"board", "marker", "cards"}, !.unsure = Unsure]
    BY <1>7 DEF StartEvent, JobOnly, tracker
  <2> QED
    BY <2>1, StartJobHeard
<1>8. CASE StartSweep
  BY <1>8, StartJobHeard DEF StartSweep, JobOnly, tracker
<1>9. CASE JobStep
  BY <1>9, JobHeard
<1> QED
  BY <1>1, <1>2, <1>3, <1>4, <1>5, <1>6, <1>7, <1>8, <1>9 DEF Next, Callers

LEMMA StatusesReturn == \A s \in Representable : SpecStatus(DesiredState(s)) = s
  BY DEF Representable, SpecStatus, DesiredState

\* A patch that is planned has a status somebody chose, or comes from cards and a marker
\* that need not fit.
LEMMA PlannedWasChosen ==
    ASSUME Types, Heard, job.pc = "patching", NEW t \in job.plan
    PROVE  job.seen[t].by = "user" \/ job.unsure \/ ~job.marker.complete
<1>1. /\ job.due = {} /\ job.board[t] \in Representable /\ job.board[t] = job.marker.board[t]
      /\ SpecStatus(job.seen[t].state) # job.board[t] /\ t \in Tasks
  BY DEF Heard, Chosen, Decision, Types, JobOK, GoodJob, JobType
<1>2. job.marker.board[t] # "absent"
  BY <1>1 DEF Representable
<1>3. ~job.unsure => Fits(job.seen, job.marker)
  BY <1>1 DEF Heard, ReadFits, CardsOf, MarkerOf
<1> QED
  BY <1>1, <1>2, <1>3, StatusesReturn DEF Fits

\* A status that the listener writes back to the specs is one somebody chose in the
\* tracker, in whatever order a sweep reads, whatever is moved, committed or fails beside
\* it (youtrack-status-sweep.js:7) - unless a run was writing while the listener read or
\* broke off before, or failed on a card.
THEOREM OnlyUsersSpeakAlways == Spec => OnlyUsersSpeak
<1>1. Init => Written /\ Heard
  BY IdleJobFields DEF Init, Written, Known, Standing, IdleRun, NoMarker, Upserting, Heard, Chosen, ReadFits
<1>2. Types /\ Written /\ Heard /\ [Next]_vars => Types' /\ Written' /\ Heard'
  <2>1. Types /\ Written /\ Heard /\ UNCHANGED vars => Written' /\ Heard'
    BY ByHandKeeps, ByHandHeard DEF vars, tracker, ghosts, KeepsWriting
  <2> QED
    BY <2>1, NextTypes, StutterTypes, NextWritten, NextHeard
<1>3. Types /\ Heard /\ [Next]_vars =>
        [\A t \in Tasks : WriteBack(t) /\ patch' # patch =>
            job.seen[t].by = "user" \/ job.unsure \/ ~job.marker.complete]_vars
  <2>1. ASSUME NEW t \in Tasks, WriteBack(t) PROVE job.pc = "patching" /\ t \in job.plan
    BY <2>1, FirstIsMember DEF WriteBack
  <2> QED
    BY <2>1, PlannedWasChosen
<1> QED
  BY <1>1, <1>2, <1>3, InitTypes, PTL DEF Spec, OnlyUsersSpeak
=============================================================================
