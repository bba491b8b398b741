----------------------------- MODULE TrackerSync -----------------------------
(***************************************************************************)
(* The specs in the issue tracker: the projection loop of the service      *)
(* (service/projection.js, adapters/youtrack-projection.js and              *)
(* youtrack-store.js), which writes one card per task and a signed marker    *)
(* saying what was written, and the listener and sweep that carry a status    *)
(* somebody chose in the tracker back into the specs                           *)
(* (adapters/youtrack-status-sweep.js, scripts/spec-graph-sync.mjs).            *)
(*                                                                         *)
(* A project's content is the status of each of its tasks, each task in a       *)
(* spec of its own; the k-th commit of a project is the k-th element of its     *)
(* history.  The service reads a corpus on disk, rebuilt from the remote        *)
(* (mounts.js), through a service object that caches the graph it has read;     *)
(* spec_patch (writepath.js) changes both before it commits and pushes.         *)
(* A card holds a State.  Each request to the tracker or to git is a step of    *)
(* its own: everybody else may act between two of them.                         *)
(***************************************************************************)
EXTENDS Integers, Sequences, FiniteSets

CONSTANTS
    Projects,   \* the projects of the service
    Tasks,
    ProjectOf,  \* the project of each task
    Edits,      \* status changes in the specs, each made at most once
    EditOf,     \* [task, status, how: "write" through the service or "outside" it]
    Moves,      \* what people do to cards in the tracker, each at most once
    MoveOf,     \* [task, state], the state "none" for a deleted card
    StartOf,    \* the status each task has at first
    Casts,      \* who acts, and what may go wrong, in a behaviour
    MaxErrors,  \* bound: failing requests in a behaviour
    MaxCrashes, \* bound: restarts of the service in a behaviour
    MaxPatches  \* bound: statuses written back in a behaviour

Statuses == {"planned", "todo", "done", "blocked", "absent"}
States == {"Submitted", "Open", "In Progress", "Fixed", "Verified", "Duplicate"}
\* "fail": a request may fail; "sweep": the interval of the sweep; "event": the
\* tracker's workflow calls the listener; "read": clients list the registry; "tamper":
\* somebody edits the markers; "copy": somebody copies a card; "binding": a
\* project is unbound.
Kinds == {"fail", "crash", "sweep", "event", "read", "tamper", "copy", "binding"}

ASSUME TasksAssumption == ProjectOf \in [Tasks -> Projects] /\ StartOf \in [Tasks -> Statuses]
ASSUME EditsAssumption ==
    EditOf \in [Edits -> [task : Tasks, status : Statuses, how : {"write", "outside"}]]
ASSUME MovesAssumption == MoveOf \in [Moves -> [task : Tasks, state : States \cup {"none"}]]
ASSUME CastsAssumption == Casts \subseteq SUBSET (Edits \cup Moves \cup Kinds)
ASSUME BoundsAssumption == MaxErrors \in Nat /\ MaxCrashes \in Nat /\ MaxPatches \in Nat

VARIABLES
    history,  \* the contents of each project's commits, the remote's tip last
    root,     \* the corpus on disk: the status of each task in it
    signature, \* the commit a corpus is cached for (projectRoots), 0: none
    graph,    \* what the service object of a task's project has read and cached
    refill,   \* the rebuild of each corpus (projectLocks)
    patch,    \* the spec_patch that holds the write lock of each project
    worktree, \* per task the status its worktree's branch shares with the remote,
              \* and the first one committed there and not pushed
    moved,    \* the reconciler has rebuilt a corpus
    bound,    \* the projects with a repository
    cards,    \* the card of each task: id 0 when there is none
    issues,   \* how many cards were created so far
    copied,   \* the tasks with a second card
    marker,   \* SPEC:SYNC-STATE, the marker of the last commit to the tracker
    index,    \* the marker of each project
    dirty,    \* a trigger waits for the loop
    run,      \* the projection run
    job,      \* the sweep or event the listener works on
    events,   \* events the listener has not begun
    made,     \* the edits and moves made
    cast, errors, crashes, patches,
    torn,     \* history: runs ended in an error or a crash since the last commit
    unshared, \* history: the projects whose corpus took a patch the remote has
              \* not moved since
    lagged,   \* history: the marker's board was read from a corpus behind or
              \* ahead of the remote, or a service dropped before
    unsaid,   \* history: a read renewed a corpus and no trigger followed
    listed    \* history: the tasks whose card the marker names, or named last

corpus == <<root, signature, graph, refill, patch, worktree, moved, unshared>>
specs == <<history, corpus, bound>>
tracker == <<cards, issues, copied, marker, index>>
faults == <<cast, errors, crashes>>
ghosts == <<torn, lagged, unsaid, listed>>
vars == <<specs, tracker, dirty, run, job, events, made, patches, faults, ghosts>>

-----------------------------------------------------------------------------
(* Statuses on both sides. *)

Representable == {"planned", "todo", "done"}

\* Mutant: the State is named like the status.
DesiredStateRaw(status) == status
\* STATUS_MAP; a status the tracker has no State for is shown as "todo".
DesiredState(status) == CASE status = "planned" -> "Submitted"
                          [] status = "done"    -> "Fixed"
                          [] OTHER              -> "Open"

\* REVERSE_STATUS_MAP.
SpecStatus(state) == CASE state = "Submitted"              -> "planned"
                       [] state \in {"Open", "In Progress"} -> "todo"
                       [] state \in {"Fixed", "Verified"}   -> "done"
                       [] OTHER                             -> "unmapped"

\* Mutants: the baseline is ignored; a planned task counts as one with no State.
DecisionUnbased(trackerStatus, specStatus, snapshotStatus) ==
    /\ trackerStatus \notin {"unmapped", specStatus}
    /\ specStatus \in Representable
    /\ snapshotStatus # "absent"
DecisionNoPlanned(trackerStatus, specStatus, snapshotStatus) ==
    /\ trackerStatus \notin {"unmapped", specStatus}
    /\ specStatus \in Representable \ {"planned"}
    /\ specStatus = snapshotStatus
\* planCardWriteback: is the tracker's status written to the spec?
Decision(trackerStatus, specStatus, snapshotStatus) ==
    /\ trackerStatus \notin {"unmapped", specStatus}
    /\ specStatus \in Representable
    /\ specStatus = snapshotStatus

-----------------------------------------------------------------------------
(* The specs. *)

TasksOf(p) == {t \in Tasks : ProjectOf[t] = p}
Remote(p) == Len(history[p])
Content(p, k) == history[p][k]
Tip(t) == Content(ProjectOf[t], Remote(ProjectOf[t]))[t]

\* The next of some projects or tasks, in a fixed order.
First(S) == CHOOSE x \in S : TRUE

\* The head of a project without a repository is 0.
ProjectHead(p) == IF p \in bound THEN Remote(p) ELSE 0

None == [id |-> 0, state |-> "none", by |-> "run"]
Nothing == [t \in Tasks |-> "absent"]
NoIds == [t \in Tasks |-> 0]
NoHeads == [p \in Projects |-> 0]
NoMarker == [valid |-> FALSE, complete |-> FALSE, heads |-> NoHeads, board |-> Nothing, ids |-> NoIds]
NoCards == [t \in Tasks |-> None]

\* svc: is the service object the run has taken still the current one?  If not,
\* old is the graph it cached.
IdleRun == [pc |-> "idle", ptr |-> NoMarker, whole |-> FALSE, heads |-> NoHeads, board |-> Nothing,
            seen |-> NoCards, ids |-> NoIds, failed |-> FALSE, left |-> {}, lag |-> FALSE,
            svc |-> "current", old |-> Nothing]
IdleJob == [pc |-> "idle", scope |-> {}, due |-> {}, board |-> Nothing, marker |-> NoMarker,
            seen |-> NoCards, plan |-> {}, unsure |-> FALSE]
NoRefill == [by |-> "nobody", to |-> 0, left |-> {}]
NoPatch == [pc |-> "idle", by |-> "client", task |-> "none", status |-> "absent"]

Init ==
    /\ cast \in Casts
    /\ history = [p \in Projects |-> <<[t \in TasksOf(p) |-> StartOf[t]]>>]
    /\ root = StartOf /\ signature = [p \in Projects |-> 1] /\ graph = StartOf
    /\ refill = [p \in Projects |-> NoRefill] /\ patch = [p \in Projects |-> NoPatch]
    /\ worktree = [t \in Tasks |-> [base |-> "none", first |-> "none"]]
    /\ moved = FALSE /\ unshared = {} /\ bound = Projects
    /\ cards = NoCards /\ issues = 0 /\ copied = {}
    /\ marker = NoMarker /\ index = [p \in Projects |-> "none"]
    /\ dirty = TRUE    \* boot
    /\ run = IdleRun /\ job = IdleJob
    /\ events = {} /\ made = {}
    /\ errors = 0 /\ crashes = 0 /\ patches = 0
    /\ torn = FALSE /\ lagged = FALSE /\ unsaid = FALSE /\ listed = {}

Fails == "fail" \in cast /\ errors < MaxErrors /\ errors' = errors + 1
Works == errors' = errors

\* Mutant: a trigger during a run is taken for that run.
SyncNowDropped == dirty' = (dirty \/ run.pc = "idle") /\ unsaid' = FALSE
\* syncNow.
SyncNow == dirty' = TRUE /\ unsaid' = FALSE

Committed(t, status) ==
    LET p == ProjectOf[t]
    IN  history' = [history EXCEPT ![p] = Append(@, [Content(p, Len(@)) EXCEPT ![t] = status])]

\* An author pushes past the service.
Outside(e) ==
    /\ e \in cast \ made /\ EditOf[e].how = "outside"
    /\ Tip(EditOf[e].task) # EditOf[e].status
    /\ Committed(EditOf[e].task, EditOf[e].status)
    /\ unshared' = unshared \ {ProjectOf[EditOf[e].task]}
    /\ made' = made \cup {e}
    /\ UNCHANGED <<root, signature, graph, refill, patch, worktree, moved, bound>>
    /\ UNCHANGED <<tracker, dirty, run, job, events, patches, faults, ghosts>>

-----------------------------------------------------------------------------
(* The corpus of a project and the service object that reads it.           *)

CorpusOnly == UNCHANGED <<history, bound, tracker, events, made, patches, cast, crashes, torn, lagged, listed>>

\* What belongs to project p is taken from new, the rest from old.
On(p, new, old) == [t \in Tasks |-> IF ProjectOf[t] = p THEN new[t] ELSE old[t]]

\* What a service object with the cached graph g answers: ensure reads the corpus
\* as it is when nothing is cached.
Unread == [t \in Tasks |-> "unread"]
Answer(g) == [t \in Tasks |-> IF g[t] = "unread" THEN root[t] ELSE g[t]]

\* Who asks for the corpus of p (projectRoot), and has it rebuilt when it is not the
\* remote's.  A plain query does not ask.
Asks(who, p) ==
    \/ who = "reconciler"
    \/ who = "client" /\ "read" \in cast
    \/ who = "writer" /\ patch[p].pc \in {"renew", "refresh"}

\* projectRoot: one rebuild at a time, of the commit fetched first; .specs is removed,
Clear(who, p) ==
    /\ p \in bound /\ Asks(who, p)
    /\ refill[p].by = "nobody" /\ signature[p] # Remote(p)
    /\ refill' = [refill EXCEPT ![p] = [by |-> who, to |-> Remote(p), left |-> TasksOf(p)]]
    /\ root' = On(p, Nothing, root)
    /\ CorpusOnly /\ UNCHANGED <<signature, graph, patch, worktree, moved, unshared>>
    /\ UNCHANGED <<dirty, run, job, errors, unsaid>>

\* ... written again document by document, from the refs as somebody has fetched
\* them by then,
Fill(p) ==
    /\ refill[p].by # "nobody"
    /\ \E t \in refill[p].left, k \in refill[p].to..Remote(p) :
          /\ root' = [root EXCEPT ![t] = Content(p, k)[t]]
          /\ refill' = [refill EXCEPT ![p].left = @ \ {t}]
    /\ CorpusOnly /\ UNCHANGED <<signature, graph, patch, worktree, moved, unshared>>
    /\ UNCHANGED <<dirty, run, job, errors, unsaid>>

\* How a writer goes on that has waited for the corpus.
Served(p) == patch' = [patch EXCEPT ![p].pc = IF @ = "renew" THEN "apply" ELSE "tell"]

\* ... and cached.  The service object is dropped; a run that holds it keeps it.
Seal(p) ==
    /\ refill[p].by # "nobody" /\ refill[p].left = {}
    /\ signature' = [signature EXCEPT ![p] = refill[p].to]
    /\ refill' = [refill EXCEPT ![p] = NoRefill]
    /\ graph' = On(p, Unread, graph)
    /\ run' = IF run.pc \in {"head", "query"} /\ run.svc = "current" /\ p = First(run.left)
              THEN [run EXCEPT !.svc = "dropped", !.old = graph]
              ELSE run
    /\ IF refill[p].by = "writer" THEN Served(p) ELSE UNCHANGED patch
    /\ moved' = (moved \/ refill[p].by = "reconciler")
    /\ unsaid' = (unsaid \/ refill[p].by # "reconciler")
    /\ CorpusOnly /\ UNCHANGED <<root, worktree, unshared, dirty, job, errors>>

\* A command fails: the corpus stays half written under the old signature.  A
\* write is answered with the error; refreshProject swallows it.
Break(p) ==
    /\ refill[p].by # "nobody" /\ Fails
    /\ refill' = [refill EXCEPT ![p] = NoRefill]
    /\ CASE refill[p].by # "writer"  -> UNCHANGED patch
         [] patch[p].pc = "refresh"  -> Served(p)
         [] OTHER                    -> patch' = [patch EXCEPT ![p] = NoPatch]
    /\ CorpusOnly /\ UNCHANGED <<root, signature, graph, worktree, moved, unshared, dirty, run, job, unsaid>>

\* reconcileOnce: a corpus that had to be renewed means a remote moved.
AfterReconcile ==
    /\ moved /\ \A p \in Projects : refill[p].by # "reconciler"
    /\ moved' = FALSE
    /\ SyncNow
    /\ CorpusOnly /\ UNCHANGED <<root, signature, graph, refill, patch, worktree, unshared, run, job, errors>>

-----------------------------------------------------------------------------
(* spec_patch, under the write lock of the project.                        *)

PatchOnly == UNCHANGED <<bound, moved, refill, tracker, run, job, events, cast, crashes, torn, lagged, listed>>

\* The worktree is made at the first write, and never moved by itself.
Began(by, t, status) ==
    LET p == ProjectOf[t]
    IN  /\ p \in bound /\ patch[p].pc = "idle"
        /\ patch' = [patch EXCEPT ![p] = [pc |-> "renew", by |-> by, task |-> t, status |-> status]]
        /\ worktree' = [worktree EXCEPT ![t].base = IF @ = "none" THEN Tip(t) ELSE @]

Write(e) ==
    /\ e \in cast \ made /\ EditOf[e].how = "write"
    /\ Began("client", EditOf[e].task, EditOf[e].status)
    /\ made' = made \cup {e}
    /\ PatchOnly /\ UNCHANGED <<history, root, signature, graph, unshared, dirty, patches, errors, unsaid>>

At(p, label) == patch[p].pc = label
Goes(p, label) == patch' = [patch EXCEPT ![p].pc = label]
Answered(p) == patch' = [patch EXCEPT ![p] = NoPatch]

\* The corpus is the remote's.
Renewed(p) ==
    /\ At(p, "renew") \/ At(p, "refresh")
    /\ refill[p].by # "writer"
    /\ \/ p \in bound /\ signature[p] = Remote(p) /\ Served(p)
       \/ p \notin bound /\ IF At(p, "refresh") THEN Served(p) ELSE Answered(p)
    /\ PatchOnly
    /\ UNCHANGED <<history, root, signature, graph, worktree, unshared, dirty, made, patches, errors, unsaid>>

\* The kernel reads the corpus anew and changes it, and its graph, before anything
\* is committed; it refuses what the corpus does not have or has already.
Apply(p) ==
    /\ At(p, "apply")
    /\ IF root[patch[p].task] \in {"absent", patch[p].status}
       THEN Answered(p) /\ UNCHANGED <<root, unshared>>
       ELSE /\ Goes(p, "push")
            /\ root' = [root EXCEPT ![patch[p].task] = patch[p].status]
            /\ unshared' = unshared \cup {p}
    /\ graph' = On(p, root', graph)
    /\ PatchOnly /\ UNCHANGED <<history, signature, worktree, dirty, made, patches, errors, unsaid>>

\* syncSpecTree, commit, push and, when that is refused, reconcileClone and push
\* once more.  The commit takes the corpus as it is by now.  Commits not pushed are
\* replayed: an empty one is kept, one the remote has already is dropped, and one
\* that changes what the remote has changed otherwise is a conflict.
Push(p) ==
    LET t     == patch[p].task
        new   == root[t]
        base  == worktree[t].base
        waits == worktree[t].first # "none"
        first == IF worktree[t].first \in {"none", base} THEN new ELSE worktree[t].first
        lands == Tip(t) = base \/ first \in {base, Tip(t)}
        Shares(status) == worktree' = [worktree EXCEPT ![t] = [base |-> status, first |-> "none"]]
        Pushed(status) == Committed(t, status) /\ Shares(status) /\ unshared' = unshared \ {p}
        Kept == UNCHANGED <<history, unshared>>
    IN  /\ At(p, "push")
        /\ \/ /\ lands /\ Works /\ Goes(p, "drop")
              /\ CASE Tip(t) = base          -> Pushed(new)
                   [] Tip(t) # base /\ first = base -> Pushed(Tip(t))
                   [] OTHER                  -> IF waits THEN Pushed(new) ELSE Shares(new) /\ Kept
           \* A final failure: the corpus and its graph stay patched, the commit waits.
           \/ /\ (~lands /\ Works) \/ Fails
              /\ Answered(p) /\ Kept
              /\ worktree' = [worktree EXCEPT ![t].first = first]
           \* ... also when the remote took the commit and the answers were lost.
           \/ Tip(t) = base /\ Fails /\ Answered(p) /\ Pushed(new)
           \* A corpus somebody has just removed cannot be copied.
           \/ new = "absent" /\ Works /\ Kept /\ UNCHANGED worktree /\ (Goes(p, "drop") \/ Answered(p))
        /\ PatchOnly /\ UNCHANGED <<root, signature, graph, dirty, made, patches, unsaid>>

\* refreshProject drops the signature and rebuilds,
Drop(p) ==
    /\ At(p, "drop") /\ Goes(p, "refresh")
    /\ signature' = [signature EXCEPT ![p] = 0]
    /\ PatchOnly
    /\ UNCHANGED <<history, root, graph, worktree, unshared, dirty, made, patches, errors, unsaid>>

\* ... and the service reads anew; then the trigger.
Tell(p) ==
    /\ At(p, "tell") /\ Answered(p)
    /\ graph' = On(p, Unread, graph)
    /\ SyncNow
    /\ PatchOnly /\ UNCHANGED <<history, root, signature, worktree, unshared, made, patches, errors>>

\* An administrator unbinds a project for good.
Unbind(p) ==
    /\ "binding" \in cast /\ bound = Projects
    /\ bound' = bound \ {p}
    /\ SyncNow
    /\ UNCHANGED <<history, corpus, tracker, run, job, events, made, patches, faults, torn, lagged, listed>>

-----------------------------------------------------------------------------
(* The projection run.                                                     *)

RunOnly == UNCHANGED <<specs, tracker, job, events, made, patches, cast, crashes, unsaid, listed>>

\* The run is over; the loop looks at dirty again.
Over == run' = IdleRun

\* An exception: it is logged, and no trigger is put back.
Aborted == Over /\ torn' = TRUE

\* doSync begins: readCommitted.
Start ==
    /\ run.pc = "idle" /\ dirty
    /\ dirty' = FALSE
    /\ \/ /\ Works
          /\ run' = [IdleRun EXCEPT
                       !.pc    = "check",
                       !.ptr   = marker,
                       !.whole = \A p \in Projects : marker.heads[p] # 0 => index[p] = "complete"]
          /\ UNCHANGED torn
       \/ Fails /\ Aborted
    /\ RunOnly /\ UNCHANGED lagged

\* cheapCheck.
Unmoved == /\ run.ptr.complete /\ run.whole
           /\ \A p \in Projects : run.ptr.heads[p] = ProjectHead(p)

Check ==
    /\ run.pc = "check"
    /\ IF Unmoved THEN Over ELSE run' = [run EXCEPT !.pc = "before", !.left = Projects]
    /\ RunOnly /\ UNCHANGED <<dirty, errors, torn, lagged>>

\* mergedBoard, for each project: the service object, the head, the board, the head
\* again.  A project without a repository is passed over.
TakeService ==
    /\ run.pc = "before" /\ run.left # {}
    /\ run' = IF First(run.left) \in bound
              THEN [run EXCEPT !.pc = "head", !.svc = "current"]
              ELSE [run EXCEPT !.left = @ \ {First(run.left)}]
    /\ RunOnly /\ UNCHANGED <<dirty, errors, torn, lagged>>

\* A write is between its change of the corpus and the end of its refresh.
Writing(p) == patch[p].pc \in {"push", "drop", "refresh", "tell"}

\* History: is the head sampled while the corpus or the service is not the remote's?
Behind(p) == signature[p] # Remote(p) \/ run.svc = "dropped" \/ p \in unshared \/ Writing(p)

HeadBefore ==
    /\ run.pc = "head"
    /\ LET p == First(run.left)
       IN  IF p \in bound
           THEN /\ run' = [run EXCEPT !.pc = "query", !.heads[p] = Remote(p), !.lag = @ \/ Behind(p)]
                /\ UNCHANGED torn
           ELSE Aborted
    /\ RunOnly /\ UNCHANGED <<dirty, errors, lagged>>

\* The board comes from the service taken first, which may read the corpus only now;
\* a corpus under a rebuild may be refused.
QueryBoard ==
    /\ run.pc = "query"
    /\ \/ /\ Works
          /\ LET p == First(run.left)
                 known == Answer(IF run.svc = "current" THEN graph ELSE run.old)
             IN  /\ run' = [run EXCEPT !.pc    = "after",
                                      !.board = On(p, known, @),
                                      !.lag   = @ \/ p \in unshared]
                 /\ graph' = IF run.svc = "current" THEN On(p, known, graph) ELSE graph
          /\ UNCHANGED torn
       \/ Fails /\ Aborted /\ UNCHANGED graph
       \/ refill[First(run.left)].by # "nobody" /\ Works /\ Aborted /\ UNCHANGED graph
    /\ UNCHANGED <<history, root, signature, refill, patch, worktree, moved, unshared, bound>>
    /\ UNCHANGED <<tracker, job, events, made, patches, cast, crashes, unsaid, listed, dirty, lagged>>

\* Mutant: the head is not sampled again.
StillAtAny(p) == TRUE
StillAt(p) == ProjectHead(p) = run.heads[p]

HeadAfter ==
    /\ run.pc = "after"
    /\ IF StillAt(First(run.left))
       THEN run' = [run EXCEPT !.pc = "before", !.left = @ \ {First(run.left)}] /\ UNCHANGED torn
       ELSE Aborted
    /\ RunOnly /\ UNCHANGED <<dirty, errors, lagged>>

\* The committed marker already says this board was written.
Fresh == run.ptr.complete /\ run.whole /\ run.ptr.board = run.board

Decide ==
    /\ run.pc = "before" /\ run.left = {}
    /\ IF Fresh THEN Over ELSE run' = [run EXCEPT !.pc = "cards"]
    /\ RunOnly /\ UNCHANGED <<dirty, errors, torn, lagged>>

Wanted == {t \in Tasks : run.board[t] # "absent"}

\* sync: readCommitted once more and readProjection, which refuses a SpecId that
\* two issues carry.
ReadCards ==
    /\ run.pc = "cards"
    /\ \/ copied = {} /\ Works /\ UNCHANGED torn
          /\ run' = [run EXCEPT !.pc = "upsert", !.ptr = marker, !.seen = cards, !.left = Wanted]
       \/ copied # {} /\ Works /\ Aborted
       \/ Fails /\ Aborted
    /\ RunOnly /\ UNCHANGED <<dirty, lagged>>

-----------------------------------------------------------------------------
(* What the run writes. *)

WriteOnly == UNCHANGED <<specs, copied, dirty, events, made, patches, cast, crashes, unsaid, lagged>>

\* A listener that is reading cannot tell what it saw from what was written since.
Blur == job' = [job EXCEPT !.unsure = @ \/ job.pc = "reading"]

Todo == First(run.left)

\* One card is done; a failure is remembered and the next card follows.
CardDone(id, failed) ==
    run' = [run EXCEPT !.left = @ \ {Todo}, !.ids[Todo] = id, !.failed = @ \/ failed]

Stated(state) == cards' = [cards EXCEPT ![Todo].state = state, ![Todo].by = "run"]

UpsertOnly == WriteOnly /\ Blur /\ UNCHANGED <<marker, index, torn>>

\* upsertOneCard for a card the run has seen.  A card deleted since is a failure,
\* and so is a request that reached the tracker and whose answer was lost.
PatchCard ==
    /\ run.pc = "upsert" /\ run.left # {} /\ run.seen[Todo].id # 0
    /\ LET id == run.seen[Todo].id
           state == DesiredState(run.board[Todo])
       IN  \/ run.seen[Todo].state = state /\ Works /\ CardDone(id, FALSE) /\ UNCHANGED cards
           \/ /\ run.seen[Todo].state # state
              /\ \/ cards[Todo].id = id /\ Stated(state) /\ Works /\ CardDone(id, FALSE)
                 \/ cards[Todo].id # id /\ Works /\ CardDone(id, TRUE) /\ UNCHANGED cards
                 \/ cards[Todo].id = id /\ Stated(state) /\ Fails /\ CardDone(id, TRUE)
                 \/ Fails /\ CardDone(id, TRUE) /\ UNCHANGED cards
    /\ UpsertOnly /\ UNCHANGED <<issues, listed>>

\* upsertOneCard for a new card: it is created in the State Submitted and, when
\* another one is wanted, moved by a second request.
CreateCard ==
    /\ run.pc = "upsert" /\ run.left # {} /\ run.seen[Todo].id = 0
    /\ LET state == DesiredState(run.board[Todo])
           Made(first) == /\ cards' = [cards EXCEPT ![Todo] = [id |-> issues + 1, state |-> first, by |-> "run"]]
                          /\ issues' = issues + 1
                          /\ listed' = IF marker.ids[Todo] = 0 THEN listed \ {Todo} ELSE listed
       IN  \/ Made(state) /\ Works /\ CardDone(issues + 1, FALSE)
           \/ \E first \in {"Submitted", state} : Made(first) /\ Fails /\ CardDone(0, TRUE)
           \/ UNCHANGED <<cards, issues, listed>> /\ Fails /\ CardDone(0, TRUE)
    /\ UpsertOnly

\* removeStaleCards: cards of tasks that are gone, if the marker the run began
\* with names them.
Stale == {t \in Tasks \ Wanted : run.seen[t].id # 0 /\ run.ptr.valid /\ run.ptr.ids[t] # 0}

Upserted ==
    /\ run.pc = "upsert" /\ run.left = {}
    /\ run' = [run EXCEPT !.pc = "stale", !.left = Stale]
    /\ RunOnly /\ UNCHANGED <<dirty, errors, torn, lagged>>

RemoveCard ==
    /\ run.pc = "stale" /\ run.left # {}
    /\ \/ /\ cards[Todo].id = run.seen[Todo].id /\ Works
          /\ cards' = [cards EXCEPT ![Todo] = None]
          /\ run' = [run EXCEPT !.left = @ \ {Todo}]
          /\ UNCHANGED torn
       \/ cards[Todo].id # run.seen[Todo].id /\ Works /\ Aborted /\ UNCHANGED cards
       \/ Fails /\ Aborted /\ UNCHANGED cards
    /\ Blur /\ WriteOnly /\ UNCHANGED <<issues, marker, index, listed>>

InMarker == {p \in Projects : run.heads[p] # 0}

Removed ==
    /\ run.pc = "stale" /\ run.left = {}
    /\ run' = [run EXCEPT !.pc = "publish", !.left = InMarker]
    /\ RunOnly /\ UNCHANGED <<dirty, errors, torn, lagged>>

\* Mutant: failures are left out of the marker.
CompleteAnyway == TRUE
Complete == ~run.failed

\* publishProjectPointers.
PublishProject ==
    /\ run.pc = "publish" /\ run.left # {}
    /\ \/ /\ Works /\ UNCHANGED torn
          /\ index' = [index EXCEPT ![Todo] = IF Complete THEN "complete" ELSE "partial"]
          /\ run' = [run EXCEPT !.left = @ \ {Todo}]
       \/ Fails /\ Aborted /\ UNCHANGED index
    /\ Blur /\ WriteOnly /\ UNCHANGED <<cards, issues, marker, listed>>

\* publishCommitted: the root marker, then the markers of projects that are gone.
PublishRoot ==
    /\ run.pc = "publish" /\ run.left = {}
    /\ \/ /\ Works
          /\ marker' = [valid |-> TRUE, complete |-> Complete, heads |-> run.heads,
                        board |-> run.board, ids |-> run.ids]
          /\ index' = [p \in Projects |-> IF p \in InMarker THEN index[p] ELSE "none"]
          /\ Over /\ torn' = FALSE /\ lagged' = run.lag
          /\ listed' = (listed \ Wanted) \cup {t \in Tasks : run.ids[t] # 0}
       \/ Fails /\ Aborted /\ UNCHANGED <<marker, index, lagged, listed>>
    /\ Blur
    /\ UNCHANGED <<specs, cards, issues, copied, dirty, events, made, patches, cast, crashes, unsaid>>

\* The service is restarted: boot renews every corpus and triggers a run.
Crash ==
    /\ "crash" \in cast /\ crashes < MaxCrashes
    /\ crashes' = crashes + 1
    /\ torn' = (torn \/ run.pc # "idle")
    /\ run' = IdleRun
    /\ root' = [t \in Tasks |-> IF ProjectOf[t] \in bound THEN Tip(t) ELSE root[t]]
    /\ signature' = [p \in Projects |-> IF p \in bound THEN Remote(p) ELSE 0]
    /\ graph' = root'
    /\ refill' = [p \in Projects |-> NoRefill] /\ patch' = [p \in Projects |-> NoPatch]
    /\ worktree' \in {worktree, [t \in Tasks |-> IF At(ProjectOf[t], "push") /\ patch[ProjectOf[t]].task = t
                                                    /\ worktree[t].first \in {"none", worktree[t].base}
                                               THEN [worktree[t] EXCEPT !.first = root[t]]
                                               ELSE worktree[t]]}
    /\ moved' = FALSE /\ unshared' = {p \in unshared : p \notin bound}
    /\ SyncNow
    /\ UNCHANGED <<history, bound, tracker, job, events, made, patches, cast, errors, lagged, listed>>

-----------------------------------------------------------------------------
(* People in the tracker. *)

\* Somebody sets the State of a card or deletes it; the workflow posts an event,
\* unless the listener is down.
Move(m) ==
    LET t == MoveOf[m].task
        state == MoveOf[m].state
    IN  /\ m \in cast \ made
        /\ cards[t].id # 0 /\ cards[t].state # state
        /\ cards' = [cards EXCEPT ![t] = [id    |-> IF state = "none" THEN 0 ELSE @.id,
                                         state |-> state,
                                         by    |-> "user"]]
        /\ events' \in IF "event" \in cast /\ state # "none" THEN {events, events \cup {t}} ELSE {events}
        /\ made' = made \cup {m}
        /\ UNCHANGED <<specs, issues, copied, marker, index, dirty, run, job, patches, faults, ghosts>>

\* Somebody copies a card with its SpecId, and deletes the copy.
Copy(t) ==
    /\ "copy" \in cast /\ cards[t].id # 0
    /\ copied' = IF t \in copied THEN copied \ {t} ELSE copied \cup {t}
    /\ UNCHANGED <<specs, cards, issues, marker, index, dirty, run, job, events, made, patches, faults, ghosts>>

\* Somebody edits the marker, whose signature does not hold any more, or deletes
\* the marker of a project.
Tamper ==
    /\ "tamper" \in cast
    /\ \/ marker.valid /\ marker' = NoMarker /\ listed' = {} /\ UNCHANGED index
       \/ \E p \in Projects : /\ index[p] # "none" /\ index' = [index EXCEPT ![p] = "none"]
                              /\ UNCHANGED <<marker, listed>>
    /\ UNCHANGED <<specs, cards, issues, copied, dirty, run, job, events, made, patches, faults, torn, lagged, unsaid>>

-----------------------------------------------------------------------------
(* The listener: one sweep or one event at a time. *)

JobOnly == UNCHANGED <<tracker, run, made, cast, crashes, torn, lagged, listed>>

\* What is read while a run writes, or after one broke off, may not fit together.
Unsure == torn \/ run.pc \in {"upsert", "stale", "publish"}

\* sweep: the board, the marker and the cards are read concurrently.
StartSweep ==
    /\ "sweep" \in cast /\ job.pc = "idle"
    /\ job' = [IdleJob EXCEPT !.pc = "reading", !.scope = Tasks,
                             !.due = {"board", "marker", "cards"}, !.unsure = Unsure]
    /\ JobOnly /\ UNCHANGED <<specs, dirty, events, patches, errors, unsaid>>

\* handleWritebackRequest: the card, the marker, the board, in this order.
StartEvent(t) ==
    /\ t \in events /\ job.pc = "idle"
    /\ events' = events \ {t}
    /\ job' = [IdleJob EXCEPT !.pc = "reading", !.scope = {t},
                             !.due = {"board", "marker", "cards"}, !.unsure = Unsure]
    /\ JobOnly /\ UNCHANGED <<specs, dirty, patches, errors, unsaid>>

\* The read job, with what was read; the last read plans the patches.
Owned(j, t) == j.seen[t].id # 0 /\ j.marker.ids[t] = j.seen[t].id
PlanOf(j) ==
    {t \in j.scope : /\ Owned(j, t)
                     /\ Decision(SpecStatus(j.seen[t].state), j.board[t], j.marker.board[t])}
Read(j, what) ==
    LET read == [j EXCEPT !.due = @ \ {what}]
    IN  IF read.due = {} THEN [read EXCEPT !.pc = "patching", !.plan = PlanOf(read)] ELSE read

\* An event is handled in order, a sweep reads in any order.
MayRead(what) ==
    /\ job.pc = "reading" /\ what \in job.due
    /\ \/ job.scope = Tasks
       \/ what = "cards"
       \/ what = "marker" /\ "cards" \notin job.due
       \/ what = "board" /\ "marker" \notin job.due

ReadCard ==
    /\ MayRead("cards")
    /\ \/ Works /\ job' = Read([job EXCEPT !.seen = cards], "cards")
       \/ Fails /\ job' = IdleJob
    /\ JobOnly /\ UNCHANGED <<specs, dirty, events, patches, unsaid>>

\* An event about a card the marker does not name is refused here.
ReadMarker ==
    /\ MayRead("marker")
    /\ \/ /\ Works
          /\ \E read \in {Read([job EXCEPT !.marker = marker], "marker")} :
                job' = IF job.scope = Tasks \/ \E t \in job.scope : Owned(read, t) THEN read ELSE IdleJob
       \/ Fails /\ job' = IdleJob
    /\ JobOnly /\ UNCHANGED <<specs, dirty, events, patches, unsaid>>

\* HttpBoardReader asks the service for the projects the marker names.
Named == {p \in Projects : marker.heads[p] # 0}

\* A query renews nothing: the service object answers from what it has cached.  It
\* is refused for a project without a repository (requireRepoReady), and may be for a
\* corpus under a rebuild.
ReadSpecs ==
    /\ MayRead("board")
    /\ \/ /\ Named \subseteq bound
          /\ Works
          /\ graph' = [t \in Tasks |-> IF ProjectOf[t] \in Named THEN Answer(graph)[t] ELSE graph[t]]
          /\ job' = Read([job EXCEPT !.board = [t \in Tasks |-> IF ProjectOf[t] \in Named
                                                               THEN graph'[t] ELSE "absent"]], "board")
       \/ Fails /\ job' = IdleJob /\ UNCHANGED graph
       \/ /\ \E p \in Named : p \notin bound \/ refill[p].by # "nobody"
          /\ Works
          /\ job' = IdleJob /\ UNCHANGED graph
    /\ JobOnly
    /\ UNCHANGED <<history, root, signature, refill, patch, worktree, moved, unshared, bound>>
    /\ UNCHANGED <<dirty, events, patches, unsaid>>

\* The listener waits for the answer of its spec_patch before the next one.
Waiting == \E p \in Projects : patch[p].by = "listener" /\ ~At(p, "idle")

\* setSpecTaskStatus: a spec_patch like any other.  It does not say which status
\* it means to replace; that it failed is noted.
WriteBack(t) ==
    /\ job.pc = "patching" /\ job.plan # {} /\ t = First(job.plan) /\ ~Waiting
    /\ job' = [job EXCEPT !.plan = @ \ {t}]
    /\ \/ /\ patches < MaxPatches /\ Works
          /\ Began("listener", t, SpecStatus(job.seen[t].state))
          /\ patches' = patches + 1
       \/ ProjectOf[t] \notin bound /\ Works /\ UNCHANGED <<patch, worktree, patches>>
       \/ Fails /\ UNCHANGED <<patch, worktree, patches>>
    /\ JobOnly
    /\ UNCHANGED <<history, root, signature, graph, refill, moved, unshared, bound, dirty, events, unsaid>>

EndJob ==
    /\ job.pc = "patching" /\ job.plan = {} /\ ~Waiting
    /\ job' = IdleJob
    /\ JobOnly /\ UNCHANGED <<specs, dirty, events, patches, errors, unsaid>>

-----------------------------------------------------------------------------
ProjectionStep ==
    \/ Start \/ Check \/ TakeService \/ HeadBefore \/ QueryBoard \/ HeadAfter \/ Decide \/ ReadCards
    \/ PatchCard \/ CreateCard \/ Upserted \/ RemoveCard \/ Removed
    \/ PublishProject \/ PublishRoot

JobStep ==
    \/ ReadCard \/ ReadMarker \/ ReadSpecs
    \/ (\E t \in Tasks : WriteBack(t)) \/ EndJob

\* The service's calls: rebuilds of the corpus and spec_patch.
RefillStep(p) == Fill(p) \/ Seal(p)
PatchStep(p) == Renewed(p) \/ Apply(p) \/ Push(p) \/ Drop(p) \/ Tell(p)

Next ==
    \/ \E e \in Edits : Write(e) \/ Outside(e)
    \/ \E p \in Projects :
          \/ RefillStep(p) \/ Break(p) \/ PatchStep(p) \/ Unbind(p)
          \/ \E who \in {"reconciler", "client", "writer"} : Clear(who, p)
    \/ AfterReconcile \/ ProjectionStep \/ Crash
    \/ \E m \in Moves : Move(m)
    \/ \E t \in Tasks : Copy(t) \/ StartEvent(t)
    \/ Tamper \/ StartSweep \/ JobStep

Spec == Init /\ [][Next]_vars

\* What the service does by itself: its calls go on, and the interval of the sync
\* comes round.
ServiceStep ==
    \/ \E p \in Projects :
          RefillStep(p) \/ PatchStep(p) \/ Clear("reconciler", p) \/ Clear("writer", p)
    \/ AfterReconcile

\* What the listener does: the interval of the sweep comes round, and events and jobs
\* follow each other in one chain.
ListenerStep == StartSweep \/ (\E t \in Tasks : StartEvent(t)) \/ JobStep

FairSpec == Spec /\ WF_vars(ProjectionStep) /\ WF_vars(ServiceStep) /\ WF_vars(ListenerStep)

-----------------------------------------------------------------------------
MarkerType == [valid : BOOLEAN, complete : BOOLEAN, heads : [Projects -> Nat],
               board : [Tasks -> Statuses], ids : [Tasks -> Nat]]
RefillType == [by : {"nobody", "reconciler", "client", "writer"}, to : Nat, left : SUBSET Tasks]
PatchType == [pc : {"idle", "renew", "apply", "push", "drop", "refresh", "tell"},
              by : {"client", "listener"}, task : Tasks \cup {"none"}, status : Statuses]
CardType == [id : Nat, state : States \cup {"none"}, by : {"run", "user"}]

\* Every variable has its type; a card never shows what is not a State of the tracker.
TypeOK ==
    /\ \A p \in Projects : /\ history[p] \in Seq([TasksOf(p) -> Statuses])
                            /\ signature[p] \in 0..Remote(p)
    /\ root \in [Tasks -> Statuses] /\ graph \in [Tasks -> Statuses \cup {"unread"}]
    /\ refill \in [Projects -> RefillType] /\ patch \in [Projects -> PatchType]
    /\ worktree \in [Tasks -> [base : Statuses \cup {"none"}, first : Statuses \cup {"none"}]]
    /\ moved \in BOOLEAN /\ unshared \subseteq Projects /\ bound \subseteq Projects
    /\ cards \in [Tasks -> CardType] /\ issues \in Nat /\ copied \subseteq Tasks
    /\ marker \in MarkerType /\ index \in [Projects -> {"none", "partial", "complete"}]
    /\ dirty \in BOOLEAN /\ events \subseteq Tasks /\ made \subseteq Edits \cup Moves
    /\ run.pc \in {"idle", "check", "before", "head", "query", "after", "cards", "upsert", "stale", "publish"}
    /\ run.ptr \in MarkerType /\ run.seen \in [Tasks -> CardType]
    /\ run.old \in [Tasks -> Statuses \cup {"unread"}]
    /\ job.pc \in {"idle", "reading", "patching"}
    /\ job.marker \in MarkerType /\ job.plan \subseteq Tasks

\* The heads in a complete marker are those its board was read at, so that equal
\* heads may stand for an equal board (projection.js, cheapCheck and mergedBoard),
\* also when a write or a rebuild came between the samples - unless, when the head
\* was sampled, the corpus was behind the remote, its service had been dropped or a
\* write was refreshing it, or the corpus held a patch that was never pushed.
HeadsVouch ==
    marker.complete /\ ~lagged =>
        \A p \in Projects : marker.heads[p] # 0 =>
            \A t \in TasksOf(p) : marker.board[t] = Content(p, marker.heads[p])[t]

\* While no run is under way and none broke off, every card nobody touched by hand
\* shows what a complete marker says was written, and no card is left of a task the
\* markers listed and the board has lost (upsertCards, removeStaleCards, sync).
CompleteIsWritten ==
    marker.complete /\ run.pc = "idle" /\ ~torn =>
        \A t \in Tasks :
            IF marker.board[t] = "absent"
            THEN t \in listed => cards[t].id = 0
            ELSE \/ cards[t].by = "user"
                 \/ cards[t].id = marker.ids[t] /\ cards[t].state = DesiredState(marker.board[t])

\* A status written back to the specs is one somebody chose in the tracker, never an
\* older one of the specs that a card still shows (youtrack-status-sweep.js) - unless
\* a run was writing while the listener read, broke off, or failed on a card.
OnlyUsersSpeak ==
    [][\A t \in Tasks : WriteBack(t) /\ patch' # patch =>
          job.seen[t].by = "user" \/ job.unsure \/ ~job.marker.complete]_vars

\* What the tracker should show of a task.
ShownTip(t) ==
    ProjectOf[t] \in bound =>
        IF Tip(t) = "absent"
        THEN t \in listed => cards[t].id = 0
        ELSE cards[t].by = "user" \/ cards[t].state = DesiredState(Tip(t))

\* Once edits stop, the tracker shows the specs: no trigger is lost between the loop,
\* the writers and the reconciler (syncNow, runLoop) - unless a run broke off or could
\* not write a card and nothing triggered another one, a read renewed the corpus
\* before the reconciler saw the move, the marker was built from a corpus that was not
\* the remote's, or the corpus keeps a patch that was never pushed.
EventuallyShown ==
    <>[](\/ \A t \in Tasks : ShownTip(t)
         \/ torn \/ unsaid \/ lagged \/ ~marker.complete \/ unshared # {})

\* A card whose State somebody changed and whose status the specs do not have yet,
\* though they are where the marker says they were.
Unheard(t) ==
    /\ cards[t].by = "user" /\ cards[t].id # 0 /\ marker.ids[t] = cards[t].id
    /\ ProjectOf[t] \in bound /\ Tip(t) = marker.board[t] /\ Tip(t) \in Representable
    /\ SpecStatus(cards[t].state) \notin {"unmapped", Tip(t)}
    /\ patches < MaxPatches

\* A write to the task failed for good: its commit waits in the worktree, and the
\* corpus may show a status the remote does not have.
Stranded(t) == worktree[t].first # "none"

\* With the sweep, a status chosen in the tracker is heard: it is written to the
\* specs, or an edit of the specs or a run overrules it, also when the event or a
\* request was lost (StatusSweepService, runSweep) - unless a push failed for good.
UserHeard == \A t \in Tasks : "sweep" \in cast /\ Unheard(t) ~> ~Unheard(t) \/ Stranded(t)
=============================================================================
