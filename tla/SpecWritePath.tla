---------------------------- MODULE SpecWritePath ----------------------------
(***************************************************************************)
(* The write path of the service for one spec of one project: spec_patch   *)
(* (writepath.js), the work-branch operations (spec-branches.js), the       *)
(* project's write lock and materialised corpus (mounts.js), the worktree   *)
(* and the mirror (spec-checkouts.js), leases (claims.js) and the replay of  *)
(* local commits (reconcileClone in sync.js).                               *)
(*                                                                         *)
(* The content of a spec is a set of items, each in a document of its own:   *)
(* "base" for what the spec was created with, one item per applied patch and *)
(* one per commit pushed by an author past the service.  Git history is a    *)
(* sequence of commits; a commit knows the indices of its ancestors, itself   *)
(* included.                                                               *)
(***************************************************************************)
EXTENDS Integers, Sequences, FiniteSets

CONSTANTS
    Writes,        \* spec_patch requests
    Merges,        \* spec_branch merge calls for the topic branch
    Creates,       \* spec_branch create calls for the topic branch
    Deletes,       \* spec_branch delete calls for the topic branch
    Queries,       \* reads that materialise the corpus
    Edits,         \* commits authors push to the spec past the service
    TopicEdits,    \* commits authors push to the topic branch
    Logins,
    HolderOf,      \* the login of each call
    Forced,        \* the calls made with force: true by an owner
    Casts,         \* who acts, and what may go wrong, in a behaviour
    MaxErrors,     \* bound: failing git commands in a behaviour
    MaxCrashes,    \* bound: restarts of the service in a behaviour
    MaxTries       \* bound: how often a client repeats a refused request

Branching == Merges \cup Creates \cup Deletes
Calls == Writes \cup Branching
Actors == Calls \cup Queries
Items == {"base"} \cup Writes \cup Edits \cup TopicEdits
Branches == {"spec", "topic"}

\* "topic": the work branch exists at first; "network": a git command that talks
\* to the remote may fail; "disk": a local one may; "conflict": replays and
\* merges may conflict; "registry": the index is read; "lease": logins take it;
\* "crash": the service is restarted.
Kinds == {"topic", "network", "disk", "conflict", "registry", "lease", "crash"}

ASSUME CallsAssumption ==
    /\ HolderOf \in [Calls -> Logins]
    /\ "nobody" \notin Logins \cup Actors
    /\ Forced \subseteq Calls
    /\ Writes \cap Branching = {} /\ Queries \cap Calls = {}
    /\ Merges \cap (Creates \cup Deletes) = {} /\ Creates \cap Deletes = {}
ASSUME ItemsAssumption ==
    Writes \cap (Edits \cup TopicEdits) = {} /\ "base" \notin Writes \cup Edits \cup TopicEdits
ASSUME CastsAssumption == Casts \subseteq SUBSET (Actors \cup Edits \cup TopicEdits \cup Kinds)
ASSUME BoundsAssumption == MaxErrors \in Nat /\ MaxCrashes \in Nat /\ MaxTries \in Nat

VARIABLES
    commits,   \* every commit made so far
    origin,    \* the branch tips of the remote; 0: no such branch
    mirror,    \* refs/remotes/origin/* of the bare mirror
    head,      \* the tip of the worktree's own branch; 0: no worktree yet
    tree,      \* the files (and index) of the worktree
    root,      \* the project's materialised corpus on disk
    signature, \* the tip the corpus was built from (projectRoots); 0: not cached
    builder,   \* who rebuilds the corpus (projectLocks)
    left,      \* the documents the rebuild has listed and not yet written
    raced,     \* history: somebody else's rebuild of the corpus overlapped the
               \* apply and copy of a write, or a rebuild broke off
    applied,   \* the kernel service's answers by request id
    lock,      \* the chain of the project's write lock, its holder first
    claim,     \* the login that holds the lease on the spec
    barred,    \* branch calls that wait while another login holds the lease
    pc, result, tries,
    want,      \* what was read for a later step: the signature a rebuild was
               \* started for, the tip a deletion was checked for
    cast, errors, crashes

git == <<commits, origin, mirror, head, tree>>
corpus == <<root, signature, builder, left, raced, applied>>
lease == <<claim, barred>>
calls == <<pc, result, tries, want>>
faults == <<cast, errors, crashes>>
vars == <<git, corpus, lock, lease, calls, faults>>

Init ==
    /\ cast \in Casts
    /\ origin = [b \in Branches |-> IF b = "spec" \/ "topic" \in cast THEN 1 ELSE 0]
    /\ commits = <<[past |-> {1}, tree |-> {"base"}, foreign |-> FALSE]>>
    /\ mirror = origin
    /\ head = 0 /\ tree = {} /\ root = {} /\ signature = 0
    /\ builder = "nobody" /\ left = {} /\ applied = {} /\ lock = <<>>
    /\ claim = "nobody" /\ barred = {}
    /\ pc = [a \in Actors |-> "idle"]
    /\ result = [c \in Calls |-> "none"]
    /\ tries = [c \in Calls |-> 0]
    /\ want = [a \in Actors |-> 0]
    /\ errors = 0 /\ crashes = 0 /\ raced = FALSE

-----------------------------------------------------------------------------
(* Git. *)

Past(i) == IF i = 0 THEN {} ELSE commits[i].past
Tree(i) == IF i = 0 THEN {} ELSE commits[i].tree

\* The commit made next, on top of the given ancestors.
NewCommit == Len(commits) + 1
Commit(past, content, foreign) ==
    commits' = Append(commits, [past    |-> past \cup {NewCommit},
                                tree    |-> content,
                                foreign |-> foreign])

MergeBase(i, j) ==
    CHOOSE k \in Past(i) \cap Past(j) : \A l \in Past(i) \cap Past(j) : l <= k

\* Mutant: the strategy that keeps ours.
MergedOurs(ours, theirs) == Tree(ours)
\* Three-way merge of contents: what theirs changed since the base, done to ours.
Merged(ours, theirs) ==
    LET base == Tree(MergeBase(ours, theirs))
    IN  (Tree(ours) \cup (Tree(theirs) \ base)) \ (base \ Tree(theirs))

Ahead == Past(head) \ Past(mirror["spec"])
Clean == tree = Tree(head)

\* A git command fails (kind: "network" or "disk"), or does not.
Fails(kind) == kind \in cast /\ errors < MaxErrors /\ errors' = errors + 1
Works == errors' = errors

\* ensureMirror; a fetch that fails is logged and the mirror used as it is.
Fetch == \/ mirror' = origin /\ Works
         \/ mirror' = mirror /\ Fails("network")

\* The same fetch after a push to the URL of the repository.
Refetch == \/ mirror' = origin' /\ Works
           \/ mirror' = mirror /\ Fails("network")

\* Mutant: a push with +.
PushedForce(b, tip) ==
    /\ origin' = [origin EXCEPT ![b] = tip]
    /\ mirror' = [mirror EXCEPT ![b] = tip]
    /\ Works
\* git push HEAD:branch.  A refused push, one that never reached the remote and
\* one whose answer was lost look the same to the caller.
Pushed(b, tip) ==
    /\ origin[b] \in Past(tip) \cup {0}
    /\ origin' = [origin EXCEPT ![b] = tip]
    /\ mirror' = [mirror EXCEPT ![b] = tip]
    /\ Works
PushRaises(b, tip) ==
    /\ UNCHANGED mirror
    /\ \/ origin[b] \notin Past(tip) \cup {0} /\ UNCHANGED origin /\ Works
       \/ UNCHANGED origin /\ Fails("network")
       \/ /\ origin[b] \in Past(tip) \cup {0}
          /\ origin' = [origin EXCEPT ![b] = tip]
          /\ Fails("network")

-----------------------------------------------------------------------------
(* The write lock, the lease, and answers. *)

Goto(a, label) == pc' = [pc EXCEPT ![a] = label]
Holds(c) == lock # <<>> /\ Head(lock) = c

\* Mutant: no finally around the release.
FinishLocked(c, answer) ==
    /\ Goto(c, "done")
    /\ result' = [result EXCEPT ![c] = answer]
    /\ lock' = IF answer = "ok" THEN Tail(lock) ELSE lock
\* The answer of a call that holds the lock; the lock goes to the next caller.
Finish(c, answer) ==
    /\ Goto(c, "done")
    /\ result' = [result EXCEPT ![c] = answer]
    /\ lock' = Tail(lock)

\* Another login holds the lease.
Claimed(c) == claim \notin {"nobody", HolderOf[c]}

\* spec_patch checks the lease, then waits for the lock; the branch operations
\* wait for the lock, then check the lease.
Issue(c) ==
    /\ c \in cast /\ pc[c] = "idle"
    /\ IF c \in Writes \ Forced /\ Claimed(c)
       THEN /\ Goto(c, "done")
            /\ result' = [result EXCEPT ![c] = "claim held"]
            /\ UNCHANGED <<lock, barred>>
       ELSE /\ Goto(c, "queued")
            /\ lock' = Append(lock, c)
            /\ barred' = IF c \in Branching /\ Claimed(c) THEN barred \cup {c} ELSE barred
            /\ UNCHANGED result
    /\ UNCHANGED <<git, corpus, claim, tries, want, faults>>

\* spec_claim, and the end of a lease: spec_release or the expiry of its time.
Claim(l) ==
    /\ "lease" \in cast /\ claim = "nobody"
    /\ claim' = l
    /\ barred' = {c \in Branching : pc[c] = "queued" /\ HolderOf[c] # l}
    /\ UNCHANGED <<git, corpus, lock, calls, faults>>
EndLease ==
    /\ claim # "nobody"
    /\ claim' = "nobody" /\ barred' = {}
    /\ UNCHANGED <<git, corpus, lock, calls, faults>>

\* Mutant: the client never gives up.
RetryUnbounded(w) ==
    /\ result[w] \in {"push failed", "lost"}
    /\ tries' = [tries EXCEPT ![w] = @ + 1]
    /\ result' = [result EXCEPT ![w] = "none"]
    /\ Goto(w, "idle")
    /\ UNCHANGED <<git, corpus, lock, lease, want, faults>>
\* A client repeats a write that was refused as retryable or never answered.
Retry(w) ==
    /\ result[w] \in {"push failed", "lost"} /\ tries[w] < MaxTries
    /\ tries' = [tries EXCEPT ![w] = @ + 1]
    /\ result' = [result EXCEPT ![w] = "none"]
    /\ Goto(w, "idle")
    /\ UNCHANGED <<git, corpus, lock, lease, want, faults>>

-----------------------------------------------------------------------------
(* The worktree and the corpus. *)

\* ensureWorktree: an existing worktree is reset to its own branch, never moved
\* to the remote's; a new one starts at the mirror's ref.
WorktreeHead(ref) == IF head = 0 THEN ref ELSE head

EnterWrite(w) ==
    /\ w \in Writes /\ pc[w] = "queued" /\ Holds(w)
    /\ Fetch
    /\ head' = WorktreeHead(mirror'["spec"]) /\ tree' = Tree(head')
    /\ Goto(w, "root")
    /\ UNCHANGED <<commits, origin, corpus, lock, lease, result, tries, want, cast, crashes>>

\* Where a caller of projectRoot goes on; a query is answered.
After(a) == IF a \in Queries THEN "idle"
            ELSE IF result[a] = "none" THEN "apply" ELSE "reply"

\* a goes on with the corpus as it is, also while another call rebuilds it.
Proceed(a) ==
    /\ Goto(a, After(a))
    /\ raced' = (raced \/ (After(a) = "apply" /\ builder # "nobody"))

\* projectRoot: fetch, read the tips and compare them with the cached signature.
CheckRoot(a) ==
    /\ \/ a \in Queries \cap cast /\ pc[a] = "idle"
       \/ a \in Calls /\ pc[a] = "root"
    /\ Fetch
    /\ want' = [want EXCEPT ![a] = mirror'["spec"]]
    /\ IF signature = mirror'["spec"] THEN Proceed(a)
                                     ELSE Goto(a, "rebuild") /\ UNCHANGED raced
    /\ UNCHANGED <<commits, origin, head, tree, root, signature, builder, left, applied>>
    /\ UNCHANGED <<lock, lease, result, tries, cast, crashes>>

\* The comparison comes after the tips of all specs were read, and again under
\* the project lock; then the corpus is removed.
ClearRoot(a) ==
    /\ pc[a] = "rebuild"
    /\ \/ /\ signature = want[a]
          /\ Proceed(a)
          /\ UNCHANGED <<root, builder>>
       \/ /\ signature # want[a] /\ builder = "nobody"
          /\ Goto(a, "list") /\ root' = {} /\ builder' = a
          /\ raced' = (raced \/ \E w \in Writes : pc[w] \in {"apply", "sync"})
    /\ UNCHANGED <<git, signature, left, applied, lock, lease, result, tries, want, faults>>

\* git ls-tree of the ref as it is by now.
ListRoot(a) ==
    /\ pc[a] = "list"
    /\ left' = Tree(mirror["spec"])
    /\ Goto(a, "fill")
    /\ UNCHANGED <<git, root, signature, builder, raced, applied, lock, lease, result, tries, want, faults>>

\* git show and writeFile, one document after the other, each from the ref as it
\* is then.
FillRoot(a) ==
    /\ pc[a] = "fill"
    /\ \E d \in left \cap Tree(mirror["spec"]) : root' = root \cup {d} /\ left' = left \ {d}
    /\ Goto(a, "fill")
    /\ UNCHANGED <<git, signature, builder, raced, applied, lock, lease, result, tries, want, faults>>

\* The corpus is cached under the signature read first; the kernel service of the
\* old one is dropped.
SignRoot(a) ==
    /\ pc[a] = "fill" /\ left = {}
    /\ signature' = want[a]
    /\ applied' = {}
    /\ builder' = "nobody"
    /\ Goto(a, After(a))
    /\ UNCHANGED <<git, root, left, raced, lock, lease, result, tries, want, faults>>

\* A listed document is no longer in the ref, or a local command fails: the call
\* is answered with the error, which refreshProject swallows.
BreakRoot(a) ==
    /\ pc[a] \in {"list", "fill"}
    /\ \/ pc[a] = "fill" /\ left \ Tree(mirror["spec"]) # {} /\ Works
       \/ Fails("disk")
    /\ builder' = "nobody" /\ left' = {} /\ raced' = TRUE
    /\ IF After(a) = "apply" THEN Finish(a, "git failed")
                            ELSE Goto(a, After(a)) /\ UNCHANGED <<result, lock>>
    /\ UNCHANGED <<git, root, signature, applied, lease, tries, want, cast, crashes>>

\* Mutant: the lock is released before the corpus is rebuilt.
RefreshUnlocked(c) ==
    /\ pc[c] = "refresh"
    /\ signature' = 0
    /\ Goto(c, "root")
    /\ lock' = Tail(lock)
    /\ UNCHANGED <<git, root, builder, left, raced, applied, lease, result, tries, want, faults>>
\* A call that changed the remote drops the cached signature and rebuilds.
Refresh(c) ==
    /\ pc[c] = "refresh"
    /\ signature' = 0
    /\ Goto(c, "root")
    /\ UNCHANGED <<git, root, builder, left, raced, applied, lock, lease, result, tries, want, faults>>

Reply(c) ==
    /\ pc[c] = "reply"
    /\ Finish(c, result[c])
    /\ UNCHANGED <<git, corpus, lease, tries, want, faults>>

\* A registry read makes the worktree or resets it to its branch, outside the lock.
IndexRead ==
    /\ "registry" \in cast
    /\ head' = WorktreeHead(mirror["spec"]) /\ tree' = Tree(head')
    /\ UNCHANGED <<commits, origin, mirror, corpus, lock, lease, calls, faults>>

-----------------------------------------------------------------------------
(* spec_patch, after the worktree and the corpus are there. *)

\* The kernel replays a request it has answered; it refuses a patch whose base
\* is not there, or that the corpus already holds.
Apply(w) ==
    /\ pc[w] = "apply"
    /\ \/ /\ w \in applied \/ ("base" \in root /\ w \notin root)
          /\ root' = IF w \in applied THEN root ELSE root \cup {w}
          /\ applied' = applied \cup {w}
          /\ Goto(w, "sync")
          /\ UNCHANGED <<result, lock>>
       \/ /\ w \notin applied /\ ("base" \notin root \/ w \in root)
          /\ Finish(w, "refused")
          /\ UNCHANGED <<root, applied>>
    /\ UNCHANGED <<git, signature, builder, left, raced, lease, tries, want, faults>>

\* syncSpecTree removes the spec from the worktree, then copies the corpus; a
\* corpus another rebuild has just removed cannot be copied.
Sync(w) ==
    /\ pc[w] = "sync"
    /\ \/ root # {} /\ tree' = root /\ Goto(w, "commit") /\ Works
       \/ root = {} /\ tree' = {} /\ Goto(w, "reconcile") /\ Works
       \/ tree' = {} /\ Goto(w, "reconcile") /\ Fails("disk")
    /\ UNCHANGED <<commits, origin, mirror, head, corpus, lock, lease, result, tries, want, cast, crashes>>

CommitWrite(w) ==
    /\ pc[w] = "commit"
    /\ \/ /\ Commit(Past(head), tree, FALSE)
          /\ head' = NewCommit
          /\ Goto(w, "push") /\ Works
       \/ /\ Goto(w, "reconcile") /\ Fails("disk")
          /\ UNCHANGED <<commits, head>>
    /\ UNCHANGED <<origin, mirror, tree, corpus, lock, lease, result, tries, want, cast, crashes>>

\* pushBotCommits: only commits of the service are pushed; merges are not judged.
Foreign == \E i \in Ahead : commits[i].foreign

RefuseForeign(w) ==
    /\ pc[w] \in {"push", "repush"} /\ Foreign
    /\ Finish(w, "foreign")
    /\ UNCHANGED <<git, corpus, lease, tries, want, faults>>

PushWrite(w) ==
    /\ pc[w] \in {"push", "repush"} /\ ~Foreign
    /\ Pushed("spec", head)
    /\ Goto(w, "refresh")
    /\ result' = [result EXCEPT ![w] = "ok"]
    /\ UNCHANGED <<commits, head, tree, corpus, lock, lease, tries, want, cast, crashes>>

\* The first failure is replayed; the second is the client's.
PushWriteRaises(w) ==
    /\ pc[w] \in {"push", "repush"} /\ ~Foreign
    /\ PushRaises("spec", head)
    /\ IF pc[w] = "push" THEN Goto(w, "reconcile") /\ UNCHANGED <<result, lock>>
                         ELSE Finish(w, "push failed")
    /\ UNCHANGED <<commits, head, tree, corpus, lease, tries, want, cast, crashes>>

\* Mutant: git reset --hard to the remote's tip.
ReplayNothing ==
    /\ head' = origin["spec"] /\ tree' = Tree(head')
    /\ UNCHANGED commits
\* Mutant: only a fast-forward is ever tried.
ReplayNever == UNCHANGED <<commits, head, tree>>
\* git rebase of the local commits onto the remote's tip, here into one commit.
Replay ==
    /\ Clean
    /\ Commit(Past(origin["spec"]), Merged(origin["spec"], head),
              \E i \in Past(head) \ Past(origin["spec"]) : commits[i].foreign)
    /\ head' = NewCommit /\ tree' = commits'[NewCommit].tree

\* reconcileClone: fetch; the worktree follows a remote that moved, local commits
\* are replayed; a replay that fails leaves them where they are.
Reconcile(w) ==
    /\ pc[w] = "reconcile"
    /\ mirror' = origin
    /\ Goto(w, "repush")
    /\ LET ahead  == ~(Past(head) \subseteq Past(origin["spec"]))
           behind == ~(Past(origin["spec"]) \subseteq Past(head))
       IN  \/ ~behind /\ UNCHANGED <<commits, head, tree>>
           \/ /\ behind /\ ~ahead /\ Clean
              /\ head' = origin["spec"] /\ tree' = Tree(head')
              /\ UNCHANGED commits
           \/ behind /\ ahead /\ Replay
           \/ /\ behind /\ ahead /\ (~Clean \/ "conflict" \in cast)
              /\ UNCHANGED <<commits, head, tree>>
    /\ UNCHANGED <<origin, corpus, lock, lease, result, tries, want, faults>>

\* The fetch fails, or the fast-forward meets a dirty worktree.
ReconcileRaises(w) ==
    /\ pc[w] = "reconcile"
    /\ Finish(w, "push failed")
    /\ \/ Fails("network") /\ UNCHANGED mirror
       \/ /\ mirror' = origin /\ Works
          /\ ~Clean /\ Past(head) \subseteq Past(origin["spec"]) /\ head # origin["spec"]
    /\ UNCHANGED <<commits, origin, head, tree, corpus, lease, tries, want, cast, crashes>>

-----------------------------------------------------------------------------
(* The work-branch operations, under the write lock. *)

\* The lease is checked first; then the repository is fetched.
Enter(c) == c \in Branching /\ pc[c] = "queued" /\ Holds(c)

RefuseClaimed(c) ==
    /\ Enter(c) /\ Claimed(c)
    /\ Finish(c, "claim held")
    /\ barred' = barred \ {c}
    /\ UNCHANGED <<git, corpus, claim, tries, want, faults>>

\* createWork: the topic branch starts at the spec's tip as last fetched; the
\* answer does not wait for the corpus.
CreateWork(c) ==
    /\ c \in Creates /\ Enter(c) /\ ~Claimed(c)
    /\ Fetch
    /\ IF mirror'["topic"] # 0
       THEN Finish(c, "branch exists")
       ELSE Goto(c, "create") /\ UNCHANGED <<result, lock>>
    /\ UNCHANGED <<commits, origin, head, tree, corpus, lease, tries, want, cast, crashes>>

PushCreated(c) ==
    /\ pc[c] = "create"
    /\ \/ /\ origin["topic"] \in Past(mirror["spec"]) \cup {0}
          /\ origin' = [origin EXCEPT !["topic"] = mirror["spec"]]
          /\ Refetch
          /\ Finish(c, "ok")
       \/ PushRaises("topic", mirror["spec"]) /\ Finish(c, "git failed")
    /\ UNCHANGED <<commits, head, tree, corpus, lease, tries, want, cast, crashes>>

\* Mutant: a merge is not a write to the lease.
EnterMergeUnclaimed(c) ==
    /\ c \in Merges /\ Enter(c)
    /\ Fetch
    /\ IF mirror'["topic"] = 0 THEN Finish(c, "not found")
       ELSE IF Tree(mirror'["topic"]) = Tree(mirror'["spec"]) THEN Finish(c, "noop")
       ELSE Goto(c, "merge") /\ UNCHANGED <<result, lock>>
    /\ UNCHANGED <<commits, origin, head, tree, corpus, lease, tries, want, cast, crashes>>
\* mergeWork: nothing to do, or on to the worktree.
EnterMerge(c) ==
    /\ c \in Merges /\ Enter(c) /\ ~Claimed(c)
    /\ Fetch
    /\ IF mirror'["topic"] = 0 THEN Finish(c, "not found")
       ELSE IF Tree(mirror'["topic"]) = Tree(mirror'["spec"]) THEN Finish(c, "noop")
       ELSE Goto(c, "merge") /\ UNCHANGED <<result, lock>>
    /\ UNCHANGED <<commits, origin, head, tree, corpus, lease, tries, want, cast, crashes>>

\* The worktree follows the spec if it can, then takes the topic in as a merge
\* commit, unless it has it already.
MergeTopic(c) ==
    /\ pc[c] = "merge"
    /\ Fetch
    /\ LET old  == WorktreeHead(mirror'["spec"])
           spec == mirror'["spec"]
           base == IF Past(old) \subseteq Past(spec) THEN spec ELSE old
           done == Past(mirror'["topic"]) \subseteq Past(base)
       IN  \/ /\ Past(spec) \subseteq Past(base) /\ mirror'["topic"] # 0
              /\ head' = IF done THEN base ELSE NewCommit
              /\ IF done THEN UNCHANGED commits
                 ELSE Commit(Past(base) \cup Past(mirror'["topic"]),
                             Merged(base, mirror'["topic"]), FALSE)
              /\ Goto(c, "pushMerge")
              /\ UNCHANGED <<result, lock>>
           \/ /\ ~(Past(spec) \subseteq Past(base))
                 \/ (~done /\ "conflict" \in cast) \/ mirror'["topic"] = 0
              /\ head' = base
              /\ Finish(c, "git failed")
              /\ UNCHANGED commits
    /\ tree' = IF head' = NewCommit THEN commits'[NewCommit].tree ELSE Tree(head')
    /\ UNCHANGED <<origin, corpus, lease, tries, want, cast, crashes>>

\* The merge is pushed without a look at its authors.
PushMerge(c) ==
    /\ pc[c] = "pushMerge"
    /\ \/ /\ Pushed("spec", head)
          /\ Goto(c, "dropTopic")
          /\ UNCHANGED <<result, lock>>
       \/ /\ PushRaises("spec", head)
          /\ Finish(c, "git failed")
    /\ UNCHANGED <<commits, head, tree, corpus, lease, tries, want, cast, crashes>>

\* The merged branch is deleted as it is by now; a failure is only logged.
DropTopic(c) ==
    /\ pc[c] = "dropTopic"
    /\ \/ /\ origin' = [origin EXCEPT !["topic"] = 0]
          /\ mirror' = [mirror EXCEPT !["topic"] = 0]
          /\ Works
       \/ Fails("network") /\ UNCHANGED <<origin, mirror>>
    /\ result' = [result EXCEPT ![c] = "ok"]
    /\ Goto(c, "refresh")
    /\ UNCHANGED <<commits, head, tree, corpus, lock, lease, tries, want, cast, crashes>>

\* deleteWork: only a merged branch, unless forced; the fetch must succeed.
CheckDelete(c) ==
    /\ c \in Deletes /\ Enter(c) /\ ~Claimed(c)
    /\ \/ /\ mirror' = origin /\ Works
          /\ IF origin["topic"] = 0 THEN Finish(c, "not found")
             ELSE IF ~(Past(origin["topic"]) \subseteq Past(origin["spec"])) /\ c \notin Forced
                  THEN Finish(c, "not merged")
             ELSE Goto(c, "tip") /\ UNCHANGED <<result, lock>>
       \/ Fails("network") /\ UNCHANGED mirror /\ Finish(c, "unreachable")
    /\ UNCHANGED <<commits, origin, head, tree, corpus, lease, tries, want, cast, crashes>>

\* The tip to delete is read from the mirror again, which a read may have fetched.
ReadTip(c) ==
    /\ pc[c] = "tip"
    /\ IF mirror["topic"] = 0
       THEN Finish(c, "not found") /\ UNCHANGED want
       ELSE /\ want' = [want EXCEPT ![c] = mirror["topic"]]
            /\ Goto(c, "delete") /\ UNCHANGED <<result, lock>>
    /\ UNCHANGED <<git, corpus, lease, tries, faults>>

\* Mutant: the branch is deleted whatever it is by now.
DeleteWithoutLease(c) ==
    /\ pc[c] = "delete"
    /\ origin["topic"] # 0
    /\ origin' = [origin EXCEPT !["topic"] = 0]
    /\ Refetch /\ Finish(c, "ok")
    /\ UNCHANGED <<commits, head, tree, corpus, lease, tries, want, cast, crashes>>
\* With a lease on the tip that was read.
DeleteWork(c) ==
    /\ pc[c] = "delete"
    /\ \/ /\ origin["topic"] = want[c]
          /\ origin' = [origin EXCEPT !["topic"] = 0]
          /\ \/ Refetch /\ Finish(c, "ok")
             \/ UNCHANGED mirror /\ Fails("network") /\ Finish(c, "git failed")
       \/ /\ UNCHANGED <<origin, mirror>>
          /\ Finish(c, "git failed")
          /\ \/ origin["topic"] # want[c] /\ Works
             \/ Fails("network")
    /\ UNCHANGED <<commits, head, tree, corpus, lease, tries, want, cast, crashes>>

-----------------------------------------------------------------------------
(* Around the service. *)

\* An author pushes a commit on top of the branch as it is.
AuthorPush(e) ==
    LET b == IF e \in Edits THEN "spec" ELSE "topic"
    IN  /\ e \in cast /\ origin[b] # 0
        /\ \A i \in DOMAIN commits : e \notin Tree(i)
        /\ Commit(Past(origin[b]), Tree(origin[b]) \cup {e}, TRUE)
        /\ origin' = [origin EXCEPT ![b] = NewCommit]
        /\ UNCHANGED <<mirror, head, tree, corpus, lock, lease, calls, faults>>

\* A restart: what is in memory is gone, calls under way are never answered;
\* the lease store and the disk remain.
Crash ==
    /\ "crash" \in cast /\ crashes < MaxCrashes
    /\ \E a \in Actors : pc[a] \notin {"idle", "done"}
    /\ crashes' = crashes + 1
    /\ signature' = 0 /\ builder' = "nobody" /\ left' = {} /\ applied' = {} /\ lock' = <<>>
    /\ barred' = {}
    /\ pc' = [a \in Actors |-> IF pc[a] = "idle" \/ a \in Queries THEN "idle" ELSE "done"]
    /\ result' = [c \in Calls |-> IF pc[c] \in {"idle", "done"} THEN result[c] ELSE "lost"]
    /\ UNCHANGED <<git, root, raced, claim, tries, want, cast, errors>>

WriteStep(w) == \/ Issue(w) \/ EnterWrite(w) \/ Apply(w) \/ Sync(w) \/ CommitWrite(w)
                \/ RefuseForeign(w) \/ PushWrite(w) \/ PushWriteRaises(w)
                \/ Reconcile(w) \/ ReconcileRaises(w)
BranchStep(c) == \/ Issue(c) \/ RefuseClaimed(c) \/ CreateWork(c) \/ PushCreated(c)
                 \/ EnterMerge(c) \/ MergeTopic(c) \/ PushMerge(c) \/ DropTopic(c)
                 \/ CheckDelete(c) \/ ReadTip(c) \/ DeleteWork(c)
RootStep(a) == \/ CheckRoot(a) \/ ClearRoot(a) \/ ListRoot(a)
               \/ FillRoot(a) \/ SignRoot(a) \/ BreakRoot(a)
AnswerStep(c) == Refresh(c) \/ Reply(c)

Next == \/ \E w \in Writes : WriteStep(w) \/ Retry(w)
        \/ \E c \in Branching : BranchStep(c)
        \/ \E a \in Actors : RootStep(a)
        \/ \E c \in Calls : AnswerStep(c)
        \/ \E l \in Logins : Claim(l)
        \/ EndLease \/ IndexRead \/ Crash
        \/ \E e \in Edits \cup TopicEdits : AuthorPush(e)

\* Node runs every continuation; git commands end; clients repeat what they may.
Fairness == /\ \A w \in Writes : WF_vars(WriteStep(w)) /\ WF_vars(Retry(w))
            /\ \A c \in Branching : WF_vars(BranchStep(c))
            /\ \A a \in Actors : WF_vars(pc[a] # "idle" /\ RootStep(a))
            /\ \A c \in Calls : WF_vars(AnswerStep(c))
Spec == Init /\ [][Next]_vars
FairSpec == Spec /\ Fairness

-----------------------------------------------------------------------------
(* Properties. *)

Labels == {"idle", "queued", "root", "rebuild", "list", "fill", "apply", "sync", "commit", "push",
           "reconcile", "repush", "create", "merge", "pushMerge", "dropTopic", "tip", "delete",
           "refresh", "reply", "done"}
Results == {"none", "ok", "claim held", "refused", "foreign", "push failed", "lost",
            "branch exists", "git failed", "not found", "noop", "not merged", "unreachable"}

\* Type invariant.
TypeOK ==
    /\ commits \in Seq([past : SUBSET (1..Len(commits)), tree : SUBSET Items, foreign : BOOLEAN])
    /\ origin \in [Branches -> 0..Len(commits)] /\ mirror \in [Branches -> 0..Len(commits)]
    /\ head \in 0..Len(commits) /\ tree \subseteq Items /\ root \subseteq Items
    /\ signature \in 0..Len(commits) /\ builder \in Actors \cup {"nobody"} /\ left \subseteq Items
    /\ applied \subseteq Writes /\ lock \in Seq(Calls)
    /\ claim \in Logins \cup {"nobody"} /\ barred \subseteq Branching
    /\ pc \in [Actors -> Labels] /\ result \in [Calls -> Results]
    /\ tries \in [Calls -> 0..MaxTries] /\ want \in [Actors -> 0..Len(commits)]
    /\ cast \in Casts /\ errors \in 0..MaxErrors /\ crashes \in 0..MaxCrashes
    /\ raced \in BOOLEAN

\* Only the call at the head of the write lock is past the wait for it, so no two
\* calls change the worktree and the spec's branch in turns (acquireWriteLock,
\* mounts.js:524: "Serialize writes per project").
Inside(c) == pc[c] \notin {"idle", "queued", "done"}
OneHolder == \A c \in Calls : Inside(c) => Holds(c)

\* Neither a read nor the registry touches the corpus or the worktree while a
\* write is under way, and the local disk works.
Undisturbed == cast \cap (Queries \cup {"registry", "disk"}) = {}

\* A write that is answered "ok" is in the tip of the spec's branch, whatever
\* authors push, whatever the network does to pushes and fetches and wherever the
\* service is restarted (writepath.js:84, "Success is reported only after the push
\* is confirmed").
Acked == \A w \in Writes : result[w] = "ok" => w \in Tree(origin["spec"])
AckedOnRemote == Undisturbed => Acked

\* No document of a spec but those a patch names leaves its tip: neither what it was
\* created with nor what an author has pushed.
OthersKept == \A e \in Edits \cup {"base"} :
    (\E i \in DOMAIN commits : e \in Tree(i)) => e \in Tree(origin["spec"])

\* No write, replay or merge works from a corpus or a worktree that has not seen
\* an author's commit and undoes it, reads and rebuilds beside it included, as long
\* as no rebuild overlapped the apply and copy of a write.
OutsideKept == ~raced => OthersKept

\* What is merged and answered "ok" is in the tip, not only in its history, where
\* no other merge has failed before and no rebuild overlapped a write.
MergedKept == ~raced => \A c \in Merges : \A e \in TopicEdits :
    (cast \cap Merges = {c} /\ result[c] = "ok" /\ \E i \in Past(origin["spec"]) : e \in Tree(i)) => e \in Tree(origin["spec"])

\* An unforced deletion of a work branch never makes a commit unreachable, unless a
\* read fetches between its check and its look at the tip.
EditReachable(e) == \E b \in Branches : \E i \in Past(origin[b]) : e \in Tree(i)
TopicKept ==
    (cast \cap (Merges \cup Forced \cup Queries) = {}) =>
        \A e \in TopicEdits : (\E i \in DOMAIN commits : e \in Tree(i)) => EditReachable(e)

\* A branch operation that waits for the lock while another login holds the lease,
\* or while it takes it, goes no further as long as it does.
LeaseHolds == \A c \in barred : pc[c] = "queued"

\* Every call is answered: nobody keeps the write lock or the lock of a rebuild.
EveryCallAnswered == \A c \in Calls : pc[c] = "queued" ~> pc[c] = "done"

\* A write that failed as retryable reaches the branch when the client repeats it:
\* the commit left in the worktree is replayed, not an obstacle for ever.
\* A conflict, or a merge that could not be pushed, does stop every later write.
RetrySucceeds == \A w \in Writes :
    (result[w] = "push failed" /\ Undisturbed /\ cast \cap (Merges \cup {"conflict"}) = {})
        ~> w \in Tree(origin["spec"])
=============================================================================
