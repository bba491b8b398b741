# TLA+ models of omp-spec-kit

omp-spec-kit keeps a corpus of specifications (`.specs/<slug>/*.md`, `.feature`)
and lets agents query and patch it. It runs in two shapes that share the kernel:

* a **local MCP server** (`src/src/mcp/server.js`), one process per agent session,
  several of which may work on one repository at a time;
* a hosted service, **spec-registryd** (`src/src/service/`), one process that keeps
  a bare git mirror per specs repository, a worktree per spec branch, a
  materialised read copy of every project, a publish ledger, claims, bindings and
  a tracker projection.

This directory holds models of the parts in which steps of several actors, errors
and crashes meet. `PROJECT.json` maps every definition to the lines it stands for.

## Inventory

| component | state | operations | interacts with | hard behaviour | what makes it correct |
|---|---|---|---|---|---|
| Local write transaction (`authoring/transactions.js`) | documents, archive, lock file, staging directory with journal and backups | withWriteLock, commitDocuments, recoverInterruptedTransactions, readConsistentRepositorySpecs | spec_patch service, query service, other processes through the file system | interleaved renames, crashes between any two of them, I/O errors half way, stale locks | one writer; readers see whole generations; a failure restores the old generation; a crash is recovered |
| spec_patch service (`authoring/service.js`, `proposals.js`, `elicitation-guard.js`) | replay map, elicitation record | execute, compile | transaction, query service | concurrent calls of one session, replay of a request | a request takes effect once, on the generation it was compiled on |
| Query service (`adapters/query-service.js`) | cached graph per root, service map | runQuery, refresh | kernel, consistent reader | a cache filled by a read that raced a write | a failed read does not stick; an answer is one generation |
| Kernel parsers, graph, queries, roadmap (`kernel/`) | none | parse, build, resolve, paginate, assemble waves | query service | boundaries and orders | pure functions with a reference definition |
| Design review, secrets (`authoring/`) | none | validate | spec_patch service | - | - |
| Evidence (`evidence/`, `gate/`) | none (reads files) | verify | MCP server | - | - |
| Enforcement, hosts (`enforcement/`, `hosts/`) | none | classify one tool call | host plug-ins | - | a write outside spec_patch is stopped |
| MCP server (`mcp/server.js`) | pending counter | handleLine | all of the above | calls of one session are not serialised | - |
| Repository mirror (`service/mounts.js`, `git.js`, `spec-*.js`) | mirror, worktrees, project root and its signature, write lock chain | projectRoot, worktreeFor, acquireWriteLock, refreshProject | write path, sync, publish | the project root is removed and rewritten document by document while a write or a read uses it | an acknowledged write reaches the remote branch; no document is deleted that no patch names |
| Write path (`service/writepath.js`) | worktree commits | specPatch | claims, mounts, kernel, publisher, projection | claim checked before waiting for the lock; ambiguous and rejected pushes | success only after a confirmed push; nothing dropped |
| Sync and drift (`service/sync.js`, `drift.js`) | in-flight promise | reconcileOnce, reconcileClone | mounts, publisher | runs beside writes | - |
| Publish and ledger (`service/publish.js`, `ledger.js`) | ledger rows, local and remote tags, per-spec chain | publishSpec | git remote, store | crash between push and row, ambiguous push, several publishers | a version names one tree for ever |
| Claims (`service/claims.js`) | lease rows | claim, release, get, sweep | write path, branches | expiry between check and use | one holder at a time |
| Branch lifecycle (`service/spec-branches.js`) | remote refs, worktrees, ledger | create, merge, delete | mounts, claims, publisher | partial failure over several refs | a spec is either there or gone |
| Bindings and tenants (`service/repos.js`, `idps.js`, `tenants.js`, `onboarding.js`) | binding rows, credentials | bind, unbind | mounts, auth, projection | rebind while reads and writes run, crash while migrating | reads use the old repository until the new one is active |
| Auth cache (`service/auth.js`) | context cache | authenticate | IdPs | a context outlives its binding | - |
| Tracker projection (`service/projection.js`, `adapters/youtrack-*.js`) | dirty and running flags, pointer | syncNow, doSync | mounts, tracker | triggers during a run, partial writes, a cached graph older or newer than the head sampled | the last trigger is always projected; a marker's heads stand for its board |
| Status sweep (`adapters/youtrack-status-sweep.js`) | baseline snapshot | sweep | tracker, spec_patch | three-way conflicts | the tracker never overwrites a diverged spec |
| Service assembly, HTTP, dispatch, tools | wiring | - | all | boot order | - |

The hazards of the code, each at its line, are listed in `PROJECT.json`.

## Modules

| module | models | what it promises | proofs |
|---|---|---|---|
| `AuthoringTransaction` | the local write protocol | implements `AtomicCorpus` | `AuthoringTransactionProofs` (types, the lock; refinement, rollback, recovery, reads) |
| `PublishLedger` | publication, tags, ledger, sync's decision to publish, deletion | a version names one content for ever | `PublishLedgerProofs` |
| `SpecWritePath` | leases, write lock chain, corpus rebuilds, kernel apply, worktree commit, push, replay, work branches | an acknowledged write is on the remote branch; nobody's commit is undone unless a rebuild overlaps a write | `SpecWritePathProofs` (the lock, types, lease), `SpecWriteContentProofs` (authors' edits), `SpecWriteHistoryProofs` (acknowledged writes, work branches) |
| `SpecGraph`, `SpecQueries` | the graph the kernel builds from the documents, the lists its queries answer page by page, and what a patch and an archival ask of it | pages are the list, diagnostics are whole, a patch breaks nothing outside its spec | `SpecGraphProofs` (what a graph holds), `SpecQueriesProofs` (every safety property of the run) |
| `TrackerSync` | the projection into the tracker, the listener and the sweep, over the corpus, its service objects and spec_patch | a complete marker is what was read and written; no trigger is lost; what comes back was chosen in the tracker | `TrackerSyncProofs` |

`SpecQueries` extends `SpecGraph`; the other components meet in one variable or one call
each, and each of the modules has the part of its neighbour it depends on: `PublishLedger`
has the mirror and a write that waits for its publication, `SpecWritePath` the mirror and
the corpus, `TrackerSync` the remote, the corpus, the cached graph and spec_patch with its
push and trigger. A composition of two of them multiplies their states and no property found
so far needs it.

## AuthoringTransaction

**Model.** One spec directory. A document's content is the patch that wrote it,
so equal contents stand for equal hashes, and the bytes, diffs and paths are left
out. Every file-system call another process could see the effect of is a step of
its own: the lock file is created empty and stamped later; the reader lists the
directory and then reads file by file; the commit renames a document to `.backup`,
records the backup, renames the staged bytes in, records the installation, and so
on, in the code's order. Variables are the files (`file`, `archive`, `lock`,
`journal`, `backup`) and the local variables of the JavaScript functions per call
(`pc`, `tries`, `snapA`, `snapB`, `pos`, `backups`, `installed`, `dead`, `entries`).
`gens` is a history variable: the generations that were completely installed.

A patch runs Begin, the reader, OpenLock (InspectLock, recovery and ReopenLock
when the lock exists), StampLock, Revalidate, the commit, ReleaseLock. A query is
the reader alone. `PidOf` says which process serves which call; the MCP server
does not serialise the calls of a session, so two calls may share a process.
`Environment` throws I/O errors into the commit and the rollback (`FaultPoints`),
kills processes, tears a journal that is being rewritten and leaves a recursive
removal half done.

What is abstracted: a read in the model always goes to the disk, whereas queries of
the code answer from a cached graph that only spec_patch refreshes; the second read
under the lock is one step, as the lock keeps other writers out; requestIds are
distinct; path containment and symbolic-link checks never fail.

**Abstract specification.** `AtomicCorpus` promises that the corpus changes in
single steps, each of which applies one patch completely to the generation it was
compiled on. The refinement maps `corpus` to the generation the journals select
(`SelectedGeneration`): backups of unfinished patches count as in place and the
documents they installed do not. So a half-done swap, a rollback, a crash and a
recovery are all stuttering steps, and writing the "committed" journal is the one
step that applies a patch.

**Bounds.** `MaxRetries` is 5 in the code; 1 or 2 attempts are enough to see a retry
and an exhausted reader, and the properties do not count attempts. `MaxFaults` and
`MaxCrashes` bound errors and crashes of a behaviour. Two documents are the least for
a torn generation; three patches the least for two recoverers of a third process.

**Fairness.** `FairSpec` has weak fairness on each call's own step: a live process
runs its pending promises, and no step of a call waits for another call (the lock
does not block, it answers CONFLICT). Nothing is assumed of errors or crashes.

| run | question | outcome |
|---|---|---|
| tx_races | three racing writers (write, delete, archive), one commit error | types, mutual exclusion, rollback and the refinement hold |
| tx_reader | a reader against one writer of another process, with errors in the commit and in the removal of the stage | an answered read is a whole generation; the lock is given back |
| tx_crash | two writers, two crashes, two errors, torn journals, half-done removals | the refinement holds, a completed recovery leaves a whole generation while no journal is unfinished, every call of a live process is answered |
| tx_twoHolders | two recoveries of one dead lock | violation of `OneWriter`: the slower one removes the lock the faster one took |
| tx_archiveLost | a crash while a committed archival is cleaned up | violation of `ArchivedSurvives`: recovery deletes the archived documents |

`FaultPoints` says at which steps an error may be thrown. The passing runs throw where the
code can undo what was done. They leave out "noteBackup" and "noteInstall" (an fsync that
fails between a rename and its array entry), "rollback" (an ignored removal leaves a new
document in place) and "cleanup" (an error after the commit record is rolled back): each
of these breaks the refinement, see 'What the code does not do'.

`ReadsAreWhole` holds in `tx_reader` for one writer; a reader between two commits is
described in the same section, as is what a dry run of the writer's own process sees.
`OneWriter` holds in `tx_races`, without crashes, and fails in `tx_twoHolders`.

**Proofs** (`AuthoringTransactionProofs`). For every value of the constants that
meets the named assumptions:

* `TypeCorrect`: `Spec => []TypeOK`. `TypeOK` is not inductive: a retry could
  overrun `MaxRetries`, and a swap or an undo could index a change that is not there.
  `TypeInv` adds that a reader has an attempt left, that a swap stands at a change of
  its patch and that an undo stands at a change of a dead patch. The type lemmas go
  group of actions by group of actions; the other three conjuncts share one frame
  condition, `StandsRight`.
* `OneWriterUnlessRecoveriesOverlap`: `Spec /\ []OneRecovery => []OneWriter`. The
  inductive invariant `LockInv` says that a live holder's lock is on the disk and that
  a live recoverer faces the stamped lock of the dead process it recovers. Most actions
  leave the lock file alone (`LeavesLock`); the others are treated one by one.
  With `tx_twoHolders` this pins the hole down: overlapping recoveries, nothing else.
* `OneWriterWithoutCrashes`: no crash, no recovery, hence one writer, whatever errors
  are thrown. `OneWriterOfTwoPatches`: of two patches one recovers the other's lock alone
  (`Facing`: a recovery faces a dead patch), so two exclude each other whatever crashes;
  the third writer of `tx_twoHolders` is needed to break the lock.

**Proofs** (the rest of that module), of behaviours in which the steps of `FaultPoints` can
be undone (`Undoable`: none of the four named above; errors in "commit", "restore" and
"discard" are allowed although `tx_races` throws fewer). Each result is stated three times:
with crashes as long as no two recoveries overlap (`[]OneRecovery`), without crashes
(`MaxCrashes = 0`), and for at most two patches with any crashes (`TwoPatches`), where the
premise about recoveries is proved instead of assumed.

| property | recoveries do not overlap | no crashes | two patches |
|---|---|---|---|
| `OneWriter` | `OneWriterUnlessRecoveriesOverlap` | `OneWriterWithoutCrashes` | `OneWriterOfTwoPatches` |
| `RefinesAtomicCorpus` | `RefinesUnlessRecoveriesOverlap` | `RefinesWithoutCrashes` | `RefinesForTwoPatches` |
| `FailureRestores` | `FailureRestoresUnlessRecoveriesOverlap` | `FailureRestoresWithoutCrashes` | `FailureRestoresForTwoPatches` |
| `RecoveredIsWhole` | `RecoveredIsWholeUnlessRecoveriesOverlap` | (nobody recovers) | `RecoveredIsWholeForTwoPatches` |
| `ReadsAreWhole` | - | `ReadsAreWholeBesideOneWriter` | - |

*The invariant.* `AtomicInv` has three parts. Of a live patch (`CallOK`): before its swap
it is nowhere on the disk (`FreshOK`); during it (`MidwayOK`) each document is `Untouched`
(no backup, still its base) or `Moved` (its base is in .backup, and it is gone or the patch's
own), and `installed` and `backups` list every change but the one under way (`Recorded`),
which is what makes the in-process rollback complete. Of the stage of any patch, whether its
process lives or not (`StageOK`): a journal that recovery goes by, or one that is torn or
committed, is that of the patch named in the lock; while one is on the disk no other is
undecided (`Alone`); an undecided stage still has the base of every document (`Kept`,
`Elsewhere`); and a committed one without archivals still has its whole result in place.
Of a recovery (`RecovererOK`): it has seen every stage, it undoes the changes of a dead patch
from the last to the first, and those after its position are `Untouched` again (`UndoOK`).
A crash drops the first part for the patches of its process and keeps the second, which is
all the recovery has to go by; that is why the swap must establish the second at every step.

*The argument.* Every kind of step has lemmas that it keeps `AtomicInv`: readers and lock
steps (`QuietKeeps`), each action of commit and rollback (`WritesKeep`), crashes, also in the
middle of a journal write or a recursive removal (`CrashKeeps`), and each action of the
recovery (`RecoveryKeeps`); together `AtomicStep` and `AtomicAlways`. Then:

* the refinement: while a patch is midway the generation the journals select is its base
  (`MidwaySelection`), and an undone document is one the selection had already undone
  (`RecoveryUnseen`, `CrashUnseen`); so readers, swaps, rollbacks, crashes and recoveries
  stutter, and writing the "committed" journal is the step `Apply` (`CommitApplies`).
* `RecoveredIsWhole`: `WholeInv` has the selected generation among the complete ones, and a
  corpus without unfinished journals is the selected generation.
* `FailureRestores`: the base is in place when the stage is discarded; `ArchiveInv` adds
  that an archived copy is in `installed` until the rollback removes it, and a recovery only
  takes archived copies away while no one else is past the lock.
* `ReadsAreWhole`, in the situation of `tx_reader`: one patch, of another process than the
  queries (`LoneWriter`, `OtherProcess`), no crash, and no error in "restore". The lock
  admits a query only before the writer's critical section or after it (`PastTheLock`);
  `ReadInv` says what its samples are worth then: the first is a generation, or all of the
  second is read after the writer has left, and the accepted ones are equal.

*The hypotheses.* Each is met by the instances of the runs that check the property, and each
leaves out something the code does differently. `[]OneRecovery`: `tx_twoHolders` shows two
recoveries, after which two writers hold the lock; that premise restricts behaviours with
three patches or more only. `NoArchives` (refinement and recovery with crashes): a recovery
takes a committed archival for an unfinished one and moves back, or loses, what it archived
(`tx_archiveLost`). `ArchivesAreWhole` (refinement without crashes, reads): a patch that archives
anything archives every document; the code lists all files of the directory
(proposals.js:605) and removes the directory after the commit. `ArchivedOnce` (failures): no
two patches archive the same document; what a second archival does is described in 'What
the code does not do', as are the second writer and the failing restore that
`ReadsAreWholeBesideOneWriter` excludes. `tx_races` is an instance of the theorems without
crashes, `tx_crash` (two patches, no archival, errors in "backup", "restore" and "discard") of
those for two patches, and `tx_reader` of the one about reads.

Only model-checked: everything under fairness (`LockIsReleased`, `EveryCallAnswered`: liveness
and ENABLED are out of the prover's reach, as is induction over data).

## PublishLedger

**Model.** One spec of one project. A commit is a number; `tree` gives its spec directory's
content and `past` the commits reachable from it. A tree stands for the tree hash, and
its authored Status and Version belong to it (`Active`, `VersionOf`), so "same digest" is
"same tree". The remote repository is a branch tip and one tag per version; the mirror
is its remote-tracking ref, the objects it has and the tags of its own; the ledger is one
row per version. `job[s]` holds the local variables of the `publishSpecNow` that process
`s` runs, or its last answer: publishSpec chains the calls of one spec, so there is one per
process. A step ends wherever the code awaits something another actor can observe or
change: the ledger, ls-remote, rev-parse, git tag, git push, the insert.

| code | actions |
|---|---|
| `publishSpecNow`: snapshot and checks | `Begin`, `ReadLedger` |
| a recorded version: present, diverged, gone and healed | `CheckRowTag`, `CheckRowLocal`, `TagRow`, `HealPush`, `HealJudge` |
| a new version: tag, push, judge, record | `CheckRemote`, `CheckLocal`, `TagHead`, `PushTag`, `JudgePush`, `Record` |
| a tag without a row | `Adopt` |
| any thrown network error | `Throw` |
| `specPatch`, merge: the publication they wait for | `Write`, `WriteDone` |
| a query's `projectRoot` | `Read` |
| `reconcileOnce` | `SyncFetch`, `SyncRebuild` |
| `deleteCanonical` | `DeleteBegin`, `DeleteCheckTags`, `DeleteCheckRows`, `DeleteLease`, `DeleteBranch`, `DeleteRefused` |
| death and boot of a process | `Crash` |
| operators with push access, as publish.test.mjs plays them | `OutsidePush`, `OutsideRewrite`, `OutsideTag`, `OutsideUntag` |
| a mirror directory that is replaced | `NewMirror` |

Git's own rules are external definitions: a clone brings every tag, a fetch only the tags
of objects it has and never moves one; a tag push never moves a remote tag; a failing
command may have had its effect (`PushThrows`).

What is abstracted: processes share one data directory, as a replaced container and its
successor do; `publishProject` visits one spec; of deleteCanonical's checks those of
bindings, claims, work branches, dependents and the worktree are left out, and so are its
writes other than the branch's; a write is its successful push (the way there belongs to
`SpecWritePath`); the signature of the project root is the spec's tip, so a move of another
spec, which makes reconcileOnce publish this one too, is left out; the JSONL fallback's file.

**Bounds.** `MaxCommits` is 2: the tip a publication read and the one that overtook it, or
two commits with one version. `MaxErrors` and `MaxCrashes` are 1: one ambiguous push or one
death between tag and row. Two processes are the least that race for a row; the invariants
do not depend on these numbers (they are proved for all of them).

**Fairness.** A live process runs its promises (`PublishStep`), a publication that is owed
begins (boot, reconcile and write call publishAll or publishSpec without a condition), and
the interval timer fires (`SyncFetch`, `SyncRebuild`). Errors, crashes, outsiders, writes,
reads and deletions have no fairness. No publication is retried after a network failure, so
`ActiveTipIsPublished` is stated for behaviours without one (`[](errors = 0)`).

| run | question | outcome |
|---|---|---|
| pub_races | two processes, outside pushes, rewrites and tags, one failed or ambiguous command, one crash, new mirrors, deletions | types hold, rows are genuine, tags and answers agree with rows, versions stay readable |
| pub_service | one process writing, reading, synchronising, deleting, restarting; removed tags; every kind of tree | an ACTIVE tip that stays is recorded or refused; a heal restores the recorded commit |
| pub_unseenPush | a push past the service and a query before the next reconcile | violation of `ActiveTipIsPublished`: the query takes the signature change away, nobody publishes |
| pub_deletePublished | a publication beside a deletion | violation of `PublishedBlocksDelete`: the tag is pushed after the deletion looked for tags |

`pub_service` has no outside pushes, since `pub_unseenPush` shows what they do; and no
outside tags, since a tag an outsider adds while a heal runs is the second of the
publication entries in 'What the code does not do'. `pub_races` has no "untag", under
which `TagMatchesRow` cannot hold.

**Proofs** (`PublishLedgerProofs`), for all trees, versions, processes and bounds:

* `TypeCorrect`: `Spec => []TypeOK`, by `TypeInv`, which adds that histories are closed
  under the commits made (`HistoryOK`, a fetch copies a history into `objects`) and that a
  running or successful publication has an ACTIVE head of a publishable version (`HeadOK`,
  without which `Version(s)` would index the ledger outside its domain).
* `RowsAreGenuine` and `RowsAreFinal` hold in every environment. All that touches the
  ledger is an insert of a commit with its own tree (`LedgerMoves`), and commits keep their
  trees (`CommitsKept`).
* `TagsMatchRows`, `AnswersAreRecorded` and `VersionsAreReadable` assume that nobody removes
  tags (`"untag" \notin Environment`). Their common inductive invariant `AgreeInv` says
  what a publication has established when it stands at a step (`JobOK`): its head is in
  the mirror, the row it read is the ledger's, the tag it saw is the remote's, the tag it
  pushes is its head, and a publication about to record has its head tagged on the remote.
  It is carried by four facts about any step: rows are kept, remote tags are kept, the
  mirror only grows unless it is replaced, and it is replaced only when nothing runs.

* `HealsRestore`, `Spec => HealRestores`, assumes that nobody outside makes version tags
  (`"outside tag" \notin Environment`), but not that nobody removes them. Its invariant
  `TagInv` is about the mirror's own tags: a mirror has every tag of the remote, since it
  pushed them or cloned them (`OwnTags`); the tags of a recorded version, here and there,
  are of the recorded commit or absent (`RowTags`); and a row that turns up beside a
  publication which found none has left its tag in the mirror (`Tagged`), so that this
  publication cannot tag another commit.

Only model-checked: `ActiveTipIsPublished`. `PublishedBlocksDelete` does not hold.

## SpecWritePath

**Model.** One spec of one project in the service, with its canonical branch and one work
branch ("topic"). The content of a spec is a set of items: what it was created with, one
item per applied patch, one per commit an author pushed. Git history is a sequence of
commits that know their ancestors; the remote, the mirror and the worktree's own branch are
positions in it. Merges and replays are three-way on the sets of items, a conflict is a
choice the cast allows.

| code | actions |
|---|---|
| `specPatch` (writepath.js): lease, lock, worktree | `Issue`, `EnterWrite` |
| `projectRoot` (mounts.js): compare the tips with the signature; remove the corpus; list its documents; write one of them; cache the corpus; or fail half way | `CheckRoot`, `ClearRoot`, `ListRoot`, `FillRoot` (once per document), `SignRoot`, `BreakRoot` |
| apply, copy, commit, push | `Apply`, `Sync`, `CommitWrite`, `PushWrite`, `PushWriteRaises`, `RefuseForeign` |
| the retry after a failure | `Reconcile`, `ReconcileRaises` (reconcileClone), then the push again |
| `refreshProject`, the answer, the release of the lock | `Refresh`, `CheckRoot` ..., `Reply` |
| `createWork`, `mergeWork`, `deleteWork` (spec-branches.js) | `CreateWork`, `PushCreated`; `EnterMerge`, `MergeTopic`, `PushMerge`, `DropTopic`; `CheckDelete`, `ReadTip`, `DeleteWork` |
| claims | `Claim`, `EndLease`; the checks are in the entry actions |
| any other caller of `projectRoot` (a listing of the registry, the reconciler), the listing's worktree | `CheckRoot` ... of a member of `Queries`, `IndexRead` |
| authors, a restart, a client that repeats a refused write | `AuthorPush`, `Crash`, `Retry` |

A document of the corpus is an item. A rebuild writes each document it has listed as the ref
has it at that moment, under `projectLocks` (`builder`) and outside the write lock, so a
write's `Apply` and `Sync` may meet a corpus of which any part is there. `raced` is a history
variable: a rebuild by another call has overlapped the apply and copy of a write, or has
broken off half way. The second is as bad: a rebuild for tips read earlier clears a corpus
that is cached for later ones, and when it fails that signature stands for a part of it.

What is abstracted: one write holds a set of items, so two writes never conflict textually
unless the cast says so; the publication a write waits for is in `PublishLedger`; a lease
ends at any time; the errors thrown are those of git and of the copy.

**Bounds.** Two writes, a merge, a creation and a deletion of one work branch, a commit of
an author on either branch, `MaxErrors` 2, `MaxCrashes` 1, `MaxTries` 3. `MCCasts` lists who
takes part: all at once would not fit, and each combination that shares a branch or a lock
is there.

**Fairness.** Node runs every continuation, git commands end, and a client repeats what it
may repeat (the answer says `retryable`). Reads, authors, leases, errors and restarts have none.

| run | question | outcome |
|---|---|---|
| wp_races | calls, authors, failures, replays, rebuilds, leases and restarts around one write lock | one holder; nothing acknowledged, pushed or merged is undone unless a rebuild overlaps a write; the lease is respected by whoever waits; every call is answered, and a failed push can be repeated |

`AckedOnRemote` has the premise `Undisturbed`: a read or a registry read beside a write, or
a failing local disk, does lose an acknowledged write. `OutsideKept` is `OthersKept` until
`raced`, and `MergedKept` is stated until then and for casts with one merge, `TopicKept` for
casts without a merge, a forced deletion or a read. Each of these premises excludes a loss
that TLC finds without it (see the last section).

**Proofs**, for all calls, casts and bounds, from `CallsAssumption` (kinds of calls are
disjoint), `ItemsAssumption` (so are patches, edits and what the spec was created with) and
the ranges of the bounds:

* `OneHolderAlways`, `Spec => []OneHolder` (`SpecWritePathProofs`). The inductive invariant
  adds that the chain of the lock has no call twice and only calls that wait or run, without
  which `Tail` could put a caller at the head that is still inside.
* `TypesAlways` and `LeaseHoldsAlways` (same module). `TypeOK` lets a ref name a
  commit whose ancestors are yet to be made; `TypeInv` adds that histories are closed under
  ancestors and that every ref and every tip kept for later is a commit or 0, and `HeadMade`
  that nobody is inside the lock before there is a worktree. `LeaseInv` adds to `LeaseHolds`
  that a barred call is one that still looks at the lease once it has the lock.
* `OutsideKeptAlways` (`SpecWriteContentProofs`), until `raced`. A commit is made from a
  corpus that may be older than the worktree, and pushed later still; `EditsInv` follows an
  author's edit, and what the spec was created with, from the tip to the mirror, to the corpus
  under its signature, to what a write is about to commit. While a rebuild is under way the
  corpus is neither signed nor complete: what is not there yet is in `left`, and no write is
  between the end of its own load and its copy, or the rebuild has overlapped it and the
  premise is gone. The proof is of `raced \/ EditsInv`, as nothing takes `raced` back.
* `AckedOnRemoteAlways` (`SpecWriteHistoryProofs`). A replay is a three-way merge, so it keeps
  a patch only if the side of the remote does not count as having removed it. `ChainInv` says
  why it does not: the worktree's branch and the tip share a commit after which every commit
  in the tip's past only adds, and the topics are forked from the spec likewise. `AckInv`
  carries a patch from the load of the corpus to the push, and from its answer on.
* `TopicKeptAlways` (same module). A deletion compares ancestors in the mirror and then reads
  the tip it leases; `TipsInv` says that this tip is in the spec's history, which only grows.
* `MergedKeptAlways` (same module), if the merge is the only one of the cast, and until `raced`.
  `MergedInv` says
  of the topic's commits what `EditsInv` says of the spec's: no commit undoes what an ancestor
  has, and the corpus, its signature and what a write carries have all that the worktree's
  branch has. Between the merge and its push that branch is ahead of the mirror; only the call
  that holds the lock is there, so no write commits. A merge whose push fails leaves it ahead
  for good, and a write then does undo it; `MergingInv` stops at that failure.

Only model-checked: `EveryCallAnswered` and `RetrySucceeds` (liveness).

## SpecGraph and SpecQueries

**Model.** A corpus is a set of documents, each with definitions (a spec, a kind, a local
ID, fields), references and scenarios; `BuildKernelGraph` turns it into nodes, edges and
diagnostics as `kernel/graph/build.js` does: discovery within the size limits, duplicate
definitions and the one elected, ambiguous local IDs across specs, resolution of references
with the matrix of allowed ends, roadmap waves' edges, the cap on diagnostics. `SpecQueries`
has the lists of `kernel/query/service.js` and `extended.js` (findNodes, getEdges,
validation, diagnostics, inventory, trace, listTasks, archivalProof), their pagination with size, cursor and digest,
and the snapshot the adapter keeps: documents change between two pages, the graph is built
again, and a cursor of another snapshot is stale.

| code | definitions |
|---|---|
| `readRepositorySpecs`, `buildKernelGraph` | `Readable`, `Admit`, `Entries`, `Groups`, `Elected`, `Nodes`, `Diagnostics`, `Capped` |
| `collectReferences`, `resolveReference` | `References`, `TargetOf`, `EndpointAllowed`, `ResolveReference` |
| `runFindNodes` ... `runTrace`, `runListTasks`, `runArchivalProof` | `FindNodes`, `GetEdges`, `Validation`, `RunDiagnostics`, `Inventory`, `Walk`, `Trace`, `ListTasks`, `Dependents` |
| `paginate`, `executeQuery` | `Resume`, `Fits`, `PageFrom`, `Page`, `Refusal`, `Serve` |
| a client that follows a list | `Ask`, `Follow` and the answers it collects |
| `spec_patch`: edits, `createSpec`, `deleteEntity`, `archiveSpec`, as far as they consult the graph | `Patch`, `CreateSpec`, `DeleteEntity` with `WithoutBlock`, `Archive` |

What is abstracted: a document is its definitions and references, not its text; FILE nodes,
headings, links, the checks of UTF-8, hashes and line counts, the additional invariants of
a phase-9 corpus; every size is 1 except that of a roadmap node; tags of the kind
TESTED_BY are always bare; the tags of a scenario are on one line, the one its deletion
takes along. The validation of requests, getNode, the board and overviews are not modelled,
nor are renames; an inventory has the counts that come from the graph above; statuses of listTasks are its filter only.

**Bounds.** Two specs, six documents, two corpora in order, `MaxBytes` 4, `MaxAggregate` 13,
`MaxDiagnostics` 4, `PageBytes` 3, so that documents, corpora, diagnostics and pages all
overflow; in the second corpus one spec is still to be created. `MaxSeen` 6 is the length
of the longest list that is in the order of its keys; one patch (of any intent) and one edit
beside thirteen lists. A document holds one kind of definition (types.js:233), so duplicates arise inside one.

**Fairness.** Weak fairness of a client's `Follow`, once a list is begun: it asks for the
next page until there is none. Nothing else needs any.

| run | question | outcome |
|---|---|---|
| kern_pages | pages of every list, with documents over their limits, duplicate and ambiguous IDs, a patch, a deletion, a creation, an archival and an edit between pages | a list that is in the order of its cursor is delivered whole and once; a trace covers what is reachable; a verdict is that of the whole scope; a patch never adds an error to another spec's definitions; an archival breaks no resolved reference; every chain of pages ends |

`ListedOnce` has the premise that the list is sorted by the keys its cursor compares; for
traces it is not, see the last section. `StaysInOrder` is stated of the steps that change the
corpus through the service: what an author writes past it may be anything.

**Proofs** (`SpecGraphProofs`, `SpecQueriesProofs`), for any specs, documents, variants,
queries and bounds. The assumptions on the constants are that the orders list each of their
members once; that a document is not a local ID; that there are at least two diagnostics
before the limit (`kernel/limits.js:15`: 10000), as with one the notice of the overflow would
be the whole list and no error would be in it; that the contents a document may have are
documents, its scenarios in feature files, and a tag of the kind TESTED_BY bare, which is how
`gherkin.js:293-311` reads tags (`TagsAssumption`); and that what the run starts from is in
order.

Of any corpus, whether a run reaches it or not:

* `AcceptedIfReadable`: the limits of the reader and those of the builder are two pieces of
  code; the builder refuses a document exactly when the reader refuses the corpus.
* `EdgesJoinNodes`: every edge joins two nodes. A resolved reference has an elected target by
  the order of the checks in `ResolveReference`; its source is a document's node, an elected
  definition or, for a tag, was looked up; a flip exchanges the two.
* `ErrorsSurviveTheLimit`: if there is an error, the list shows one, because errors come
  first and the notice takes the last place of at least two.

They rest on `SortedBy`: a finite set with keys that differ is sorted into a list of its
members, each once, in the order of the keys. Each set the code sorts (nodes, edges, groups,
diagnostics) is shown finite and its keys different, which is where the code's keys could
be too coarse.

Of the runs:

* The inductive invariant is `Basis`: documents hold items of their variants, and the cached
  graph is absent, a refusal, or `BuildKernelGraph` of a corpus of such documents that was
  readable. `TypeOK` alone is not inductive: nothing in it says that a cached graph came
  from documents. From `Basis` follow `QueryTypesAlways`, `VerdictsAreWhole` and
  `TracesAlwaysCover`. For the last, the walk is followed level by level: after n levels it has
  visited what n steps reach (`Reach`), or has met its number of visits and gone no further,
  and what it has seen and not expanded is its next level or its frontier.
* `EditsAlwaysStayLocal`: an edge between specs that kept their documents depends on groups
  and references of these alone. Whether a bare reference is foreign looks at all specs, but
  only chooses between two diagnostics.
* `OrderAlwaysStays`, `DefinitionsAlwaysKept`: what `Compiles` compares are counts of
  findings; for an identity that was defined once the count was 0, so it must stay 0, and
  a group of two has a finding at its first place. `ArchivesBreakNothing`: without
  dependents, no edge that another spec states ends in the one that goes, and a reference
  that ended elsewhere still finds its target, once.
* `ListsAreWhole` needs `ClientServed` besides: between two pages, the cursor holds the
  fingerprint of a graph, the list `due` is the answer of that graph to the query, and `seen`
  is the rows up to the cursor's. As equal fingerprints mean equal graphs (`Basis`), a
  cursor that is not stale is used on the list it was cut from, and in an ordered list the
  first row past the key is the next row. The hypothesis `TasksAgree`, that the listTasks
  queries of the client differ at most in their limits, is what the code does not check: its
  cursor binds the operation only, see the last section. The run satisfies it.

`ChainEnds` is liveness and is only model-checked.

## TrackerSync

**Model.** The content of a project is the status of each of its tasks, each task in a spec
of its own; a commit is a position in the project's history, and a card is a State with an
identity. Between the remote and whoever reads the specs stand two copies: the corpus on disk
(`root`, cached for the commit `signature`), which a rebuild removes and writes back document
by document, and what the project's service object has read of it and cached (`graph`). A
rebuild that ends drops the service object; a run that has taken it before keeps it (`run.svc`,
`run.old`). spec_patch changes both copies, commits in the spec's worktree and pushes; a push
that fails for good leaves both changed and the commit in the worktree (`worktree`).

The service's loop takes a trigger (`dirty`), reads the marker, compares heads, reads each
project's board between two samples of its head, compares fingerprints (equal boards), reads
the cards, writes them one by one, deletes stale ones, writes the projects' markers and at
last the root marker. The listener works on one sweep or event at a time; both end in the
decision of `planCardWriteback` and a spec_patch like anybody's.

| code | actions |
|---|---|
| `projectRoot` (mounts.js), for the reconciler, a listing of the registry and a write | `Clear`, `Fill` (once per document), `Seal`, `Break`; `Renewed` when there is nothing to rebuild |
| the rest of `reconcileOnce` (sync.js) | `AfterReconcile` |
| `specPatch`: lock and worktree; apply; copy, commit, push, replay, push again; `refreshProject`; the trigger | `Write` or `WriteBack`, `Apply`, `Push`, `Drop`, `Tell` |
| `ensure` and `refresh` of a service object (query-service.js) | `Answer` where a graph is read, `Unread` where it is dropped |
| `syncNow`, `runLoop`, `doSync`, `cheapCheck` | `SyncNow` in each trigger, `Start`, `Check` |
| `mergedBoard`, the comparison of fingerprints | `TakeService`, `HeadBefore`, `QueryBoard`, `HeadAfter`, `Decide` |
| `readProjection`, `upsertCards`, `removeStaleCards` | `ReadCards`, `PatchCard`, `CreateCard`, `RemoveCard` |
| `publishProjectPointers`, `publishCommitted` | `PublishProject`, `PublishRoot` |
| any other exception of a run | the failing branch of each of these; it is logged, and nothing triggers another run |
| unbinding, boot | `Unbind`, `Crash` |
| `StatusSweepService`, `handleWritebackRequest` | `StartSweep`, `StartEvent`, `ReadCard`, `ReadMarker`, `ReadSpecs`, `WriteBack`, `EndJob` |
| people in the tracker and authors | `Move`, `Copy`, `Tamper`, `Outside` |

`torn`, `lagged`, `unsaid`, `unshared`, `listed`, the `lag` of a run, the `unsure` of a job and
the `by` of a card are history; no action depends on them.

What is abstracted: cards of other kinds, links, texts and evidence; the signature (an
edited marker is simply invalid) and the size limit of a marker; versions of the marker's
schema; heads of several projects are compared in one step; a fetch never fails here, and
copy, commit and both pushes are one step (they are apart in `SpecWritePath`); a caller that
has waited for somebody else's rebuild with an older signature and rebuilds again, or, as the
reconciler may, takes the wait for a move and triggers once more; a reader error that the
service object caches until it is dropped; the replay map of the kernel; the parity check of
`sync`, whose skip asks for more than the check just made; a second replica and the one-shot
script, which projection.js:38 forbids to run beside the service; the outbox of the listener,
which nothing reads back.

**Bounds.** Two projects of one task each: heads, boards and markers are per project, cards
are independent of each other. Five edits (two writes, one of which sets back the first
status; three by authors, one to a status the tracker has no State for, one that removes a
task), two moves (one deletes the card), one failing request, one restart; `MCCasts` lists who
takes part together: small casts which between them take every action and every branch of it
but one, the write of a task whose earlier write failed and whose status an author has pushed
meanwhile. `MaxPatches` is 2 because sweep and projection can answer each other for ever (last
section); `UserHeard` makes no claim when it is reached.

**Fairness**, weak and for three processes as a whole. `ProjectionStep`: the loop continues by
itself. `ServiceStep`: calls go on after each await, and the interval of the reconciler comes
round. `ListenerStep`: the interval of the sweep comes round, and events and jobs follow each
other in one chain of promises. Edits, moves, clients, errors and restarts have none.

| run | question | outcome |
|---|---|---|
| trk_sweeps | writes and rebuilds between the steps of a run, triggers, failing requests, restarts, edited markers, copied and deleted cards, an unbound project, sweeps and events beside runs | a complete marker's heads stand for its board, outside the cases `lagged` names, and its cards were written; a status that is written back was chosen by somebody; the tracker catches up with the specs; a State somebody sets is heard, unless a push failed for good |

**Proof** (`TrackerSyncProofs`): `TypeOKAlways` and `HeadsVouchAlways`, `Spec => []HeadsVouch`,
for all projects, tasks, edits, moves, casts and bounds. `HeadsVouch` speaks of the marker
only; its inductive invariant `Vouched` follows the content from the remote to the marker.
`CorpusVouched`: a corpus cached for the tip and without a patch of its own (`unshared`) is the
tip, and the cached graph is the corpus or not yet read (`InSync`); a rebuild has begun because
the corpus was behind, and what it has written of the tip is the tip (`Filling`). `RunVouched`:
no head sampled is ahead of the remote, a project not reached yet has head 0, and the board of
a project that is done is the content at its head. Between its first sample and the query,
as long as the remote has not moved and no patch has been applied, the run's service object is
the current one, the corpus is cached for the tip and no write is refreshing it (`InHand`):
that is what the premise about the first sample starts, and nothing can end it without moving
the remote. After the query the board is the tip, if the remote is still at the head sampled
first; that it is, is what the second sample finds out. `MarkerVouched` is the property and
that its heads are not ahead. `Types` adds to `TypeOK` that a
rebuild's documents are the project's, that a writer waits while its rebuild is under way, and
that a plan of the listener only has States with a status.

`CompleteIsWrittenAlways`, `Spec => []CompleteIsWritten`, needs what is true while a run
writes. Its inductive invariant `Written` has three parts: `Known`, a listed task's card is
the one the marker names, or gone; `Standing`, the property itself as long as no run writes
cards; and `Done`, which follows the run: a wanted card that is no longer due is as the run
means it, one still due is as the run saw it or was moved by hand since, no card the run did
not see turns up for a task that is not wanted, and the stale cards are gone one by one. The
marker is published only when nothing is due, so `Done` gives `Standing` for the new marker.
The first attempt of this proof failed at a task whose card had been created but never
named, and the instance that shows it was missing from the run (a failing request beside a
removed task; it is in `MCCasts` now): see the last section, and `listed`, which counts the
tasks whose card some marker named.

`OnlyUsersSpeakAlways`, `Spec => OnlyUsersSpeak`, rests on `Standing`: a sweep or an event
that begins while no run writes and none broke off finds cards that fit the marker (`Fits`).
Its invariant `Heard` says that they still do when both are read, in whatever order and
whatever is moved in between, unless a run wrote meanwhile (`ReadFits`: what is not read yet
is taken from the tracker, what is read from the job); and that a planned patch is of a task
whose board is where the marker has it (`Chosen`). A card that fits and was not moved shows
the very status its board has, and there is nothing to write back.

The liveness properties are model-checked only.

Each property names its exceptions (`lagged`, `torn`, `unsaid`, `unshared`, an incomplete
marker, reads beside a writing run, a write that is `Stranded` in its worktree); each of them
occurs in the code and is described in the last section.

## What the code does not do

Disagreements between the code and its contract that the models exhibit. Four have a
violation run (above); the others were seen in instances of the same modules that are
not kept, in most cases by checking a property without its premise.

Local transaction:

* A reader that overlaps two commits (one query, two patches of other processes) can take
  two equal samples of a corpus that never existed: the first commit's documents in both
  samples beside the second's.
* A reader that began before a failed rollback (`"restore"` error, one query) answers
  the half-restored corpus: transactions.js looks for unfinished stages before it samples.
* A dry run beside a commit of its own process does not count the process's own lock, so it
  reads a corpus in the middle of a swap.
* Recovery asks for a backup or installed bytes of every document: a crash before the last
  document was moved aside is answered RECOVERY_REQUIRED although the old generation is
  complete.
* The reader refuses unfinished stages (service.js:127 refreshes the graph first), and the
  recovery runs only when the lock is taken, later: after a crash no call of the service
  reaches the recovery. In `tx_crash` it is reached by calls that read before the crash.
* An fsync that fails between a rename and `backups.push` (transactions.js:519) leaves a
  backup the rollback does not know, and the stage is then removed with it. An error in
  the cleanup after the "committed" record rolls a committed patch back. A removal that
  fails in the rollback is ignored and leaves a document of the dead patch.
* The archival of a spec that was created again renames over the archived copy of the
  first; if it fails, its rollback removes that copy and does not bring the first back.
  `FailureRestores` is therefore proved for one archival of a document.

Publication:

* A tag made for a push that failed stays in the mirror. When the branch has moved on,
  publish.js:156 takes it for a publication and answers VERSION_EXISTS although the version
  was never published.
* While a heal runs, a fetch may bring an outsider's tag of another commit into the mirror
  between the check and git tag, whose error is swallowed (publish.js:124). The push of
  that tag finds the remote up to date, and the answer is "healed" although the version's
  tag names the outsider's commit.

Write path and branches:

* A read whose signature is out of date rebuilds the corpus between a write's apply and its
  copy to the worktree: rebuilds take projectLocks, not the write lock (mounts.js:444, against
  mounts.js:524 "so a cache rebuild never races an apply"). The copy fails or copies a corpus
  without the patch, the replay has nothing to replay, the second push sends nothing, and the
  write is answered as applied (against writepath.js:84). `Acked` without `Undisturbed`, with
  one write, one query and one author's commit, shows it. Any error of the copy, of git add
  or of git commit ends the same way.
* The corpus is written back document by document, so the copy may find a part of it. When the
  rebuild works from tips read before an author's push, which the write has fetched, the
  commit deletes the documents not yet written, and its push deletes them on the remote: what
  the spec was created with and what authors pushed is gone from the tip. `OthersKept`, which
  is `OutsideKept` without `raced`, fails so in 18 states with one write, one read and one
  author ({w1, q1, e1}). The same may undo what a merge brought, and the copy of a rebuild
  that broke off.
* A push that fails for good leaves the patch in the corpus; when the corpus has been rebuilt
  by then, the next write copies a corpus without it and its commit takes the patch back.
* A replay that conflicts leaves the worktree where it is, and every later write of the spec
  meets the same conflict.
* The lease is checked before the call waits for the lock (writepath.js:94), so a write may
  go ahead under somebody else's lease.
* A merge whose push failed leaves its commit in the worktree. The next write is refused,
  as the commits of the topic's authors look foreign; or it carries them out, after which
  the repeated merge finds nothing to do, answers "ok" and deletes the topic, although the
  content may be gone from the tip. With two merges of one topic this needs no repetition: the
  first one's push fails, a write on top of its commit is refused, and the second, which finds
  the topic in the branch, answers "ok" and pushes a tip without the topic's content.
* mergeWork deletes the topic without a lease: what an author pushed to it since the fetch is
  lost. deleteWork has one, but reads its expected tip after the check (spec-branches.js:243):
  when a query fetches in between, the lease accepts the author's new commit and deletes it.

Kernel:

* A trace is not sorted by the key of its cursor (query/service.js:1212, against the comment
  at 600), so following its pages repeats and skips nodes.
* Cursor keys are compared as JSON text where lists are sorted by number: an offset of 10
  comes before 9.
* findNodes and getEdges ignore an item larger than a page: the answer says truncated and has
  no cursor (NFR.md:22 asks for RESPONSE_TOO_LARGE).
* The cursor of listTasks is not bound to its filters (SCHEMA.md:40, "normalized filters").
* The cap on diagnostics can cut all the errors of a spec, whose scoped validation then says
  VALID, and hides new duplicates from the compilation of a patch.
* A trace in both directions reports tree edges as cycle edges; maxVisited is looked at per
  node, not per edge.
* deleteEntity removes everything up to the next heading of the first two levels
  (proposals.js:311), but an acceptance criterion may be defined at the third
  (types.js:261): one that follows the deleted one goes with it, and nothing says so. As a
  document declares its definitions by an edge, only scenarios can be deleted without force.
* sourceForOffset (build.js:1084) takes the last definition before an offset, not the
  innermost one around it. The archival proof counts neither ambiguous references nor links.

Tracker:

* mergedBoard samples the head from the fetched mirror, but the board comes from the cached
  graph of a service object. Between a push and the refresh of the corpus, or after a push
  past the service, both samples are equal, the board is old, and the marker certifies it
  under the new head; so it is when a rebuild drops the service object that the run took
  before its first sample (projection.js:92). Every later cheapCheck skips. The comment at
  projection.js:141 says the samples prevent this.
* spec_patch changes the corpus and the cached graph first, so between its apply and its push
  the board is ahead of both samples and the marker certifies it under the old head
  (`HeadsVouch` without `~lagged`, one write). The run after the push repairs this; after a
  push that failed for good nothing does until the remote moves.
* A push that fails for good leaves the status in corpus and graph. When the patch was the
  listener's, the next sweep finds card and board equal (youtrack-status-sweep.js:22) and never
  writes it again, against "Guaranteed-delivery reconciliation" (line 4). Its commit waits in
  the worktree for the next write of the task (`UserHeard` without `Stranded`, {m1, "sweep",
  "fail"}). A write whose apply falls into a rebuild patches the corpus before it is signed; if
  its push fails, the new signature covers a status the remote never had, and no run puts it
  right (`EventuallyShown` without `unshared`, {e2, e5, "fail"}).
* A worktree is never moved to the remote's tip. A write that sets back what the worktree has,
  after an author changed it, makes an empty commit which is replayed, pushed and answered as
  applied, against "never silently dropped" (writepath.js:206; seen with {e2, e5}); one that
  sets something else than the author and the service had conflicts, and so does every later
  write of that line.
* A run that broke off after it wrote cards and is followed by an edit back to the committed
  content is skipped as fresh: the cards keep what the broken run wrote.
* No run follows a run that failed until something else triggers one.
* A listing of the registry (registry.js:51), or a write that is refused afterwards, renews the
  corpus before the reconciler compares, which then sees no move and triggers nothing.
* After a run that failed on a card, the marker's snapshot already has the status the card
  does not show; the next sweep takes the difference for somebody's choice and writes the old
  status back to the specs (against youtrack-status-sweep.js:7, "the change happened in the
  tracker").
* The same happens when a run writes between the reads of a sweep, and sweep and projection
  can then take turns in undoing each other.
* setSpecTaskStatus does not say which status it means to replace, so an edit made between
  the listener's reads and its patch is overwritten (against "spec changed since the snapshot
  -> .specs wins").
* A run triggered by an edit of any spec rewrites the State of every card: a choice made in
  the tracker whose event was lost is gone before a sweep sees it.
* A card whose creation fails after the tracker has made it (youtrack-store.js:255-284: the
  answer is lost, or the State command after it fails) never enters cardIds, as does one of a
  run that broke off. If its task leaves the board before a later run patches it, no snapshot
  owns it, removeStaleCards skips it, and it stays beside complete markers.
* A copied card makes readProjection throw, and the projection stands still until it is gone.
* compareProjection skips only the root marker: the projects' markers are counted as cards,
  parity is never reached, and a run without a change is never skipped by it.

## Not modelled

The components marked not_modelled in `PROJECT.json`, each with its reason there: texts and
their parsers (pure functions of strings, which would have to be put together character by
character), the MCP and HTTP transports and the host plug-ins (no state of their own), the
review, evidence and enforcement checks (decisions on one request), bindings, tenants and the
authentication cache (single rows changed by one request, and timeouts), and the tools. Of
the components modelled in part, the notes there say which operations are missing.
