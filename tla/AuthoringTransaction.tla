------------------------- MODULE AuthoringTransaction -------------------------
(***************************************************************************)
(* The local write protocol of one `.specs` tree: spec_patch calls and     *)
(* queries of one or several server processes, the lock file, the staging  *)
(* directory with its journal and backups, the in-process rollback, process *)
(* crashes and the recovery the next writer runs.                          *)
(*                                                                         *)
(* src/src/authoring/transactions.js (lock, commit, recovery, reader) and  *)
(* the critical section of src/src/authoring/service.js.                   *)
(*                                                                         *)
(* A document's content is the patch that wrote it, so equal contents are  *)
(* exactly equal hashes.  One spec directory; one document per change.     *)
(***************************************************************************)
EXTENDS Integers, Sequences, FiniteSets

CONSTANTS
    Docs,          \* the documents of the spec directory
    Features,      \* the .feature documents among them
    Patches,       \* the spec_patch calls, each with a requestId of its own
    Queries,       \* the read-only calls
    Pids,          \* server processes
    PidOf,         \* the process that serves a call
    Changes,       \* per patch, the compiled sequence of [doc, op]
    MaxRetries,    \* attempts of the consistent reader (5 in the code)
    FaultPoints,   \* the steps at which an I/O error may be thrown
    MaxFaults,     \* bound: I/O errors in a behaviour
    MaxCrashes     \* bound: process crashes in a behaviour

Calls == Patches \cup Queries

Ops == {"write", "delete", "archive"}

CommitSteps == {"prepare", "stage", "backup", "noteBackup", "install",
                "noteInstall", "verify", "commit", "cleanup"}
RollbackSteps == {"rollback", "restore", "discard"}

ASSUME DocsAssumption == IsFiniteSet(Docs) /\ Features \subseteq Docs
ASSUME CallsAssumption == /\ Patches \cap Queries = {}
                          /\ PidOf \in [Calls -> Pids]
                          /\ Patches \cap {"initial", "empty", "missing", "nobody"} = {}
ASSUME ChangesAssumption ==
    /\ Changes \in [Patches -> Seq([doc : Docs, op : Ops])]
    /\ \A p \in Patches : /\ Changes[p] # << >>
                          /\ \A i, j \in DOMAIN Changes[p] :
                                Changes[p][i].doc = Changes[p][j].doc => i = j
ASSUME BoundsAssumption == /\ MaxRetries \in Nat \ {0}
                           /\ MaxFaults \in Nat
                           /\ MaxCrashes \in Nat
                           /\ FaultPoints \subseteq CommitSteps \cup RollbackSteps
                           /\ IsFiniteSet(Pids)

Missing  == "missing"                            \* no such file
Contents == Patches \cup {"initial", "empty", Missing}
NoLock   == [by |-> "nobody", stamped |-> FALSE]
Locks    == [by : Patches, stamped : BOOLEAN] \cup {NoLock}

\* "absent": no staging directory; "none": a directory without a journal;
\* "torn": a journal that does not parse.
Unfinished == {"prepared", "ready", "installing", "rollback_failed"}
Journals   == Unfinished \cup {"absent", "none", "torn", "committed"}

VARIABLES
    file,      \* the canonical documents
    archive,   \* the same documents under .specs/archive/<spec>
    lock,      \* .specs/.omp-spec-kit-write.lock
    journal,   \* per patch, the state of its staging directory and journal
    backup,    \* per patch, the .backup files of its staging directory
    alive,     \* the running processes
    faults,    \* I/O errors so far
    pc,        \* where each call stands
    result,    \* how each call was answered
    tries,     \* failed attempts of the consistent reader
    unread,    \* listed documents the running snapshot has still to read
    snapA, snapB,  \* the two snapshots; snapB is the base a patch compiles on
    pos,       \* index of the change being swapped, or undone
    backups,   \* the `backups` array of commitDocuments
    installed, \* the `installed` array of commitDocuments
    dead,      \* whose lock this call is recovering
    entries,   \* staging entries that recovery has still to look at
    gens       \* history: every generation that was completely installed

disk    == <<file, archive, lock, journal, backup>>
reading == <<tries, unread, snapA, snapB>>
commits == <<pos, backups, installed>>
recovers == <<dead, entries>>
env     == <<alive, faults>>
vars == <<disk, env, pc, result, reading, commits, recovers, gens>>

Alive(c) == PidOf[c] \in alive
At(c, l) == pc[c] = l /\ Alive(c)
Goto(c, l) == pc' = [pc EXCEPT ![c] = l]
Answer(c, r) == Goto(c, "done") /\ result' = [result EXCEPT ![c] = r]

Init ==
    /\ file \in [Docs -> {"initial", Missing}]
    /\ archive = [d \in Docs |-> Missing]
    /\ lock = NoLock
    /\ journal = [p \in Patches |-> "absent"]
    /\ backup = [p \in Patches |-> [d \in Docs |-> Missing]]
    /\ alive = Pids
    /\ faults = 0
    /\ pc = [c \in Calls |-> "idle"]
    /\ result = [c \in Calls |-> "none"]
    /\ tries = [c \in Calls |-> 0]
    /\ unread = [c \in Calls |-> {}]
    /\ snapA = [c \in Calls |-> [d \in Docs |-> Missing]]
    /\ snapB = [c \in Calls |-> [d \in Docs |-> Missing]]
    /\ pos = [p \in Patches |-> 0]
    /\ backups = [p \in Patches |-> {}]
    /\ installed = [p \in Patches |-> {}]
    /\ dead = [p \in Patches |-> "nobody"]
    /\ entries = [p \in Patches |-> {}]
    /\ gens = {file}

-----------------------------------------------------------------------------
(* The consistent reader, for queries and for the base of a patch. *)

UnfinishedStage == \E p \in Patches : journal[p] \in Unfinished

\* Mutant: the outcome of processAlive inverted.
LockedByDead(c) ==
    /\ lock # NoLock
    /\ \/ ~lock.stamped
       \/ PidOf[lock.by] # PidOf[c] /\ PidOf[lock.by] \notin alive

\* isLockedByOther: an unreadable lock counts, a dead or own one does not.
LockedByOther(c) ==
    /\ lock # NoLock
    /\ \/ ~lock.stamped
       \/ PidOf[lock.by] # PidOf[c] /\ PidOf[lock.by] \in alive

\* The staging directory is looked at once, before the first attempt.
Begin(c) ==
    /\ At(c, "idle")
    /\ IF UnfinishedStage
         THEN Answer(c, "RECOVERY_REQUIRED")
         ELSE Goto(c, "peek1") /\ UNCHANGED result
    /\ UNCHANGED <<disk, env, reading, commits, recovers, gens>>

\* Mutant: no bound on the attempts.
RetryForEver(c) == Goto(c, "peek1") /\ UNCHANGED <<tries, result>>

\* Mutant: the attempts are counted and the bound is forgotten.
RetryUnbounded(c) == tries' = [tries EXCEPT ![c] = @ + 1] /\ Goto(c, "peek1")
                     /\ UNCHANGED result

Retry(c) ==
    /\ tries' = [tries EXCEPT ![c] = @ + 1]
    /\ IF tries[c] + 1 = MaxRetries
         THEN Answer(c, "CONCURRENT_READ")
         ELSE Goto(c, "peek1") /\ UNCHANGED result

\* A patch must find the documents it deletes or archives.
Compiles(c) == \A i \in DOMAIN Changes[c] :
    Changes[c][i].op # "write" => snapB[c][Changes[c][i].doc] # Missing

Accept(c) ==
    /\ IF c \in Queries THEN Answer(c, "READ")
       ELSE IF Compiles(c) THEN Goto(c, "open") /\ UNCHANGED result
       ELSE Answer(c, "REFUSED")
    /\ UNCHANGED tries

\* The three lock checks of one attempt; the last one also compares.
Peek(c) ==
    /\ pc[c] \in {"peek1", "peek2", "peek3"} /\ Alive(c)
    /\ \/ /\ LockedByOther(c) \/ (pc[c] = "peek3" /\ snapA[c] # snapB[c])
          /\ Retry(c)
       \/ /\ ~LockedByOther(c)
          /\ pc[c] = "peek3" /\ snapA[c] = snapB[c]
          /\ Accept(c)
       \/ /\ ~LockedByOther(c)
          /\ pc[c] # "peek3"
          /\ Goto(c, IF pc[c] = "peek1" THEN "listA" ELSE "listB")
          /\ UNCHANGED <<tries, result>>
    /\ UNCHANGED <<disk, env, unread, snapA, snapB, commits, recovers, gens>>

NextPeek(l) == IF l \in {"listA", "readA"} THEN "peek2" ELSE "peek3"

\* readRepositorySpecs lists the directory, then reads what it listed.
ListDocuments(c) ==
    LET listed == {d \in Docs : file[d] # Missing}
        empty == [d \in Docs |-> Missing] IN
    /\ pc[c] \in {"listA", "listB"} /\ Alive(c)
    /\ unread' = [unread EXCEPT ![c] = listed]
    /\ IF pc[c] = "listA"
         THEN snapA' = [snapA EXCEPT ![c] = empty] /\ UNCHANGED snapB
         ELSE snapB' = [snapB EXCEPT ![c] = empty] /\ UNCHANGED snapA
    /\ Goto(c, IF listed = {} THEN NextPeek(pc[c])
               ELSE IF pc[c] = "listA" THEN "readA" ELSE "readB")
    /\ UNCHANGED <<disk, env, result, tries, commits, recovers, gens>>

\* A listed document that is gone when it is read fails the call.
ReadDocument(c) ==
    \E d \in unread[c] :
        /\ pc[c] \in {"readA", "readB"} /\ Alive(c)
        /\ unread' = [unread EXCEPT ![c] = @ \ {d}]
        /\ IF pc[c] = "readA"
             THEN snapA' = [snapA EXCEPT ![c][d] = file[d]] /\ UNCHANGED snapB
             ELSE snapB' = [snapB EXCEPT ![c][d] = file[d]] /\ UNCHANGED snapA
        /\ IF file[d] = Missing THEN Answer(c, "ADAPTER_READ_ERROR")
           ELSE /\ IF unread[c] = {d} THEN Goto(c, NextPeek(pc[c])) ELSE UNCHANGED pc
                /\ UNCHANGED result
        /\ UNCHANGED <<disk, env, tries, commits, recovers, gens>>

Read(c) == Begin(c) \/ Peek(c) \/ ListDocuments(c) \/ ReadDocument(c)

-----------------------------------------------------------------------------
(* The lock file. *)

\* Mutant: open(lockPath, "w").
CreateLockShared(p) ==
    /\ lock' = [by |-> p, stamped |-> FALSE]
    /\ Goto(p, "stamp")
    /\ UNCHANGED result

\* open(lockPath, "wx"): creates an empty file, or fails.
CreateLock(p) ==
    /\ lock = NoLock
    /\ lock' = [by |-> p, stamped |-> FALSE]
    /\ Goto(p, "stamp")
    /\ UNCHANGED result

OpenLock(p) ==
    /\ At(p, "open")
    /\ \/ CreateLock(p)
       \/ lock # NoLock /\ Goto(p, "inspect") /\ UNCHANGED <<lock, result>>
    /\ UNCHANGED <<file, archive, journal, backup, env, reading, commits, recovers, gens>>

\* No metadata, or metadata of a live process: CONFLICT.  Otherwise recover.
InspectLock(p) ==
    /\ At(p, "inspect")
    /\ IF lock.stamped /\ PidOf[lock.by] \notin alive
         THEN /\ dead' = [dead EXCEPT ![p] = lock.by]
              /\ Goto(p, "scan")
              /\ UNCHANGED result
         ELSE Answer(p, "CONFLICT") /\ UNCHANGED dead
    /\ UNCHANGED <<disk, env, reading, commits, entries, gens>>

\* The second attempt, after a recovery.
ReopenLock(p) ==
    /\ At(p, "reopen")
    /\ \/ CreateLock(p)
       \/ lock # NoLock /\ Answer(p, "CONFLICT") /\ UNCHANGED lock
    /\ UNCHANGED <<file, archive, journal, backup, env, reading, commits, recovers, gens>>

\* The metadata goes through the handle: to nowhere if the file was unlinked.
StampLock(p) ==
    /\ At(p, "stamp")
    /\ lock' = IF lock.by = p THEN [lock EXCEPT !.stamped = TRUE] ELSE lock
    /\ Goto(p, "revalidate")
    /\ UNCHANGED <<file, archive, journal, backup, env, result, reading,
                   commits, recovers, gens>>

\* rm(lockPath, force): whoever's lock is there.
ReleaseLock(p) ==
    /\ At(p, "release")
    /\ lock' = NoLock
    /\ Goto(p, "done")
    /\ UNCHANGED <<file, archive, journal, backup, env, result, reading,
                   commits, recovers, gens>>

Locking(p) == OpenLock(p) \/ InspectLock(p) \/ ReopenLock(p) \/ StampLock(p)
              \/ ReleaseLock(p)

-----------------------------------------------------------------------------
(* Recovery of the transaction whose dead lock was found. *)

\* Mutant: no `finally` around the operation.
LeaveLocked(p, r) == Answer(p, r)

Leave(p, r) == Goto(p, "release") /\ result' = [result EXCEPT ![p] = r]
Refuse(p)   == Answer(p, "RECOVERY_REQUIRED")

\* Hashes the journal records: of the bytes to install, and, for an archived
\* document, of beforeBytes, which the compiler loads for features only.
\* Mutant: a target is taken for the patch's own whatever its bytes.
AnyHash(q, ch) == file[ch.doc]

AfterHash(q, ch) == IF ch.op = "write" THEN q ELSE "empty"
ArchivedHash(q, d) == IF d \in Features THEN snapB[q][d] ELSE "empty"

CommittedGenerationValid(q) == \A i \in DOMAIN Changes[q] :
    LET ch == Changes[q][i] IN
    CASE ch.op = "archive" -> archive[ch.doc] = ArchivedHash(q, ch.doc)
      [] ch.op = "delete"  -> file[ch.doc] = Missing
      [] ch.op = "write"   -> file[ch.doc] = AfterHash(q, ch)

RemoveStage(q) == /\ journal' = [journal EXCEPT ![q] = "absent"]
                  /\ backup' = [backup EXCEPT ![q] = [d \in Docs |-> Missing]]

ScanStaging(p) ==
    /\ At(p, "scan")
    /\ entries' = [entries EXCEPT ![p] = {q \in Patches : journal[q] # "absent"}]
    /\ Goto(p, "recover")
    /\ UNCHANGED <<disk, env, result, reading, commits, dead, gens>>

\* Mutant: whatever the phase, the staging directory is just removed.
RecoverByPurging(p) ==
    /\ At(p, "recover")
    /\ \E q \in entries[p] : q = dead[p] /\ Goto(p, "purge")
    /\ UNCHANGED <<disk, env, result, reading, commits, recovers, gens>>

RecoverEntry(p) ==
    /\ At(p, "recover")
    /\ \E q \in entries[p] :
        IF q # dead[p] \/ journal[q] \in {"absent", "none", "torn"}
          THEN Refuse(p) /\ UNCHANGED pos
          ELSE /\ IF journal[q] = "committed" /\ CommittedGenerationValid(q)
                    THEN Goto(p, "purge") /\ UNCHANGED pos
                    ELSE /\ Goto(p, "undo")
                         /\ pos' = [pos EXCEPT ![p] = Len(Changes[q])]
               /\ UNCHANGED result
    /\ UNCHANGED <<disk, env, reading, backups, installed, recovers, gens>>

\* Every entry dealt with: rm(lockPath), whoever's lock it is by now.
RemoveDeadLock(p) ==
    /\ At(p, "recover") /\ entries[p] = {}
    /\ lock' = NoLock
    /\ Goto(p, "reopen")
    /\ UNCHANGED <<file, archive, journal, backup, env, result, reading,
                   commits, recovers, gens>>

Undoing(p) == Changes[dead[p]][pos[p]]
UndoNext(p) == /\ pos' = [pos EXCEPT ![p] = @ - 1]
               /\ Goto(p, IF pos[p] = 1 THEN "purge" ELSE "undo")

\* One change of rollbackInterruptedGeneration, last change first.
UndoChange(p) ==
    LET d == Undoing(p).doc  saved == backup[dead[p]][d] # Missing IN
    /\ At(p, "undo")
    /\ \/ /\ Undoing(p).op = "archive"
          /\ archive' = [archive EXCEPT ![d] = Missing]
          /\ Goto(p, "undoMove")
          /\ UNCHANGED <<pos, result>>
       \/ /\ Undoing(p).op # "archive"
          /\ \/ saved /\ Goto(p, IF file[d] # Missing THEN "undoRemove" ELSE "undoMove")
                /\ UNCHANGED <<pos, result>>
             \/ ~saved /\ file[d] = Missing /\ UndoNext(p) /\ UNCHANGED result
             \/ /\ ~saved /\ file[d] # Missing
                /\ IF file[d] = AfterHash(dead[p], Undoing(p))
                     THEN Goto(p, "undoDrop") /\ UNCHANGED result
                     ELSE Refuse(p)
                /\ UNCHANGED pos
          /\ UNCHANGED archive
    /\ UNCHANGED <<file, lock, journal, backup, env, reading, backups, installed,
                   recovers, gens>>

UndoRemove(p) ==
    /\ pc[p] \in {"undoRemove", "undoDrop"} /\ Alive(p)
    /\ file' = [file EXCEPT ![Undoing(p).doc] = Missing]
    /\ IF pc[p] = "undoDrop" THEN UndoNext(p) ELSE Goto(p, "undoMove") /\ UNCHANGED pos
    /\ UNCHANGED <<archive, lock, journal, backup, env, result, reading, backups,
                   installed, recovers, gens>>

\* The rename fails when another recovery has taken the backup away; the
\* archive branch looks first and skips.
UndoMove(p) ==
    LET d == Undoing(p).doc  q == dead[p] IN
    /\ At(p, "undoMove")
    /\ \/ /\ backup[q][d] # Missing
          /\ file' = [file EXCEPT ![d] = backup[q][d]]
          /\ backup' = [backup EXCEPT ![q][d] = Missing]
          /\ UndoNext(p)
          /\ UNCHANGED result
       \/ /\ backup[q][d] = Missing
          /\ IF Undoing(p).op = "archive"
               THEN UndoNext(p) /\ UNCHANGED result
               ELSE Answer(p, "FAILED") /\ UNCHANGED pos
          /\ UNCHANGED <<file, backup>>
    /\ UNCHANGED <<archive, lock, journal, env, reading, backups, installed,
                   recovers, gens>>

PurgeRecovered(p) ==
    /\ At(p, "purge")
    /\ RemoveStage(dead[p])
    /\ entries' = [entries EXCEPT ![p] = @ \ {dead[p]}]
    /\ Goto(p, "recover")
    /\ UNCHANGED <<file, archive, lock, env, result, reading, commits, dead, gens>>

Recovering(p) == ScanStaging(p) \/ RecoverEntry(p) \/ RemoveDeadLock(p)
    \/ UndoChange(p) \/ UndoRemove(p) \/ UndoMove(p) \/ PurgeRecovered(p)

-----------------------------------------------------------------------------
(* The critical section: revalidation, then commitDocuments. *)

\* Mutant: the corpus is not read again under the lock.
RevalidateNothing(p) ==
    /\ At(p, "revalidate")
    /\ Goto(p, "mkstage")
    /\ UNCHANGED <<disk, env, result, reading, commits, recovers, gens>>

\* A fresh read of the corpus under the lock must equal the compiled base.
Revalidate(p) ==
    /\ At(p, "revalidate")
    /\ IF UnfinishedStage THEN Leave(p, "RECOVERY_REQUIRED")
       ELSE IF LockedByOther(p) THEN Leave(p, "CONCURRENT_READ")
       ELSE IF file # snapB[p] THEN Leave(p, "CONFLICT")
       ELSE Goto(p, "mkstage") /\ UNCHANGED result
    /\ UNCHANGED <<disk, env, reading, commits, recovers, gens>>

WriteJournal(p, phase) == journal' = [journal EXCEPT ![p] = phase]

MakeStage(p) ==
    /\ At(p, "mkstage")
    /\ WriteJournal(p, "none")
    /\ Goto(p, "prepare")
    /\ UNCHANGED <<file, archive, lock, backup, env, result, reading, commits,
                   recovers, gens>>

Prepare(p) ==
    /\ At(p, "prepare")
    /\ WriteJournal(p, "prepared")
    /\ Goto(p, "stage")
    /\ UNCHANGED <<file, archive, lock, backup, env, result, reading, commits,
                   recovers, gens>>

\* Stages every document, then records that the stage is complete.
StageDocuments(p) ==
    /\ At(p, "stage")
    /\ WriteJournal(p, "ready")
    /\ pos' = [pos EXCEPT ![p] = 1]
    /\ Goto(p, "backup")
    /\ UNCHANGED <<file, archive, lock, backup, env, result, reading, backups,
                   installed, recovers, gens>>

Swapping(p) == Changes[p][pos[p]]

\* rename(target, backup); an archived document has to be there.
BackupDocument(p) ==
    LET d == Swapping(p).doc IN
    /\ At(p, "backup")
    /\ IF file[d] # Missing
         THEN /\ backup' = [backup EXCEPT ![p][d] = file[d]]
              /\ file' = [file EXCEPT ![d] = Missing]
              /\ Goto(p, "noteBackup")
         ELSE /\ Goto(p, IF Swapping(p).op = "archive" THEN "rollback" ELSE "install")
              /\ UNCHANGED <<file, backup>>
    /\ UNCHANGED <<archive, lock, journal, env, result, reading, commits, recovers, gens>>

\* backups.push comes after the synchronisation of the moved file.
RecordBackup(p) ==
    /\ At(p, "noteBackup")
    /\ backups' = [backups EXCEPT ![p] = @ \cup {Swapping(p).doc}]
    /\ Goto(p, "install")
    /\ UNCHANGED <<disk, env, result, reading, pos, installed, recovers, gens>>

InstallDocument(p) ==
    LET ch == Swapping(p) IN
    /\ At(p, "install")
    /\ file' = IF ch.op = "write" THEN [file EXCEPT ![ch.doc] = p] ELSE file
    /\ archive' = IF ch.op = "archive"
                    THEN [archive EXCEPT ![ch.doc] = snapB[p][ch.doc]] ELSE archive
    /\ Goto(p, "noteInstall")
    /\ UNCHANGED <<lock, journal, backup, env, result, reading, commits, recovers, gens>>

\* Mutant: installed.push forgotten.
RecordNoInstall(p) ==
    /\ At(p, "noteInstall")
    /\ IF Swapping(p).op = "archive" THEN UNCHANGED journal
                                     ELSE WriteJournal(p, "installing")
    /\ pos' = [pos EXCEPT ![p] = @ + 1]
    /\ Goto(p, IF pos[p] = Len(Changes[p]) THEN "verify" ELSE "backup")
    /\ UNCHANGED <<file, archive, lock, backup, env, result, reading, backups,
                   installed, recovers, gens>>

\* installed.push, and the journal of the phase unless archiving.
RecordInstall(p) ==
    /\ At(p, "noteInstall")
    /\ installed' = [installed EXCEPT ![p] = @ \cup {Swapping(p).doc}]
    /\ IF Swapping(p).op = "archive" THEN UNCHANGED journal
                                     ELSE WriteJournal(p, "installing")
    /\ pos' = [pos EXCEPT ![p] = @ + 1]
    /\ Goto(p, IF pos[p] = Len(Changes[p]) THEN "verify" ELSE "backup")
    /\ UNCHANGED <<file, archive, lock, backup, env, result, reading, backups,
                   recovers, gens>>

CompletelyInstalled(p) == \A i \in DOMAIN Changes[p] :
    LET ch == Changes[p][i] IN
    CASE ch.op = "archive" -> archive[ch.doc] # Missing
      [] ch.op = "delete"  -> file[ch.doc] = Missing
      [] ch.op = "write"   -> file[ch.doc] = p

Verify(p) ==
    /\ At(p, "verify")
    /\ IF CompletelyInstalled(p)
         THEN Goto(p, "commit") /\ gens' = gens \cup {file}
         ELSE Goto(p, "rollback") /\ UNCHANGED gens
    /\ UNCHANGED <<disk, env, result, reading, commits, recovers>>

\* The commit point; an archive then removes the source directory.
Commit(p) ==
    /\ At(p, "commit")
    /\ WriteJournal(p, "committed")
    /\ file' = IF \E i \in DOMAIN Changes[p] : Changes[p][i].op = "archive"
                 THEN [d \in Docs |-> Missing] ELSE file
    /\ Goto(p, "cleanup")
    /\ UNCHANGED <<archive, lock, backup, env, result, reading, commits, recovers, gens>>

Cleanup(p) ==
    /\ At(p, "cleanup")
    /\ RemoveStage(p)
    /\ Leave(p, "APPLIED")
    /\ UNCHANGED <<file, archive, lock, env, reading, commits, recovers, gens>>

Committing(p) == Revalidate(p) \/ MakeStage(p) \/ Prepare(p) \/ StageDocuments(p)
    \/ BackupDocument(p) \/ RecordBackup(p) \/ InstallDocument(p) \/ RecordInstall(p)
    \/ Verify(p) \/ Commit(p) \/ Cleanup(p)

-----------------------------------------------------------------------------
(* The catch block of commitDocuments. *)

Archives(p, d) == \E i \in DOMAIN Changes[p] :
    Changes[p][i].doc = d /\ Changes[p][i].op = "archive"

\* Remove what was installed; the files are distinct, so order is immaterial.
RemoveInstalled(p) ==
    /\ At(p, "rollback")
    /\ \/ /\ installed[p] = {}
          /\ Goto(p, "restore")
          /\ UNCHANGED <<file, archive, installed>>
       \/ \E d \in installed[p] :
          /\ installed' = [installed EXCEPT ![p] = @ \ {d}]
          /\ IF Archives(p, d)
               THEN archive' = [archive EXCEPT ![d] = Missing] /\ UNCHANGED file
               ELSE file' = [file EXCEPT ![d] = Missing] /\ UNCHANGED archive
          /\ UNCHANGED pc
    /\ UNCHANGED <<lock, journal, backup, env, result, reading, pos, backups,
                   recovers, gens>>

\* Rename a recorded backup over its target; without it the rollback fails.
RestoreBackup(p) ==
    /\ At(p, "restore")
    /\ \/ /\ backups[p] = {}
          /\ Goto(p, "discard")
          /\ UNCHANGED <<file, journal, backup, backups, result>>
       \/ \E d \in backups[p] :
          IF backup[p][d] # Missing
            THEN /\ file' = [file EXCEPT ![d] = backup[p][d]]
                 /\ backup' = [backup EXCEPT ![p][d] = Missing]
                 /\ backups' = [backups EXCEPT ![p] = @ \ {d}]
                 /\ UNCHANGED <<pc, journal, result>>
            ELSE /\ WriteJournal(p, "rollback_failed")
                 /\ Leave(p, "ROLLBACK_FAILED")
                 /\ UNCHANGED <<file, backup, backups>>
    /\ UNCHANGED <<archive, lock, env, reading, pos, installed, recovers, gens>>

DiscardStage(p) ==
    /\ At(p, "discard")
    /\ RemoveStage(p)
    /\ Leave(p, "FAILED")
    /\ UNCHANGED <<file, archive, lock, env, reading, commits, recovers, gens>>

RollingBack(p) == RemoveInstalled(p) \/ RestoreBackup(p) \/ DiscardStage(p)

-----------------------------------------------------------------------------
(* I/O errors and crashes. *)

\* A recursive removal that stopped half way: any of the files may be gone.
HalfRemoved(q) ==
    \E kept \in SUBSET Docs, phase \in {journal[q], "none"} :
        /\ journal' = [journal EXCEPT ![q] = phase]
        /\ backup' = [backup EXCEPT ![q] = [d \in Docs |->
                         IF d \in kept THEN backup[q][d] ELSE Missing]]

\* An error thrown by a step of the commit, before its bookkeeping.
CommitError(p) ==
    /\ pc[p] \in CommitSteps \cap FaultPoints /\ Alive(p)
    /\ faults < MaxFaults
    /\ faults' = faults + 1
    /\ IF pc[p] = "cleanup" THEN HalfRemoved(p) ELSE UNCHANGED <<journal, backup>>
    /\ Goto(p, "rollback")
    /\ UNCHANGED <<file, archive, lock, alive, result, reading, commits, recovers, gens>>

\* A failing rm is ignored; any other error ends the rollback.
RollbackError(p) ==
    /\ pc[p] \in RollbackSteps \cap FaultPoints /\ Alive(p)
    /\ faults < MaxFaults
    /\ faults' = faults + 1
    /\ \/ /\ pc[p] = "rollback"
          /\ \E d \in installed[p] :
                installed' = [installed EXCEPT ![p] = @ \ {d}]
          /\ UNCHANGED <<pc, journal, result>>
       \/ /\ pc[p] # "rollback"
          /\ WriteJournal(p, "rollback_failed")
          /\ Leave(p, "ROLLBACK_FAILED")
          /\ UNCHANGED installed
    /\ UNCHANGED <<file, archive, lock, backup, alive, reading, pos, backups,
                   recovers, gens>>

Kill(pid) == /\ pid \in alive
             /\ Cardinality(Pids \ alive) < MaxCrashes
             /\ alive' = alive \ {pid}
             /\ UNCHANGED <<file, archive, lock, faults, pc, result, reading,
                            commits, recovers, gens>>

Crash(pid) == Kill(pid) /\ UNCHANGED <<journal, backup>>

\* writeJournal truncates and rewrites in place.
CrashTearsJournal(p) ==
    /\ Kill(PidOf[p])
    /\ \/ pc[p] \in {"prepare", "stage", "commit"}
       \/ pc[p] = "noteInstall" /\ Swapping(p).op # "archive"
    /\ WriteJournal(p, "torn")
    /\ UNCHANGED backup

CrashMidRemoval(p) ==
    /\ Kill(PidOf[p])
    /\ \/ pc[p] \in {"cleanup", "discard"} /\ HalfRemoved(p)
       \/ pc[p] = "purge" /\ HalfRemoved(dead[p])

Environment == \/ \E p \in Patches : \/ CommitError(p) \/ RollbackError(p)
                                     \/ CrashTearsJournal(p) \/ CrashMidRemoval(p)
               \/ \E pid \in Pids : Crash(pid)

-----------------------------------------------------------------------------
Writing(p) == Locking(p) \/ Recovering(p) \/ Committing(p) \/ RollingBack(p)

Step(c) == Read(c) \/ (c \in Patches /\ Writing(c))

\* Every call is answered, or its process is gone.
Terminated == (\A c \in Calls : pc[c] = "done" \/ ~Alive(c)) /\ UNCHANGED vars

Next == \/ \E c \in Calls : Read(c)
        \/ \E p \in Patches : Writing(p)
        \/ Environment
        \/ Terminated

Spec == Init /\ [][Next]_vars

\* The event loop of a live process keeps running its pending calls.
FairSpec == Spec /\ \A c \in Calls : WF_vars(Step(c))

-----------------------------------------------------------------------------
Steps == {"idle", "peek1", "listA", "readA", "peek2", "listB", "readB", "peek3", "open", "inspect",
          "scan", "recover", "undo", "undoRemove", "undoDrop", "undoMove", "purge",
          "reopen", "stamp", "revalidate", "mkstage", "release", "done"}
         \cup CommitSteps \cup RollbackSteps

Results == {"none", "READ", "ADAPTER_READ_ERROR", "CONCURRENT_READ", "RECOVERY_REQUIRED", "REFUSED",
            "CONFLICT", "FAILED", "ROLLBACK_FAILED", "APPLIED"}

Generations == [Docs -> Contents]

\* Type invariant: the values each variable of the protocol ranges over.
TypeOK ==
    /\ file \in Generations /\ archive \in Generations
    /\ lock \in Locks
    /\ journal \in [Patches -> Journals]
    /\ backup \in [Patches -> Generations]
    /\ alive \subseteq Pids /\ faults \in 0 .. MaxFaults
    /\ pc \in [Calls -> Steps]
    /\ result \in [Calls -> Results]
    /\ tries \in [Calls -> 0 .. MaxRetries]
    /\ unread \in [Calls -> SUBSET Docs]
    /\ snapA \in [Calls -> Generations] /\ snapB \in [Calls -> Generations]
    /\ pos \in [Patches -> Nat]
    /\ backups \in [Patches -> SUBSET Docs]
    /\ installed \in [Patches -> SUBSET Docs]
    /\ dead \in [Patches -> Patches \cup {"nobody"}]
    /\ entries \in [Patches -> SUBSET Patches]
    /\ gens \subseteq Generations

\* The steps a call takes between getting the write lock and giving it up.
Holding == {"stamp", "revalidate", "mkstage", "release"} \cup CommitSteps \cup RollbackSteps

\* At most one live call is between lock acquisition and release (withWriteLock).
OneWriter == \A p, q \in Patches :
    Alive(p) /\ Alive(q) /\ pc[p] \in Holding /\ pc[q] \in Holding => p = q

\* A read that is answered saw a complete generation (readConsistentRepositorySpecs).
ReadsAreWhole == \A c \in Calls : result[c] = "READ" => snapB[c] \in gens

\* A patch that failed without ROLLBACK_FAILED left the old generation, and no
\* archived copy, behind (the catch block of commitDocuments).
FailureRestores == \A p \in Patches :
    pc[p] = "release" /\ result[p] = "FAILED" /\ Alive(p) =>
        /\ file = snapB[p]
        /\ \A i \in DOMAIN Changes[p] :
              Changes[p][i].op = "archive" => archive[Changes[p][i].doc] = Missing

\* A recovery that went through, up to removing the dead lock, left one complete
\* generation in place, unless the rollback of a writer that took the lock since has
\* failed and left its journal to say so (recoverInterruptedTransactions).
RecoveredIsWhole == \A p \in Patches :
    pc[p] = "reopen" /\ Alive(p) /\ lock = NoLock /\ ~UnfinishedStage => file \in gens

\* Once an archival is committed, none of its documents disappears from the disk:
\* each is archived, in place again, or in .backup (the archive branches).
ArchivedSurvives == \A p \in Patches, d \in Docs :
    (pc[p] = "cleanup" \/ result[p] = "APPLIED") /\ Archives(p, d) =>
        snapB[p][d] \in {file[d], archive[d], backup[p][d]}

-----------------------------------------------------------------------------
(* What the protocol promises: one atomic switch of the generation. *)

Uncommitted == {q \in Patches : journal[q] \in Unfinished \cup {"torn"}}

\* The generation the journals select: an unfinished patch is undone.
SelectedGeneration == [d \in Docs |->
    IF \E q \in Uncommitted : backup[q][d] # Missing
      THEN backup[CHOOSE q \in Uncommitted : backup[q][d] # Missing][d]
    ELSE IF file[d] \in Uncommitted THEN Missing
    ELSE file[d]]

AppliedPatches == {p \in Patches : pc[p] = "cleanup" \/ result[p] = "APPLIED"}

Atomic == INSTANCE AtomicCorpus WITH
    corpus <- SelectedGeneration, applied <- AppliedPatches,
    base <- [p \in Patches |-> snapB[p]]

\* Every step of the protocol, crashes and rollbacks included, leaves the selected
\* generation alone or is the one step that applies a patch to its own base.
RefinesAtomicCorpus == Atomic!Spec

\* Every call of a live process is answered: no lock, retry or rollback loop
\* holds it for ever.
EveryCallAnswered == \A c \in Calls : <>(pc[c] = "done" \/ ~Alive(c))

\* While no process crashes, a lock that was taken is given back.
LockIsReleased == lock # NoLock ~> lock = NoLock

=============================================================================
