---------------------- MODULE AuthoringTransactionProofs ----------------------
(***************************************************************************)
(* What AuthoringTransaction keeps for any documents, patches, processes,  *)
(* errors and crashes: its type invariant, and, as long as no two          *)
(* recoveries overlap, mutual exclusion of writers, the refinement of      *)
(* AtomicCorpus by its swaps, rollbacks, crashes and recoveries, that a    *)
(* completed recovery leaves a whole generation, and that a failed patch   *)
(* has put the old one back.  Two patches never recover at a time, and     *)
(* without crashes nobody recovers: there these hold without that premise. *)
(* Last, a query beside one writer sees a whole generation.                *)
(*                                                                         *)
(* All but the first two rest on AtomicInv.  Of a live patch that swaps:   *)
(* every document is untouched, or its base is in .backup and it is gone   *)
(* or already the patch's own (Moved, Untouched), and the arrays the catch *)
(* block goes by record every change but the one under way (Recorded).  Of *)
(* any stage, also one whose process is dead: an unfinished journal is the *)
(* lock holder's, and no other is (StageOK, Alone).  Of a recovery: which  *)
(* changes of the dead patch it has undone (UndoOK).                       *)
(***************************************************************************)
EXTENDS AuthoringTransaction, FiniteSetTheorems, TLAPS

Unanswered == {"idle", "peek1", "listA", "readA", "peek2", "listB", "readB", "peek3"}
SwapSteps  == {"backup", "noteBackup", "install", "noteInstall"}
UndoSteps  == {"undo", "undoRemove", "undoDrop", "undoMove"}

\* A reader has an attempt left; a swap and an undo stand at a change that exists.
AttemptLeft == \A c \in Calls : pc[c] \in Unanswered => tries[c] < MaxRetries
SwapsAChange == \A p \in Patches : pc[p] \in SwapSteps => pos[p] \in DOMAIN Changes[p]
UndoesAChange == \A p \in Patches : pc[p] \in UndoSteps =>
                    dead[p] \in Patches /\ pos[p] \in DOMAIN Changes[dead[p]]

TypeInv == TypeOK /\ AttemptLeft /\ SwapsAChange /\ UndoesAChange

-----------------------------------------------------------------------------
\* The changes of a patch are numbered from 1 and name documents and operations.
LEMMA ChangeTyping ==
    ASSUME NEW p \in Patches
    PROVE  /\ Len(Changes[p]) \in Nat \ {0}
           /\ DOMAIN Changes[p] = 1 .. Len(Changes[p])
           /\ \A i \in DOMAIN Changes[p] : Changes[p][i].doc \in Docs /\ Changes[p][i].op \in Ops
<1> DEFINE C == [doc : Docs, op : Ops]
           s == Changes[p]
<1>1. s \in Seq(C) /\ s # << >>
  BY ChangesAssumption
<1> HIDE DEF C, s
<1>2. /\ Len(s) \in Nat \ {0} /\ DOMAIN s = 1 .. Len(s)
      /\ \A i \in 1 .. Len(s) : s[i] \in C
  BY <1>1
<1> QED BY <1>2 DEF C, s

\* A lock that carries metadata names a patch.
LEMMA StampedLock == ASSUME lock \in Locks, lock.stamped PROVE lock.by \in Patches
BY DEF Locks, NoLock

\* A patch is a call.
LEMMA PatchesAreCalls == ASSUME NEW p \in Patches PROVE p \in Calls
BY DEF Calls

LEMMA InitTyped == Init => TypeInv
<1> SUFFICES ASSUME Init PROVE TypeInv OBVIOUS
<1>1. TypeOK BY CallsAssumption, BoundsAssumption
        DEF Init, TypeOK, Generations, Contents, Missing, Locks, Journals, Steps, Results
<1>2. AttemptLeft BY BoundsAssumption DEF Init, AttemptLeft
<1>3. SwapsAChange /\ UndoesAChange BY PatchesAreCalls DEF Init, SwapsAChange, UndoesAChange, SwapSteps, UndoSteps
<1> QED BY <1>1, <1>2, <1>3 DEF TypeInv

-----------------------------------------------------------------------------
(* The types of the variables, group of actions by group of actions. *)

\* The steps of the consistent reader.
LEMMA ReadTyped == ASSUME TypeOK, AttemptLeft, NEW c \in Calls, Read(c) PROVE TypeOK'
<1> USE DEF TypeOK, disk, env, reading, commits, recovers, Goto, Answer, At, Steps, Results
<1>1. CASE Begin(c) BY <1>1 DEF Begin
<1>2. CASE Peek(c)
  <2>1. CASE Retry(c)
    <3>1. tries'[c] \in 0 .. MaxRetries BY <1>2, <2>1, BoundsAssumption DEF Peek, Retry, AttemptLeft, Unanswered
    <3> QED BY <1>2, <2>1, <3>1 DEF Peek, Retry
  <2>2. CASE Accept(c) BY <1>2, <2>2 DEF Peek, Accept
  <2>3. CASE UNCHANGED <<tries, result>> /\ Goto(c, IF pc[c] = "peek1" THEN "listA" ELSE "listB")
    BY <1>2, <2>3 DEF Peek
  <2> QED BY <1>2, <2>1, <2>2, <2>3 DEF Peek
<1>3. CASE ListDocuments(c)
  <2>1. [d \in Docs |-> Missing] \in Generations BY DEF Generations, Contents
  <2>2. /\ [snapA EXCEPT ![c] = [d \in Docs |-> Missing]] \in [Calls -> Generations]
        /\ [snapB EXCEPT ![c] = [d \in Docs |-> Missing]] \in [Calls -> Generations]
    BY <2>1
  <2>3. snapA' \in [Calls -> Generations] /\ snapB' \in [Calls -> Generations]
    BY <1>3, <2>2 DEF ListDocuments
  <2>4. unread' \in [Calls -> SUBSET Docs] BY <1>3 DEF ListDocuments
  <2>5. pc' \in [Calls -> Steps] BY <1>3 DEF ListDocuments, NextPeek
  <2> QED BY <1>3, <2>3, <2>4, <2>5 DEF ListDocuments
<1>4. CASE ReadDocument(c)
  <2>1. PICK d \in unread[c] : ReadDocument(c)!(d) BY <1>4 DEF ReadDocument
  <2>2. d \in Docs OBVIOUS
  <2>3. file[d] \in Contents BY <2>2 DEF Generations
  <2>4. /\ [snapA EXCEPT ![c][d] = file[d]] \in [Calls -> Generations]
        /\ [snapB EXCEPT ![c][d] = file[d]] \in [Calls -> Generations]
    BY <2>2, <2>3 DEF Generations
  <2> QED BY <2>1, <2>2, <2>4 DEF NextPeek
<1> QED BY <1>1, <1>2, <1>3, <1>4 DEF Read

\* Taking, reading and giving up the lock file.
LEMMA LockingTyped == ASSUME TypeOK, NEW p \in Patches, Locking(p) PROVE TypeOK'
<1> USE PatchesAreCalls DEF TypeOK, disk, env, reading, commits, recovers, Goto, Answer, At, Steps, Results
<1>1. CASE OpenLock(p)
  <2>1. [by |-> p, stamped |-> FALSE] \in Locks BY DEF Locks
  <2> QED BY <1>1, <2>1 DEF OpenLock, CreateLock
<1>2. CASE InspectLock(p) BY <1>2, StampedLock DEF InspectLock
<1>3. CASE ReopenLock(p)
  <2>1. [by |-> p, stamped |-> FALSE] \in Locks BY DEF Locks
  <2>2. lock' \in Locks BY <1>3, <2>1 DEF ReopenLock, CreateLock
  <2>3. pc' \in [Calls -> Steps] /\ result' \in [Calls -> Results]
    BY <1>3 DEF ReopenLock, CreateLock
  <2> QED BY <1>3, <2>2, <2>3 DEF ReopenLock
<1>4. CASE StampLock(p)
  <2>1. lock.by = p => [lock EXCEPT !.stamped = TRUE] \in Locks BY CallsAssumption DEF Locks, NoLock
  <2> QED BY <1>4, <2>1 DEF StampLock
<1>5. CASE ReleaseLock(p) BY <1>5 DEF ReleaseLock, Locks
<1> QED BY <1>1, <1>2, <1>3, <1>4, <1>5 DEF Locking

\* Recovery: it undoes changes of the dead patch, which exist.
LEMMA RecoveringTyped ==
    ASSUME TypeOK, UndoesAChange, NEW p \in Patches, Recovering(p) PROVE TypeOK'
<1> USE PatchesAreCalls DEF TypeOK, disk, env, reading, commits, recovers, Goto, Answer, At, Steps, Results
<1>1. CASE ScanStaging(p) BY <1>1 DEF ScanStaging
<1>2. CASE RecoverEntry(p)
  <2>1. PICK q \in entries[p] : RecoverEntry(p)!2!(q) BY <1>2 DEF RecoverEntry
  <2>2. Len(Changes[q]) \in Nat BY ChangeTyping
  <2>3. pos' \in [Patches -> Nat] BY <2>1, <2>2
  <2>4. pc' \in [Calls -> Steps] /\ result' \in [Calls -> Results] BY <2>1 DEF Refuse
  <2> QED BY <1>2, <2>3, <2>4 DEF RecoverEntry
<1>3. CASE RemoveDeadLock(p) BY <1>3 DEF RemoveDeadLock, Locks
<1>4. pc[p] \in UndoSteps =>
        /\ dead[p] \in Patches /\ pos[p] \in 1 .. Len(Changes[dead[p]])
        /\ Undoing(p).doc \in Docs
  BY ChangeTyping DEF UndoesAChange, Undoing
<1>5. Missing \in Contents BY DEF Contents
<1>6. CASE UndoChange(p)
  <2>1. Undoing(p).doc \in Docs /\ pos[p] \in Nat \ {0} BY <1>4, <1>6 DEF UndoChange, UndoSteps
  <2>2. [archive EXCEPT ![Undoing(p).doc] = Missing] \in Generations BY <1>5, <2>1 DEF Generations
  <2> QED BY <1>6, <2>1, <2>2 DEF UndoChange, UndoNext, Refuse
<1>7. CASE UndoRemove(p)
  <2>1. Undoing(p).doc \in Docs /\ pos[p] \in Nat \ {0} BY <1>4, <1>7 DEF UndoRemove, UndoSteps
  <2>2. [file EXCEPT ![Undoing(p).doc] = Missing] \in Generations BY <1>5, <2>1 DEF Generations
  <2> QED BY <1>7, <2>1, <2>2 DEF UndoRemove, UndoNext
<1>8. CASE UndoMove(p)
  <2>1. /\ dead[p] \in Patches /\ Undoing(p).doc \in Docs /\ pos[p] \in Nat \ {0}
    BY <1>4, <1>8 DEF UndoMove, UndoSteps
  <2> DEFINE d == Undoing(p).doc
             q == dead[p]
  <2>2. [file EXCEPT ![d] = backup[q][d]] \in Generations BY <2>1 DEF Generations
  <2>3. [backup EXCEPT ![q][d] = Missing] \in [Patches -> Generations]
    BY <1>5, <2>1 DEF Generations
  <2>4. file' \in Generations /\ backup' \in [Patches -> Generations]
    BY <1>8, <2>2, <2>3 DEF UndoMove
  <2>5. pos' \in [Patches -> Nat] BY <1>8, <2>1 DEF UndoMove, UndoNext
  <2>6. pc' \in [Calls -> Steps] /\ result' \in [Calls -> Results]
    BY <1>8 DEF UndoMove, UndoNext
  <2> QED BY <1>8, <2>4, <2>5, <2>6 DEF UndoMove
<1>9. CASE PurgeRecovered(p)
  <2>1. [journal EXCEPT ![dead[p]] = "absent"] \in [Patches -> Journals] BY DEF Journals
  <2>2. [d \in Docs |-> Missing] \in Generations BY <1>5 DEF Generations
  <2>3. [backup EXCEPT ![dead[p]] = [d \in Docs |-> Missing]] \in [Patches -> Generations] BY <2>2
  <2> QED BY <1>9, <2>1, <2>3 DEF PurgeRecovered, RemoveStage
<1> QED BY <1>1, <1>2, <1>3, <1>6, <1>7, <1>8, <1>9 DEF Recovering

\* Revalidation and commit: the swap stands at a change of the patch.
LEMMA CommittingTyped ==
    ASSUME TypeOK, SwapsAChange, NEW p \in Patches, Committing(p) PROVE TypeOK'
<1> USE PatchesAreCalls DEF TypeOK, disk, env, reading, commits, recovers, Goto, At,
            Steps, CommitSteps, RollbackSteps, Results
<1>1. CASE Revalidate(p) BY <1>1 DEF Revalidate, Leave
<1>2. \A phase \in Journals : [journal EXCEPT ![p] = phase] \in [Patches -> Journals]
  OBVIOUS
<1>3. CASE MakeStage(p) BY <1>2, <1>3 DEF MakeStage, WriteJournal, Journals
<1>4. CASE Prepare(p) BY <1>2, <1>4 DEF Prepare, WriteJournal, Journals, Unfinished
<1>5. CASE StageDocuments(p) BY <1>2, <1>5 DEF StageDocuments, WriteJournal, Journals, Unfinished
<1>6. pc[p] \in SwapSteps => Swapping(p).doc \in Docs /\ pos[p] \in Nat
  BY ChangeTyping DEF SwapsAChange, Swapping
<1>7. Missing \in Contents BY DEF Contents
<1>8. CASE BackupDocument(p)
  <2>1. Swapping(p).doc \in Docs BY <1>6, <1>8 DEF BackupDocument, SwapSteps
  <2> DEFINE d == Swapping(p).doc
  <2>2. [file EXCEPT ![d] = Missing] \in Generations BY <1>7, <2>1 DEF Generations
  <2>3. [backup EXCEPT ![p][d] = file[d]] \in [Patches -> Generations] BY <2>1 DEF Generations
  <2> HIDE DEF d
  <2> QED BY <1>8, <2>2, <2>3 DEF BackupDocument, d
<1>9. CASE RecordBackup(p)
  <2>1. Swapping(p).doc \in Docs BY <1>6, <1>9 DEF RecordBackup, SwapSteps
  <2> QED BY <1>9, <2>1 DEF RecordBackup
<1>10. CASE InstallDocument(p)
  <2>1. Swapping(p).doc \in Docs BY <1>6, <1>10 DEF InstallDocument, SwapSteps
  <2> DEFINE d == Swapping(p).doc
  <2>2. [file EXCEPT ![d] = p] \in Generations BY <2>1 DEF Generations, Contents
  <2>3. [archive EXCEPT ![d] = snapB[p][d]] \in Generations BY <2>1 DEF Generations
  <2>4. file' \in Generations /\ archive' \in Generations
    BY <1>10, <2>2, <2>3 DEF InstallDocument
  <2>5. pc' \in [Calls -> Steps] BY <1>10 DEF InstallDocument
  <2>6. UNCHANGED <<lock, journal, backup, env, result, reading, commits, recovers, gens>>
    BY <1>10 DEF InstallDocument
  <2> QED BY <2>4, <2>5, <2>6
<1>11. CASE RecordInstall(p)
  <2>1. Swapping(p).doc \in Docs /\ pos[p] \in Nat BY <1>6, <1>11 DEF RecordInstall, SwapSteps
  <2>2. journal' \in [Patches -> Journals]
    BY <1>2, <1>11 DEF RecordInstall, WriteJournal, Journals, Unfinished
  <2>3. pos' \in [Patches -> Nat] BY <1>11, <2>1 DEF RecordInstall
  <2>4. installed' \in [Patches -> SUBSET Docs] BY <1>11, <2>1 DEF RecordInstall
  <2>5. pc' \in [Calls -> Steps] BY <1>11 DEF RecordInstall
  <2> QED BY <1>11, <2>2, <2>3, <2>4, <2>5 DEF RecordInstall
<1>12. CASE Verify(p) BY <1>12 DEF Verify
<1>13. CASE Commit(p)
  <2>1. [d \in Docs |-> Missing] \in Generations BY <1>7 DEF Generations
  <2>2. journal' \in [Patches -> Journals] BY <1>2, <1>13 DEF Commit, WriteJournal, Journals
  <2> QED BY <1>13, <2>1, <2>2 DEF Commit
<1>14. CASE Cleanup(p)
  <2>1. [d \in Docs |-> Missing] \in Generations BY <1>7 DEF Generations
  <2>2. journal' \in [Patches -> Journals] /\ backup' \in [Patches -> Generations]
    BY <1>2, <1>14, <2>1 DEF Cleanup, RemoveStage, Journals
  <2> QED BY <1>14, <2>2 DEF Cleanup, Leave
<1> QED BY <1>1, <1>3, <1>4, <1>5, <1>8, <1>9, <1>10, <1>11, <1>12, <1>13, <1>14 DEF Committing

\* The catch block.
LEMMA RollingBackTyped == ASSUME TypeOK, NEW p \in Patches, RollingBack(p) PROVE TypeOK'
<1> USE PatchesAreCalls DEF TypeOK, disk, env, reading, commits, recovers, Goto, At,
            Steps, CommitSteps, RollbackSteps, Results
<1>1. Missing \in Contents BY DEF Contents
<1>2. CASE RemoveInstalled(p)
  <2>1. pc' \in [Calls -> Steps] BY <1>2 DEF RemoveInstalled
  <2>2. \A d \in installed[p] : /\ [file EXCEPT ![d] = Missing] \in Generations
                                /\ [archive EXCEPT ![d] = Missing] \in Generations
    BY <1>1 DEF Generations
  <2>3. file' \in Generations /\ archive' \in Generations BY <1>2, <2>2 DEF RemoveInstalled
  <2>4. installed' \in [Patches -> SUBSET Docs] BY <1>2 DEF RemoveInstalled
  <2> QED BY <1>2, <2>1, <2>3, <2>4 DEF RemoveInstalled
<1>3. CASE RestoreBackup(p)
  <2>1. pc' \in [Calls -> Steps] /\ result' \in [Calls -> Results]
    BY <1>3 DEF RestoreBackup, Leave
  <2>2. journal' \in [Patches -> Journals]
    BY <1>3 DEF RestoreBackup, WriteJournal, Journals, Unfinished
  <2>3. \A d \in backups[p] : /\ [file EXCEPT ![d] = backup[p][d]] \in Generations
                              /\ [backup EXCEPT ![p][d] = Missing] \in [Patches -> Generations]
    BY <1>1 DEF Generations
  <2>4. file' \in Generations /\ backup' \in [Patches -> Generations]
    BY <1>3, <2>3 DEF RestoreBackup
  <2>5. backups' \in [Patches -> SUBSET Docs] BY <1>3 DEF RestoreBackup
  <2> QED BY <1>3, <2>1, <2>2, <2>4, <2>5 DEF RestoreBackup
<1>4. CASE DiscardStage(p)
  <2>1. [d \in Docs |-> Missing] \in Generations BY <1>1 DEF Generations
  <2>2. journal' \in [Patches -> Journals] /\ backup' \in [Patches -> Generations]
    BY <1>4, <2>1 DEF DiscardStage, RemoveStage, Journals
  <2> QED BY <1>4, <2>2 DEF DiscardStage, Leave
<1> QED BY <1>2, <1>3, <1>4 DEF RollingBack

\* A removal that stops half way.
LEMMA HalfRemovedTyped ==
    ASSUME TypeOK, NEW q, HalfRemoved(q), q \in Patches
    PROVE  journal' \in [Patches -> Journals] /\ backup' \in [Patches -> Generations]
<1>1. PICK kept \in SUBSET Docs, phase \in {journal[q], "none"} : HalfRemoved(q)!(kept, phase)
  BY DEF HalfRemoved
<1>2. phase \in Journals BY DEF TypeOK, Journals
<1> DEFINE left == [d \in Docs |-> IF d \in kept THEN backup[q][d] ELSE Missing]
<1>3. left \in Generations BY DEF TypeOK, Generations, Contents
<1>4. backup' = [backup EXCEPT ![q] = left] BY <1>1
<1> HIDE DEF left
<1> QED BY <1>1, <1>2, <1>3, <1>4 DEF TypeOK

\* Errors and crashes.
LEMMA EnvironmentTyped == ASSUME TypeOK, Environment PROVE TypeOK'
<1> USE PatchesAreCalls DEF disk, env, reading, commits, recovers, Goto, At,
            Steps, CommitSteps, RollbackSteps, Results
<1>1. ASSUME NEW p \in Patches, CommitError(p) PROVE TypeOK'
  <2>1. journal' \in [Patches -> Journals] /\ backup' \in [Patches -> Generations]
    BY <1>1, HalfRemovedTyped DEF CommitError, TypeOK
  <2>2. faults' \in 0 .. MaxFaults BY <1>1, BoundsAssumption DEF CommitError, TypeOK
  <2> QED BY <1>1, <2>1, <2>2 DEF CommitError, TypeOK
<1>2. ASSUME NEW p \in Patches, RollbackError(p) PROVE TypeOK'
  <2>1. journal' \in [Patches -> Journals]
    BY <1>2 DEF RollbackError, WriteJournal, TypeOK, Journals, Unfinished
  <2>2. faults' \in 0 .. MaxFaults BY <1>2, BoundsAssumption DEF RollbackError, TypeOK
  <2>3. installed' \in [Patches -> SUBSET Docs] BY <1>2 DEF RollbackError, TypeOK
  <2>4. pc' \in [Calls -> Steps] /\ result' \in [Calls -> Results]
    BY <1>2 DEF RollbackError, Leave, TypeOK
  <2> QED BY <1>2, <2>1, <2>2, <2>3, <2>4 DEF RollbackError, TypeOK
<1>3. ASSUME NEW pid, Kill(pid), journal' \in [Patches -> Journals],
             backup' \in [Patches -> Generations]
      PROVE  TypeOK'
  BY <1>3 DEF Kill, TypeOK
<1>4. ASSUME NEW pid \in Pids, Crash(pid) PROVE TypeOK'
  BY <1>3, <1>4 DEF Crash, TypeOK
<1>5. ASSUME NEW p \in Patches, CrashTearsJournal(p) PROVE TypeOK'
  <2>1. journal' \in [Patches -> Journals] /\ backup' \in [Patches -> Generations]
    BY <1>5 DEF CrashTearsJournal, WriteJournal, TypeOK, Journals
  <2> QED BY <1>3, <1>5, <2>1 DEF CrashTearsJournal
<1>6. ASSUME NEW p \in Patches, CrashMidRemoval(p) PROVE TypeOK'
  <2>1. journal' \in [Patches -> Journals] /\ backup' \in [Patches -> Generations]
    <3>1. CASE HalfRemoved(p) BY <3>1, HalfRemovedTyped
    <3>2. CASE pc[p] = "purge" /\ HalfRemoved(dead[p]) /\ dead[p] \in Patches
      BY <3>2, HalfRemovedTyped
    <3>3. CASE pc[p] = "purge" /\ HalfRemoved(dead[p]) /\ dead[p] \notin Patches
      <4>1. PICK kept \in SUBSET Docs, phase \in {journal[dead[p]], "none"} :
                    HalfRemoved(dead[p])!(kept, phase)
        BY <3>3 DEF HalfRemoved
      <4>2. journal' = journal BY <3>3, <4>1 DEF TypeOK
      <4>3. backup' = backup BY <3>3, <4>1 DEF TypeOK
      <4> QED BY <4>2, <4>3 DEF TypeOK
    <3> QED BY <1>6, <3>1, <3>2, <3>3 DEF CrashMidRemoval
  <2> QED BY <1>3, <1>6, <2>1 DEF CrashMidRemoval
<1> QED BY <1>1, <1>2, <1>4, <1>5, <1>6 DEF Environment

-----------------------------------------------------------------------------
(* Where the calls stand: attempts, the change being swapped, the change being undone. *)

\* What a step of c has to guarantee about c and leave alone of the others.
StandsRight(c) ==
    /\ \A b \in Calls \ {c} : pc'[b] = pc[b] /\ tries'[b] = tries[b]
    /\ \A b \in Patches \ {c} : pos'[b] = pos[b] /\ dead'[b] = dead[b]
    /\ pc'[c] \in Unanswered => tries'[c] < MaxRetries
    /\ c \in Patches /\ pc'[c] \in SwapSteps => pos'[c] \in DOMAIN Changes[c]
    /\ c \in Patches /\ pc'[c] \in UndoSteps =>
          dead'[c] \in Patches /\ pos'[c] \in DOMAIN Changes[dead'[c]]

LEMMA StandsRightKeeps ==
    ASSUME AttemptLeft, SwapsAChange, UndoesAChange, NEW c \in Calls, StandsRight(c)
    PROVE  AttemptLeft' /\ SwapsAChange' /\ UndoesAChange'
BY PatchesAreCalls DEF AttemptLeft, SwapsAChange, UndoesAChange, StandsRight

\* A reader moves among the steps of the reader, or on to the lock.
LEMMA ReadStands == ASSUME TypeOK, AttemptLeft, NEW c \in Calls, Read(c) PROVE StandsRight(c)
<1> USE PatchesAreCalls DEF StandsRight, Goto, Answer, At, reading, commits, recovers,
            Unanswered, SwapSteps, UndoSteps
<1>1. /\ pc \in [Calls -> Steps] /\ tries \in [Calls -> 0 .. MaxRetries] /\ MaxRetries \in Nat
      /\ pc[c] \in Unanswered => tries[c] < MaxRetries
  BY BoundsAssumption DEF TypeOK, AttemptLeft
<1>2. CASE Begin(c) BY <1>1, <1>2 DEF Begin
<1>3. CASE Peek(c)
  <2>1. CASE Retry(c) BY <1>1, <1>3, <2>1 DEF Peek, Retry
  <2>2. CASE Accept(c) BY <1>1, <1>3, <2>2 DEF Peek, Accept
  <2>3. CASE UNCHANGED tries /\ Goto(c, IF pc[c] = "peek1" THEN "listA" ELSE "listB")
    BY <1>1, <1>3, <2>3 DEF Peek
  <2> QED BY <1>3, <2>1, <2>2, <2>3 DEF Peek
<1>4. CASE ListDocuments(c)
  <2>1. pc'[c] \in Unanswered BY <1>1, <1>4 DEF ListDocuments, NextPeek
  <2> QED BY <1>1, <1>4, <2>1 DEF ListDocuments
<1>5. CASE ReadDocument(c)
  <2>1. /\ pc'[c] \in Unanswered \cup {"done"} /\ pc[c] \in Unanswered
        /\ \A b \in Calls \ {c} : pc'[b] = pc[b]
    BY <1>1, <1>5 DEF ReadDocument, NextPeek
  <2>2. UNCHANGED <<tries, pos, dead>> BY <1>5 DEF ReadDocument
  <2> QED BY <1>1, <2>1, <2>2
<1> QED BY <1>2, <1>3, <1>4, <1>5 DEF Read

LEMMA LockingStands == ASSUME TypeOK, NEW p \in Patches, Locking(p) PROVE StandsRight(p)
<1> USE PatchesAreCalls DEF StandsRight, Goto, Answer, At, reading, commits, recovers,
            Unanswered, SwapSteps, UndoSteps
<1>1. pc \in [Calls -> Steps] /\ dead \in [Patches -> Patches \cup {"nobody"}] BY DEF TypeOK
<1>2. CASE OpenLock(p) BY <1>1, <1>2 DEF OpenLock, CreateLock
<1>3. CASE InspectLock(p) BY <1>1, <1>3 DEF InspectLock
<1>4. CASE ReopenLock(p) BY <1>1, <1>4 DEF ReopenLock, CreateLock
<1>5. CASE StampLock(p) BY <1>1, <1>5 DEF StampLock
<1>6. CASE ReleaseLock(p) BY <1>1, <1>6 DEF ReleaseLock
<1> QED BY <1>2, <1>3, <1>4, <1>5, <1>6 DEF Locking

LEMMA RecoveringStands ==
    ASSUME TypeOK, UndoesAChange, NEW p \in Patches, Recovering(p) PROVE StandsRight(p)
<1> USE PatchesAreCalls DEF StandsRight, Goto, Answer, At, reading, commits, recovers, disk,
            Unanswered, SwapSteps, UndoSteps
<1>1. /\ pc \in [Calls -> Steps] /\ pos \in [Patches -> Nat]
      /\ dead \in [Patches -> Patches \cup {"nobody"}] /\ entries \in [Patches -> SUBSET Patches]
  BY DEF TypeOK
<1>2. CASE ScanStaging(p) BY <1>1, <1>2 DEF ScanStaging
<1>3. CASE RecoverEntry(p)
  <2>1. PICK q \in entries[p] : RecoverEntry(p)!2!(q) BY <1>3 DEF RecoverEntry
  <2>2. Len(Changes[q]) \in DOMAIN Changes[q] BY <1>1, ChangeTyping
  <2>3. UNCHANGED <<tries, dead>> BY <1>3 DEF RecoverEntry
  <2>4. /\ \A b \in Patches \ {p} : pos'[b] = pos[b]
        /\ \A b \in Calls \ {p} : pc'[b] = pc[b]
    BY <1>1, <2>1 DEF Refuse
  <2>5. /\ pc'[p] \in {"done", "purge", "undo"}
        /\ pc'[p] = "undo" => q = dead[p] /\ pos'[p] = Len(Changes[q])
    BY <1>1, <2>1 DEF Refuse
  <2> QED BY <1>1, <2>2, <2>3, <2>4, <2>5
<1>4. CASE RemoveDeadLock(p) BY <1>1, <1>4 DEF RemoveDeadLock
<1>5. pc[p] \in UndoSteps => /\ dead[p] \in Patches
                             /\ pos[p] \in 1 .. Len(Changes[dead[p]])
                             /\ Len(Changes[dead[p]]) \in Nat
                             /\ DOMAIN Changes[dead[p]] = 1 .. Len(Changes[dead[p]])
  BY ChangeTyping DEF UndoesAChange
<1>6. ASSUME pc[p] \in UndoSteps, UndoNext(p), UNCHANGED <<tries, dead>> PROVE StandsRight(p)
  <2>1. pos[p] # 1 => pos[p] - 1 \in 1 .. Len(Changes[dead[p]]) BY <1>5, <1>6
  <2>2. pc'[p] = "undo" => pos[p] # 1 BY <1>1, <1>6 DEF UndoNext
  <2>3. pc'[p] \in {"purge", "undo"} BY <1>1, <1>6 DEF UndoNext
  <2>4. pos'[p] = pos[p] - 1 BY <1>1, <1>6 DEF UndoNext
  <2>5. /\ \A b \in Patches \ {p} : pos'[b] = pos[b]
        /\ \A b \in Calls \ {p} : pc'[b] = pc[b]
    BY <1>1, <1>6 DEF UndoNext
  <2> QED BY <1>5, <1>6, <2>1, <2>2, <2>3, <2>4, <2>5
<1>7. ASSUME pc[p] \in UndoSteps, NEW l, Goto(p, l), l \in UndoSteps \cup {"done"},
             UNCHANGED <<tries, dead, pos>>
      PROVE  StandsRight(p)
  BY <1>1, <1>5, <1>7
<1>8. CASE UndoChange(p)
  <2>1. UNCHANGED <<tries, dead>> BY <1>8 DEF UndoChange
  <2>2. \/ UndoNext(p)
        \/ \E l \in UndoSteps \cup {"done"} : Goto(p, l) /\ UNCHANGED pos
    BY <1>8 DEF UndoChange, Refuse
  <2> QED BY <1>6, <1>7, <1>8, <2>1, <2>2 DEF UndoChange
<1>9. CASE UndoRemove(p)
  <2>1. UndoNext(p) \/ (Goto(p, "undoMove") /\ UNCHANGED pos) BY <1>9 DEF UndoRemove
  <2> QED BY <1>6, <1>7, <1>9, <2>1 DEF UndoRemove
<1>10. CASE UndoMove(p)
  <2>1. UndoNext(p) \/ (Goto(p, "done") /\ UNCHANGED pos) BY <1>10 DEF UndoMove
  <2> QED BY <1>6, <1>7, <1>10, <2>1 DEF UndoMove
<1>11. CASE PurgeRecovered(p) BY <1>1, <1>11 DEF PurgeRecovered
<1> QED BY <1>2, <1>3, <1>4, <1>8, <1>9, <1>10, <1>11 DEF Recovering

LEMMA CommittingStands ==
    ASSUME TypeOK, SwapsAChange, NEW p \in Patches, Committing(p) PROVE StandsRight(p)
<1> USE PatchesAreCalls DEF StandsRight, Goto, At, reading, commits, recovers, disk,
            Unanswered, SwapSteps, UndoSteps, Leave
<1>1. pc \in [Calls -> Steps] /\ pos \in [Patches -> Nat] BY DEF TypeOK
<1>2. Len(Changes[p]) \in Nat \ {0} /\ DOMAIN Changes[p] = 1 .. Len(Changes[p]) BY ChangeTyping
<1>3. pc[p] \in SwapSteps => pos[p] \in DOMAIN Changes[p] BY DEF SwapsAChange
<1>4. CASE Revalidate(p) BY <1>1, <1>4 DEF Revalidate
<1>5. CASE MakeStage(p) BY <1>1, <1>5 DEF MakeStage
<1>6. CASE Prepare(p) BY <1>1, <1>6 DEF Prepare
<1>7. CASE StageDocuments(p) BY <1>1, <1>2, <1>7 DEF StageDocuments
<1>8. CASE BackupDocument(p) BY <1>1, <1>3, <1>8 DEF BackupDocument
<1>9. CASE RecordBackup(p) BY <1>1, <1>3, <1>9 DEF RecordBackup
<1>10. CASE InstallDocument(p)
  <2>1. Goto(p, "noteInstall") /\ UNCHANGED <<reading, commits, recovers>> /\ pc[p] = "install"
    BY <1>10 DEF InstallDocument
  <2> QED BY <1>1, <1>3, <2>1
<1>11. CASE RecordInstall(p)
  <2>1. pc[p] = "noteInstall" /\ pos' = [pos EXCEPT ![p] = @ + 1] /\ UNCHANGED <<reading, recovers>>
    BY <1>11 DEF RecordInstall
  <2>2. Goto(p, IF pos[p] = Len(Changes[p]) THEN "verify" ELSE "backup") BY <1>11 DEF RecordInstall
  <2>3. pos[p] # Len(Changes[p]) => pos[p] + 1 \in DOMAIN Changes[p] BY <1>2, <1>3, <2>1
  <2> QED BY <1>1, <2>1, <2>2, <2>3
<1>12. CASE Verify(p) BY <1>1, <1>12 DEF Verify
<1>13. CASE Commit(p) BY <1>1, <1>13 DEF Commit
<1>14. CASE Cleanup(p) BY <1>1, <1>14 DEF Cleanup
<1> QED BY <1>4, <1>5, <1>6, <1>7, <1>8, <1>9, <1>10, <1>11, <1>12, <1>13, <1>14 DEF Committing

LEMMA RollingBackStands == ASSUME TypeOK, NEW p \in Patches, RollingBack(p) PROVE StandsRight(p)
<1> USE PatchesAreCalls DEF StandsRight, Goto, At, reading, commits, recovers,
            Unanswered, SwapSteps, UndoSteps, RollbackSteps, Leave
<1>1. pc \in [Calls -> Steps] BY DEF TypeOK
<1>2. CASE RemoveInstalled(p) BY <1>1, <1>2 DEF RemoveInstalled
<1>3. CASE RestoreBackup(p)
  <2>1. pc[p] = "restore" /\ UNCHANGED <<reading, pos, installed, recovers>>
    BY <1>3 DEF RestoreBackup
  <2>2. UNCHANGED pc \/ \E l \in {"discard", "release"} : Goto(p, l)
    BY <1>3 DEF RestoreBackup
  <2> QED BY <1>1, <2>1, <2>2
<1>4. CASE DiscardStage(p) BY <1>1, <1>4 DEF DiscardStage
<1> QED BY <1>2, <1>3, <1>4 DEF RollingBack

\* An error sends a patch to its rollback; a crash moves nobody.
LEMMA EnvironmentStands ==
    ASSUME TypeOK, AttemptLeft, SwapsAChange, UndoesAChange, Environment
    PROVE  AttemptLeft' /\ SwapsAChange' /\ UndoesAChange'
<1> USE PatchesAreCalls DEF Goto, reading, commits, recovers, Unanswered, SwapSteps, UndoSteps
<1>1. pc \in [Calls -> Steps] BY DEF TypeOK
<1>2. UNCHANGED <<tries, pos, dead>>
  BY DEF Environment, CommitError, RollbackError, CrashTearsJournal, CrashMidRemoval, Crash, Kill
<1>3. UNCHANGED pc \/ \E p \in Patches, l \in {"rollback", "release"} : Goto(p, l)
  BY DEF Environment, CommitError, RollbackError, CrashTearsJournal, CrashMidRemoval, Crash, Kill, Leave
<1> QED BY <1>1, <1>2, <1>3 DEF AttemptLeft, SwapsAChange, UndoesAChange

-----------------------------------------------------------------------------
LEMMA NextTyped == TypeInv /\ [Next]_vars => TypeInv'
<1> SUFFICES ASSUME TypeInv, [Next]_vars PROVE TypeInv' OBVIOUS
<1> USE DEF TypeInv
<1>1. ASSUME NEW c \in Calls, Read(c) PROVE TypeInv'
  BY <1>1, ReadTyped, ReadStands, StandsRightKeeps
<1>2. ASSUME NEW p \in Patches, Writing(p) PROVE TypeInv'
  <2>1. TypeOK' BY <1>2, LockingTyped, RecoveringTyped, CommittingTyped, RollingBackTyped DEF Writing
  <2>2. StandsRight(p)
    BY <1>2, LockingStands, RecoveringStands, CommittingStands, RollingBackStands DEF Writing
  <2> QED BY <2>1, <2>2, StandsRightKeeps, PatchesAreCalls
<1>3. CASE Environment BY <1>3, EnvironmentTyped, EnvironmentStands
<1>4. CASE UNCHANGED vars
  BY <1>4 DEF vars, disk, env, reading, commits, recovers,
              TypeOK, AttemptLeft, SwapsAChange, UndoesAChange
<1> QED BY <1>1, <1>2, <1>3, <1>4 DEF Next, Terminated

\* The variables keep their types, for every instance: every read of the model that
\* indexes a change or a document finds one, and retries, errors and crashes stay bounded.
THEOREM TypeCorrect == Spec => []TypeOK
<1>1. TypeInv => TypeOK BY DEF TypeInv
<1> QED BY <1>1, InitTyped, NextTyped, PTL DEF Spec

-----------------------------------------------------------------------------
(* Mutual exclusion.  Two recoveries of one dead lock break it, so it is     *)
(* proved for the behaviours in which no two live calls recover at a time.   *)

Recoveries == {"scan", "recover", "purge"} \cup UndoSteps

OneRecovery == \A p, q \in Patches :
    Alive(p) /\ Alive(q) /\ pc[p] \in Recoveries /\ pc[q] \in Recoveries => p = q

\* A live holder's lock is on disk; a live recoverer faces the stamped lock of the
\* dead process it recovers.
HoldersLock == \A p \in Patches : Alive(p) /\ pc[p] \in Holding => lock.by = p
DeadLock == \A p \in Patches : Alive(p) /\ pc[p] \in Recoveries =>
    lock.stamped /\ lock.by = dead[p] /\ ~Alive(dead[p])

LockInv == HoldersLock /\ DeadLock

\* What the steps that leave the lock file alone have in common.
LeavesLock ==
    /\ UNCHANGED <<lock, dead>>
    /\ alive' \subseteq alive
    /\ \A p \in Patches : /\ pc'[p] \in Holding => pc[p] \in Holding
                          /\ pc'[p] \in Recoveries => pc[p] \in Recoveries

LEMMA LeavesLockKeeps == ASSUME LockInv, LeavesLock PROVE LockInv'
BY DEF LockInv, HoldersLock, DeadLock, LeavesLock, Alive

LEMMA ReadLeavesLock == ASSUME TypeOK, NEW c \in Calls, Read(c) PROVE LeavesLock
<1> USE PatchesAreCalls DEF Goto, Answer, disk, env, commits, recovers
<1>1. pc \in [Calls -> Steps] BY DEF TypeOK
<1>2. UNCHANGED <<lock, dead, alive>>
  BY DEF Read, Begin, Peek, ListDocuments, ReadDocument
<1>3. \/ UNCHANGED pc
      \/ \E l \in Unanswered \cup {"open", "done"} : Goto(c, l)
  BY DEF Read, Begin, Peek, Retry, Accept, ListDocuments, ReadDocument, NextPeek, Unanswered
<1> QED BY <1>1, <1>2, <1>3
      DEF LeavesLock, Holding, Recoveries, UndoSteps, CommitSteps, RollbackSteps, Unanswered

LEMMA CommittingLeavesLock ==
    ASSUME TypeOK, NEW p \in Patches, Committing(p) \/ RollingBack(p) PROVE LeavesLock
<1> USE PatchesAreCalls DEF Goto, At, env, recovers, Leave
<1>1. pc \in [Calls -> Steps] BY DEF TypeOK
<1>2. UNCHANGED <<lock, dead, alive>> /\ pc[p] \in Holding
  <2> USE DEF disk, Holding, CommitSteps, RollbackSteps
  <2>1. CASE RollingBack(p)
    BY <2>1 DEF RollingBack, RemoveInstalled, RestoreBackup, DiscardStage
  <2>2. CASE Revalidate(p) \/ MakeStage(p) \/ Prepare(p) \/ StageDocuments(p)
    BY <2>2 DEF Revalidate, MakeStage, Prepare, StageDocuments
  <2>3. CASE BackupDocument(p) \/ RecordBackup(p) \/ InstallDocument(p) \/ RecordInstall(p)
    BY <2>3 DEF BackupDocument, RecordBackup, InstallDocument, RecordInstall
  <2>4. CASE Verify(p) \/ Commit(p) \/ Cleanup(p) BY <2>4 DEF Verify, Commit, Cleanup
  <2> QED BY <2>1, <2>2, <2>3, <2>4 DEF Committing
<1>3. UNCHANGED pc \/ \E l \in Holding : Goto(p, l)
  <2> USE DEF Holding, CommitSteps, RollbackSteps
  <2>1. CASE RollingBack(p)
    BY <2>1 DEF RollingBack, RemoveInstalled, RestoreBackup, DiscardStage
  <2>2. CASE Revalidate(p) \/ MakeStage(p) \/ Prepare(p) \/ StageDocuments(p)
    BY <2>2 DEF Revalidate, MakeStage, Prepare, StageDocuments
  <2>3. CASE BackupDocument(p) \/ RecordBackup(p) \/ InstallDocument(p) \/ RecordInstall(p)
    BY <2>3 DEF BackupDocument, RecordBackup, InstallDocument, RecordInstall
  <2>4. CASE Verify(p) \/ Commit(p) \/ Cleanup(p) BY <2>4 DEF Verify, Commit, Cleanup
  <2> QED BY <2>1, <2>2, <2>3, <2>4 DEF Committing
<1>4. Holding \cap Recoveries = {}
  BY DEF Holding, Recoveries, UndoSteps, CommitSteps, RollbackSteps
<1> QED BY <1>1, <1>2, <1>3, <1>4 DEF LeavesLock

LEMMA EnvironmentLeavesLock == ASSUME TypeOK, Environment PROVE LeavesLock
<1> USE PatchesAreCalls DEF Goto, recovers
<1>1. pc \in [Calls -> Steps] BY DEF TypeOK
<1>2. UNCHANGED <<lock, dead>> /\ alive' \subseteq alive
  BY DEF Environment, CommitError, RollbackError, CrashTearsJournal, CrashMidRemoval, Crash, Kill
<1>3. UNCHANGED pc \/ \E p \in Patches : pc[p] \in Holding /\ \E l \in Holding : Goto(p, l)
  BY DEF Environment, CommitError, RollbackError, CrashTearsJournal, CrashMidRemoval, Crash, Kill,
         Leave, Holding, CommitSteps, RollbackSteps
<1>4. Holding \cap Recoveries = {}
  BY DEF Holding, Recoveries, UndoSteps, CommitSteps, RollbackSteps
<1> QED BY <1>1, <1>2, <1>3, <1>4 DEF LeavesLock

\* Taking and giving up the lock.
LEMMA LockingKeeps == ASSUME TypeOK, LockInv, NEW p \in Patches, Locking(p) PROVE LockInv'
<1> USE PatchesAreCalls, CallsAssumption
    DEF Goto, Answer, At, env, recovers, LockInv, HoldersLock, DeadLock
<1> DEFINE Idle(l) == l \notin Holding \cup Recoveries
<1>1. pc \in [Calls -> Steps] /\ lock \in Locks /\ dead \in [Patches -> Patches \cup {"nobody"}]
  BY DEF TypeOK
<1>2. /\ Idle("inspect") /\ Idle("done") /\ {"stamp", "revalidate", "release"} \subseteq Holding
      /\ Holding \cap Recoveries = {}
  BY DEF Holding, Recoveries, UndoSteps, CommitSteps, RollbackSteps
<1>3. NoLock.by = "nobody" /\ ~NoLock.stamped /\ "nobody" \notin Patches BY DEF NoLock
<1> HIDE DEF Idle
<1>4. ASSUME UNCHANGED <<lock, dead, alive>>, NEW l, Goto(p, l), Idle(l) PROVE LockInv'
  <2>1. LeavesLock BY <1>1, <1>4 DEF LeavesLock, Idle
  <2> QED BY <2>1, LeavesLockKeeps DEF LockInv
<1>5. ASSUME CreateLock(p), UNCHANGED <<dead, alive>> PROVE LockInv'
  <2>1. \A q \in Patches : ~(Alive(q) /\ pc[q] \in Holding \cup Recoveries)
    BY <1>3, <1>5 DEF CreateLock
  <2>2. lock'.by = p BY <1>5 DEF CreateLock
  <2>3. pc'[p] \notin Recoveries BY <1>1, <1>2, <1>5 DEF CreateLock
  <2> QED BY <1>1, <1>5, <2>1, <2>2, <2>3 DEF CreateLock, Alive
<1>6. CASE OpenLock(p)
  <2>1. CreateLock(p) \/ (UNCHANGED lock /\ Goto(p, "inspect")) BY <1>6 DEF OpenLock
  <2>2. UNCHANGED <<dead, alive>> BY <1>6 DEF OpenLock
  <2> QED BY <1>2, <1>4, <1>5, <2>1, <2>2
<1>7. CASE InspectLock(p)
  <2>1. CASE lock.stamped /\ PidOf[lock.by] \notin alive
    <3>1. lock.by \in Patches BY <1>1, <2>1, StampedLock
    <3>2. /\ dead' = [dead EXCEPT ![p] = lock.by] /\ Goto(p, "scan") /\ UNCHANGED <<lock, alive>>
      BY <1>7, <2>1 DEF InspectLock, disk
    <3>3. "scan" \notin Holding BY DEF Holding, CommitSteps, RollbackSteps
    <3> QED BY <1>1, <2>1, <3>1, <3>2, <3>3 DEF Alive
  <2>2. CASE ~(lock.stamped /\ PidOf[lock.by] \notin alive)
    BY <1>2, <1>4, <1>7, <2>2 DEF InspectLock, disk
  <2> QED BY <2>1, <2>2
<1>8. CASE ReopenLock(p)
  <2>1. CreateLock(p) \/ (UNCHANGED lock /\ Goto(p, "done")) BY <1>8 DEF ReopenLock
  <2>2. UNCHANGED <<dead, alive>> BY <1>8 DEF ReopenLock
  <2> QED BY <1>2, <1>4, <1>5, <2>1, <2>2
<1>9. CASE StampLock(p)
  <2>1. lock.by = p BY <1>2, <1>9 DEF StampLock
  <2>2. lock'.by = p BY <1>1, <1>9, <2>1 DEF StampLock, Locks, NoLock
  <2>3. \A q \in Patches : ~(Alive(q) /\ pc[q] \in Recoveries) BY <1>9, <2>1 DEF StampLock
  <2>4. /\ \A q \in Patches \ {p} : pc'[q] = pc[q]
        /\ pc'[p] = "revalidate" /\ UNCHANGED <<dead, alive>>
    BY <1>1, <1>9 DEF StampLock
  <2> QED BY <1>2, <2>1, <2>2, <2>3, <2>4 DEF Alive
<1>10. CASE ReleaseLock(p)
  <2>1. lock.by = p BY <1>2, <1>10 DEF ReleaseLock
  <2>2. \A q \in Patches \ {p} : ~(Alive(q) /\ pc[q] \in Holding) BY <2>1
  <2>3. \A q \in Patches : ~(Alive(q) /\ pc[q] \in Recoveries) BY <1>10, <2>1 DEF ReleaseLock
  <2>4. /\ \A q \in Patches \ {p} : pc'[q] = pc[q]
        /\ pc'[p] = "done" /\ UNCHANGED <<dead, alive>>
    BY <1>1, <1>10 DEF ReleaseLock
  <2> QED BY <1>2, <2>2, <2>3, <2>4 DEF Alive, Idle
<1> QED BY <1>6, <1>7, <1>8, <1>9, <1>10 DEF Locking

\* A recovery that no other one overlaps removes the dead lock and no other.
LEMMA RecoveringKeeps ==
    ASSUME TypeOK, OneRecovery, LockInv, NEW p \in Patches, Recovering(p) PROVE LockInv'
<1> USE PatchesAreCalls DEF Goto, Answer, At, env, recovers, disk
<1>1. pc \in [Calls -> Steps] BY DEF TypeOK
<1>2. CASE RemoveDeadLock(p)
  <2>1. pc[p] \in Recoveries /\ Alive(p) BY <1>2 DEF RemoveDeadLock, Recoveries
  <2>2. \A q \in Patches \ {p} : ~(Alive(q) /\ pc[q] \in Recoveries) BY <2>1 DEF OneRecovery
  <2>3. \A q \in Patches : ~(Alive(q) /\ pc[q] \in Holding)
    BY <2>1 DEF LockInv, HoldersLock, DeadLock
  <2>4. /\ \A q \in Patches \ {p} : pc'[q] = pc[q]
        /\ pc'[p] = "reopen" /\ UNCHANGED <<dead, alive>>
    BY <1>1, <1>2 DEF RemoveDeadLock
  <2>5. "reopen" \notin Holding \cup Recoveries
    BY DEF Holding, Recoveries, UndoSteps, CommitSteps, RollbackSteps
  <2> QED BY <2>2, <2>3, <2>4, <2>5 DEF LockInv, HoldersLock, DeadLock, Alive
<1>3. ASSUME ~RemoveDeadLock(p) PROVE LeavesLock
  <2> USE <1>3 DEF Recovering, ScanStaging, RecoverEntry, UndoChange, UndoRemove, UndoMove,
                   PurgeRecovered, UndoNext, Refuse, Recoveries, UndoSteps
  <2>1. UNCHANGED <<lock, dead, alive>> /\ pc[p] \in Recoveries OBVIOUS
  <2>2. \E l \in Recoveries \cup {"done"} : Goto(p, l) OBVIOUS
  <2>3. Holding \cap Recoveries = {}
    BY DEF Holding, CommitSteps, RollbackSteps
  <2>4. "done" \notin Holding \cup Recoveries BY DEF Holding, CommitSteps, RollbackSteps
  <2> HIDE DEF Recoveries, UndoSteps
  <2> QED BY <1>1, <2>1, <2>2, <2>3, <2>4 DEF LeavesLock
<1> QED BY <1>2, <1>3, LeavesLockKeeps

LEMMA NextKeepsLock == TypeOK /\ OneRecovery /\ LockInv /\ [Next]_vars => LockInv'
<1> SUFFICES ASSUME TypeOK, OneRecovery, LockInv, [Next]_vars PROVE LockInv' OBVIOUS
<1>1. ASSUME NEW c \in Calls, Read(c) PROVE LockInv'
  BY <1>1, ReadLeavesLock, LeavesLockKeeps
<1>2. ASSUME NEW p \in Patches, Writing(p) PROVE LockInv'
  BY <1>2, LockingKeeps, RecoveringKeeps, CommittingLeavesLock, LeavesLockKeeps DEF Writing
<1>3. CASE Environment BY <1>3, EnvironmentLeavesLock, LeavesLockKeeps
<1>4. CASE UNCHANGED vars
  BY <1>4 DEF vars, disk, env, recovers, LockInv, HoldersLock, DeadLock, Alive
<1> QED BY <1>1, <1>2, <1>3, <1>4 DEF Next, Terminated

\* Under the lock file there is one live writer at a time, for any number of
\* processes, errors and crashes, unless two live calls recover at the same time.
THEOREM OneWriterUnlessRecoveriesOverlap == Spec /\ []OneRecovery => []OneWriter
<1>1. Init => LockInv
  BY PatchesAreCalls DEF Init, LockInv, HoldersLock, DeadLock, Holding, Recoveries, UndoSteps,
                         CommitSteps, RollbackSteps
<1>2. LockInv => OneWriter BY DEF LockInv, HoldersLock, OneWriter
<1> QED BY <1>1, <1>2, NextKeepsLock, TypeCorrect, PTL DEF Spec

-----------------------------------------------------------------------------
(* Without crashes nobody recovers. *)

AllAlive == alive = Pids /\ \A p \in Patches : pc[p] \notin Recoveries

LEMMA NextKeepsAlive == MaxCrashes = 0 /\ TypeOK /\ AllAlive /\ [Next]_vars => AllAlive'
<1> SUFFICES ASSUME MaxCrashes = 0, TypeOK, AllAlive, [Next]_vars PROVE AllAlive' OBVIOUS
<1> USE PatchesAreCalls DEF AllAlive
<1>1. /\ pc \in [Calls -> Steps] /\ lock \in Locks
      /\ \A p \in Patches : PidOf[p] \in alive
  BY CallsAssumption DEF TypeOK
<1>2. ASSUME LeavesLock, UNCHANGED alive PROVE AllAlive' BY <1>2 DEF LeavesLock
<1>3. ASSUME NEW c \in Calls, Read(c) PROVE AllAlive'
  <2>1. UNCHANGED alive BY <1>3 DEF Read, Begin, Peek, ListDocuments, ReadDocument, env
  <2> QED BY <1>2, <1>3, <2>1, ReadLeavesLock
<1>4. ASSUME NEW p \in Patches, Writing(p) PROVE AllAlive'
  <2>1. CASE Locking(p)
    <3>1. lock.stamped => PidOf[lock.by] \in alive BY <1>1, StampedLock
    <3>2. UNCHANGED alive
      BY <2>1 DEF Locking, OpenLock, InspectLock, ReopenLock, StampLock, ReleaseLock, env
    <3>3. \E l \in {"stamp", "inspect", "done", "revalidate"} : Goto(p, l)
      BY <2>1, <3>1 DEF Locking, OpenLock, InspectLock, ReopenLock, StampLock, ReleaseLock,
                        CreateLock, Answer
    <3> QED BY <1>1, <3>2, <3>3 DEF Goto, Recoveries, UndoSteps
  <2>2. CASE Recovering(p)
    BY <2>2 DEF Recovering, ScanStaging, RecoverEntry, RemoveDeadLock, UndoChange, UndoRemove,
                UndoMove, PurgeRecovered, At, Recoveries, UndoSteps
  <2>3. CASE Committing(p) \/ RollingBack(p)
    <3>1. UNCHANGED alive
      BY <2>3 DEF Committing, Revalidate, MakeStage, Prepare, StageDocuments, BackupDocument,
                  RecordBackup, InstallDocument, RecordInstall, Verify, Commit, Cleanup,
                  RollingBack, RemoveInstalled, RestoreBackup, DiscardStage, env
    <3> QED BY <1>2, <2>3, <3>1, CommittingLeavesLock
  <2> QED BY <1>4, <2>1, <2>2, <2>3 DEF Writing
<1>5. ASSUME NEW pid, Kill(pid) PROVE FALSE
  <2>1. Pids \ alive = {} OBVIOUS
  <2>2. Cardinality(Pids \ alive) = 0 BY <2>1, FS_EmptySet
  <2> QED BY <1>5, <2>2 DEF Kill
<1>6. CASE Environment
  <2>1. UNCHANGED alive
    BY <1>5, <1>6 DEF Environment, CommitError, RollbackError, CrashTearsJournal,
                      CrashMidRemoval, Crash
  <2> QED BY <1>2, <1>6, <2>1, EnvironmentLeavesLock
<1>7. CASE UNCHANGED vars BY <1>7 DEF vars, env
<1> QED BY <1>3, <1>4, <1>6, <1>7 DEF Next, Terminated

\* While no process crashes, the lock file admits one writer at a time, whatever
\* errors the commits and the rollbacks of the others run into.
THEOREM OneWriterWithoutCrashes == MaxCrashes = 0 /\ Spec => []OneWriter
<1> SUFFICES ASSUME MaxCrashes = 0 PROVE Spec => []OneWriter OBVIOUS
<1>1. Init => AllAlive
  BY PatchesAreCalls DEF Init, AllAlive, Recoveries, UndoSteps
<1>2. AllAlive => OneRecovery BY DEF AllAlive, OneRecovery
<1>3. TypeOK /\ AllAlive /\ [Next]_vars => AllAlive' BY NextKeepsAlive
<1>4. Spec => []AllAlive BY <1>1, <1>3, TypeCorrect, PTL DEF Spec
<1> QED BY <1>2, <1>4, OneWriterUnlessRecoveriesOverlap, PTL

-----------------------------------------------------------------------------
(* What holds of the documents, the stages and the calls. *)

\* Before its critical section, a recovery included, and while it swaps or rolls back.
Fresh  == Unanswered \cup {"open", "inspect", "reopen", "stamp", "revalidate"} \cup Recoveries
Midway == {"mkstage"} \cup (CommitSteps \ {"cleanup"}) \cup RollbackSteps

\* What a swap, or the undoing of it, has made of one document.
Moved(p, d) == backup[p][d] = snapB[p][d] /\ file[d] \in {Missing, p}
Untouched(p, d) == backup[p][d] = Missing /\ file[d] = snapB[p][d]
Clean(p) == installed[p] = {} /\ backups[p] = {} /\ \A d \in Docs : Untouched(p, d)
Changed(p) == {Changes[p][i].doc : i \in DOMAIN Changes[p]}
Current(p, d) == d = Swapping(p).doc
NoArchive(p) == \A d \in Docs : ~Archives(p, d)

\* Before it swaps, a patch is nowhere on the disk.
FreshOK(p) == pc[p] \in Fresh =>
    /\ journal[p] = "absent" /\ installed[p] = {} /\ backups[p] = {}
    /\ \A d \in Docs : backup[p][d] = Missing /\ file[d] # p /\ \A q \in Patches : backup[q][d] # p

Kept(p) == \A d \in Docs : /\ snapB[p][d] # p /\ (Moved(p, d) \/ Untouched(p, d))
                           /\ file[d] = p => ~Archives(p, d)
Elsewhere(p) == \A d \in Docs \ Changed(p) : Untouched(p, d)

\* The journals that recovery goes by, or cannot read.
Undecided == Unfinished \cup {"torn"}
Alone(p) == \A q \in Patches \ {p} : journal[q] \notin Undecided

\* Every change is in the arrays the rollback goes by, but for the one under way.
Recorded(p) ==
    /\ \A d \in installed[p] : Moved(p, d)
    /\ \A d \in Docs : file[d] = p => d \in installed[p] \/ (pc[p] = "noteInstall" /\ Current(p, d))
    /\ \A d \in Docs : backup[p][d] # Missing => d \in backups[p] \/ (pc[p] = "noteBackup" /\ Current(p, d))

\* Where the swap stands.
SwapOK(p) ==
    /\ pc[p] \in SwapSteps \cup {"verify", "commit"} => journal[p] \in Unfinished
    /\ pc[p] \in {"mkstage", "prepare", "stage"} \/ journal[p] \notin Unfinished => Clean(p)
    /\ pc[p] \in SwapSteps => \A i \in DOMAIN Changes[p] : pos[p] < i => Untouched(p, Changes[p][i].doc)
    /\ pc[p] = "backup" => Untouched(p, Swapping(p).doc)
    /\ pc[p] \in {"noteBackup", "install"} =>
           backup[p][Swapping(p).doc] = snapB[p][Swapping(p).doc] /\ file[Swapping(p).doc] = Missing
    /\ pc[p] = "noteInstall" => Moved(p, Swapping(p).doc)
    /\ pc[p] = "commit" => CompletelyInstalled(p)
    /\ pc[p] \in {"restore", "discard"} => installed[p] = {}
    /\ pc[p] = "discard" => file = snapB[p]

MidwayOK(p) == pc[p] \in Midway =>
    /\ Kept(p) /\ Alone(p) /\ Recorded(p) /\ SwapOK(p) /\ Elsewhere(p)
    /\ journal[p] \notin {"torn", "committed"}

\* How a patch is answered.
AnswerOK(p) ==
    /\ pc[p] \in Fresh \cup Midway \cup {"cleanup"} => result[p] = "none"
    /\ pc[p] = "cleanup" => journal[p] = "committed"
    /\ pc[p] = "release" => journal[p] \in {"absent", "rollback_failed"}

\* What the stage of a patch says of the documents, whether its process lives or not.
StageOK(q) ==
    /\ q # lock.by => journal[q] \in {"absent", "rollback_failed"}
    /\ journal[q] # "absent" => Alone(q)
    /\ journal[q] \in Undecided => Kept(q) /\ Elsewhere(q)
    /\ journal[q] = "committed" /\ NoArchive(q) => CommittedGenerationValid(q)

\* How far p has undone the changes of q.
UndoOK(p, q) ==
    /\ pc[p] = "purge" => \A d \in Docs : Untouched(q, d)
    /\ pc[p] \in UndoSteps => \A i \in DOMAIN Changes[q] : pos[p] < i => Untouched(q, Changes[q][i].doc)
    /\ pc[p] = "undoRemove" => backup[q][Undoing(p).doc] # Missing
    /\ pc[p] = "undoDrop" => backup[q][Undoing(p).doc] = Missing /\ file[Undoing(p).doc] = q

\* A recovery has every stage before it, and undoes what the journal says.
RecovererOK(p) == pc[p] \in Recoveries \ {"scan"} =>
    /\ \A r \in Patches : journal[r] # "absent" => r \in entries[p]
    /\ pc[p] # "recover" =>
          /\ journal[dead[p]] \in Unfinished \cup {"committed"}
          /\ journal[dead[p]] = "committed" => pc[p] = "purge" \/ ~NoArchive(dead[p])
          /\ journal[dead[p]] \in Unfinished => UndoOK(p, dead[p])

\* No document is the patch "empty": a file differs from the bytes of a deletion.
NeverEmpty == \A d \in Docs : file[d] # "empty" /\ \A q \in Patches : backup[q][d] # "empty"

CallOK(p) == FreshOK(p) /\ MidwayOK(p) /\ AnswerOK(p) /\ RecovererOK(p)

AtomicInv == /\ NeverEmpty
             /\ \A q \in Patches : StageOK(q)
             /\ \A p \in Patches : Alive(p) => CallOK(p)

-----------------------------------------------------------------------------
(* What follows for a state. *)

\* Errors are thrown only where the catch block knows what was done.
Undoable == FaultPoints \cap {"noteBackup", "noteInstall", "rollback", "cleanup"} = {}

Calm == TypeInv /\ OneRecovery /\ LockInv

LEMMA CalmAlways == Spec /\ []OneRecovery => []Calm
<1>1. Init => TypeInv /\ LockInv
  BY InitTyped, PatchesAreCalls DEF Init, LockInv, HoldersLock, DeadLock, Holding,
     Recoveries, UndoSteps, CommitSteps, RollbackSteps
<1>2. TypeInv /\ OneRecovery /\ LockInv /\ [Next]_vars => TypeInv' /\ LockInv'
  BY NextTyped, NextKeepsLock DEF TypeInv
<1> QED BY <1>1, <1>2, PTL DEF Spec, Calm

LEMMA CalmFacts ==
    ASSUME Calm
    PROVE  /\ TypeOK /\ SwapsAChange /\ UndoesAChange /\ AttemptLeft
           /\ \A p, q \in Patches :
                 Alive(p) /\ Alive(q) /\ pc[p] \in Holding /\ pc[q] \in Holding => p = q
BY DEF Calm, TypeInv, LockInv, HoldersLock

\* Beside a live holder of the lock nobody else holds it, or recovers.
LEMMA NoOtherHolder ==
    ASSUME Calm, NEW p \in Patches, Alive(p), pc[p] \in Holding
    PROVE  /\ lock.by = p
           /\ \A q \in Patches \ {p} : Alive(q) => pc[q] \notin Midway \cup {"cleanup", "release"} \cup Recoveries
<1>1. Midway \cup {"cleanup", "release"} \subseteq Holding
  BY DEF Midway, Holding, CommitSteps, RollbackSteps
<1>2. lock.by = p
  BY DEF Calm, LockInv, HoldersLock
<1>3. ASSUME NEW q \in Patches \ {p}, Alive(q) PROVE pc[q] \notin Holding \cup Recoveries
  BY <1>2, <1>3 DEF Calm, LockInv, HoldersLock, DeadLock
<1> QED BY <1>1, <1>2, <1>3

\* A recovery faces the stage of one dead patch; nobody holds the lock meanwhile.
LEMMA RecovererFacts ==
    ASSUME Calm, NEW p \in Patches, Alive(p), pc[p] \in Recoveries
    PROVE  /\ dead[p] \in Patches /\ dead[p] # p /\ lock.by = dead[p] /\ ~Alive(dead[p])
           /\ \A q \in Patches \ {p} : Alive(q) => pc[q] \notin Midway \cup {"cleanup", "release"} \cup Recoveries
<1>1. lock.stamped /\ lock.by = dead[p] /\ ~Alive(dead[p])
  BY DEF Calm, LockInv, DeadLock
<1>2. dead[p] \in Patches
  BY <1>1, CalmFacts, StampedLock DEF TypeOK
<1>3. Midway \cup {"cleanup", "release"} \subseteq Holding
  BY DEF Midway, Holding, CommitSteps, RollbackSteps
<1>4. ASSUME NEW q \in Patches \ {p}, Alive(q) PROVE pc[q] \notin Holding \cup Recoveries
  BY <1>1, <1>4 DEF Calm, LockInv, HoldersLock, OneRecovery
<1> QED BY <1>1, <1>2, <1>3, <1>4

\* The kinds of steps lie apart.
LEMMA KindsOfSteps ==
    /\ Midway \cap Fresh = {} /\ Recoveries \subseteq Fresh
    /\ {"cleanup", "release", "done"} \cap (Fresh \cup Midway) = {}
    /\ Midway \cup {"cleanup", "release"} \subseteq Holding
BY DEF Midway, Fresh, Unanswered, Recoveries, UndoSteps, Holding, CommitSteps, RollbackSteps

Writes(p) == Committing(p) \/ RollingBack(p) \/ CommitError(p) \/ RollbackError(p)

\* The crashes of a behaviour.
Crashing == \/ \E pid \in Pids : Crash(pid)
            \/ \E p \in Patches : CrashTearsJournal(p) \/ CrashMidRemoval(p)

\* A writer lives, holds the lock and leaves locks, processes and recoveries alone.
LEMMA WritesStay ==
    ASSUME TypeOK, NEW p \in Patches, Writes(p)
    PROVE  /\ UNCHANGED <<lock, alive, dead, entries>>
           /\ Alive(p) /\ pc[p] \in Holding
<1> USE DEF env, recovers, disk, At, Holding, CommitSteps, RollbackSteps
<1>1. CASE Revalidate(p) \/ MakeStage(p) \/ Prepare(p) \/ StageDocuments(p)
  BY <1>1 DEF Revalidate, MakeStage, Prepare, StageDocuments
<1>2. CASE BackupDocument(p) \/ RecordBackup(p) \/ InstallDocument(p) \/ RecordInstall(p)
  BY <1>2 DEF BackupDocument, RecordBackup, InstallDocument, RecordInstall
<1>3. CASE Verify(p) \/ Commit(p) \/ Cleanup(p) BY <1>3 DEF Verify, Commit, Cleanup
<1>4. CASE RollingBack(p) BY <1>4 DEF RollingBack, RemoveInstalled, RestoreBackup, DiscardStage
<1>5. CASE CommitError(p) \/ RollbackError(p) BY <1>5 DEF CommitError, RollbackError
<1> QED BY <1>1, <1>2, <1>3, <1>4, <1>5 DEF Writes, Committing

LEMMA StepKinds ==
    ASSUME [Next]_vars
    PROVE  \/ UNCHANGED vars
           \/ \E c \in Calls : Read(c)
           \/ \E p \in Patches : Locking(p)
           \/ \E p \in Patches : Recovering(p)
           \/ \E p \in Patches : Writes(p)
           \/ Crashing
BY DEF Next, Terminated, Writing, Writes, Environment, Crashing

-----------------------------------------------------------------------------
(* Steps that leave documents and stages alone. *)

\* A step of one call leaves what the others remember alone, and their stages.
OthersKept(c) ==
    /\ \A b \in Calls \ {c} : pc'[b] = pc[b] /\ result'[b] = result[b] /\ snapB'[b] = snapB[b]
    /\ \A q \in Patches \ {c} : journal'[q] = journal[q] /\ backup'[q] = backup[q]
    /\ \A q \in Patches \ {c} : pos'[q] = pos[q] /\ installed'[q] = installed[q] /\ backups'[q] = backups[q]

DiskKept == UNCHANGED <<file, journal, backup>>

\* A reader, a writer at the lock, or a recovery that has not touched a document.
QuietStep(c) ==
    /\ DiskKept /\ OthersKept(c) /\ UNCHANGED <<installed, backups>>
    /\ result'[c] = result[c] \/ result'[c] \notin {"APPLIED", "FAILED"}
    /\ c \in Patches =>
          \/ /\ pc[c] \in Fresh /\ pc'[c] \in Fresh \cup {"done", "release"}
             /\ pc'[c] \in Fresh => result'[c] = result[c]
          \/ /\ pc[c] = "release" /\ pc'[c] = "done"
             /\ result'[c] = result[c] /\ snapB'[c] = snapB[c]

\* What it does to the lock and to the recoveries: a stage that the lock file does not
\* stand for is absent, or says that its rollback has failed.
QuietLock(c) ==
    /\ Alive(c) /\ alive' = alive
    /\ \A q \in Patches \ {c} : dead'[q] = dead[q] /\ entries'[q] = entries[q]
    /\ \A q \in Patches : q # lock'.by => journal[q] \in {"absent", "rollback_failed"}
    /\ c \in Patches => RecovererOK(c)'
    /\ archive' = archive \/ (c \in Patches /\ pc[c] \in Recoveries)

LEMMA ReadIsQuiet == ASSUME TypeOK, NEW c \in Calls, Read(c) PROVE QuietStep(c)
<1> USE DEF disk, env, reading, commits, recovers, Goto, Answer, At
<1>1. /\ pc \in [Calls -> Steps] /\ result \in [Calls -> Results]
      /\ snapB \in [Calls -> Generations]
  BY DEF TypeOK
<1>2. DiskKept /\ UNCHANGED <<journal, backup, pos, installed, backups>>
  BY DEF Read, Begin, Peek, ListDocuments, ReadDocument, DiskKept
<1>3. CASE Begin(c)
  <2>1. UNCHANGED snapB /\ (UNCHANGED result \/ result' = [result EXCEPT ![c] = "RECOVERY_REQUIRED"])
    BY <1>3 DEF Begin
  <2>2. \E l \in {"done", "peek1"} : Goto(c, l) /\ (l = "peek1" => UNCHANGED result)
    BY <1>3 DEF Begin
  <2> QED
    BY <1>1, <1>2, <1>3, <2>1, <2>2 DEF Begin, QuietStep, OthersKept, Fresh, Unanswered, Recoveries, UndoSteps
<1>4. CASE Peek(c)
  <2>1. /\ UNCHANGED snapB
        /\ \E r \in {"CONCURRENT_READ", "READ", "REFUSED"} :
               UNCHANGED result \/ result' = [result EXCEPT ![c] = r]
    BY <1>4 DEF Peek, Retry, Accept
  <2>2. \E l \in {"done", "peek1", "listA", "listB", "open"} : Goto(c, l) /\ (l # "done" => UNCHANGED result)
    BY <1>4 DEF Peek, Retry, Accept
  <2>3. pc[c] \in Fresh
    BY <1>4 DEF Peek, Fresh, Unanswered, Recoveries, UndoSteps
  <2>4. pc'[c] \in Fresh \cup {"done"} /\ (pc'[c] # "done" => UNCHANGED result)
    BY <1>1, <2>2 DEF Fresh, Unanswered, Recoveries, UndoSteps
  <2>5. /\ result'[c] = result[c] \/ result'[c] \notin {"APPLIED", "FAILED"}
        /\ \A b \in Calls \ {c} : pc'[b] = pc[b] /\ result'[b] = result[b]
    BY <1>1, <2>1, <2>2
  <2>6. "done" \notin Fresh
    BY DEF Fresh, Unanswered, Recoveries, UndoSteps
  <2> QED
    BY <1>2, <2>1, <2>3, <2>4, <2>5, <2>6 DEF QuietStep, OthersKept
<1>5. CASE ListDocuments(c)
  <2>1. /\ UNCHANGED result
        /\ \A b \in Calls \ {c} : snapB'[b] = snapB[b]
    BY <1>1, <1>5 DEF ListDocuments
  <2>2. \E l \in {"peek2", "peek3", "readA", "readB"} : Goto(c, l)
    BY <1>5 DEF ListDocuments, NextPeek
  <2>3. pc[c] \in Fresh
    BY <1>5 DEF ListDocuments, Fresh, Unanswered, Recoveries, UndoSteps
  <2> QED
    BY <1>1, <1>2, <2>1, <2>2, <2>3 DEF QuietStep, OthersKept, Fresh, Unanswered, Recoveries, UndoSteps
<1>6. CASE ReadDocument(c)
  <2>1. \A b \in Calls \ {c} : snapB'[b] = snapB[b]
    BY <1>1, <1>6 DEF ReadDocument
  <2>2. UNCHANGED result \/ result' = [result EXCEPT ![c] = "ADAPTER_READ_ERROR"]
    BY <1>6 DEF ReadDocument
  <2>3. \/ UNCHANGED <<pc, result>>
        \/ \E l \in {"peek2", "peek3", "done"} : Goto(c, l) /\ (l # "done" => UNCHANGED result)
    BY <1>6 DEF ReadDocument, NextPeek
  <2>4. pc[c] \in Fresh /\ "done" \notin Fresh /\ {"peek2", "peek3"} \subseteq Fresh
    BY <1>6 DEF ReadDocument, Fresh, Unanswered, Recoveries, UndoSteps
  <2>5. pc'[c] \in Fresh \cup {"done"} /\ (pc'[c] # "done" => UNCHANGED result)
    BY <1>1, <2>3, <2>4
  <2>6. \A b \in Calls \ {c} : pc'[b] = pc[b] /\ result'[b] = result[b]
    BY <1>1, <2>2, <2>3
  <2>7. result'[c] = result[c] \/ result'[c] \notin {"APPLIED", "FAILED"}
    BY <1>1, <2>2
  <2> QED
    BY <1>2, <2>1, <2>4, <2>5, <2>6, <2>7 DEF QuietStep, OthersKept
<1> QED
  BY <1>3, <1>4, <1>5, <1>6 DEF Read

LEMMA ReadLock ==
    ASSUME TypeOK, AtomicInv, NEW c \in Calls, Read(c)
    PROVE  QuietLock(c) /\ UNCHANGED <<archive, lock, alive, pos, gens>>
<1> USE DEF Goto, Answer, disk, env, commits, recovers
<1>1. Alive(c) /\ UNCHANGED <<archive, lock, alive, dead, entries, journal, pos, gens>>
  BY DEF Read, Begin, Peek, ListDocuments, ReadDocument, At
<1>2. /\ pc[c] \in Unanswered
      /\ UNCHANGED pc \/ \E l \in Unanswered \cup {"open", "done"} : Goto(c, l)
  BY DEF Read, Begin, Peek, Retry, Accept, ListDocuments, ReadDocument, NextPeek, At, Unanswered
<1>3. pc'[c] \notin Recoveries
  BY <1>2 DEF TypeOK, Recoveries, UndoSteps, Unanswered
<1>4. \A q \in Patches : q # lock'.by => journal[q] \in {"absent", "rollback_failed"}
  BY <1>1 DEF AtomicInv, StageOK
<1> QED BY <1>1, <1>3, <1>4 DEF QuietLock, RecovererOK

LEMMA LockingIsQuiet ==
    ASSUME TypeOK, NEW p \in Patches, Locking(p) PROVE QuietStep(p)
<1> USE PatchesAreCalls DEF disk, env, reading, commits, recovers, Goto, Answer, At
<1>1. pc \in [Calls -> Steps] /\ result \in [Calls -> Results]
  BY DEF TypeOK
<1>2. DiskKept /\ UNCHANGED <<snapB, journal, backup, pos, installed, backups>>
  BY DEF Locking, OpenLock, InspectLock, ReopenLock, StampLock, ReleaseLock, DiskKept
<1>3. UNCHANGED result \/ result' = [result EXCEPT ![p] = "CONFLICT"]
  BY DEF Locking, OpenLock, InspectLock, ReopenLock, StampLock, ReleaseLock, CreateLock
<1>4. CASE ReleaseLock(p)
  BY <1>1, <1>2, <1>4 DEF ReleaseLock, QuietStep, OthersKept
<1>5. ASSUME ~ReleaseLock(p) PROVE QuietStep(p)
  <2>1. pc[p] \in Fresh
    BY <1>5 DEF Locking, OpenLock, InspectLock, ReopenLock, StampLock, Fresh
  <2>2. \E l \in {"stamp", "inspect", "scan", "done", "revalidate"} : Goto(p, l) /\ (l # "done" => UNCHANGED result)
    BY <1>5 DEF Locking, OpenLock, InspectLock, ReopenLock, StampLock, CreateLock
  <2>3. pc'[p] \in Fresh \cup {"done"} /\ (pc'[p] # "done" => UNCHANGED result)
    BY <1>1, <2>2 DEF Fresh, Recoveries
  <2>4. \A b \in Calls \ {p} : pc'[b] = pc[b]
    BY <1>1, <2>2
  <2> QED
    BY <1>1, <1>2, <1>3, <2>1, <2>3, <2>4, KindsOfSteps DEF QuietStep, OthersKept
<1> QED
  BY <1>4, <1>5

\* The lock changes hands when every stage is settled.
LEMMA LockingLock ==
    ASSUME Calm, AtomicInv, NEW p \in Patches, Locking(p)
    PROVE  QuietLock(p) /\ UNCHANGED <<archive, alive, pos, gens>>
<1> USE PatchesAreCalls DEF Goto, Answer, At, disk, env, commits, recovers
<1>1. /\ pc \in [Calls -> Steps] /\ lock \in Locks
      /\ \A q \in Patches : q # lock.by => journal[q] \in {"absent", "rollback_failed"}
  BY CalmFacts DEF TypeOK, AtomicInv, StageOK
<1>2. Alive(p) /\ UNCHANGED <<archive, alive, pos, gens>>
  BY DEF Locking, OpenLock, InspectLock, ReopenLock, StampLock, ReleaseLock
<1>3. \A q \in Patches \ {p} : dead'[q] = dead[q] /\ entries'[q] = entries[q]
  BY CalmFacts DEF Locking, OpenLock, InspectLock, ReopenLock, StampLock, ReleaseLock, TypeOK
<1>4. \A q \in Patches : q # lock'.by => journal[q] \in {"absent", "rollback_failed"}
  <2>1. CASE UNCHANGED lock
    BY <1>1, <2>1
  <2>2. CASE CreateLock(p)
    <3>1. \A q \in Patches : q # lock.by
      BY <2>2, CallsAssumption DEF CreateLock, NoLock
    <3> QED
      BY <1>1, <3>1
  <2>3. CASE StampLock(p)
    <3>1. lock'.by = lock.by
      BY <1>1, <2>3, CallsAssumption DEF StampLock, Locks, NoLock
    <3> QED
      BY <1>1, <3>1
  <2>4. CASE ReleaseLock(p)
    <3>1. lock.by = p
      BY <2>4, NoOtherHolder DEF ReleaseLock, Holding
    <3>2. journal[p] \in {"absent", "rollback_failed"}
      BY <2>4 DEF ReleaseLock, AtomicInv, CallOK, AnswerOK
    <3> QED
      BY <1>1, <3>1, <3>2
  <2> QED
    BY <2>1, <2>2, <2>3, <2>4 DEF Locking, OpenLock, InspectLock, ReopenLock
<1>5. RecovererOK(p)'
  <2>1. \E l \in {"stamp", "inspect", "scan", "done", "revalidate"} : Goto(p, l)
    BY DEF Locking, OpenLock, InspectLock, ReopenLock, StampLock, ReleaseLock, CreateLock
  <2>2. pc'[p] \notin Recoveries \ {"scan"}
    BY <1>1, <2>1 DEF Recoveries, UndoSteps
  <2> QED
    BY <2>2 DEF RecovererOK
<1> QED
  BY <1>2, <1>3, <1>4, <1>5 DEF QuietLock

\* What a call finds of a stage is there as long as the documents and its base are.
LEMMA SameStage ==
    ASSUME NEW q \in Patches, DiskKept, snapB'[q] = snapB[q]
    PROVE  /\ \A d : (Moved(q, d)' <=> Moved(q, d)) /\ (Untouched(q, d)' <=> Untouched(q, d))
           /\ (Kept(q)' <=> Kept(q)) /\ (Elsewhere(q)' <=> Elsewhere(q)) /\ (Alone(q)' <=> Alone(q))
<1>1. \A d : (Moved(q, d)' <=> Moved(q, d)) /\ (Untouched(q, d)' <=> Untouched(q, d))
  BY DEF Moved, Untouched, DiskKept
<1> QED
  BY <1>1 DEF Kept, Elsewhere, Alone, Changed, DiskKept

\* A committed generation without archivals is valid by its documents alone.
LEMMA SameValidity ==
    ASSUME NEW q \in Patches, NoArchive(q), UNCHANGED file
    PROVE  CommittedGenerationValid(q)' <=> CommittedGenerationValid(q)
<1>1. \A i \in DOMAIN Changes[q] : Changes[q][i].doc \in Docs /\ Changes[q][i].op \in Ops
  BY ChangeTyping
<1>2. \A i \in DOMAIN Changes[q] : Changes[q][i].op \in {"write", "delete"}
  BY <1>1 DEF NoArchive, Archives, Ops
<1> QED
  BY <1>2 DEF CommittedGenerationValid, AfterHash

LEMMA QuietKeeps ==
    ASSUME Calm, AtomicInv, NEW c \in Calls, QuietStep(c), QuietLock(c) PROVE AtomicInv'
<1>1. NeverEmpty'
  BY DEF AtomicInv, NeverEmpty, QuietStep, DiskKept
<1>2. ASSUME NEW q \in Patches PROVE StageOK(q)'
  <2>1. StageOK(q) /\ q \in Calls /\ UNCHANGED journal
    BY PatchesAreCalls DEF AtomicInv, QuietStep, DiskKept
  <2>2. journal[q] = "absent" \/ snapB'[q] = snapB[q]
    <3>1. CASE q # c
      BY <2>1, <3>1 DEF QuietStep, OthersKept
    <3>2. CASE q = c
      <4>1. pc[c] \in Fresh => journal[c] = "absent"
        BY <3>2 DEF AtomicInv, CallOK, FreshOK, QuietLock
      <4> QED
        BY <3>2, <4>1 DEF QuietStep
    <3> QED
      BY <3>1, <3>2
  <2>3. q # lock'.by => journal'[q] \in {"absent", "rollback_failed"}
    BY <2>1 DEF QuietLock
  <2>4. CASE journal[q] = "absent"
    BY <2>1, <2>3, <2>4 DEF StageOK, Undecided, Unfinished
  <2>5. CASE snapB'[q] = snapB[q]
    <3>1. DiskKept
      BY DEF QuietStep
    <3>2. (Kept(q)' <=> Kept(q)) /\ (Elsewhere(q)' <=> Elsewhere(q)) /\ (Alone(q)' <=> Alone(q))
      BY <2>5, <3>1, SameStage
    <3>3. NoArchive(q) => (CommittedGenerationValid(q)' <=> CommittedGenerationValid(q))
      BY <3>1, SameValidity DEF DiskKept
    <3>4. NoArchive(q)' <=> NoArchive(q)
      BY DEF NoArchive, Archives
    <3> QED
      BY <2>1, <2>3, <3>2, <3>3, <3>4 DEF StageOK
  <2> QED
    BY <2>2, <2>4, <2>5
<1>3. ASSUME NEW p \in Patches, Alive(p)' PROVE CallOK(p)'
  <2>1. Alive(p) /\ CallOK(p) /\ p \in Calls /\ DiskKept
    BY <1>3, PatchesAreCalls DEF AtomicInv, QuietLock, Alive, QuietStep
  <2>2. CASE p # c
    <3>1. /\ pc'[p] = pc[p] /\ result'[p] = result[p] /\ snapB'[p] = snapB[p] /\ pos'[p] = pos[p]
          /\ UNCHANGED <<installed, backups>> /\ dead'[p] = dead[p] /\ entries'[p] = entries[p]
      BY <2>1, <2>2 DEF QuietStep, OthersKept, QuietLock
    <3>2. FreshOK(p)' /\ AnswerOK(p)'
      BY <2>1, <3>1 DEF CallOK, FreshOK, AnswerOK, DiskKept
    <3>3. /\ \A d : (Moved(p, d)' <=> Moved(p, d)) /\ (Untouched(p, d)' <=> Untouched(p, d))
          /\ (Kept(p)' <=> Kept(p)) /\ (Elsewhere(p)' <=> Elsewhere(p)) /\ (Alone(p)' <=> Alone(p))
      BY <2>1, <3>1, SameStage
    <3>4. \A d : Current(p, d)' <=> Current(p, d)
      BY <3>1 DEF Current, Swapping
    <3>5. (Recorded(p)' <=> Recorded(p)) /\ (Clean(p)' <=> Clean(p))
      BY <2>1, <3>1, <3>3, <3>4 DEF Recorded, Clean, DiskKept
    <3>6. ASSUME UNCHANGED archive PROVE MidwayOK(p)'
      <4>1. CompletelyInstalled(p)' <=> CompletelyInstalled(p)
        BY <2>1, <3>6 DEF CompletelyInstalled, DiskKept
      <4>2. SwapOK(p)' <=> SwapOK(p)
        BY <2>1, <3>1, <3>3, <3>5, <4>1 DEF SwapOK, Swapping, DiskKept
      <4> QED
        BY <2>1, <3>1, <3>3, <3>5, <4>2 DEF CallOK, MidwayOK, DiskKept
    <3>7. ASSUME c \in Patches, pc[c] \in Recoveries PROVE MidwayOK(p)'
      <4>1. pc[p] \notin Midway
        BY <2>1, <2>2, <3>7, RecovererFacts DEF QuietLock
      <4> QED
        BY <3>1, <4>1 DEF MidwayOK
    <3>8. MidwayOK(p)'
      BY <3>6, <3>7 DEF QuietLock
    <3>9. RecovererOK(p)'
      <4> SUFFICES ASSUME pc[p] \in Recoveries PROVE RecovererOK(p)'
        BY <3>1 DEF RecovererOK
      <4>1. dead[p] \in Patches /\ dead[p] # c
        BY <2>1, RecovererFacts DEF QuietLock
      <4>2. \A d : Untouched(dead[p], d)' <=> Untouched(dead[p], d)
        <5>1. dead[p] \in Calls \ {c}
          BY <4>1, PatchesAreCalls
        <5>2. snapB'[dead[p]] = snapB[dead[p]]
          BY <5>1 DEF QuietStep, OthersKept
        <5> QED
          BY <2>1, <3>1, <5>2 DEF Untouched, DiskKept
      <4>3. Undoing(p)' = Undoing(p)
        BY <3>1 DEF Undoing
      <4>4. UndoOK(p, dead[p])' <=> UndoOK(p, dead[p])
        BY <2>1, <3>1, <4>2, <4>3 DEF UndoOK, DiskKept
      <4>5. NoArchive(dead[p])' <=> NoArchive(dead[p])
        BY <3>1 DEF NoArchive, Archives
      <4> QED
        BY <2>1, <3>1, <4>4, <4>5 DEF CallOK, RecovererOK, DiskKept
    <3> QED
      BY <3>2, <3>8, <3>9 DEF CallOK
  <2>3. CASE p = c
    <3>1. pc'[p] \notin Midway \cup {"cleanup"} /\ (pc'[p] \in Fresh => pc[p] \in Fresh /\ result'[p] = result[p])
      BY <2>1, <2>3, KindsOfSteps DEF QuietStep
    <3>2. MidwayOK(p)'
      BY <3>1 DEF MidwayOK
    <3>3. pc'[p] = "release" => journal'[p] \in {"absent", "rollback_failed"}
      <4>1. pc'[p] = "release" => pc[p] \in Fresh
        BY <2>1, <2>3 DEF QuietStep
      <4> QED
        BY <2>1, <4>1 DEF CallOK, FreshOK, DiskKept
    <3>4. FreshOK(p)' /\ AnswerOK(p)'
      BY <2>1, <3>1, <3>3, KindsOfSteps DEF CallOK, FreshOK, AnswerOK, QuietStep, DiskKept
    <3> QED
      BY <2>3, <3>2, <3>4 DEF CallOK, QuietLock
  <2> QED
    BY <2>2, <2>3
<1> QED
  BY <1>1, <1>2, <1>3 DEF AtomicInv

-----------------------------------------------------------------------------
(* Steps that move documents: they are all about the stage the lock stands for. *)

\* Call p goes on; of the stages, only that of q may change, and of the documents
\* those that q or its backups hold.
StageStep(p, q) ==
    /\ lock' = lock /\ lock.by = q /\ alive' \subseteq alive
    /\ \A r \in Patches \ {p} : /\ pc'[r] = pc[r] /\ result'[r] = result[r]
                                /\ installed'[r] = installed[r] /\ backups'[r] = backups[r]
    /\ \A r \in Patches \ {q} : journal'[r] = journal[r] /\ backup'[r] = backup[r]
    /\ \A r \in Patches : snapB'[r] = snapB[r]
    /\ \A d \in Docs : /\ file'[d] \in {file[d], Missing, q, backup[q][d]}
                       /\ backup'[q][d] \in {backup[q][d], Missing, file[d]}
    /\ \A r \in Patches \ {p} : Alive(r) =>
          r # q /\ pc[r] \notin Midway \cup {"cleanup", "release"} \cup Recoveries

\* It leaves the others as they were: what remains is the stage, and the call itself.
LEMMA Frame ==
    ASSUME AtomicInv, NEW p \in Patches, NEW q \in Patches, StageStep(p, q), Alone(q) \/ DiskKept,
           StageOK(q)', Alive(p)' => CallOK(p)'
    PROVE  AtomicInv'
<1>1. NeverEmpty'
  <2>1. q # "empty" /\ Missing # "empty"
    BY CallsAssumption DEF Missing
  <2> QED
    BY <2>1 DEF AtomicInv, NeverEmpty, StageStep
<1>2. ASSUME NEW r \in Patches \ {q} PROVE StageOK(r)'
  <2>1. StageOK(r) /\ journal'[r] = journal[r] /\ snapB'[r] = snapB[r]
    BY DEF AtomicInv, StageStep
  <2>2. journal'[r] \in {"absent", "rollback_failed"}
    BY <2>1 DEF StageOK, StageStep
  <2>3. CASE Alone(q)
    <3>1. journal'[r] = "absent"
      BY <2>1, <2>2, <2>3 DEF Alone, Undecided, Unfinished
    <3> QED
      BY <3>1 DEF StageOK, Undecided, Unfinished
  <2>4. CASE DiskKept
    <3>1. (Kept(r)' <=> Kept(r)) /\ (Elsewhere(r)' <=> Elsewhere(r)) /\ (Alone(r)' <=> Alone(r))
      BY <2>1, <2>4, SameStage
    <3> QED
      BY <2>1, <2>2, <3>1 DEF StageOK
  <2> QED
    BY <2>3, <2>4
<1>3. ASSUME NEW r \in Patches \ {p}, Alive(r)' PROVE CallOK(r)'
  <2>1. Alive(r) /\ CallOK(r) /\ r # q /\ pc[r] \notin Midway \cup {"cleanup", "release"} \cup Recoveries
    BY <1>3 DEF AtomicInv, StageStep, Alive
  <2>2. /\ pc'[r] = pc[r] /\ result'[r] = result[r] /\ journal'[r] = journal[r] /\ backup'[r] = backup[r]
        /\ installed'[r] = installed[r] /\ backups'[r] = backups[r]
    BY <2>1 DEF StageStep
  <2>3. MidwayOK(r)' /\ AnswerOK(r)' /\ RecovererOK(r)'
    BY <2>1, <2>2 DEF CallOK, MidwayOK, AnswerOK, RecovererOK
  <2>4. r # Missing
    BY CallsAssumption DEF Missing
  <2>5. ASSUME pc[r] \in Fresh, NEW d \in Docs
        PROVE  file'[d] # r /\ \A s \in Patches : backup'[s][d] # r
    <3>1. file[d] # r /\ \A s \in Patches : backup[s][d] # r
      BY <2>1, <2>5 DEF CallOK, FreshOK
    <3>2. \A s \in Patches \ {q} : backup'[s] = backup[s]
      BY DEF StageStep
    <3>3. file'[d] \in {file[d], Missing, q, backup[q][d]} /\ backup'[q][d] \in {backup[q][d], Missing, file[d]}
      BY DEF StageStep
    <3> QED
      BY <2>1, <2>4, <3>1, <3>2, <3>3
  <2>6. FreshOK(r)'
    BY <2>1, <2>2, <2>5 DEF CallOK, FreshOK
  <2> QED
    BY <2>3, <2>6 DEF CallOK
<1> QED
  BY <1>1, <1>2, <1>3 DEF AtomicInv

\* What a step of a writer does: it moves documents of its own.
Moves(p) == /\ OthersKept(p) /\ snapB'[p] = snapB[p]
            /\ \A d \in Docs : /\ file'[d] \in {file[d], Missing, p, backup[p][d]}
                               /\ backup'[p][d] \in {backup[p][d], Missing, file[d]}

\* A writer that is midway says of its stage what its control point does.
LEMMA MidwayStage ==
    ASSUME NEW p \in Patches, lock'.by = p, pc'[p] \in Midway, MidwayOK(p)' PROVE StageOK(p)'
BY DEF MidwayOK, StageOK

\* The others stay as they were; p itself is the argument's business.
LEMMA MovesFrame ==
    ASSUME Calm, AtomicInv, NEW p \in Patches, Writes(p), Moves(p), Alone(p) \/ DiskKept,
           pc'[p] \notin Fresh, MidwayOK(p)', AnswerOK(p)', pc'[p] \in Midway \/ StageOK(p)'
    PROVE  AtomicInv' /\ Moves(p)
<1>1. /\ UNCHANGED <<lock, alive, dead, entries>> /\ Alive(p) /\ pc[p] \in Holding
  BY WritesStay, CalmFacts
<1>2. /\ lock.by = p
      /\ \A q \in Patches \ {p} : Alive(q) => pc[q] \notin Midway \cup {"cleanup", "release"} \cup Recoveries
  BY <1>1, NoOtherHolder
<1>3. StageStep(p, p)
  BY <1>1, <1>2, PatchesAreCalls DEF StageStep, Moves, OthersKept
<1>4. StageOK(p)'
  BY <1>1, <1>2, MidwayStage
<1>5. CallOK(p)'
  BY KindsOfSteps DEF CallOK, FreshOK, RecovererOK
<1> QED
  BY <1>3, <1>4, <1>5, Frame

\* A step that only moves the control point and the journal of p.
PaperStep(p) == /\ UNCHANGED <<file, backup, snapB, installed, backups>> /\ OthersKept(p)
                /\ \/ pc'[p] = "release" /\ StageOK(p)' /\ journal'[p] \in {"absent", "rollback_failed"}
                   \/ pc'[p] \in Midway /\ result'[p] = result[p] /\ journal'[p] \notin {"torn", "committed"}

LEMMA PaperMoves == ASSUME NEW p \in Patches, PaperStep(p) PROVE Moves(p)
BY DEF PaperStep, Moves

LEMMA PaperKeeps ==
    ASSUME Calm, AtomicInv, NEW p \in Patches, Writes(p), PaperStep(p),
           result[p] = "none", Alone(p) \/ DiskKept,
           pc'[p] \in Midway => Kept(p) /\ Alone(p) /\ Elsewhere(p) /\ Recorded(p)' /\ SwapOK(p)'
    PROVE  AtomicInv' /\ Moves(p)
<1>1. \A d : (Moved(p, d)' <=> Moved(p, d)) /\ (Untouched(p, d)' <=> Untouched(p, d))
  BY DEF Moved, Untouched, PaperStep
<1>2. (Kept(p)' <=> Kept(p)) /\ (Alone(p)' <=> Alone(p)) /\ (Elsewhere(p)' <=> Elsewhere(p))
  BY <1>1 DEF Kept, Alone, Elsewhere, Changed, PaperStep, OthersKept
<1>3. MidwayOK(p)'
  BY <1>1, <1>2, KindsOfSteps DEF MidwayOK, PaperStep
<1>4. AnswerOK(p)' /\ pc'[p] \notin Fresh /\ (pc'[p] \in Midway \/ StageOK(p)')
  BY KindsOfSteps DEF AnswerOK, PaperStep
<1> QED
  BY <1>3, <1>4, PaperMoves, MovesFrame

\* What the invariants say of the call that holds the lock.
LEMMA MidwayFacts ==
    ASSUME Calm, AtomicInv, NEW p \in Patches, Alive(p), pc[p] \in Midway
    PROVE  /\ Kept(p) /\ Alone(p) /\ Recorded(p) /\ SwapOK(p) /\ Elsewhere(p) /\ result[p] = "none"
           /\ journal[p] \notin {"torn", "committed"}
           /\ p \in Calls /\ pc[p] \in Holding /\ lock.by = p
BY NoOtherHolder, PatchesAreCalls, KindsOfSteps DEF AtomicInv, CallOK, MidwayOK, AnswerOK

\* A fresh read that equals the base starts a swap of an untouched corpus.
LEMMA RevalidateKeeps ==
    ASSUME Calm, AtomicInv, NEW p \in Patches, Revalidate(p) PROVE AtomicInv' /\ Moves(p)
<1>1. pc[p] = "revalidate" /\ Alive(p) /\ p \in Calls /\ Writes(p)
  BY PatchesAreCalls DEF Revalidate, At, Writes, Committing
<1>2. pc[p] \in Fresh /\ pc[p] \in Holding /\ FreshOK(p) /\ AnswerOK(p) /\ lock.by = p
  BY <1>1, NoOtherHolder DEF Fresh, Holding, AtomicInv, CallOK
<1>3. pc \in [Calls -> Steps] /\ result \in [Calls -> Results]
  BY CalmFacts DEF TypeOK
<1>4. UNCHANGED <<file, journal, backup, snapB, pos, installed, backups, lock>>
  BY DEF Revalidate, disk, reading, commits
<1>5. OthersKept(p)
  BY <1>1, <1>3, <1>4 DEF OthersKept, Revalidate, Goto, Leave
<1>6. result[p] = "none" /\ journal[p] = "absent" /\ journal'[p] = "absent" /\ DiskKept
  BY <1>2, <1>4 DEF AnswerOK, FreshOK, DiskKept
<1>7. CASE pc'[p] = "release"
  <2>1. StageOK(p)'
    BY <1>2, <1>4, <1>6 DEF StageOK, Undecided, Unfinished
  <2>2. PaperStep(p)
    BY <1>4, <1>5, <1>6, <1>7, <2>1 DEF PaperStep
  <2>3. pc'[p] \notin Midway
    BY <1>7, KindsOfSteps
  <2> QED
    BY <1>1, <1>6, <2>2, <2>3, PaperKeeps
<1>8. CASE pc'[p] # "release"
  <2>1. ~UnfinishedStage /\ file = snapB[p] /\ pc'[p] = "mkstage" /\ result'[p] = result[p]
    BY <1>1, <1>3, <1>8 DEF Revalidate, Goto, Leave
  <2>2. PaperStep(p)
    BY <1>4, <1>5, <1>6, <2>1 DEF PaperStep, Midway
  <2>3. \A d \in Docs : Untouched(p, d) /\ file[d] # p
    BY <1>2, <2>1 DEF FreshOK, Untouched
  <2>4. Kept(p) /\ Clean(p) /\ Elsewhere(p)
    BY <1>2, <2>1, <2>3 DEF Kept, Clean, FreshOK, Untouched, Elsewhere
  <2>5. Alone(p)
    <3>1. \A q \in Patches \ {p} : journal[q] \in {"absent", "rollback_failed"}
      BY <1>2 DEF AtomicInv, StageOK
    <3> QED
      BY <2>1, <3>1 DEF Alone, UnfinishedStage, Undecided
  <2>6. Recorded(p)'
    <3>1. Clean(p)' /\ \A d \in Docs : file'[d] # p
      BY <1>4, <2>3, <2>4 DEF Clean, Untouched
    <3> QED
      BY <3>1 DEF Clean, Untouched, Recorded
  <2>7. SwapOK(p)'
    <3>1. Clean(p)' BY <1>4, <2>4 DEF Clean, Untouched
    <3> QED
      BY <2>1, <3>1 DEF SwapOK, SwapSteps
  <2> QED
    BY <1>1, <1>6, <2>2, <2>4, <2>5, <2>6, <2>7, PaperKeeps
<1> QED
  BY <1>7, <1>8

\* The staging directory fills beside an untouched corpus.
LEMMA StagingKeeps ==
    ASSUME Calm, AtomicInv, NEW p \in Patches, MakeStage(p) \/ Prepare(p) \/ StageDocuments(p)
    PROVE  AtomicInv' /\ Moves(p)
<1>1. pc[p] \in {"mkstage", "prepare", "stage"} /\ pc[p] \in Midway /\ Alive(p) /\ Writes(p)
  BY DEF MakeStage, Prepare, StageDocuments, At, Midway, CommitSteps, Writes, Committing
<1>2. Kept(p) /\ Alone(p) /\ SwapOK(p) /\ Elsewhere(p) /\ result[p] = "none" /\ p \in Calls
  BY <1>1, MidwayFacts
<1>3. /\ pc \in [Calls -> Steps] /\ journal \in [Patches -> Journals] /\ pos \in [Patches -> Nat]
  BY CalmFacts DEF TypeOK
<1>4. UNCHANGED <<file, backup, snapB, installed, backups, result>>
  BY DEF MakeStage, Prepare, StageDocuments, disk, reading, commits
<1>5. /\ pc'[p] \in {"prepare", "stage", "backup"} /\ journal'[p] \in {"none"} \cup Unfinished
      /\ pc'[p] = "backup" => journal'[p] \in Unfinished /\ pos'[p] = 1
  BY <1>2, <1>3 DEF MakeStage, Prepare, StageDocuments, Goto, WriteJournal, Unfinished
<1>6. OthersKept(p)
  BY <1>2, <1>3, <1>4 DEF OthersKept, MakeStage, Prepare, StageDocuments, Goto, WriteJournal, commits
<1>7. PaperStep(p)
  BY <1>4, <1>5, <1>6 DEF PaperStep, Midway, CommitSteps, Unfinished
<1>8. Clean(p)
  BY <1>1, <1>2 DEF SwapOK
<1>9. Clean(p)' /\ \A d \in Docs : Untouched(p, d)'
  BY <1>4, <1>8 DEF Clean, Untouched
<1>10. Recorded(p)'
  <2>1. \A d \in Docs : file[d] # p
    BY <1>2, <1>8 DEF Kept, Clean, Untouched
  <2>2. \A d \in Docs : file'[d] # p /\ backup'[p][d] = Missing
    BY <1>4, <1>9, <2>1 DEF Untouched
  <2>3. installed'[p] = {}
    BY <1>9 DEF Clean
  <2> QED
    BY <2>2, <2>3 DEF Recorded
<1>11. SwapOK(p)'
  <2>1. \A i \in DOMAIN Changes[p] : Untouched(p, Changes[p][i].doc)'
    BY <1>9, ChangeTyping
  <2>2. Len(Changes[p]) \in Nat \ {0} /\ DOMAIN Changes[p] = 1 .. Len(Changes[p])
    BY ChangeTyping
  <2>3. pc'[p] = "backup" => Untouched(p, Swapping(p).doc)'
    BY <1>5, <2>1, <2>2 DEF Swapping
  <2>4. pc'[p] \in SwapSteps \cup {"verify", "commit"} => pc'[p] = "backup"
    BY <1>5 DEF SwapSteps
  <2>5. pc'[p] \notin {"noteBackup", "install", "noteInstall", "commit", "restore", "discard"}
    BY <1>5
  <2> HIDE DEF Swapping
  <2> QED
    BY <1>5, <1>9, <2>1, <2>3, <2>4, <2>5 DEF SwapOK, SwapSteps
<1> QED
  BY <1>1, <1>2, <1>7, <1>10, <1>11, PaperKeeps

\* The change under way is one of the patch, and no other is of its document.
LEMMA SwappingFacts ==
    ASSUME Calm, NEW p \in Patches, pc[p] \in SwapSteps
    PROVE  /\ pos[p] \in DOMAIN Changes[p] /\ Swapping(p) = Changes[p][pos[p]]
           /\ Swapping(p).doc \in Docs /\ Swapping(p).doc \in Changed(p) /\ Swapping(p).op \in Ops
           /\ \A i \in DOMAIN Changes[p] : Changes[p][i].doc = Swapping(p).doc => i = pos[p]
           /\ Archives(p, Swapping(p).doc) => Swapping(p).op = "archive"
<1>1. pos[p] \in DOMAIN Changes[p]
  BY CalmFacts DEF SwapsAChange
<1>2. \A i \in DOMAIN Changes[p] : Changes[p][i].doc \in Docs /\ Changes[p][i].op \in Ops
  BY ChangeTyping
<1>3. \A i, j \in DOMAIN Changes[p] : Changes[p][i].doc = Changes[p][j].doc => i = j
  BY ChangesAssumption
<1> QED
  BY <1>1, <1>2, <1>3 DEF Swapping, Changed, Archives

\* A step that touches one document.
DocumentStep(p, d) ==
    /\ OthersKept(p) /\ snapB' = snapB /\ result' = result
    /\ \A e \in Docs \ {d} : file'[e] = file[e] /\ backup'[p][e] = backup[p][e]

LEMMA ElsewhereKept ==
    ASSUME NEW p \in Patches, NEW d \in Docs, DocumentStep(p, d)
    PROVE  \A e \in Docs \ {d} : (Moved(p, e)' <=> Moved(p, e)) /\ (Untouched(p, e)' <=> Untouched(p, e))
BY DEF DocumentStep, Moved, Untouched

\* The target goes to its backup, or was not there.
LEMMA BackupKeeps ==
    ASSUME Calm, AtomicInv, NEW p \in Patches, BackupDocument(p) PROVE AtomicInv' /\ Moves(p)
<1>1. pc[p] = "backup" /\ pc[p] \in Midway /\ pc[p] \in SwapSteps /\ Alive(p) /\ Writes(p)
  BY DEF BackupDocument, At, Midway, CommitSteps, SwapSteps, Writes, Committing
<1>2. /\ Kept(p) /\ Alone(p) /\ Recorded(p) /\ SwapOK(p) /\ result[p] = "none" /\ p \in Calls
      /\ \A d \in Docs \ Changed(p) : Untouched(p, d)
      /\ journal[p] \notin {"torn", "committed"}
  BY <1>1, MidwayFacts DEF Elsewhere
<1>3. /\ pc \in [Calls -> Steps] /\ file \in Generations /\ backup \in [Patches -> Generations]
  BY CalmFacts DEF TypeOK
<1>4. PICK k : k = Swapping(p)
  OBVIOUS
<1>5. PICK d : d = k.doc
  OBVIOUS
<1>6. /\ pos[p] \in DOMAIN Changes[p] /\ k = Changes[p][pos[p]] /\ d \in Docs /\ d \in Changed(p)
      /\ \A i \in DOMAIN Changes[p] : Changes[p][i].doc = d => i = pos[p]
  BY <1>1, <1>4, <1>5, SwappingFacts
<1>7. UNCHANGED <<journal, snapB, result, pos, installed, backups>>
  BY DEF BackupDocument, reading, commits
<1>8. Swapping(p)' = k /\ \A e : Current(p, e)' <=> e = d
  BY <1>4, <1>5, <1>7 DEF Swapping, Current
<1>9. \/ /\ file[d] # Missing /\ pc'[p] = "noteBackup"
         /\ file' = [file EXCEPT ![d] = Missing] /\ backup' = [backup EXCEPT ![p][d] = file[d]]
      \/ /\ file[d] = Missing /\ pc'[p] \in {"rollback", "install"} /\ UNCHANGED <<file, backup>>
  BY <1>2, <1>3, <1>4, <1>5 DEF BackupDocument, Goto
<1>10. OthersKept(p)
  BY <1>2, <1>3, <1>7 DEF OthersKept, BackupDocument, Goto
<1>11. Untouched(p, d)
  BY <1>1, <1>2, <1>4, <1>5 DEF SwapOK
<1>12. /\ \A e \in Docs \ {d} : file'[e] = file[e] /\ backup'[p][e] = backup[p][e]
       /\ file'[d] \in {file[d], Missing} /\ backup'[p][d] \in {backup[p][d], file[d]}
       /\ file'[d] = Missing /\ backup'[p][d] = snapB[p][d]
  BY <1>3, <1>6, <1>9, <1>11 DEF Generations, Untouched
<1>13. DocumentStep(p, d) /\ Moves(p)
  BY <1>7, <1>10, <1>12 DEF DocumentStep, Moves
<1>14. \A e \in Docs \ {d} : (Moved(p, e)' <=> Moved(p, e)) /\ (Untouched(p, e)' <=> Untouched(p, e))
  BY <1>6, <1>13, ElsewhereKept
<1>15. Moved(p, d)'
  BY <1>7, <1>12 DEF Moved
<1>16. Kept(p)' /\ Alone(p)' /\ \A e \in Docs \ Changed(p) : Untouched(p, e)'
  <2>1. \A e \in Docs : snapB'[p][e] # p /\ (file'[e] = p => ~Archives(p, e))
    BY <1>2, <1>7, <1>12, CallsAssumption DEF Kept, Missing
  <2>2. Kept(p)'
    BY <1>2, <1>14, <1>15, <2>1 DEF Kept
  <2> QED
    BY <1>2, <1>6, <1>7, <1>14, <2>2 DEF Alone
<1>17. Recorded(p)'
  <2>1. \A e \in installed'[p] : Moved(p, e)'
    <3>1. installed[p] \subseteq Docs BY CalmFacts DEF TypeOK
    <3> QED BY <1>2, <1>7, <1>14, <1>15, <3>1 DEF Recorded
  <2>2. \A e \in Docs : file'[e] = p => e \in installed'[p]
    BY <1>1, <1>2, <1>7, <1>12, CallsAssumption DEF Recorded, Missing
  <2>3. \A e \in Docs : backup'[p][e] # Missing => e \in backups'[p] \/ (pc'[p] = "noteBackup" /\ Current(p, e)')
    BY <1>1, <1>2, <1>7, <1>8, <1>9, <1>11, <1>12 DEF Recorded, Untouched
  <2> HIDE DEF Current
  <2> QED
    BY <2>1, <2>2, <2>3 DEF Recorded
<1>18. SwapOK(p)'
  <2>1. journal'[p] \in Unfinished
    BY <1>1, <1>2, <1>7 DEF SwapOK
  <2>2. \A i \in DOMAIN Changes[p] : pos'[p] < i => Untouched(p, Changes[p][i].doc)'
    <3>1. pos[p] \in Nat BY CalmFacts DEF TypeOK
    <3>2. \A i \in DOMAIN Changes[p] : pos[p] < i => Changes[p][i].doc \in Docs \ {d}
      BY <1>6, <3>1, ChangeTyping
    <3> QED
      BY <1>1, <1>2, <1>7, <1>14, <3>2 DEF SwapOK
  <2>3. pc'[p] \in {"noteBackup", "install", "rollback"} /\ Swapping(p)'.doc = d
    BY <1>5, <1>8, <1>9
  <2> QED
    BY <1>7, <1>12, <2>1, <2>2, <2>3 DEF SwapOK
<1>19. pc'[p] \in Midway /\ pc'[p] \notin Fresh \cup {"cleanup"}
  BY <1>9, KindsOfSteps DEF Midway, CommitSteps, RollbackSteps
<1>20. MidwayOK(p)' /\ AnswerOK(p)'
  BY <1>2, <1>7, <1>16, <1>17, <1>18, <1>19, KindsOfSteps DEF MidwayOK, AnswerOK, Elsewhere
<1> QED
  BY <1>1, <1>2, <1>13, <1>19, <1>20, MovesFrame

\* A step after which documents and backups are what they were.
LEMMA NothingMoved ==
    ASSUME NEW p \in Patches, OthersKept(p), UNCHANGED <<file, backup, snapB>>
    PROVE  /\ Moves(p) /\ Kept(p)' = Kept(p) /\ (Alone(p)' <=> Alone(p))
           /\ \A d : (Moved(p, d)' <=> Moved(p, d)) /\ (Untouched(p, d)' <=> Untouched(p, d))
<1>1. \A d : (Moved(p, d)' <=> Moved(p, d)) /\ (Untouched(p, d)' <=> Untouched(p, d))
  BY DEF Moved, Untouched
<1> QED
  BY <1>1 DEF Moves, Kept, Alone, OthersKept

\* The backup enters the array the rollback goes by.
LEMMA RecordBackupKeeps ==
    ASSUME Calm, AtomicInv, NEW p \in Patches, RecordBackup(p) PROVE AtomicInv' /\ Moves(p)
<1>1. pc[p] = "noteBackup" /\ pc[p] \in Midway /\ pc[p] \in SwapSteps /\ Alive(p) /\ Writes(p)
  BY DEF RecordBackup, At, Midway, CommitSteps, SwapSteps, Writes, Committing
<1>2. /\ Kept(p) /\ Alone(p) /\ Recorded(p) /\ SwapOK(p) /\ result[p] = "none" /\ p \in Calls
      /\ \A d \in Docs \ Changed(p) : Untouched(p, d)
      /\ journal[p] \notin {"torn", "committed"}
  BY <1>1, MidwayFacts DEF Elsewhere
<1>3. pc \in [Calls -> Steps] /\ backups \in [Patches -> SUBSET Docs]
  BY CalmFacts DEF TypeOK
<1>4. UNCHANGED <<file, journal, backup, snapB, result, pos, installed>>
  BY DEF RecordBackup, reading, disk
<1>5. PICK k : k = Swapping(p)
  OBVIOUS
<1>6. Swapping(p)' = k /\ \A e : (Current(p, e)' <=> e = k.doc) /\ (Current(p, e) <=> e = k.doc)
  BY <1>4, <1>5 DEF Swapping, Current
<1>7. pc'[p] = "install" /\ backups' = [backups EXCEPT ![p] = @ \cup {k.doc}]
  BY <1>2, <1>3, <1>5 DEF RecordBackup, Goto
<1>8. OthersKept(p)
  BY <1>2, <1>3, <1>4, <1>7 DEF OthersKept, RecordBackup, Goto
<1>9. /\ Moves(p) /\ Kept(p)' = Kept(p) /\ (Alone(p)' <=> Alone(p))
      /\ \A d : (Moved(p, d)' <=> Moved(p, d)) /\ (Untouched(p, d)' <=> Untouched(p, d))
  BY <1>4, <1>8, NothingMoved
<1>10. Recorded(p)'
  BY <1>1, <1>2, <1>3, <1>4, <1>6, <1>7, <1>9 DEF Recorded
<1>11. SwapOK(p)'
  <2>1. journal[p] \in Unfinished /\ \A i \in DOMAIN Changes[p] : pos[p] < i => Untouched(p, Changes[p][i].doc)
    BY <1>1, <1>2 DEF SwapOK, SwapSteps
  <2>2. backup[p][k.doc] = snapB[p][k.doc] /\ file[k.doc] = Missing
    BY <1>1, <1>2, <1>5 DEF SwapOK
  <2> QED
    BY <1>4, <1>6, <1>7, <1>9, <2>1, <2>2 DEF SwapOK
<1>12. pc'[p] \in Midway /\ pc'[p] \notin Fresh \cup {"cleanup"}
  BY <1>7 DEF Midway, Fresh, Unanswered, Recoveries, UndoSteps, CommitSteps, RollbackSteps
<1>13. MidwayOK(p)' /\ AnswerOK(p)'
  BY <1>2, <1>4, <1>9, <1>10, <1>11, <1>12, KindsOfSteps DEF MidwayOK, AnswerOK, Elsewhere
<1> QED
  BY <1>1, <1>2, <1>9, <1>12, <1>13, MovesFrame

\* The staged document goes to its place, or nothing does.
LEMMA InstallKeeps ==
    ASSUME Calm, AtomicInv, NEW p \in Patches, InstallDocument(p) PROVE AtomicInv' /\ Moves(p)
<1>1. pc[p] = "install" /\ pc[p] \in Midway /\ pc[p] \in SwapSteps /\ Alive(p) /\ Writes(p)
  BY DEF InstallDocument, At, Midway, CommitSteps, SwapSteps, Writes, Committing
<1>2. /\ Kept(p) /\ Alone(p) /\ Recorded(p) /\ SwapOK(p) /\ result[p] = "none" /\ p \in Calls
      /\ \A d \in Docs \ Changed(p) : Untouched(p, d)
      /\ journal[p] \notin {"torn", "committed"}
  BY <1>1, MidwayFacts DEF Elsewhere
<1>3. /\ pc \in [Calls -> Steps] /\ file \in Generations /\ installed[p] \subseteq Docs /\ pos[p] \in Nat
  BY CalmFacts DEF TypeOK
<1>4. UNCHANGED <<journal, backup, snapB, result, pos, installed, backups>>
  BY DEF InstallDocument, reading, commits
<1>5. PICK k : k = Swapping(p)
  OBVIOUS
<1>6. PICK d : d = k.doc
  OBVIOUS
<1>7. /\ pos[p] \in DOMAIN Changes[p] /\ d \in Docs /\ d \in Changed(p)
      /\ \A i \in DOMAIN Changes[p] : Changes[p][i].doc = d => i = pos[p]
      /\ Archives(p, d) => k.op = "archive"
  BY <1>1, <1>5, <1>6, SwappingFacts
<1>8. Swapping(p)' = k /\ \A e : Current(p, e)' <=> e = d
  BY <1>4, <1>5, <1>6 DEF Swapping, Current
<1>9. pc'[p] = "noteInstall" /\ file' = IF k.op = "write" THEN [file EXCEPT ![d] = p] ELSE file
  BY <1>2, <1>3, <1>5, <1>6 DEF InstallDocument, Goto
<1>10. OthersKept(p)
  BY <1>2, <1>3, <1>4, <1>9 DEF OthersKept, InstallDocument, Goto
<1>11. backup[p][d] = snapB[p][d] /\ file[d] = Missing
  BY <1>1, <1>2, <1>5, <1>6 DEF SwapOK
<1>12. /\ \A e \in Docs \ {d} : file'[e] = file[e] /\ backup'[p][e] = backup[p][e]
       /\ file'[d] \in {Missing, p} /\ (file'[d] = p => ~Archives(p, d))
  BY <1>3, <1>4, <1>7, <1>9, <1>11, CallsAssumption DEF Generations, Missing
<1>13. DocumentStep(p, d) /\ Moves(p)
  BY <1>4, <1>10, <1>12 DEF DocumentStep, Moves
<1>14. \A e \in Docs \ {d} : (Moved(p, e)' <=> Moved(p, e)) /\ (Untouched(p, e)' <=> Untouched(p, e))
  BY <1>7, <1>13, ElsewhereKept
<1>15. Moved(p, d)'
  BY <1>4, <1>11, <1>12 DEF Moved
<1>16. Kept(p)' /\ Alone(p)' /\ \A e \in Docs \ Changed(p) : Untouched(p, e)'
  <2>1. \A e \in Docs : snapB'[p][e] # p /\ (file'[e] = p => ~Archives(p, e))
    BY <1>2, <1>4, <1>12 DEF Kept
  <2>2. Kept(p)'
    BY <1>2, <1>14, <1>15, <2>1 DEF Kept
  <2> QED
    BY <1>2, <1>4, <1>7, <1>14, <2>2 DEF Alone
<1>17. Recorded(p)'
  <2>1. \A e \in installed'[p] : Moved(p, e)'
    BY <1>2, <1>3, <1>4, <1>14, <1>15 DEF Recorded
  <2>2. \A e \in Docs : file'[e] = p => e \in installed'[p] \/ (pc'[p] = "noteInstall" /\ Current(p, e)')
    BY <1>1, <1>2, <1>4, <1>8, <1>9, <1>12 DEF Recorded
  <2>3. \A e \in Docs : backup'[p][e] # Missing => e \in backups'[p]
    BY <1>1, <1>2, <1>4 DEF Recorded
  <2> HIDE DEF Current
  <2> QED
    BY <2>1, <2>2, <2>3 DEF Recorded
<1>18. SwapOK(p)'
  <2>1. journal'[p] \in Unfinished
    BY <1>1, <1>2, <1>4 DEF SwapOK, SwapSteps
  <2>2. \A i \in DOMAIN Changes[p] : pos'[p] < i => Untouched(p, Changes[p][i].doc)'
    <3>1. \A i \in DOMAIN Changes[p] : pos[p] < i => Changes[p][i].doc \in Docs \ {d}
      BY <1>3, <1>7, ChangeTyping
    <3> QED
      BY <1>1, <1>2, <1>4, <1>14, <3>1 DEF SwapOK, SwapSteps
  <2>3. Swapping(p)'.doc = d
    BY <1>6, <1>8
  <2> QED
    BY <1>9, <1>15, <2>1, <2>2, <2>3 DEF SwapOK
<1>19. pc'[p] \in Midway /\ pc'[p] \notin Fresh \cup {"cleanup"}
  BY <1>9, KindsOfSteps DEF Midway, CommitSteps, RollbackSteps
<1>20. MidwayOK(p)' /\ AnswerOK(p)'
  BY <1>2, <1>4, <1>16, <1>17, <1>18, <1>19, KindsOfSteps DEF MidwayOK, AnswerOK, Elsewhere
<1> QED
  BY <1>1, <1>2, <1>13, <1>19, <1>20, MovesFrame

\* The document enters the other array, and the next change is up.
LEMMA RecordInstallKeeps ==
    ASSUME Calm, AtomicInv, NEW p \in Patches, RecordInstall(p) PROVE AtomicInv' /\ Moves(p)
<1>1. pc[p] = "noteInstall" /\ pc[p] \in Midway /\ pc[p] \in SwapSteps /\ Alive(p) /\ Writes(p)
  BY DEF RecordInstall, At, Midway, CommitSteps, SwapSteps, Writes, Committing
<1>2. /\ Kept(p) /\ Alone(p) /\ Recorded(p) /\ SwapOK(p) /\ result[p] = "none" /\ p \in Calls
      /\ \A d \in Docs \ Changed(p) : Untouched(p, d)
      /\ journal[p] \notin {"torn", "committed"}
  BY <1>1, MidwayFacts DEF Elsewhere
<1>3. /\ pc \in [Calls -> Steps] /\ installed \in [Patches -> SUBSET Docs] /\ pos \in [Patches -> Nat]
      /\ journal \in [Patches -> Journals]
  BY CalmFacts DEF TypeOK
<1>4. UNCHANGED <<file, backup, snapB, result, backups>>
  BY DEF RecordInstall, reading
<1>5. PICK d : d = Swapping(p).doc
  OBVIOUS
<1>6. /\ pos[p] \in DOMAIN Changes[p] /\ DOMAIN Changes[p] = 1 .. Len(Changes[p]) /\ Len(Changes[p]) \in Nat
  BY <1>1, SwappingFacts, ChangeTyping
<1>7. \A e : Current(p, e) <=> e = d
  BY <1>5 DEF Current
<1>8. /\ installed' = [installed EXCEPT ![p] = @ \cup {d}]
      /\ pos' = [pos EXCEPT ![p] = @ + 1]
      /\ pc'[p] = IF pos[p] = Len(Changes[p]) THEN "verify" ELSE "backup"
  BY <1>2, <1>3, <1>5 DEF RecordInstall, Goto
<1>9. UNCHANGED journal \/ WriteJournal(p, "installing")
  BY DEF RecordInstall
<1>10. OthersKept(p)
  BY <1>2, <1>3, <1>4, <1>8, <1>9 DEF OthersKept, RecordInstall, Goto, WriteJournal
<1>11. /\ Moves(p) /\ Kept(p)' = Kept(p) /\ (Alone(p)' <=> Alone(p))
       /\ \A e : (Moved(p, e)' <=> Moved(p, e)) /\ (Untouched(p, e)' <=> Untouched(p, e))
  BY <1>4, <1>10, NothingMoved
<1>12. Moved(p, d)
  BY <1>1, <1>2, <1>5 DEF SwapOK
<1>13. Recorded(p)'
  <2>1. \A e \in installed'[p] : Moved(p, e)'
    BY <1>2, <1>3, <1>8, <1>11, <1>12 DEF Recorded
  <2>2. \A e \in Docs : file'[e] = p => e \in installed'[p]
    BY <1>1, <1>2, <1>3, <1>4, <1>7, <1>8 DEF Recorded
  <2>3. \A e \in Docs : backup'[p][e] # Missing => e \in backups'[p]
    BY <1>1, <1>2, <1>4 DEF Recorded
  <2> QED
    BY <2>1, <2>2, <2>3 DEF Recorded
<1>14. SwapOK(p)'
  <2>1. journal'[p] \in Unfinished
    BY <1>1, <1>2, <1>3, <1>9 DEF SwapOK, SwapSteps, WriteJournal, Unfinished
  <2>2. \A i \in DOMAIN Changes[p] : pos[p] < i => Untouched(p, Changes[p][i].doc)
    BY <1>1, <1>2 DEF SwapOK, SwapSteps
  <2>3. pos'[p] = pos[p] + 1 /\ pos[p] \in Nat
    BY <1>3, <1>8
  <2>4. \A i \in DOMAIN Changes[p] : pos'[p] < i => Untouched(p, Changes[p][i].doc)'
    BY <1>6, <1>11, <2>2, <2>3
  <2>5. pc'[p] = "backup" => Untouched(p, Swapping(p).doc)'
    <3> SUFFICES ASSUME pc'[p] = "backup" PROVE Untouched(p, Swapping(p).doc)'
      OBVIOUS
    <3>1. pos'[p] \in DOMAIN Changes[p] /\ pos[p] < pos'[p]
      BY <1>6, <1>8, <2>3
    <3>2. Untouched(p, Changes[p][pos'[p]].doc)
      BY <2>2, <3>1
    <3> QED
      BY <1>11, <3>2 DEF Swapping
  <2>6. pc'[p] \in {"verify", "backup"}
    BY <1>8
  <2> QED
    BY <2>1, <2>4, <2>5, <2>6 DEF SwapOK
<1>15. pc'[p] \in Midway /\ pc'[p] \notin Fresh \cup {"cleanup"}
  BY <1>8 DEF Midway, Fresh, Unanswered, Recoveries, UndoSteps, CommitSteps, RollbackSteps
<1>16. journal'[p] \notin {"torn", "committed"}
  BY <1>2, <1>3, <1>9 DEF WriteJournal
<1>17. MidwayOK(p)' /\ AnswerOK(p)'
  BY <1>2, <1>4, <1>11, <1>13, <1>14, <1>15, <1>16, KindsOfSteps DEF MidwayOK, AnswerOK, Elsewhere
<1> QED
  BY <1>1, <1>2, <1>11, <1>15, <1>17, MovesFrame

\* The verdict on the new generation, or an error before it: pc moves, at most.
LEMMA VerdictKeeps ==
    ASSUME Calm, AtomicInv, Undoable, NEW p \in Patches, Verify(p) \/ CommitError(p) PROVE AtomicInv' /\ Moves(p)
<1>1. /\ pc[p] \in CommitSteps \ {"noteBackup", "noteInstall", "cleanup"} /\ pc[p] \in Midway
      /\ Verify(p) => pc[p] = "verify"
      /\ Alive(p) /\ Writes(p)
  BY DEF Verify, CommitError, At, Undoable, Midway, CommitSteps, Writes, Committing
<1>2. /\ Kept(p) /\ Alone(p) /\ Recorded(p) /\ SwapOK(p) /\ result[p] = "none" /\ p \in Calls
      /\ \A d \in Docs \ Changed(p) : Untouched(p, d)
      /\ journal[p] \notin {"torn", "committed"}
  BY <1>1, MidwayFacts DEF Elsewhere
<1>3. pc \in [Calls -> Steps]
  BY CalmFacts DEF TypeOK
<1>4. UNCHANGED <<file, archive, journal, backup, snapB, result, pos, installed, backups>>
  BY <1>1 DEF Verify, CommitError, disk, reading, commits
<1>5. pc'[p] = "rollback" \/ (pc[p] = "verify" /\ pc'[p] = "commit" /\ CompletelyInstalled(p))
  BY <1>1, <1>2, <1>3 DEF Verify, CommitError, Goto
<1>6. OthersKept(p)
  BY <1>2, <1>3, <1>4 DEF OthersKept, Verify, CommitError, Goto
<1>7. PaperStep(p)
  BY <1>2, <1>4, <1>5, <1>6 DEF PaperStep, Midway, CommitSteps, RollbackSteps
<1>8. \A d : (Moved(p, d)' <=> Moved(p, d)) /\ (Untouched(p, d)' <=> Untouched(p, d))
  BY <1>4 DEF Moved, Untouched
<1>9. Recorded(p)'
  BY <1>1, <1>2, <1>4, <1>8 DEF Recorded
<1>10. SwapOK(p)'
  <2>1. pc[p] = "verify" => journal[p] \in Unfinished
    BY <1>2 DEF SwapOK
  <2>2. journal'[p] \notin Unfinished => Clean(p)'
    BY <1>2, <1>4, <1>8 DEF SwapOK, Clean
  <2>3. CompletelyInstalled(p)' <=> CompletelyInstalled(p)
    BY <1>4 DEF CompletelyInstalled
  <2> QED
    BY <1>4, <1>5, <2>1, <2>2, <2>3 DEF SwapOK, SwapSteps
<1>11. Elsewhere(p)
  BY <1>2 DEF Elsewhere
<1> QED
  BY <1>1, <1>2, <1>7, <1>9, <1>10, <1>11, PaperKeeps

\* The commit point, and the removal of the staging directory.
LEMMA CommitKeeps ==
    ASSUME Calm, AtomicInv, NEW p \in Patches, Commit(p) \/ Cleanup(p) PROVE AtomicInv' /\ Moves(p)
<1>1. /\ pc[p] \in {"commit", "cleanup"} /\ p \in Calls /\ Alive(p) /\ Writes(p)
      /\ pc[p] \in Midway \cup {"cleanup"}
  BY PatchesAreCalls DEF Commit, Cleanup, At, Midway, CommitSteps, Writes, Committing
<1>2. result[p] = "none" /\ Alone(p) /\ lock'.by = p
  <2>1. result[p] = "none" /\ (pc[p] = "cleanup" => journal[p] = "committed") /\ StageOK(p)
    BY <1>1 DEF AtomicInv, CallOK, AnswerOK
  <2>2. Alone(p)
    BY <1>1, <2>1 DEF AtomicInv, CallOK, MidwayOK, StageOK
  <2>3. lock'.by = p
    BY <1>1, NoOtherHolder, WritesStay, CalmFacts
  <2> QED
    BY <2>1, <2>2, <2>3
<1>3. /\ pc \in [Calls -> Steps] /\ file \in Generations /\ backup \in [Patches -> Generations]
      /\ journal \in [Patches -> Journals] /\ result \in [Calls -> Results]
  BY CalmFacts DEF TypeOK
<1>4. UNCHANGED <<snapB, pos, installed, backups>>
  BY DEF Commit, Cleanup, reading, commits
<1>5. \/ pc'[p] = "cleanup" /\ journal'[p] = "committed" /\ result'[p] = "none"
      \/ pc'[p] = "release" /\ journal'[p] = "absent"
  BY <1>1, <1>2, <1>3 DEF Commit, Cleanup, Goto, Leave, WriteJournal, RemoveStage
<1>6. OthersKept(p)
  BY <1>1, <1>3, <1>4 DEF OthersKept, Commit, Cleanup, Goto, Leave, WriteJournal, RemoveStage
<1>7. \A d \in Docs : file'[d] \in {file[d], Missing} /\ backup'[p][d] \in {backup[p][d], Missing}
  BY <1>3 DEF Commit, Cleanup, RemoveStage, Generations
<1>8. Moves(p)
  BY <1>4, <1>6, <1>7 DEF Moves
<1>9. pc'[p] \notin Midway \cup Fresh
  BY <1>5, KindsOfSteps
<1>10. Alone(p)'
  BY <1>2, <1>6 DEF Alone, OthersKept
<1>11. MidwayOK(p)' /\ AnswerOK(p)'
  BY <1>5, <1>9 DEF MidwayOK, AnswerOK
<1>12. journal'[p] = "committed" /\ NoArchive(p) => CommittedGenerationValid(p)'
  <2> SUFFICES ASSUME journal'[p] = "committed", NoArchive(p) PROVE CommittedGenerationValid(p)'
    OBVIOUS
  <2>1. Commit(p) /\ pc[p] = "commit"
    BY <1>1, <1>3 DEF Commit, Cleanup, RemoveStage, At
  <2>2. CompletelyInstalled(p)
    BY <1>1, <2>1 DEF AtomicInv, CallOK, MidwayOK, SwapOK, Midway, CommitSteps
  <2>3. \A i \in DOMAIN Changes[p] : Changes[p][i].doc \in Docs /\ Changes[p][i].op \in Ops
    BY ChangeTyping
  <2>4. \A i \in DOMAIN Changes[p] : Changes[p][i].op \in {"write", "delete"}
    BY <2>3 DEF NoArchive, Archives, Ops
  <2>5. file' = file
    BY <2>1, <2>4 DEF Commit
  <2> QED
    BY <2>2, <2>4, <2>5 DEF CompletelyInstalled, CommittedGenerationValid, AfterHash
<1>13. StageOK(p)'
  <2>1. NoArchive(p)' <=> NoArchive(p)
    BY DEF NoArchive, Archives
  <2> QED
    BY <1>2, <1>5, <1>10, <1>12, <2>1 DEF StageOK, Undecided, Unfinished
<1> QED
  BY <1>1, <1>2, <1>8, <1>9, <1>11, <1>13, MovesFrame

\* What was installed is removed.
LEMMA RemoveKeeps ==
    ASSUME Calm, AtomicInv, NEW p \in Patches, RemoveInstalled(p) PROVE AtomicInv' /\ Moves(p)
<1>1. pc[p] = "rollback" /\ pc[p] \in Midway /\ Alive(p) /\ Writes(p)
  BY DEF RemoveInstalled, At, Midway, RollbackSteps, Writes, RollingBack
<1>2. /\ Kept(p) /\ Alone(p) /\ Recorded(p) /\ SwapOK(p) /\ result[p] = "none" /\ p \in Calls
      /\ \A d \in Docs \ Changed(p) : Untouched(p, d)
      /\ journal[p] \notin {"torn", "committed"}
  BY <1>1, MidwayFacts DEF Elsewhere
<1>3. /\ pc \in [Calls -> Steps] /\ file \in Generations /\ installed \in [Patches -> SUBSET Docs]
  BY CalmFacts DEF TypeOK
<1>4. UNCHANGED <<journal, backup, snapB, result, pos, backups>>
  BY DEF RemoveInstalled, reading
<1>5. CASE installed[p] = {} /\ Goto(p, "restore") /\ UNCHANGED <<file, installed>>
  <2>1. pc'[p] = "restore" /\ OthersKept(p)
    BY <1>2, <1>3, <1>4, <1>5 DEF Goto, OthersKept
  <2>2. PaperStep(p)
    BY <1>2, <1>4, <1>5, <2>1 DEF PaperStep, Midway, RollbackSteps
  <2>3. \A d : (Moved(p, d)' <=> Moved(p, d)) /\ (Untouched(p, d)' <=> Untouched(p, d))
    BY <1>4, <1>5 DEF Moved, Untouched
  <2>4. Recorded(p)'
    BY <1>1, <1>2, <1>4, <1>5, <2>3 DEF Recorded
  <2>5. SwapOK(p)'
    <3>1. journal'[p] \notin Unfinished => Clean(p)'
      BY <1>2, <1>4, <1>5, <2>3 DEF SwapOK, Clean
    <3> QED
      BY <1>4, <1>5, <2>1, <3>1 DEF SwapOK, SwapSteps
  <2>6. Elsewhere(p)
    BY <1>2 DEF Elsewhere
  <2> QED
    BY <1>1, <1>2, <2>2, <2>4, <2>5, <2>6, PaperKeeps
<1>6. ASSUME NEW d \in installed[p], installed' = [installed EXCEPT ![p] = @ \ {d}], UNCHANGED pc,
             IF Archives(p, d) THEN UNCHANGED file ELSE file' = [file EXCEPT ![d] = Missing]
      PROVE  AtomicInv' /\ Moves(p)
  <2>1. d \in Docs /\ Moved(p, d) /\ installed'[p] = installed[p] \ {d}
    BY <1>2, <1>3, <1>6 DEF Recorded
  <2>2. /\ \A e \in Docs \ {d} : file'[e] = file[e] /\ backup'[p][e] = backup[p][e]
        /\ file'[d] = Missing
    <3>1. Archives(p, d) => file[d] = Missing
      BY <1>2, <2>1 DEF Kept, Moved
    <3> QED
      BY <1>3, <1>4, <1>6, <2>1, <3>1 DEF Generations
  <2>3. OthersKept(p)
    BY <1>4, <1>6 DEF OthersKept
  <2>4. DocumentStep(p, d) /\ Moves(p)
    BY <1>4, <2>2, <2>3 DEF DocumentStep, Moves
  <2>5. \A e \in Docs \ {d} : (Moved(p, e)' <=> Moved(p, e)) /\ (Untouched(p, e)' <=> Untouched(p, e))
    BY <2>1, <2>4, ElsewhereKept
  <2>6. Moved(p, d)'
    BY <1>4, <2>1, <2>2 DEF Moved
  <2>7. journal[p] \in Unfinished
    BY <1>2, <1>6 DEF SwapOK, Clean
  <2>8. d \in Changed(p) \/ Untouched(p, d)'
    <3>1. d \notin Changed(p) => Untouched(p, d)
      BY <1>2, <2>1
    <3>2. Untouched(p, d) /\ Moved(p, d) => snapB[p][d] = Missing
      BY DEF Untouched, Moved
    <3>3. d \notin Changed(p) => backup[p][d] = Missing /\ snapB[p][d] = Missing
      BY <2>1, <3>1, <3>2 DEF Untouched
    <3> QED
      BY <1>4, <2>2, <3>3 DEF Untouched
  <2>9. Kept(p)' /\ Alone(p)' /\ \A e \in Docs \ Changed(p) : Untouched(p, e)'
    <3>1. \A e \in Docs : snapB'[p][e] # p /\ (file'[e] = p => ~Archives(p, e))
      BY <1>2, <1>4, <2>2, CallsAssumption DEF Kept, Missing
    <3>2. Kept(p)'
      BY <1>2, <2>5, <2>6, <3>1 DEF Kept
    <3> QED
      BY <1>2, <1>4, <2>5, <2>8, <3>2 DEF Alone
  <2>10. Recorded(p)'
    <3>1. \A e \in installed'[p] : Moved(p, e)'
      BY <1>2, <1>3, <2>1, <2>5 DEF Recorded
    <3>2. \A e \in Docs : file'[e] = p => e \in installed'[p]
      BY <1>1, <1>2, <2>1, <2>2, CallsAssumption DEF Recorded, Missing
    <3>3. \A e \in Docs : backup'[p][e] # Missing => e \in backups'[p]
      BY <1>1, <1>2, <1>4 DEF Recorded
    <3> QED
      BY <3>1, <3>2, <3>3 DEF Recorded
  <2>11. SwapOK(p)'
    BY <1>1, <1>4, <1>6, <2>7 DEF SwapOK, SwapSteps
  <2>12. pc'[p] \in Midway /\ pc'[p] \notin Fresh \cup {"cleanup"}
    BY <1>1, <1>6 DEF Midway, Fresh, Unanswered, Recoveries, UndoSteps, CommitSteps, RollbackSteps
  <2>13. MidwayOK(p)' /\ AnswerOK(p)'
    BY <1>2, <1>4, <2>9, <2>10, <2>11, <2>12, KindsOfSteps DEF MidwayOK, AnswerOK, Elsewhere
  <2> QED
    BY <1>1, <1>2, <2>4, <2>12, <2>13, MovesFrame
<1> QED
  BY <1>5, <1>6 DEF RemoveInstalled

\* A failed rollback leaves a journal that tells the base from what is missing of it.
LEMMA FailedStage ==
    ASSUME Calm, AtomicInv, NEW p \in Patches, Writes(p), pc[p] \in Midway, OthersKept(p),
           UNCHANGED <<file, backup, snapB>>, journal'[p] = "rollback_failed"
    PROVE  StageOK(p)'
<1>1. Alive(p) /\ lock'.by = p
  BY WritesStay, NoOtherHolder, CalmFacts
<1>2. Kept(p) /\ Elsewhere(p) /\ Alone(p)
  BY <1>1, WritesStay, CalmFacts, MidwayFacts
<1>3. \A d : (Moved(p, d)' <=> Moved(p, d)) /\ (Untouched(p, d)' <=> Untouched(p, d))
  BY DEF Moved, Untouched
<1>4. Kept(p)' /\ Elsewhere(p)' /\ Alone(p)'
  BY <1>2, <1>3 DEF Kept, Elsewhere, Changed, Alone, OthersKept
<1> QED
  BY <1>1, <1>4 DEF StageOK

\* The backups go back over their targets.
LEMMA RestoreKeeps ==
    ASSUME Calm, AtomicInv, NEW p \in Patches, RestoreBackup(p) PROVE AtomicInv' /\ Moves(p)
<1>1. pc[p] = "restore" /\ pc[p] \in Midway /\ Alive(p) /\ Writes(p)
  BY DEF RestoreBackup, At, Midway, RollbackSteps, Writes, RollingBack
<1>2. /\ Kept(p) /\ Alone(p) /\ Recorded(p) /\ SwapOK(p) /\ result[p] = "none" /\ p \in Calls
      /\ \A d \in Docs \ Changed(p) : Untouched(p, d)
      /\ journal[p] \notin {"torn", "committed"}
  BY <1>1, MidwayFacts DEF Elsewhere
<1>3. /\ pc \in [Calls -> Steps] /\ file \in Generations /\ backup \in [Patches -> Generations]
      /\ backups \in [Patches -> SUBSET Docs] /\ snapB \in [Calls -> Generations]
      /\ journal \in [Patches -> Journals] /\ result \in [Calls -> Results]
  BY CalmFacts DEF TypeOK
<1>4. UNCHANGED <<snapB, pos, installed>> /\ installed[p] = {}
  BY <1>1, <1>2 DEF RestoreBackup, reading, SwapOK
<1>5. CASE backups[p] = {} /\ Goto(p, "discard") /\ UNCHANGED <<file, journal, backup, backups, result>>
  <2>1. pc'[p] = "discard" /\ OthersKept(p)
    BY <1>2, <1>3, <1>4, <1>5 DEF Goto, OthersKept
  <2>2. PaperStep(p)
    BY <1>2, <1>4, <1>5, <2>1 DEF PaperStep, Midway, RollbackSteps
  <2>3. \A d : (Moved(p, d)' <=> Moved(p, d)) /\ (Untouched(p, d)' <=> Untouched(p, d))
    BY <1>4, <1>5 DEF Moved, Untouched
  <2>4. Recorded(p)'
    BY <1>1, <1>2, <1>4, <1>5, <2>3 DEF Recorded
  <2>5. file = snapB[p]
    <3>1. ASSUME NEW d \in Docs PROVE file[d] = snapB[p][d]
      <4>1. backup[p][d] = Missing /\ file[d] # p
        BY <1>1, <1>2, <1>4, <1>5 DEF Recorded
      <4> QED
        BY <1>2, <4>1 DEF Kept, Moved, Untouched
    <3>2. snapB[p] \in Generations
      BY <1>2, <1>3
    <3> QED
      BY <1>3, <3>1, <3>2 DEF Generations
  <2>6. SwapOK(p)'
    <3>1. journal'[p] \notin Unfinished => Clean(p)'
      BY <1>2, <1>4, <1>5, <2>3 DEF SwapOK, Clean
    <3> QED
      BY <1>4, <1>5, <2>1, <2>5, <3>1 DEF SwapOK, SwapSteps
  <2>7. Elsewhere(p)
    BY <1>2 DEF Elsewhere
  <2> QED
    BY <1>1, <1>2, <2>2, <2>4, <2>6, <2>7, PaperKeeps
<1>6. CASE WriteJournal(p, "rollback_failed") /\ Leave(p, "ROLLBACK_FAILED") /\ UNCHANGED <<file, backup, backups>>
  <2>1. pc'[p] = "release" /\ OthersKept(p) /\ journal'[p] = "rollback_failed"
    BY <1>2, <1>3, <1>4, <1>6 DEF Goto, Leave, WriteJournal, OthersKept
  <2>2. StageOK(p)'
    BY <1>1, <1>2, <1>4, <1>6, <2>1, FailedStage
  <2>3. PaperStep(p) /\ pc'[p] \notin Midway
    BY <1>4, <1>6, <2>1, <2>2, KindsOfSteps DEF PaperStep
  <2> QED
    BY <1>1, <1>2, <2>3, PaperKeeps
<1>7. ASSUME NEW d \in backups[p], backup[p][d] # Missing, UNCHANGED <<pc, journal, result>>,
             file' = [file EXCEPT ![d] = backup[p][d]], backup' = [backup EXCEPT ![p][d] = Missing],
             backups' = [backups EXCEPT ![p] = @ \ {d}]
      PROVE  AtomicInv' /\ Moves(p)
  <2>1. d \in Docs /\ backups'[p] = backups[p] \ {d}
    BY <1>3, <1>7
  <2>2. backup[p][d] = snapB[p][d]
    BY <1>2, <1>7, <2>1 DEF Kept, Moved, Untouched
  <2>3. /\ \A e \in Docs \ {d} : file'[e] = file[e] /\ backup'[p][e] = backup[p][e]
        /\ file'[d] = snapB[p][d] /\ file'[d] = backup[p][d] /\ backup'[p][d] = Missing
    BY <1>3, <1>7, <2>1, <2>2 DEF Generations
  <2>4. OthersKept(p)
    BY <1>3, <1>4, <1>7 DEF OthersKept
  <2>5. DocumentStep(p, d) /\ Moves(p)
    BY <1>4, <1>7, <2>3, <2>4 DEF DocumentStep, Moves
  <2>6. \A e \in Docs \ {d} : (Moved(p, e)' <=> Moved(p, e)) /\ (Untouched(p, e)' <=> Untouched(p, e))
    BY <2>1, <2>5, ElsewhereKept
  <2>7. Untouched(p, d)'
    BY <1>4, <2>3 DEF Untouched
  <2>8. journal[p] \in Unfinished
    BY <1>2, <1>7, <2>1 DEF SwapOK, Clean
  <2>9. Kept(p)' /\ Alone(p)' /\ \A e \in Docs \ Changed(p) : Untouched(p, e)'
    <3>1. \A e \in Docs : snapB'[p][e] # p /\ (file'[e] = p => ~Archives(p, e))
      BY <1>2, <1>4, <2>3 DEF Kept
    <3>2. Kept(p)'
      BY <1>2, <2>6, <2>7, <3>1 DEF Kept
    <3> QED
      BY <1>2, <1>7, <2>6, <2>7, <3>2 DEF Alone
  <2>10. Recorded(p)'
    <3>1. installed'[p] = {}
      BY <1>4
    <3>2. \A e \in Docs : file'[e] # p
      BY <1>1, <1>2, <1>4, <2>3 DEF Recorded, Kept
    <3>3. \A e \in Docs : backup'[p][e] # Missing => e \in backups'[p]
      BY <1>1, <1>2, <2>1, <2>3 DEF Recorded
    <3> QED
      BY <3>1, <3>2, <3>3 DEF Recorded
  <2>11. SwapOK(p)'
    BY <1>1, <1>4, <1>7, <2>8 DEF SwapOK, SwapSteps
  <2>12. pc'[p] \in Midway /\ pc'[p] \notin Fresh \cup {"cleanup"}
    BY <1>1, <1>7 DEF Midway, Fresh, Unanswered, Recoveries, UndoSteps, CommitSteps, RollbackSteps
  <2>13. MidwayOK(p)' /\ AnswerOK(p)'
    BY <1>2, <1>7, <2>9, <2>10, <2>11, <2>12, KindsOfSteps DEF MidwayOK, AnswerOK, Elsewhere
  <2> QED
    BY <1>1, <1>2, <2>5, <2>12, <2>13, MovesFrame
<1> QED
  BY <1>5, <1>6, <1>7 DEF RestoreBackup

\* The stage is discarded, or the rollback itself fails.
LEMMA RollbackEndKeeps ==
    ASSUME Calm, AtomicInv, Undoable, NEW p \in Patches, DiscardStage(p) \/ RollbackError(p)
    PROVE  AtomicInv' /\ Moves(p)
<1>1. pc[p] \in {"restore", "discard"} /\ pc[p] \in Midway /\ Alive(p) /\ Writes(p)
  BY DEF DiscardStage, RollbackError, At, Undoable, Midway, RollbackSteps, Writes, RollingBack
<1>2. result[p] = "none" /\ p \in Calls /\ Alone(p)
  BY <1>1, MidwayFacts
<1>3. /\ pc \in [Calls -> Steps] /\ result \in [Calls -> Results] /\ journal \in [Patches -> Journals]
      /\ backup \in [Patches -> Generations]
  BY CalmFacts DEF TypeOK
<1>4. UNCHANGED <<file, snapB, pos, installed, backups>>
  BY <1>1 DEF DiscardStage, RollbackError, disk, reading, commits
<1>5. pc'[p] = "release" /\ journal'[p] \in {"absent", "rollback_failed"}
  BY <1>1, <1>2, <1>3 DEF DiscardStage, RollbackError, Goto, Leave, WriteJournal, RemoveStage
<1>6. \E l, r : pc' = [pc EXCEPT ![p] = l] /\ result' = [result EXCEPT ![p] = r]
  BY <1>1 DEF DiscardStage, RollbackError, Goto, Leave
<1>7. \E s : journal' = [journal EXCEPT ![p] = s]
  BY <1>1 DEF DiscardStage, RollbackError, WriteJournal, RemoveStage
<1>8. backup' = backup \/ backup' = [backup EXCEPT ![p] = [d \in Docs |-> Missing]]
  BY DEF DiscardStage, RollbackError, RemoveStage
<1>9. OthersKept(p)
  BY <1>2, <1>3, <1>4, <1>6, <1>7, <1>8 DEF OthersKept
<1>10. \A d \in Docs : backup'[p][d] \in {backup[p][d], Missing}
  BY <1>3, <1>8
<1>11. Moves(p)
  BY <1>4, <1>9, <1>10 DEF Moves
<1>12. pc'[p] \notin Midway \cup Fresh \cup {"cleanup"}
  BY <1>5, KindsOfSteps
<1>13. MidwayOK(p)' /\ AnswerOK(p)'
  BY <1>5, <1>12 DEF MidwayOK, AnswerOK
<1>14. StageOK(p)'
  <2>1. CASE journal'[p] = "absent"
    BY <2>1 DEF StageOK, Undecided, Unfinished
  <2>2. CASE journal'[p] = "rollback_failed"
    <3>1. backup' = backup
      BY <1>3, <2>2 DEF DiscardStage, RollbackError, RemoveStage
    <3> QED
      BY <1>1, <1>4, <1>9, <2>2, <3>1, FailedStage
  <2> QED
    BY <1>5, <2>1, <2>2
<1> QED
  BY <1>1, <1>2, <1>11, <1>12, <1>13, <1>14, MovesFrame

LEMMA WritesKeep ==
    ASSUME Calm, AtomicInv, Undoable, NEW p \in Patches, Writes(p) PROVE AtomicInv' /\ Moves(p)
BY RevalidateKeeps, StagingKeeps, BackupKeeps, RecordBackupKeeps, InstallKeeps, RecordInstallKeeps,
   VerdictKeeps, CommitKeeps, RemoveKeeps, RestoreKeeps, RollbackEndKeeps
   DEF Writes, Committing, RollingBack
-----------------------------------------------------------------------------
(* Recovery: it looks at the stages, and undoes the changes of the dead patch. *)

\* The steps of a recovery that leave the documents where they are.
Looks(p) == ScanStaging(p) \/ RecoverEntry(p) \/ RemoveDeadLock(p) \/ UndoChange(p)

LEMMA LooksQuietly == ASSUME TypeOK, NEW p \in Patches, Looks(p) PROVE QuietStep(p)
<1> USE PatchesAreCalls DEF disk, env, reading, commits, recovers, Goto, Answer, Refuse, At
<1>1. /\ pc \in [Calls -> Steps] /\ result \in [Calls -> Results] /\ pos \in [Patches -> Nat]
  BY DEF TypeOK
<1>2. DiskKept /\ UNCHANGED <<snapB, installed, backups>>
  BY DEF Looks, ScanStaging, RecoverEntry, RemoveDeadLock, UndoChange, DiskKept
<1>3. pc[p] \in Recoveries
  BY DEF Looks, ScanStaging, RecoverEntry, RemoveDeadLock, UndoChange, Recoveries, UndoSteps
<1>4. \E l \in {"recover", "purge", "undo", "reopen", "undoMove", "undoRemove", "undoDrop", "done"} :
          Goto(p, l) /\ (l # "done" => UNCHANGED result)
  BY DEF Looks, ScanStaging, RecoverEntry, RemoveDeadLock, UndoChange, UndoNext
<1>5. UNCHANGED result \/ result' = [result EXCEPT ![p] = "RECOVERY_REQUIRED"]
  BY DEF Looks, ScanStaging, RecoverEntry, RemoveDeadLock, UndoChange
<1>6. \A q \in Patches \ {p} : pos'[q] = pos[q]
  BY <1>1 DEF Looks, ScanStaging, RecoverEntry, RemoveDeadLock, UndoChange, UndoNext
<1>7. pc'[p] \in Fresh \cup {"done"} /\ (pc'[p] # "done" => UNCHANGED result)
  BY <1>1, <1>4 DEF Fresh, Recoveries, UndoSteps
<1>8. \A b \in Calls \ {p} : pc'[b] = pc[b] /\ result'[b] = result[b]
  BY <1>1, <1>4, <1>5
<1>9. result'[p] = result[p] \/ result'[p] \notin {"APPLIED", "FAILED"}
  BY <1>1, <1>5
<1> QED
  BY <1>2, <1>3, <1>6, <1>7, <1>8, <1>9, KindsOfSteps DEF QuietStep, OthersKept, DiskKept

\* What the invariants say of a recovery that is at the stage of the dead patch.
LEMMA UndoFacts ==
    ASSUME Calm, AtomicInv, NEW p \in Patches, Alive(p), pc[p] \in Recoveries \ {"scan", "recover"}
    PROVE  /\ dead[p] \in Patches /\ dead[p] # p /\ lock.by = dead[p] /\ ~Alive(dead[p])
           /\ Alone(dead[p]) /\ StageOK(dead[p]) /\ RecovererOK(p)
           /\ journal[dead[p]] \in Unfinished \cup {"committed"}
           /\ \A q \in Patches \ {p} : Alive(q) => pc[q] \notin Midway \cup {"cleanup", "release"} \cup Recoveries
           /\ pc[p] \in UndoSteps =>
                 /\ pos[p] \in DOMAIN Changes[dead[p]] /\ pos[p] \in Nat \ {0}
                 /\ Undoing(p).doc \in Docs /\ Undoing(p).op \in Ops
<1>1. RecovererOK(p) /\ pc[p] \in Recoveries
  BY DEF AtomicInv, CallOK
<1>2. /\ dead[p] \in Patches /\ dead[p] # p /\ lock.by = dead[p] /\ ~Alive(dead[p])
      /\ \A q \in Patches \ {p} : Alive(q) => pc[q] \notin Midway \cup {"cleanup", "release"} \cup Recoveries
  BY <1>1, RecovererFacts
<1>3. journal[dead[p]] \in Unfinished \cup {"committed"}
  BY <1>1 DEF RecovererOK
<1>4. StageOK(dead[p]) /\ Alone(dead[p])
  BY <1>2, <1>3 DEF AtomicInv, StageOK, Unfinished
<1>5. pc[p] \in UndoSteps =>
          /\ pos[p] \in DOMAIN Changes[dead[p]] /\ pos[p] \in Nat \ {0}
          /\ Undoing(p).doc \in Docs /\ Undoing(p).op \in Ops
  BY <1>2, CalmFacts, ChangeTyping DEF UndoesAChange, Undoing
<1> QED
  BY <1>1, <1>2, <1>3, <1>4, <1>5

\* The recoverer's part of the invariant, of a dead patch that stays the same.
LEMMA RecovererNext ==
    ASSUME NEW p \in Patches, NEW q \in Patches, dead'[p] = q, UNCHANGED <<journal, entries>>,
           pc[p] \in Recoveries \ {"scan", "recover"}, RecovererOK(p), dead[p] = q,
           journal[q] = "committed" => pc[p] # "purge",
           journal[q] \in Unfinished /\ pc'[p] \in UndoSteps \cup {"purge"} => UndoOK(p, q)'
    PROVE  RecovererOK(p)'
<1>1. UndoOK(p, dead[p])' <=> UndoOK(p, q)'
  BY DEF UndoOK, Untouched, Undoing
<1>2. NoArchive(dead[p])' <=> NoArchive(q)
  BY DEF NoArchive, Archives
<1>3. pc'[p] \in Recoveries \ {"scan", "recover"} => pc'[p] \in UndoSteps \cup {"purge"}
  BY DEF Recoveries
<1> QED
  BY <1>1, <1>2, <1>3 DEF RecovererOK

\* One more change of q is undone.
LEMMA UndoneOne ==
    ASSUME TypeOK, NEW p \in Patches, NEW q \in Patches, UndoNext(p), dead[p] = q, dead'[p] = q,
           pos[p] \in Nat \ {0}, pos[p] \in DOMAIN Changes[q], Elsewhere(q)',
           \A i \in DOMAIN Changes[q] : pos[p] < i => Untouched(q, Changes[q][i].doc)',
           NEW d, d = Changes[q][pos[p]].doc, Untouched(q, d)'
    PROVE  UndoOK(p, q)' /\ pc'[p] \in {"undo", "purge"}
<1> USE DEF UndoNext, Goto
<1>1. p \in Calls /\ pc'[p] = (IF pos[p] = 1 THEN "purge" ELSE "undo") /\ pos'[p] = pos[p] - 1
  BY PatchesAreCalls DEF TypeOK
<1>2. DOMAIN Changes[q] \subseteq Nat \ {0}
  BY ChangeTyping
<1>3. \A i \in DOMAIN Changes[q] : pos'[p] < i => Untouched(q, Changes[q][i].doc)'
  <2> TAKE i \in DOMAIN Changes[q]
  <2> HAVE pos'[p] < i
  <2>1. i = pos[p] \/ pos[p] < i
    BY <1>1, <1>2
  <2> QED
    BY <2>1
<1>4. pos[p] = 1 => \A e \in Docs : Untouched(q, e)'
  <2> SUFFICES ASSUME pos[p] = 1, NEW e \in Docs PROVE Untouched(q, e)'
    OBVIOUS
  <2>1. CASE e \in Changed(q)
    <3>1. PICK i \in DOMAIN Changes[q] : Changes[q][i].doc = e
      BY <2>1 DEF Changed
    <3>2. pos'[p] < i
      BY <1>1, <1>2
    <3> QED
      BY <1>3, <3>1, <3>2
  <2>2. CASE e \notin Changed(q)
    BY <2>2 DEF Elsewhere, Changed
  <2> QED
    BY <2>1, <2>2
<1> QED
  BY <1>1, <1>3, <1>4 DEF UndoOK

\* A recovery that looks has read the stages, or goes by what they say.
LEMMA LooksLock == ASSUME Calm, AtomicInv, NEW p \in Patches, Looks(p) PROVE QuietLock(p)
<1> USE PatchesAreCalls DEF disk, env, reading, commits, recovers, Goto, Answer, Refuse, At
<1>1. /\ pc \in [Calls -> Steps] /\ pos \in [Patches -> Nat] /\ dead \in [Patches -> Patches \cup {"nobody"}]
      /\ entries \in [Patches -> SUBSET Patches] /\ TypeOK
  BY CalmFacts DEF TypeOK
<1>2. Alive(p) /\ UNCHANGED <<file, journal, backup, snapB, alive, dead>>
  BY DEF Looks, ScanStaging, RecoverEntry, RemoveDeadLock, UndoChange
<1>3. \A q \in Patches \ {p} : dead'[q] = dead[q] /\ entries'[q] = entries[q]
  BY <1>1 DEF Looks, ScanStaging, RecoverEntry, RemoveDeadLock, UndoChange
<1>4. pc[p] \in Recoveries /\ RecovererOK(p)
  BY <1>2 DEF Looks, ScanStaging, RecoverEntry, RemoveDeadLock, UndoChange, Recoveries, UndoSteps, AtomicInv, CallOK
<1>5. /\ dead[p] \in Patches /\ dead[p] # p /\ lock.by = dead[p] /\ ~Alive(dead[p])
      /\ StageOK(dead[p])
  BY <1>2, <1>4, RecovererFacts DEF AtomicInv
<1>6. \A q \in Patches : q # lock.by => journal[q] \in {"absent", "rollback_failed"}
  BY DEF AtomicInv, StageOK
<1>7. CASE ScanStaging(p)
  <2>1. lock' = lock /\ pc'[p] = "recover"
    BY <1>1, <1>7 DEF ScanStaging
  <2>2. entries'[p] = {q \in Patches : journal[q] # "absent"}
    BY <1>1, <1>7 DEF ScanStaging
  <2>3. RecovererOK(p)'
    BY <1>2, <2>1, <2>2 DEF RecovererOK
  <2> QED
    BY <1>2, <1>3, <1>4, <1>6, <2>1, <2>3 DEF QuietLock
<1>8. CASE RemoveDeadLock(p)
  <2>1. pc[p] = "recover" /\ entries[p] = {} /\ pc'[p] = "reopen"
    BY <1>1, <1>8 DEF RemoveDeadLock
  <2>2. \A q \in Patches : journal[q] = "absent"
    BY <1>4, <2>1 DEF RecovererOK, Recoveries
  <2>3. RecovererOK(p)'
    BY <2>1 DEF RecovererOK, Recoveries, UndoSteps
  <2> QED
    BY <1>2, <1>3, <1>4, <2>2, <2>3 DEF QuietLock
<1>9. CASE RecoverEntry(p)
  <2>1. PICK q \in entries[p] : RecoverEntry(p)!2!(q)
    BY <1>9 DEF RecoverEntry
  <2>2. lock' = lock /\ archive' = archive /\ pc[p] = "recover" /\ entries' = entries
    BY <1>9 DEF RecoverEntry
  <2>3. \A r \in Patches : journal[r] # "absent" => r \in entries[p]
    BY <1>4, <2>2 DEF RecovererOK
  <2>4. CASE q # dead[p] \/ journal[q] \in {"absent", "none", "torn"}
    <3>1. pc'[p] = "done"
      BY <1>1, <2>1, <2>4
    <3>2. RecovererOK(p)'
      BY <3>1 DEF RecovererOK, Recoveries, UndoSteps
    <3> QED
      BY <1>2, <1>3, <1>4, <1>6, <2>2, <3>2 DEF QuietLock
  <2>5. CASE q = dead[p] /\ journal[q] \notin {"absent", "none", "torn"}
    <3>1. q \in Patches /\ q = dead[p] /\ dead'[p] = q /\ StageOK(q)
      BY <1>2, <1>5, <2>5
    <3>2. journal[q] \in Unfinished \cup {"committed"}
      BY <1>1, <2>5, <3>1 DEF TypeOK, Journals
    <3>3. CASE journal[q] = "committed" /\ CommittedGenerationValid(q)
      <4>1. pc'[p] = "purge" /\ journal'[dead'[p]] = "committed" /\ journal'[dead'[p]] \notin Unfinished
        BY <1>1, <1>2, <2>1, <2>5, <3>1, <3>3 DEF Unfinished
      <4>2. RecovererOK(p)'
        BY <1>2, <2>2, <2>3, <4>1 DEF RecovererOK
      <4> QED
        BY <1>2, <1>3, <1>4, <1>6, <2>2, <4>2 DEF QuietLock
    <3>4. CASE ~(journal[q] = "committed" /\ CommittedGenerationValid(q))
      <4>1. pc'[p] = "undo" /\ pos'[p] = Len(Changes[q])
        BY <1>1, <2>1, <2>5, <3>4
      <4>2. DOMAIN Changes[q] = 1 .. Len(Changes[q]) /\ Len(Changes[q]) \in Nat
        BY <3>1, ChangeTyping
      <4>3. UndoOK(p, dead[p])'
        <5>1. \A i \in DOMAIN Changes[q] : ~(pos'[p] < i)
          BY <4>1, <4>2
        <5> QED
          BY <3>1, <4>1, <5>1 DEF UndoOK, UndoSteps
      <4>4. journal[q] = "committed" => ~NoArchive(q)
        BY <3>1, <3>4 DEF StageOK
      <4>5. NoArchive(dead[p])' <=> NoArchive(q)
        BY <3>1 DEF NoArchive, Archives
      <4>6. RecovererOK(p)'
        BY <1>2, <2>2, <2>3, <3>1, <3>2, <4>3, <4>4, <4>5 DEF RecovererOK
      <4> QED
        BY <1>2, <1>3, <1>4, <1>6, <2>2, <4>6 DEF QuietLock
    <3> QED
      BY <3>3, <3>4
  <2> QED
    BY <2>4, <2>5
<1>10. CASE UndoChange(p)
  <2>1. lock' = lock /\ pc[p] = "undo" /\ UNCHANGED <<journal, entries>> /\ pc[p] \in UndoSteps
    BY <1>10 DEF UndoChange, UndoSteps
  <2>2. PICK q \in Patches : q = dead[p]
    BY <1>5
  <2>3. /\ Alone(q) /\ StageOK(q) /\ journal[q] \in Unfinished \cup {"committed"}
        /\ pos[p] \in DOMAIN Changes[q] /\ pos[p] \in Nat \ {0}
        /\ Undoing(p).doc \in Docs /\ Undoing(p).op \in Ops
    BY <1>2, <1>4, <2>1, <2>2, UndoFacts
  <2>4. PICK d \in Docs : d = Changes[q][pos[p]].doc
    BY <2>2, <2>3 DEF Undoing
  <2>5. \A e : Untouched(q, e)' <=> Untouched(q, e)
    BY <1>2 DEF Untouched
  <2>6. ASSUME journal[q] \in Unfinished, pc'[p] \in UndoSteps \cup {"purge"} PROVE UndoOK(p, q)'
    <3>1. Kept(q) /\ Elsewhere(q)
      BY <2>3, <2>6 DEF StageOK, Undecided
    <3>2. UndoOK(p, q)
      BY <1>4, <2>1, <2>2, <2>6 DEF RecovererOK, Recoveries
    <3>3. dead'[p] = q
      BY <1>2, <2>2
    <3>4. CASE UndoNext(p) /\ backup[q][d] = Missing /\ file[d] = Missing
      <4>1. Untouched(q, d)
        BY <3>1, <3>4 DEF Kept, Moved, Untouched
      <4>2. Elsewhere(q)'
        BY <2>5, <3>1 DEF Elsewhere, Changed
      <4>3. \A i \in DOMAIN Changes[q] : pos[p] < i => Untouched(q, Changes[q][i].doc)'
        BY <2>1, <2>5, <3>2 DEF UndoOK
      <4> QED
        BY <1>1, <2>2, <2>3, <2>4, <2>5, <3>3, <3>4, <4>1, <4>2, <4>3, UndoneOne
    <3>5. ASSUME UNCHANGED pos, pc'[p] \in {"undoMove", "undoRemove", "undoDrop"},
                 pc'[p] = "undoRemove" => backup[q][d] # Missing,
                 pc'[p] = "undoDrop" => backup[q][d] = Missing /\ file[d] = q
          PROVE  UndoOK(p, q)'
      <4>1. Undoing(p)'.doc = d
        BY <2>4, <3>3, <3>5 DEF Undoing
      <4>2. \A i \in DOMAIN Changes[q] : pos'[p] < i => Untouched(q, Changes[q][i].doc)'
        BY <2>1, <2>5, <3>2, <3>5 DEF UndoOK
      <4> QED
        BY <1>2, <3>5, <4>1, <4>2 DEF UndoOK
    <3>6. CASE Undoing(p).op = "archive" /\ Goto(p, "undoMove") /\ UNCHANGED pos
      BY <1>1, <3>5, <3>6
    <3>7. CASE /\ Undoing(p).op # "archive" /\ backup[q][d] # Missing /\ UNCHANGED pos
               /\ Goto(p, IF file[d] # Missing THEN "undoRemove" ELSE "undoMove")
      BY <1>1, <3>5, <3>7
    <3>8. CASE /\ Undoing(p).op # "archive" /\ backup[q][d] = Missing /\ UNCHANGED pos
               /\ file[d] = AfterHash(q, Undoing(p)) /\ Goto(p, "undoDrop")
      <4>1. file[d] # "empty"
        BY DEF AtomicInv, NeverEmpty
      <4>2. file[d] = q
        BY <3>8, <4>1 DEF AfterHash
      <4> QED
        BY <1>1, <3>5, <3>8, <4>2
    <3>9. CASE Refuse(p)
      BY <1>1, <2>6, <3>9 DEF UndoSteps
    <3> QED
      BY <1>10, <2>2, <2>4, <3>4, <3>6, <3>7, <3>8, <3>9 DEF UndoChange, Undoing
  <2>7. pc[p] \in Recoveries \ {"scan", "recover"} /\ pc[p] # "purge"
    BY <1>4, <2>1
  <2>8. RecovererOK(p)'
    BY <1>2, <1>4, <2>1, <2>2, <2>6, <2>7, RecovererNext
  <2> QED
    BY <1>2, <1>3, <1>4, <1>6, <2>1, <2>8 DEF QuietLock
<1> QED
  BY <1>7, <1>8, <1>9, <1>10 DEF Looks

\* The frame of a recovery that changes the stage of q: p stays a fresh call.
LEMMA RecoveryFrame ==
    ASSUME Calm, AtomicInv, NEW p \in Patches, NEW q \in Patches, q # p, Alive(p), pc[p] \in Recoveries,
           StageStep(p, q), Alone(q), UNCHANGED <<installed, backups>>,
           pc'[p] \in Fresh \cup {"done"}, pc'[p] # "done" => result'[p] = result[p],
           StageOK(q)', RecovererOK(p)'
    PROVE  AtomicInv'
<1>1. CallOK(p) /\ pc[p] \in Fresh /\ p # Missing
  BY KindsOfSteps, CallsAssumption DEF AtomicInv, Missing
<1>2. \A d \in Docs : file[d] # p /\ \A s \in Patches : backup[s][d] # p
  BY <1>1 DEF CallOK, FreshOK
<1>3. /\ journal'[p] = journal[p] /\ installed'[p] = installed[p] /\ backups'[p] = backups[p]
      /\ backup'[p] = backup[p]
  BY DEF StageStep
<1>4. ASSUME NEW d \in Docs PROVE file'[d] # p /\ \A s \in Patches : backup'[s][d] # p
  <2>1. file'[d] \in {file[d], Missing, q, backup[q][d]} /\ backup'[q][d] \in {backup[q][d], Missing, file[d]}
    BY DEF StageStep
  <2>2. \A s \in Patches \ {q} : backup'[s] = backup[s]
    BY DEF StageStep
  <2> QED
    BY <1>1, <1>2, <2>1, <2>2
<1>5. FreshOK(p)' /\ MidwayOK(p)' /\ AnswerOK(p)'
  BY <1>1, <1>3, <1>4, KindsOfSteps DEF CallOK, FreshOK, MidwayOK, AnswerOK
<1> QED
  BY <1>5, Frame DEF CallOK

\* A step that undoes part of one document.
LEMMA UndoStep ==
    ASSUME Calm, AtomicInv, NEW p \in Patches, UndoRemove(p) \/ UndoMove(p)
    PROVE  /\ Alive(p) /\ pc[p] \in UndoSteps
           /\ UNCHANGED <<archive, lock, journal, alive, snapB, dead, entries, installed, backups, gens>>
           /\ \A b \in Calls \ {p} : pc'[b] = pc[b] /\ result'[b] = result[b]
           /\ \A e \in Docs : e # Undoing(p).doc => file'[e] = file[e] /\ backup'[dead[p]][e] = backup[dead[p]][e]
           /\ \A r \in Patches : r # dead[p] => backup'[r] = backup[r]
           /\ pc'[p] \in {"undo", "undoMove", "purge", "done"}
           /\ pc'[p] # "done" => result'[p] = result[p]
<1> USE PatchesAreCalls DEF env, reading, recovers, Goto, Answer, At, UndoNext
<1>1. /\ pc \in [Calls -> Steps] /\ result \in [Calls -> Results] /\ file \in Generations
      /\ backup \in [Patches -> Generations]
  BY CalmFacts DEF TypeOK
<1>2. /\ Alive(p) /\ pc[p] \in UndoSteps
      /\ UNCHANGED <<archive, lock, journal, alive, snapB, dead, entries, installed, backups, gens>>
  BY DEF UndoRemove, UndoMove, UndoSteps
<1>3. \E l \in {"undo", "undoMove", "purge", "done"} : Goto(p, l) /\ (l # "done" => UNCHANGED result)
  BY DEF UndoRemove, UndoMove
<1>4. UNCHANGED result \/ result' = [result EXCEPT ![p] = "FAILED"]
  BY DEF UndoRemove, UndoMove
<1>5. \A e \in Docs : e # Undoing(p).doc => file'[e] = file[e]
  BY <1>1 DEF UndoRemove, UndoMove, Generations
<1>6. UNCHANGED backup \/ backup' = [backup EXCEPT ![dead[p]][Undoing(p).doc] = Missing]
  BY DEF UndoRemove, UndoMove
<1>7. /\ \A e \in Docs : e # Undoing(p).doc => backup'[dead[p]][e] = backup[dead[p]][e]
      /\ \A r \in Patches : r # dead[p] => backup'[r] = backup[r]
  BY <1>1, <1>6 DEF Generations
<1>8. \A b \in Calls \ {p} : pc'[b] = pc[b] /\ result'[b] = result[b]
  BY <1>1, <1>3, <1>4
<1> QED
  BY <1>1, <1>2, <1>3, <1>5, <1>7, <1>8

\* What is left to show of it: what the one document is like afterwards.
LEMMA UndoStepKeeps ==
    ASSUME Calm, AtomicInv, NEW p \in Patches, UndoRemove(p) \/ UndoMove(p),
           NEW q \in Patches, q = dead[p], NEW d \in Docs, d = Undoing(p).doc,
           file'[d] \in {file[d], Missing, backup[q][d]}, backup'[q][d] \in {backup[q][d], Missing},
           journal[q] \in Unfinished => Moved(q, d)' \/ Untouched(q, d)',
           journal[q] \in Unfinished /\ UndoNext(p) => Untouched(q, d)',
           UndoNext(p) \/ pc'[p] = "done" \/ (pc'[p] = "undoMove" /\ pos'[p] = pos[p])
    PROVE  AtomicInv'
<1>1. /\ Alive(p) /\ pc[p] \in UndoSteps /\ pc[p] \in Recoveries \ {"scan", "recover"} /\ pc[p] # "purge"
      /\ UNCHANGED <<archive, lock, journal, alive, snapB, dead, entries, installed, backups>>
      /\ \A b \in Calls \ {p} : pc'[b] = pc[b] /\ result'[b] = result[b]
      /\ \A e \in Docs : e # d => file'[e] = file[e] /\ backup'[q][e] = backup[q][e]
      /\ \A r \in Patches : r # q => backup'[r] = backup[r]
      /\ pc'[p] \in {"undo", "undoMove", "purge", "done"}
      /\ pc'[p] # "done" => result'[p] = result[p]
  BY UndoStep DEF UndoSteps, Recoveries
<1>2. /\ q # p /\ lock.by = q /\ ~Alive(q) /\ Alone(q) /\ StageOK(q) /\ RecovererOK(p)
      /\ journal[q] \in Unfinished \cup {"committed"}
      /\ \A r \in Patches \ {p} : Alive(r) => pc[r] \notin Midway \cup {"cleanup", "release"} \cup Recoveries
      /\ pos[p] \in DOMAIN Changes[q] /\ pos[p] \in Nat \ {0} /\ d = Changes[q][pos[p]].doc
  BY <1>1, UndoFacts DEF Undoing
<1>3. StageStep(p, q)
  BY <1>1, <1>2, PatchesAreCalls DEF StageStep
<1>4. \A e \in Docs : e # d => (Moved(q, e)' <=> Moved(q, e)) /\ (Untouched(q, e)' <=> Untouched(q, e))
  BY <1>1 DEF Moved, Untouched
<1>5. ASSUME journal[q] \in Unfinished
      PROVE  /\ Kept(q) /\ Elsewhere(q) /\ d \in Changed(q) /\ Kept(q)' /\ Elsewhere(q)'
             /\ \A i \in DOMAIN Changes[q] : pos[p] < i => Untouched(q, Changes[q][i].doc)'
  <2>1. Kept(q) /\ Elsewhere(q) /\ d \in Changed(q) /\ UndoOK(p, q)
    BY <1>1, <1>2, <1>5 DEF StageOK, Undecided, RecovererOK, Changed
  <2>2. Elsewhere(q)'
    BY <1>4, <2>1 DEF Elsewhere, Changed
  <2>3. ASSUME NEW e \in Docs PROVE snapB'[q][e] # q /\ (file'[e] = q => ~Archives(q, e))
    <3>1. backup[q][e] # q /\ snapB'[q][e] # q /\ q # Missing
      BY <1>1, <2>1, CallsAssumption DEF Kept, Moved, Untouched, Missing
    <3>2. file'[e] = q => file[e] = q
      BY <1>1, <3>1
    <3> QED
      BY <2>1, <3>1, <3>2 DEF Kept
  <2>4. Kept(q)'
    BY <1>4, <1>5, <2>1, <2>3 DEF Kept, Archives
  <2>5. \A i \in DOMAIN Changes[q] : pos[p] < i => Untouched(q, Changes[q][i].doc)'
    <3> TAKE i \in DOMAIN Changes[q]
    <3> HAVE pos[p] < i
    <3>1. Changes[q][i].doc \in Docs /\ i \in Nat
      BY ChangeTyping
    <3>2. Changes[q][i].doc # d
      BY <1>2, <3>1, ChangesAssumption
    <3>3. Untouched(q, Changes[q][i].doc)
      BY <1>1, <2>1 DEF UndoOK
    <3> QED
      BY <1>4, <3>1, <3>2, <3>3
  <2> QED
    BY <2>1, <2>2, <2>4, <2>5
<1>6. StageOK(q)'
  <2>1. Alone(q)'
    BY <1>1, <1>2 DEF Alone
  <2>2. journal[q] = "committed" => ~NoArchive(q)
    BY <1>1, <1>2 DEF RecovererOK
  <2> QED
    BY <1>1, <1>2, <1>5, <2>1, <2>2 DEF StageOK, Undecided, Unfinished, NoArchive, Archives
<1>7. RecovererOK(p)'
  <2>1. dead'[p] = q /\ TypeOK
    BY <1>1, CalmFacts
  <2>2. ASSUME journal[q] \in Unfinished, pc'[p] \in UndoSteps \cup {"purge"} PROVE UndoOK(p, q)'
    <3>1. CASE UndoNext(p)
      BY <1>2, <1>5, <2>1, <2>2, <3>1, UndoneOne
    <3>2. CASE pc'[p] = "done"
      BY <2>2, <3>2 DEF UndoSteps
    <3>3. CASE pc'[p] = "undoMove" /\ pos'[p] = pos[p]
      BY <1>5, <2>2, <3>3 DEF UndoOK
    <3> QED
      BY <3>1, <3>2, <3>3
  <2> QED
    BY <1>1, <1>2, <2>1, <2>2, RecovererNext
<1>8. pc'[p] \in Fresh \cup {"done"}
  BY <1>1 DEF Fresh, Recoveries, UndoSteps
<1> QED
  BY <1>1, <1>2, <1>3, <1>6, <1>7, <1>8, RecoveryFrame

LEMMA UndoRemoveKeeps == ASSUME Calm, AtomicInv, NEW p \in Patches, UndoRemove(p) PROVE AtomicInv'
<1> USE PatchesAreCalls DEF At, Goto, UndoNext
<1>1. /\ pc[p] \in {"undoRemove", "undoDrop"} /\ Alive(p) /\ UNCHANGED <<journal, backup, snapB>>
      /\ pc[p] \in UndoSteps /\ pc[p] \in Recoveries \ {"scan", "recover"} /\ pc[p] # "purge"
  BY DEF UndoRemove, reading, UndoSteps, Recoveries
<1>2. /\ dead[p] \in Patches /\ StageOK(dead[p]) /\ RecovererOK(p)
      /\ Undoing(p).doc \in Docs
  BY <1>1, UndoFacts
<1>3. PICK q \in Patches, d \in Docs : q = dead[p] /\ d = Undoing(p).doc
  BY <1>2
<1>4. file'[d] = Missing /\ backup'[q][d] = backup[q][d]
  BY <1>1, <1>3, CalmFacts DEF UndoRemove, TypeOK, Generations
<1>5. UndoNext(p) \/ (pc'[p] = "undoMove" /\ pos'[p] = pos[p])
  BY CalmFacts DEF UndoRemove, TypeOK
<1>6. ASSUME journal[q] \in Unfinished
      PROVE  (Moved(q, d)' \/ Untouched(q, d)') /\ (UndoNext(p) => Untouched(q, d)')
  <2>1. Kept(q) /\ UndoOK(p, q)
    BY <1>1, <1>2, <1>3, <1>6 DEF StageOK, Undecided, RecovererOK
  <2>2. CASE pc[p] = "undoRemove"
    <3>1. Moved(q, d)'
      BY <1>1, <1>3, <1>4, <2>1, <2>2 DEF UndoOK, Kept, Moved, Untouched
    <3>2. pc'[p] = "undoMove"
      BY <2>2, CalmFacts DEF UndoRemove, TypeOK
    <3> QED
      BY <3>1, <3>2, CalmFacts DEF TypeOK
  <2>3. CASE pc[p] = "undoDrop"
    <3>1. backup[q][d] = Missing /\ file[d] = q
      BY <1>3, <2>1, <2>3 DEF UndoOK
    <3>2. snapB[q][d] = Missing
      BY <2>1, <3>1 DEF Kept, Moved, Untouched
    <3> QED
      BY <1>1, <1>4, <3>1, <3>2 DEF Untouched
  <2> QED
    BY <1>1, <2>2, <2>3
<1> QED
  BY <1>3, <1>4, <1>5, <1>6, UndoStepKeeps

LEMMA UndoMoveKeeps == ASSUME Calm, AtomicInv, NEW p \in Patches, UndoMove(p) PROVE AtomicInv'
<1> USE PatchesAreCalls DEF At, Goto, UndoNext, Answer
<1>1. /\ pc[p] = "undoMove" /\ Alive(p) /\ UNCHANGED <<journal, snapB>>
      /\ pc[p] \in UndoSteps /\ pc[p] \in Recoveries \ {"scan", "recover"} /\ pc[p] # "purge"
  BY DEF UndoMove, reading, UndoSteps, Recoveries
<1>2. /\ dead[p] \in Patches /\ StageOK(dead[p]) /\ RecovererOK(p)
      /\ Undoing(p).doc \in Docs /\ pos[p] \in DOMAIN Changes[dead[p]]
  BY <1>1, UndoFacts
<1>3. PICK q \in Patches, d \in Docs : q = dead[p] /\ d = Undoing(p).doc
  BY <1>2
<1>4. journal[q] \in Unfinished => Kept(q)
  BY <1>2, <1>3 DEF StageOK, Undecided
<1>5. CASE backup[q][d] # Missing
  <2>1. file'[d] = backup[q][d] /\ backup'[q][d] = Missing /\ UndoNext(p)
    BY <1>3, <1>5, CalmFacts DEF UndoMove, TypeOK, Generations
  <2>2. journal[q] \in Unfinished => Untouched(q, d)'
    BY <1>1, <1>4, <1>5, <2>1 DEF Kept, Moved, Untouched
  <2> QED
    BY <1>3, <2>1, <2>2, UndoStepKeeps
<1>6. CASE backup[q][d] = Missing
  <2>1. UNCHANGED <<file, backup>>
    BY <1>3, <1>6 DEF UndoMove
  <2>2. journal[q] \in Unfinished => Moved(q, d)' \/ Untouched(q, d)'
    BY <1>1, <1>4, <2>1 DEF Kept, Moved, Untouched
  <2>3. CASE Undoing(p).op = "archive"
    <3>1. Archives(q, d)
      BY <1>2, <1>3, <2>3 DEF Archives, Undoing
    <3>2. UndoNext(p)
      BY <1>3, <1>6, <2>3 DEF UndoMove
    <3>3. journal[q] \in Unfinished => Untouched(q, d)'
      BY <1>1, <1>4, <1>6, <2>1, <3>1 DEF Kept, Moved, Untouched
    <3> QED
      BY <1>3, <2>1, <3>2, <3>3, UndoStepKeeps
  <2>4. CASE Undoing(p).op # "archive"
    <3>1. pc'[p] = "done" /\ ~UndoNext(p)
      BY <1>3, <1>6, <2>4, CalmFacts DEF UndoMove, TypeOK
    <3> QED
      BY <1>3, <2>1, <2>2, <3>1, UndoStepKeeps
  <2> QED
    BY <2>3, <2>4
<1> QED
  BY <1>5, <1>6

\* The stage of the dead patch goes last: by then its changes are undone, or its
\* generation stands.
LEMMA PurgeKeeps == ASSUME Calm, AtomicInv, NEW p \in Patches, PurgeRecovered(p) PROVE AtomicInv'
<1> USE PatchesAreCalls DEF At, Goto
<1>1. /\ pc[p] = "purge" /\ Alive(p) /\ UNCHANGED <<file, archive, lock, alive, snapB, dead, result, installed, backups>>
      /\ pc[p] \in Recoveries \ {"scan", "recover"}
  BY DEF PurgeRecovered, env, reading, commits, Recoveries
<1>2. PICK q \in Patches : q = dead[p]
  BY <1>1, UndoFacts
<1>3. /\ q # p /\ lock.by = q /\ ~Alive(q) /\ Alone(q) /\ RecovererOK(p)
      /\ \A r \in Patches \ {p} : Alive(r) => pc[r] \notin Midway \cup {"cleanup", "release"} \cup Recoveries
  BY <1>1, <1>2, UndoFacts
<1>4. /\ journal'[q] = "absent" /\ backup'[q] = [d \in Docs |-> Missing]
      /\ \A r \in Patches \ {q} : journal'[r] = journal[r] /\ backup'[r] = backup[r]
      /\ entries'[p] = entries[p] \ {q} /\ pc'[p] = "recover"
      /\ \A b \in Calls \ {p} : pc'[b] = pc[b]
  BY <1>2, CalmFacts DEF PurgeRecovered, RemoveStage, TypeOK
<1>5. StageStep(p, q)
  BY <1>1, <1>3, <1>4 DEF StageStep
<1>6. StageOK(q)'
  BY <1>3, <1>1, <1>4 DEF StageOK, Undecided, Unfinished
<1>7. RecovererOK(p)'
  BY <1>1, <1>3, <1>4 DEF RecovererOK
<1>8. pc'[p] \in Fresh
  BY <1>4 DEF Fresh, Recoveries
<1> QED
  BY <1>1, <1>3, <1>5, <1>6, <1>7, <1>8, RecoveryFrame

LEMMA RecoveryKeeps == ASSUME Calm, AtomicInv, NEW p \in Patches, Recovering(p) PROVE AtomicInv'
<1>1. CASE Looks(p)
  <2>1. QuietStep(p) /\ QuietLock(p) /\ p \in Calls
    BY <1>1, CalmFacts, LooksQuietly, LooksLock, PatchesAreCalls
  <2> QED
    BY <2>1, QuietKeeps
<1>2. CASE UndoRemove(p) \/ UndoMove(p) \/ PurgeRecovered(p)
  BY <1>2, UndoRemoveKeeps, UndoMoveKeeps, PurgeKeeps
<1>3. Looks(p) \/ UndoRemove(p) \/ UndoMove(p) \/ PurgeRecovered(p)
  BY DEF Recovering, Looks
<1> QED
  BY <1>1, <1>2, <1>3
-----------------------------------------------------------------------------
(* Crashes: a process dies, and may leave a torn journal or half a stage. *)

LEMMA DyingKeeps ==
    ASSUME AtomicInv, alive' \subseteq alive, UNCHANGED <<disk, pc, result, reading, commits, recovers>>
    PROVE  AtomicInv'
<1> USE DEF disk, reading, commits, recovers
<1>1. NeverEmpty'
  BY DEF AtomicInv, NeverEmpty
<1>2. \A q, d : (Moved(q, d)' <=> Moved(q, d)) /\ (Untouched(q, d)' <=> Untouched(q, d))
  BY DEF Moved, Untouched
<1>3. \A q : Alone(q)' <=> Alone(q)
  BY DEF Alone
<1>4. \A q \in Patches : (Kept(q)' <=> Kept(q)) /\ (Elsewhere(q)' <=> Elsewhere(q))
  BY <1>2 DEF Kept, Elsewhere, Changed, Archives
<1>5. \A q : CommittedGenerationValid(q)' <=> CommittedGenerationValid(q)
  BY DEF CommittedGenerationValid, ArchivedHash, AfterHash
<1>6. \A q : NoArchive(q)' <=> NoArchive(q)
  BY DEF NoArchive, Archives
<1>7. ASSUME NEW q \in Patches PROVE StageOK(q)'
  BY <1>3, <1>4, <1>5, <1>6 DEF AtomicInv, StageOK
<1>8. ASSUME NEW p \in Patches, Alive(p)' PROVE CallOK(p)'
  <2>1. Alive(p) /\ CallOK(p)
    BY <1>8 DEF AtomicInv, Alive
  <2>2. FreshOK(p)' /\ AnswerOK(p)'
    BY <2>1 DEF CallOK, FreshOK, AnswerOK
  <2>3. (Clean(p)' <=> Clean(p)) /\ (Recorded(p)' <=> Recorded(p))
    BY <1>2 DEF Clean, Recorded, Current, Swapping
  <2>4. (SwapOK(p)' <=> SwapOK(p))
    BY <1>2, <2>3 DEF SwapOK, Swapping, CompletelyInstalled
  <2>5. MidwayOK(p)'
    BY <2>1, <2>3, <2>4, <1>3, <1>4 DEF CallOK, MidwayOK
  <2>6. \A q : UndoOK(p, q)' <=> UndoOK(p, q)
    BY <1>2 DEF UndoOK, Undoing
  <2>7. /\ UndoOK(p, dead[p])' <=> UndoOK(p, dead[p])
        /\ NoArchive(dead[p])' <=> NoArchive(dead[p])
    BY <2>6, <1>6 DEF UndoOK, Untouched, NoArchive, Archives, Undoing
  <2>8. RecovererOK(p)'
    BY <2>1, <2>7 DEF CallOK, RecovererOK
  <2> QED
    BY <2>2, <2>5, <2>8 DEF CallOK
<1> QED
  BY <1>1, <1>7, <1>8 DEF AtomicInv

LEMMA TearKeeps == ASSUME Calm, AtomicInv, NEW p \in Patches, CrashTearsJournal(p) PROVE AtomicInv'
<1>1. /\ Alive(p) /\ ~Alive(p)' /\ alive' \subseteq alive
      /\ UNCHANGED <<file, lock, pc, result, snapB, backup, installed, backups>>
  BY DEF CrashTearsJournal, Kill, Alive, reading, commits
<1>2. pc[p] \in Midway
  BY DEF CrashTearsJournal, Midway, CommitSteps
<1>3. Kept(p) /\ Alone(p) /\ Elsewhere(p) /\ pc[p] \in Holding /\ lock.by = p
  BY <1>1, <1>2, MidwayFacts
<1>4. journal'[p] = "torn" /\ \A r \in Patches \ {p} : journal'[r] = journal[r]
  BY CalmFacts DEF CrashTearsJournal, WriteJournal, TypeOK
<1>5. StageStep(p, p)
  BY <1>1, <1>3, <1>4, NoOtherHolder DEF StageStep
<1>6. \A d : (Moved(p, d)' <=> Moved(p, d)) /\ (Untouched(p, d)' <=> Untouched(p, d))
  BY <1>1 DEF Moved, Untouched
<1>7. Kept(p)' /\ Elsewhere(p)' /\ Alone(p)'
  BY <1>1, <1>3, <1>4, <1>6 DEF Kept, Elsewhere, Changed, Alone
<1>8. StageOK(p)'
  BY <1>1, <1>3, <1>4, <1>7 DEF StageOK
<1> QED
  BY <1>1, <1>3, <1>5, <1>8, Frame

\* Half a stage removed: what its journal still says of the documents holds.
LEMMA HalfStage ==
    ASSUME Calm, AtomicInv, NEW p \in Patches, CrashMidRemoval(p)
    PROVE  \E q \in Patches :
              /\ Alone(q) /\ StageOK(q) /\ lock.by = q /\ HalfRemoved(q)
              /\ journal[q] # "torn" /\ (journal[q] \in Unfinished => \A d \in Docs : file[d] = snapB[q][d])
              /\ \A r \in Patches \ {p} : Alive(r) =>
                    r # q /\ pc[r] \notin Midway \cup {"cleanup", "release"} \cup Recoveries
<1>1. Alive(p)
  BY DEF CrashMidRemoval, Kill, Alive
<1>2. CASE pc[p] = "cleanup" /\ HalfRemoved(p)
  <2>1. journal[p] = "committed" /\ StageOK(p) /\ pc[p] \in Holding
    BY <1>1, <1>2, KindsOfSteps DEF AtomicInv, CallOK, AnswerOK
  <2>2. Alone(p)
    BY <2>1 DEF StageOK
  <2> QED
    BY <1>1, <1>2, <2>1, <2>2, NoOtherHolder DEF Unfinished
<1>3. CASE pc[p] = "discard" /\ HalfRemoved(p)
  <2>1. pc[p] \in Midway /\ StageOK(p)
    BY <1>3 DEF Midway, RollbackSteps, AtomicInv
  <2>2. Alone(p) /\ SwapOK(p) /\ pc[p] \in Holding /\ journal[p] # "torn"
    BY <1>1, <2>1, MidwayFacts
  <2>3. file = snapB[p]
    BY <1>3, <2>2 DEF SwapOK
  <2> QED
    BY <1>1, <1>3, <2>1, <2>2, <2>3, NoOtherHolder
<1>4. CASE pc[p] = "purge" /\ HalfRemoved(dead[p])
  <2>1. pc[p] \in Recoveries \ {"scan", "recover"}
    BY <1>4 DEF Recoveries
  <2>2. PICK q \in Patches : q = dead[p]
    BY <1>1, <2>1, UndoFacts
  <2>3. /\ Alone(q) /\ StageOK(q) /\ lock.by = q /\ ~Alive(q) /\ RecovererOK(p)
        /\ journal[q] \in Unfinished \cup {"committed"}
        /\ \A r \in Patches \ {p} : Alive(r) => pc[r] \notin Midway \cup {"cleanup", "release"} \cup Recoveries
    BY <1>1, <2>1, <2>2, UndoFacts
  <2>4. journal[q] \in Unfinished => \A d \in Docs : file[d] = snapB[q][d]
    BY <1>4, <2>1, <2>2, <2>3 DEF RecovererOK, UndoOK, Untouched
  <2>5. HalfRemoved(q) /\ journal[q] # "torn"
    BY <1>4, <2>2, <2>3 DEF Unfinished
  <2> QED
    BY <2>3, <2>4, <2>5
<1> QED
  BY <1>2, <1>3, <1>4 DEF CrashMidRemoval

LEMMA MidRemovalKeeps == ASSUME Calm, AtomicInv, NEW p \in Patches, CrashMidRemoval(p) PROVE AtomicInv'
<1>1. /\ Alive(p) /\ ~Alive(p)' /\ alive' \subseteq alive
      /\ UNCHANGED <<file, archive, lock, pc, result, snapB, installed, backups>>
  BY DEF CrashMidRemoval, Kill, Alive, reading, commits
<1>2. PICK q \in Patches :
              /\ Alone(q) /\ StageOK(q) /\ lock.by = q /\ HalfRemoved(q)
              /\ journal[q] # "torn" /\ (journal[q] \in Unfinished => \A d \in Docs : file[d] = snapB[q][d])
              /\ \A r \in Patches \ {p} : Alive(r) =>
                    r # q /\ pc[r] \notin Midway \cup {"cleanup", "release"} \cup Recoveries
  BY HalfStage
<1>3. /\ journal'[q] \in {journal[q], "none"}
      /\ \A r \in Patches \ {q} : journal'[r] = journal[r] /\ backup'[r] = backup[r]
      /\ \A d \in Docs : backup'[q][d] \in {backup[q][d], Missing}
  BY <1>2, CalmFacts DEF HalfRemoved, TypeOK
<1>4. StageStep(p, q)
  BY <1>1, <1>2, <1>3 DEF StageStep
<1>5. StageOK(q)'
  <2>1. q # lock'.by => journal'[q] \in {"absent", "rollback_failed"}
    BY <1>1, <1>2
  <2>2. Alone(q)'
    BY <1>2, <1>3 DEF Alone
  <2>3. ASSUME journal'[q] \in Undecided PROVE Kept(q)' /\ Elsewhere(q)'
    <3>1. journal[q] \in Unfinished
      BY <1>2, <1>3, <2>3 DEF Undecided, Unfinished
    <3>2. Kept(q) /\ Elsewhere(q) /\ \A d \in Docs : file[d] = snapB[q][d]
      BY <1>2, <3>1 DEF StageOK, Undecided
    <3>3. \A d \in Docs : Untouched(q, d) => Untouched(q, d)'
      BY <1>1, <1>3 DEF Untouched
    <3>4. \A d \in Docs : Moved(q, d) => Moved(q, d)' \/ Untouched(q, d)'
      BY <1>1, <1>3, <3>2 DEF Moved, Untouched
    <3> QED
      BY <1>1, <3>2, <3>3, <3>4 DEF Kept, Elsewhere, Changed
  <2>4. journal'[q] = "committed" /\ NoArchive(q)' => CommittedGenerationValid(q)'
    <3>1. NoArchive(q)' <=> NoArchive(q)
      BY DEF NoArchive, Archives
    <3> QED
      BY <1>1, <1>2, <1>3, <3>1, SameValidity DEF StageOK
  <2> QED
    BY <2>1, <2>2, <2>3, <2>4 DEF StageOK
<1> QED
  BY <1>1, <1>2, <1>4, <1>5, Frame

LEMMA CrashKeeps == ASSUME Calm, AtomicInv, Crashing PROVE AtomicInv'
<1>1. ASSUME NEW pid \in Pids, Crash(pid) PROVE AtomicInv'
  BY <1>1, DyingKeeps DEF Crash, Kill, disk
<1> QED
  BY <1>1, TearKeeps, MidRemovalKeeps DEF Crashing

-----------------------------------------------------------------------------
LEMMA AtomicStep == ASSUME Calm, AtomicInv, Undoable, [Next]_vars PROVE AtomicInv'
<1>1. CASE UNCHANGED vars
  BY <1>1, DyingKeeps DEF vars, env
<1>2. ASSUME NEW c \in Calls, Read(c) PROVE AtomicInv'
  <2>1. QuietStep(c) /\ QuietLock(c)
    BY <1>2, CalmFacts, ReadIsQuiet, ReadLock
  <2> QED
    BY <2>1, QuietKeeps
<1>3. ASSUME NEW p \in Patches, Locking(p) PROVE AtomicInv'
  <2>1. QuietStep(p) /\ QuietLock(p) /\ p \in Calls
    BY <1>3, CalmFacts, LockingIsQuiet, LockingLock, PatchesAreCalls
  <2> QED
    BY <2>1, QuietKeeps
<1> QED
  BY <1>1, <1>2, <1>3, StepKinds, RecoveryKeeps, WritesKeep, CrashKeeps

LEMMA AtomicInit == ASSUME Init PROVE AtomicInv
<1>1. /\ \A p \in Patches : pc[p] = "idle" /\ result[p] = "none" /\ journal[p] = "absent"
      /\ \A p \in Patches : installed[p] = {} /\ backups[p] = {}
      /\ \A p \in Patches, d \in Docs : backup[p][d] = Missing
      /\ \A d \in Docs : file[d] \in {"initial", Missing}
  BY PatchesAreCalls DEF Init
<1>2. "idle" \in Fresh /\ "idle" \notin Midway \cup {"cleanup", "release"} \cup Recoveries
  BY KindsOfSteps DEF Fresh, Unanswered, Recoveries, UndoSteps, Midway, CommitSteps, RollbackSteps
<1>3. NeverEmpty
  BY <1>1 DEF NeverEmpty, Missing
<1>4. ASSUME NEW q \in Patches PROVE StageOK(q)
  BY <1>1 DEF StageOK, Undecided, Unfinished
<1>5. ASSUME NEW p \in Patches PROVE CallOK(p)
  <2>1. p \notin {"initial", Missing}
    BY CallsAssumption DEF Missing
  <2> QED
    BY <1>1, <1>2, <2>1 DEF CallOK, FreshOK, MidwayOK, AnswerOK, RecovererOK
<1> QED
  BY <1>3, <1>4, <1>5 DEF AtomicInv

\* Whatever crashes, as long as no two recoveries overlap.
LEMMA AtomicAlways == ASSUME Undoable PROVE Spec /\ []OneRecovery => [](Calm /\ AtomicInv)
<1>1. Init => AtomicInv
  BY AtomicInit
<1>2. Calm /\ AtomicInv /\ [Next]_vars => AtomicInv'
  BY AtomicStep
<1> QED
  BY <1>1, <1>2, CalmAlways, PTL DEF Spec
-----------------------------------------------------------------------------
(* The generation the journals select. *)

Undone(j) == {q \in Patches : j[q] \in Undecided}

Select(f, j, b) == [d \in Docs |->
    IF \E q \in Undone(j) : b[q][d] # Missing
      THEN b[CHOOSE q \in Undone(j) : b[q][d] # Missing][d]
    ELSE IF f[d] \in Undone(j) THEN Missing
    ELSE f[d]]

LEMMA SelectedIsSelect ==
    /\ SelectedGeneration = Select(file, journal, backup)
    /\ SelectedGeneration' = Select(file', journal', backup')
BY DEF SelectedGeneration, Select, Undone, Undecided, Uncommitted

\* With one patch unfinished, its backups complete what it has left of its base.
LEMMA SelectBase ==
    ASSUME NEW f, NEW j, NEW b, NEW s \in Generations, NEW p \in Patches, Undone(j) = {p},
           \A d \in Docs : /\ s[d] # p
                           /\ \/ b[p][d] = s[d] /\ f[d] \in {Missing, p}
                              \/ b[p][d] = Missing /\ f[d] = s[d]
    PROVE  Select(f, j, b) = s
<1>1. p # Missing
  BY CallsAssumption DEF Missing
<1>2. ASSUME NEW d \in Docs PROVE Select(f, j, b)[d] = s[d]
  <2>1. CASE b[p][d] # Missing
    <3>1. \A q \in Undone(j) : q = p
      OBVIOUS
    <3>2. (CHOOSE q \in Undone(j) : b[q][d] # Missing) = p
      BY <2>1
    <3> QED
      BY <1>2, <2>1, <3>2 DEF Select
  <2>2. CASE b[p][d] = Missing
    BY <1>1, <1>2, <2>2 DEF Select
  <2> QED
    BY <2>1, <2>2
<1>3. Select(f, j, b) = [d \in Docs |-> Select(f, j, b)[d]]
  BY DEF Select
<1> QED
  BY <1>2, <1>3 DEF Generations

\* With none, it is what the files hold.
LEMMA SelectFile ==
    ASSUME NEW f \in Generations, NEW j, NEW b, Undone(j) = {} PROVE Select(f, j, b) = f
BY DEF Select, Generations

\* While the journal of a patch is undecided, that is the base the patch was compiled on.
LEMMA StageSelection ==
    ASSUME TypeOK, AtomicInv, NEW q \in Patches, journal[q] \in Undecided PROVE SelectedGeneration = snapB[q]
<1>1. Kept(q) /\ Alone(q) /\ snapB[q] \in Generations
  BY PatchesAreCalls DEF AtomicInv, StageOK, TypeOK, Undecided, Unfinished
<1>2. Undone(journal) = {q}
  BY <1>1 DEF Undone, Alone
<1>3. Select(file, journal, backup) = snapB[q]
  BY <1>1, <1>2, SelectBase DEF Kept, Moved, Untouched
<1> QED
  BY <1>3, SelectedIsSelect

\* When none is, that is what the files hold.
LEMMA SettledSelection ==
    ASSUME TypeOK, \A q \in Patches : journal[q] \notin Undecided PROVE SelectedGeneration = file
<1>1. Undone(journal) = {}
  BY DEF Undone
<1> QED
  BY <1>1, SelectFile, SelectedIsSelect DEF TypeOK

\* The same of the next state, which the prover takes for other formulas.
LEMMA StageSelectionNext ==
    ASSUME TypeOK', AtomicInv', NEW q \in Patches, journal'[q] \in Undecided
    PROVE  SelectedGeneration' = snapB'[q]
<1>1. Kept(q)' /\ Alone(q)' /\ snapB'[q] \in Generations
  BY PatchesAreCalls DEF AtomicInv, StageOK, TypeOK, Undecided, Unfinished
<1>2. PICK f, j, b, s : f = file' /\ j = journal' /\ b = backup' /\ s = snapB'[q]
  OBVIOUS
<1>3. Undone(j) = {q} /\ s \in Generations
  BY <1>1, <1>2 DEF Undone, Alone
<1>4. \A d \in Docs : s[d] # q /\ ((b[q][d] = s[d] /\ f[d] \in {Missing, q}) \/ (b[q][d] = Missing /\ f[d] = s[d]))
  BY <1>1, <1>2 DEF Kept, Moved, Untouched
<1>5. Select(f, j, b) = s
  BY <1>3, <1>4, SelectBase
<1> QED
  BY <1>2, <1>5, SelectedIsSelect

LEMMA SettledSelectionNext ==
    ASSUME TypeOK', \A q \in Patches : journal'[q] \notin Undecided PROVE SelectedGeneration' = file'
<1>1. PICK f, j, b : f = file' /\ j = journal' /\ b = backup'
  OBVIOUS
<1>2. f \in Generations /\ Undone(j) = {}
  BY <1>1 DEF TypeOK, Undone
<1>3. Select(f, j, b) = f
  BY <1>2, SelectFile
<1> QED
  BY <1>1, <1>3, SelectedIsSelect

-----------------------------------------------------------------------------
(* Every step is one of AtomicCorpus, or none. *)

\* The abstract specification sees nothing.
Unseen == /\ SelectedGeneration' = SelectedGeneration /\ AppliedPatches' = AppliedPatches
          /\ \A q \in Patches : snapB'[q] = snapB[q]

LEMMA UnseenStutters == ASSUME Unseen PROVE UNCHANGED Atomic!vars
BY DEF Unseen, Atomic!vars

LEMMA DiskSelects == ASSUME UNCHANGED <<file, journal, backup>> PROVE SelectedGeneration' = SelectedGeneration
BY SelectedIsSelect

\* A call that only reads, or waits at the lock, proposes a base at most.
LEMMA QuietRefines ==
    ASSUME TypeOK', AtomicInv, NEW c \in Calls, Alive(c), QuietStep(c) PROVE [Atomic!Next]_(Atomic!vars)
<1>1. SelectedGeneration' = SelectedGeneration
  BY DiskSelects DEF QuietStep, DiskKept
<1>2. \A b \in Calls \ {c} : pc'[b] = pc[b] /\ result'[b] = result[b] /\ snapB'[b] = snapB[b]
  BY DEF QuietStep, OthersKept
<1>3. CASE c \notin Patches
  <2>1. Unseen
    BY <1>1, <1>2, <1>3, PatchesAreCalls DEF Unseen, AppliedPatches
  <2> QED
    BY <2>1, UnseenStutters
<1>4. CASE c \in Patches /\ pc[c] = "release"
  <2>1. pc[c] \notin Fresh
    BY <1>4, KindsOfSteps
  <2>2. pc'[c] = "done" /\ result'[c] = result[c] /\ snapB'[c] = snapB[c]
    BY <1>4, <2>1 DEF QuietStep
  <2>3. Unseen
    BY <1>1, <1>2, <1>4, <2>2, PatchesAreCalls DEF Unseen, AppliedPatches
  <2> QED
    BY <2>3, UnseenStutters
<1>5. CASE c \in Patches /\ pc[c] # "release"
  <2>1. /\ pc[c] \in Fresh /\ pc'[c] \in Fresh \cup {"done", "release"} /\ result[c] = "none"
        /\ result'[c] # "APPLIED"
    BY <1>5 DEF QuietStep, AtomicInv, CallOK, AnswerOK
  <2>2. pc[c] # "cleanup" /\ pc'[c] # "cleanup"
    BY <2>1, KindsOfSteps
  <2>3. c \notin AppliedPatches /\ AppliedPatches' = AppliedPatches
    BY <1>2, <2>1, <2>2, PatchesAreCalls DEF AppliedPatches
  <2>4. snapB'[c] \in Generations
    BY <1>5 DEF TypeOK
  <2>5. [q \in Patches |-> snapB'[q]] = [[q \in Patches |-> snapB[q]] EXCEPT ![c] = snapB'[c]]
    BY <1>2, <1>5, PatchesAreCalls
  <2>6. Atomic!Propose(c)
    BY <1>1, <2>3, <2>4, <2>5 DEF Atomic!Propose, Generations
  <2> QED
    BY <1>5, <2>6 DEF Atomic!Next
<1> QED
  BY <1>3, <1>4, <1>5

\* What the journals select does not change while a patch swaps or rolls back.
LEMMA MidwaySelection ==
    ASSUME Calm, AtomicInv, NEW p \in Patches, Alive(p), pc[p] \in Midway PROVE SelectedGeneration = snapB[p]
<1>1. Alone(p) /\ SwapOK(p) /\ p \in Calls /\ journal[p] # "torn"
  BY MidwayFacts
<1>2. TypeOK /\ file \in Generations /\ snapB[p] \in Generations
  BY <1>1, CalmFacts DEF TypeOK
<1>3. CASE journal[p] \in Unfinished
  BY <1>2, <1>3, StageSelection DEF Undecided
<1>4. CASE journal[p] \notin Unfinished
  <2>1. file = snapB[p]
    BY <1>1, <1>2, <1>4 DEF SwapOK, Clean, Untouched, Generations
  <2>2. \A q \in Patches : journal[q] \notin Undecided
    BY <1>1, <1>4 DEF Alone, Undecided
  <2> QED
    BY <1>2, <2>1, <2>2, SettledSelection
<1> QED
  BY <1>3, <1>4

LEMMA MidwaySelectionNext ==
    ASSUME TypeOK', AtomicInv', NEW p \in Patches, Alive(p)', pc'[p] \in Midway
    PROVE  SelectedGeneration' = snapB'[p]
<1>1. Alone(p)' /\ SwapOK(p)' /\ p \in Calls /\ journal'[p] # "torn"
  BY PatchesAreCalls DEF AtomicInv, CallOK, MidwayOK
<1>2. file' \in Generations /\ snapB'[p] \in Generations
  BY <1>1 DEF TypeOK
<1>3. CASE journal'[p] \in Unfinished
  BY <1>3, StageSelectionNext DEF Undecided
<1>4. CASE journal'[p] \notin Unfinished
  <2>1. file' = snapB'[p]
    BY <1>1, <1>2, <1>4 DEF SwapOK, Clean, Untouched, Generations
  <2>2. \A q \in Patches : journal'[q] \notin Undecided
    BY <1>1, <1>4 DEF Alone, Undecided
  <2> QED
    BY <2>1, <2>2, SettledSelectionNext
<1> QED
  BY <1>3, <1>4

\* The last steps of a rollback, and the refusals of the critical section.
LEMMA LeavingSelection ==
    ASSUME Calm, Calm', AtomicInv, AtomicInv', NEW p \in Patches, Writes(p), Moves(p), Undoable, Alive(p),
           pc[p] \in Midway, pc'[p] \notin Midway \cup {"cleanup"}
    PROVE  SelectedGeneration' = SelectedGeneration /\ result'[p] # "APPLIED"
<1>1. Alone(p) /\ SwapOK(p) /\ p \in Calls /\ snapB'[p] = snapB[p] /\ TypeOK'
  BY MidwayFacts DEF Moves, Calm, TypeInv
<1>2. /\ file \in Generations /\ snapB[p] \in Generations /\ pc \in [Calls -> Steps]
      /\ result \in [Calls -> Results] /\ journal \in [Patches -> Journals]
  BY <1>1, CalmFacts DEF TypeOK
<1>3. pc'[p] \notin {"prepare", "stage", "backup", "noteBackup", "install", "noteInstall", "verify", "commit",
                     "cleanup", "rollback", "restore", "discard"}
  BY DEF Midway, CommitSteps, RollbackSteps
<1>4. \/ DiscardStage(p)
      \/ /\ WriteJournal(p, "rollback_failed") /\ Leave(p, "ROLLBACK_FAILED") /\ UNCHANGED <<file, backup>>
  <2>1. pc[p] # "revalidate" /\ pc[p] # "cleanup"
    BY DEF Midway, CommitSteps, RollbackSteps
  <2>2. ~Revalidate(p) /\ ~Cleanup(p)
    BY <2>1 DEF Revalidate, Cleanup, At
  <2>3. ~(MakeStage(p) \/ Prepare(p) \/ StageDocuments(p) \/ BackupDocument(p) \/ RecordBackup(p))
    BY <1>1, <1>2, <1>3 DEF MakeStage, Prepare, StageDocuments, BackupDocument, RecordBackup, Goto
  <2>4. ~(InstallDocument(p) \/ RecordInstall(p) \/ Verify(p) \/ Commit(p) \/ CommitError(p))
    BY <1>1, <1>2, <1>3 DEF InstallDocument, RecordInstall, Verify, Commit, CommitError, Goto
  <2>5. ~RemoveInstalled(p)
    <3>1. RemoveInstalled(p) => pc'[p] \in {"rollback", "restore"}
      BY <1>1, <1>2 DEF RemoveInstalled, Goto, At
    <3> QED
      BY <1>3, <3>1
  <2>6. RestoreBackup(p) =>
            WriteJournal(p, "rollback_failed") /\ Leave(p, "ROLLBACK_FAILED") /\ UNCHANGED <<file, backup>>
    <3>1. RestoreBackup(p) => pc[p] = "restore"
      BY DEF RestoreBackup, At
    <3>2. Goto(p, "discard") => pc'[p] = "discard"
      BY <1>1, <1>2 DEF Goto
    <3>3. RestoreBackup(p) /\ UNCHANGED pc => pc'[p] = "restore"
      BY <3>1
    <3> QED
      BY <1>3, <3>2, <3>3 DEF RestoreBackup
  <2>7. RollbackError(p) =>
            WriteJournal(p, "rollback_failed") /\ Leave(p, "ROLLBACK_FAILED") /\ UNCHANGED <<file, backup>>
    BY DEF RollbackError, Undoable
  <2> QED
    BY <2>2, <2>3, <2>4, <2>5, <2>6, <2>7 DEF Writes, Committing, RollingBack
<1>5. SelectedGeneration = snapB[p]
  BY MidwaySelection
<1>7. \A q \in Patches \ {p} : journal'[q] \notin Undecided
  BY <1>1 DEF Moves, OthersKept, Alone
<1>8. CASE DiscardStage(p)
  <2>1. file' = snapB[p] /\ journal'[p] = "absent" /\ result'[p] = "FAILED"
    BY <1>1, <1>2, <1>8 DEF DiscardStage, At, SwapOK, RemoveStage, Leave
  <2>2. \A q \in Patches : journal'[q] \notin Undecided
    BY <1>7, <2>1 DEF Undecided, Unfinished
  <2> QED
    BY <1>1, <1>5, <2>1, <2>2, SettledSelectionNext
<1>9. CASE WriteJournal(p, "rollback_failed") /\ Leave(p, "ROLLBACK_FAILED") /\ UNCHANGED <<file, backup>>
  <2>1. journal'[p] = "rollback_failed" /\ result'[p] = "ROLLBACK_FAILED"
    BY <1>1, <1>2, <1>9 DEF WriteJournal, Leave
  <2>2. journal'[p] \in Undecided
    BY <2>1 DEF Undecided, Unfinished
  <2> QED
    BY <1>1, <1>5, <2>1, <2>2, StageSelectionNext
<1> QED
  BY <1>4, <1>8, <1>9

\* Short of the commit point, a writer's step shows nothing.
LEMMA WritesUnseen ==
    ASSUME Calm, Calm', AtomicInv, AtomicInv', Undoable, NEW p \in Patches, Writes(p), Moves(p), ~Commit(p)
    PROVE  Unseen
<1>1. /\ \A b \in Calls \ {p} : pc'[b] = pc[b] /\ result'[b] = result[b]
      /\ \A q \in Patches : snapB'[q] = snapB[q]
  BY PatchesAreCalls DEF Moves, OthersKept
<1>2. p \in Calls /\ pc \in [Calls -> Steps] /\ result \in [Calls -> Results]
  BY CalmFacts, PatchesAreCalls DEF TypeOK
<1>6. Alive(p) /\ alive' = alive /\ TypeOK /\ TypeOK'
  BY WritesStay, CalmFacts DEF Calm, TypeInv
<1>7. FreshOK(p) /\ MidwayOK(p) /\ AnswerOK(p) /\ Alive(p)' /\ AnswerOK(p)'
  BY <1>6 DEF AtomicInv, CallOK, Alive
<1>3. CASE Cleanup(p)
  <2>1. pc[p] = "cleanup" /\ journal[p] = "committed"
    BY <1>3, <1>7 DEF Cleanup, At, AnswerOK
  <2>2. file' = file /\ journal' = [journal EXCEPT ![p] = "absent"] /\ Alone(p)
    BY <1>3, <2>1 DEF Cleanup, RemoveStage, AtomicInv, StageOK
  <2>3. \A q \in Patches : journal[q] \notin Undecided /\ journal'[q] \notin Undecided
    BY <1>6, <2>1, <2>2 DEF Alone, Undecided, Unfinished, TypeOK
  <2>9. SelectedGeneration' = SelectedGeneration
    BY <1>6, <2>2, <2>3, SettledSelection, SettledSelectionNext
  <2>10. result'[p] = "APPLIED"
    BY <1>2, <1>3 DEF Cleanup, Leave
  <2>11. AppliedPatches' = AppliedPatches
    BY <1>1, <2>1, <2>10, PatchesAreCalls DEF AppliedPatches
  <2> QED
    BY <1>1, <2>9, <2>11 DEF Unseen
<1>4. CASE Revalidate(p)
  <2>1. pc[p] \in Fresh /\ UNCHANGED <<file, journal, backup>>
    BY <1>4 DEF Revalidate, At, Fresh, disk
  <2>2. pc[p] = "revalidate" /\ pc'[p] \in {"release", "mkstage"} /\ result'[p] # "APPLIED" /\ result[p] = "none"
    BY <1>2, <1>4, <1>7, <2>1 DEF Revalidate, At, Goto, Leave, AnswerOK
  <2>3. AppliedPatches' = AppliedPatches
    BY <1>1, <2>2, PatchesAreCalls DEF AppliedPatches
  <2> QED
    BY <1>1, <2>1, <2>3, DiskSelects DEF Unseen
<1>5. CASE ~Cleanup(p) /\ ~Revalidate(p)
  <2>1. pc[p] \in Midway
    <3>1. pc[p] \in Midway \cup {"cleanup"} /\ (pc[p] = "cleanup" => CommitError(p))
      <4>1. MakeStage(p) \/ Prepare(p) \/ StageDocuments(p) \/ BackupDocument(p) \/ RecordBackup(p)
                => pc[p] \in {"mkstage", "prepare", "stage", "backup", "noteBackup"}
        BY DEF MakeStage, Prepare, StageDocuments, BackupDocument, RecordBackup, At
      <4>2. InstallDocument(p) \/ RecordInstall(p) \/ Verify(p) => pc[p] \in {"install", "noteInstall", "verify"}
        BY DEF InstallDocument, RecordInstall, Verify, At
      <4>3. RollingBack(p) \/ RollbackError(p) => pc[p] \in RollbackSteps
        BY DEF RollingBack, RemoveInstalled, RestoreBackup, DiscardStage, RollbackError, At, RollbackSteps
      <4>4. CommitError(p) => pc[p] \in CommitSteps
        BY DEF CommitError
      <4> QED
        BY <1>5, <4>1, <4>2, <4>3, <4>4 DEF Writes, Committing, Midway, CommitSteps, RollbackSteps
    <3>2. CommitError(p) => pc[p] # "cleanup"
      BY DEF CommitError, Undoable
    <3> QED
      BY <3>1, <3>2
  <2>2. pc[p] # "cleanup" /\ result[p] = "none" /\ SelectedGeneration = snapB[p]
    BY <1>6, <2>1, MidwayFacts, MidwaySelection, KindsOfSteps
  <2>3. pc'[p] # "cleanup"
    <3>1. MakeStage(p) \/ Prepare(p) \/ StageDocuments(p) \/ BackupDocument(p) \/ RecordBackup(p)
              => pc'[p] # "cleanup"
      BY <1>2 DEF MakeStage, Prepare, StageDocuments, BackupDocument, RecordBackup, Goto
    <3>2. InstallDocument(p) \/ RecordInstall(p) \/ Verify(p) \/ CommitError(p) => pc'[p] # "cleanup"
      BY <1>2 DEF InstallDocument, RecordInstall, Verify, CommitError, Goto
    <3>3. RollingBack(p) => pc'[p] # "cleanup"
      BY <1>2, <2>2 DEF RollingBack, RemoveInstalled, RestoreBackup, DiscardStage, Goto, Leave
    <3>4. RollbackError(p) => pc'[p] # "cleanup"
      BY <1>2, <2>2 DEF RollbackError, Goto, Leave
    <3> QED
      BY <1>5, <3>1, <3>2, <3>3, <3>4 DEF Writes, Committing
  <2>4. SelectedGeneration' = SelectedGeneration /\ result'[p] # "APPLIED"
    <3>1. CASE pc'[p] \in Midway
      <4>1. SelectedGeneration' = snapB'[p]
        BY <1>6, <1>7, <3>1, MidwaySelectionNext
      <4>2. result'[p] = "none"
        BY <1>7, <3>1 DEF AnswerOK
      <4> QED
        BY <1>1, <2>2, <4>1, <4>2
    <3>2. CASE pc'[p] \notin Midway
      BY <1>6, <2>1, <2>3, <3>2, LeavingSelection
    <3> QED
      BY <3>1, <3>2
  <2>5. AppliedPatches' = AppliedPatches
    BY <1>1, <2>2, <2>3, <2>4, PatchesAreCalls DEF AppliedPatches
  <2> QED
    BY <1>1, <2>4, <2>5 DEF Unseen
<1> QED
  BY <1>3, <1>4, <1>5

\* An archival lists every file of the spec directory, which is then removed.
ArchivesAreWhole == \A p \in Patches : (\E d \in Docs : Archives(p, d)) => \A d \in Docs : Archives(p, d)

\* The commit point: the selected generation turns into the outcome.
LEMMA CommitApplies ==
    ASSUME Calm, Calm', AtomicInv, AtomicInv', ArchivesAreWhole, NEW p \in Patches, Commit(p), Moves(p)
    PROVE  Atomic!Apply(p)
<1>1. pc[p] = "commit" /\ pc[p] \in Midway /\ Alive(p)
  BY DEF Commit, At, Midway, CommitSteps
<1>2. /\ Kept(p) /\ Alone(p) /\ SwapOK(p) /\ result[p] = "none" /\ p \in Calls
      /\ \A d \in Docs \ Changed(p) : Untouched(p, d)
      /\ SelectedGeneration = snapB[p]
  BY <1>1, MidwayFacts, MidwaySelection DEF Elsewhere
<1>3. /\ pc \in [Calls -> Steps] /\ result \in [Calls -> Results] /\ file \in Generations /\ file' \in Generations
      /\ journal \in [Patches -> Journals]
  BY CalmFacts DEF Calm, TypeInv, TypeOK
<1>4. /\ \A b \in Calls \ {p} : pc'[b] = pc[b] /\ result'[b] = result[b]
      /\ \A q \in Patches : snapB'[q] = snapB[q]
      /\ \A q \in Patches \ {p} : journal'[q] = journal[q]
  BY PatchesAreCalls DEF Moves, OthersKept
<1>5. pc'[p] = "cleanup" /\ journal'[p] = "committed" /\ result' = result
  BY <1>2, <1>3 DEF Commit, Goto, WriteJournal
<1>6. p \notin AppliedPatches /\ AppliedPatches' = AppliedPatches \cup {p}
  BY <1>1, <1>2, <1>4, <1>5, PatchesAreCalls DEF AppliedPatches
<1>7. CompletelyInstalled(p)
  BY <1>1, <1>2 DEF SwapOK
<1>8. SelectedGeneration' = file'
  <2>1. \A q \in Patches : journal'[q] \notin Undecided
    BY <1>2, <1>4, <1>5 DEF Alone, Undecided, Unfinished
  <2> QED
    BY <2>1, SettledSelectionNext DEF Calm, TypeInv
<1>9. ASSUME NEW d \in Docs PROVE file'[d] = Atomic!Outcome(p, snapB[p])[d]
  <2>1. CASE d \in Changed(p)
    <3>1. PICK i \in DOMAIN Changes[p] : Changes[p][i].doc = d
      BY <2>1 DEF Changed
    <3>2. \A k \in DOMAIN Changes[p] : Changes[p][k].doc = d => k = i
      BY <3>1, ChangesAssumption
    <3>3. (CHOOSE k \in DOMAIN Changes[p] : Changes[p][k].doc = d) = i
      BY <3>1, <3>2
    <3>4. Atomic!Outcome(p, snapB[p])[d] = IF Changes[p][i].op = "write" THEN p ELSE Missing
      BY <1>9, <3>1, <3>3 DEF Atomic!Outcome, Atomic!Absent, Missing
    <3>5. Changes[p][i].op \in Ops
      BY ChangeTyping
    <3>6. CASE \E k \in DOMAIN Changes[p] : Changes[p][k].op = "archive"
      <4>1. file'[d] = Missing
        BY <1>9, <3>6 DEF Commit
      <4>2. \A k \in DOMAIN Changes[p] : Changes[p][k].doc \in Docs
        BY ChangeTyping
      <4>3. Archives(p, d)
        BY <1>9, <3>6, <4>2 DEF ArchivesAreWhole, Archives
      <4>4. Changes[p][i].op = "archive"
        BY <3>2, <4>3 DEF Archives
      <4> QED
        BY <3>4, <4>1, <4>4
    <3>7. CASE ~\E k \in DOMAIN Changes[p] : Changes[p][k].op = "archive"
      <4>1. file' = file
        BY <3>7 DEF Commit
      <4>2. Changes[p][i].op \in {"write", "delete"}
        BY <3>1, <3>5, <3>7 DEF Ops
      <4>3. file[d] = IF Changes[p][i].op = "write" THEN p ELSE Missing
        BY <1>7, <3>1, <4>2 DEF CompletelyInstalled
      <4> QED
        BY <3>4, <4>1, <4>3
    <3> QED
      BY <3>6, <3>7
  <2>2. CASE d \notin Changed(p)
    <3>1. ~\E k \in DOMAIN Changes[p] : Changes[p][k].doc = d
      BY <2>2 DEF Changed
    <3>2. Atomic!Outcome(p, snapB[p])[d] = snapB[p][d]
      BY <1>9, <3>1 DEF Atomic!Outcome
    <3>3. ~\E k \in DOMAIN Changes[p] : Changes[p][k].op = "archive"
      <4>1. ~Archives(p, d)
        BY <3>1 DEF Archives
      <4>2. \A e \in Docs : ~Archives(p, e)
        BY <1>9, <4>1 DEF ArchivesAreWhole
      <4>3. \A k \in DOMAIN Changes[p] : Changes[p][k].doc \in Docs
        BY ChangeTyping
      <4> QED
        BY <4>2, <4>3 DEF Archives
    <3>4. file' = file /\ file[d] = snapB[p][d]
      BY <1>2, <1>9, <2>2, <3>3 DEF Commit, Untouched
    <3> QED
      BY <3>2, <3>4
  <2> QED
    BY <2>1, <2>2
<1>10. file' = Atomic!Outcome(p, snapB[p])
  BY <1>3, <1>9 DEF Generations, Atomic!Outcome
<1>11. [q \in Patches |-> snapB'[q]] = [q \in Patches |-> snapB[q]]
  BY <1>4
<1> QED
  BY <1>2, <1>6, <1>8, <1>10, <1>11 DEF Atomic!Apply

\* No patch archives a document.
NoArchives == \A p \in Patches : NoArchive(p)

\* What a recovery undoes, or removes, is what the journals had already undone.
LEMMA RecoveryUnseen ==
    ASSUME Calm, Calm', AtomicInv, AtomicInv', NoArchives, NEW p \in Patches, NEW q \in Patches,
           Alive(p), pc[p] \in Recoveries \ {"scan", "recover"}, q = dead[p],
           result'[p] # "APPLIED", pc'[p] # "cleanup", snapB' = snapB,
           \A b \in Calls \ {p} : pc'[b] = pc[b] /\ result'[b] = result[b],
           \A r \in Patches \ {q} : journal'[r] = journal[r],
           \/ journal'[q] = journal[q] /\ pc[p] \in UndoSteps
           \/ journal'[q] = "absent" /\ file' = file /\ pc[p] = "purge"
    PROVE  Unseen
<1>1. /\ TypeOK /\ TypeOK' /\ p \in Calls /\ pc[p] # "cleanup" /\ result[p] = "none"
      /\ Alone(q) /\ RecovererOK(p) /\ StageOK(q) /\ journal[q] \in Unfinished \cup {"committed"}
  BY CalmFacts, UndoFacts, PatchesAreCalls, KindsOfSteps DEF Calm, TypeInv, AtomicInv, CallOK, AnswerOK
<1>2. AppliedPatches' = AppliedPatches
  BY <1>1, PatchesAreCalls DEF AppliedPatches
<1>3. CASE journal'[q] = journal[q] /\ pc[p] \in UndoSteps
  <2>1. pc[p] # "purge"
    BY <1>3 DEF UndoSteps
  <2>2. journal[q] \in Undecided /\ journal'[q] \in Undecided
    BY <1>1, <1>3, <2>1 DEF RecovererOK, NoArchives, Undecided
  <2>3. SelectedGeneration' = SelectedGeneration
    BY <1>1, <2>2, StageSelection, StageSelectionNext
  <2> QED
    BY <1>2, <2>3 DEF Unseen
<1>4. CASE journal'[q] = "absent" /\ file' = file /\ pc[p] = "purge"
  <2>1. SelectedGeneration' = file
    <3>1. \A r \in Patches : journal'[r] \notin Undecided
      BY <1>1, <1>4 DEF Alone, Undecided, Unfinished
    <3> QED
      BY <1>1, <1>4, <3>1, SettledSelectionNext
  <2>2. CASE journal[q] \in Unfinished
    <3>1. SelectedGeneration = snapB[q]
      BY <1>1, <2>2, StageSelection DEF Undecided
    <3>2. \A d \in Docs : file[d] = snapB[q][d]
      BY <1>1, <1>4, <2>2 DEF RecovererOK, UndoOK, Untouched
    <3>3. file \in Generations /\ snapB[q] \in Generations
      BY <1>1, PatchesAreCalls DEF TypeOK
    <3>4. file = snapB[q]
      BY <3>2, <3>3 DEF Generations
    <3> QED
      BY <1>2, <2>1, <3>1, <3>4 DEF Unseen
  <2>3. CASE journal[q] = "committed"
    <3>1. \A r \in Patches : journal[r] \notin Undecided
      BY <1>1, <2>3 DEF Alone, Undecided, Unfinished
    <3> QED
      BY <1>1, <1>2, <2>1, <3>1, SettledSelection DEF Unseen
  <2> QED
    BY <1>1, <2>2, <2>3
<1> QED
  BY <1>3, <1>4

LEMMA RecoveringRefines ==
    ASSUME Calm, Calm', AtomicInv, AtomicInv', NoArchives, NEW p \in Patches, Recovering(p)
    PROVE  [Atomic!Next]_(Atomic!vars) /\ SelectedGeneration' = SelectedGeneration
<1>1. CASE Looks(p)
  <2>1. QuietStep(p) /\ Alive(p) /\ p \in Calls /\ TypeOK'
    BY <1>1, CalmFacts, LooksQuietly, LooksLock, PatchesAreCalls DEF Calm, TypeInv, QuietLock
  <2> QED
    BY <2>1, QuietRefines, DiskSelects DEF QuietStep, DiskKept
<1>2. CASE UndoRemove(p) \/ UndoMove(p)
  <2>1. /\ Alive(p) /\ pc[p] \in UndoSteps /\ UNCHANGED <<journal, snapB>>
        /\ \A b \in Calls \ {p} : pc'[b] = pc[b] /\ result'[b] = result[b]
        /\ pc'[p] \in {"undo", "undoMove", "purge", "done"}
    BY <1>2, UndoStep
  <2>2. pc[p] \in Recoveries \ {"scan", "recover"} /\ pc'[p] # "cleanup" /\ result[p] = "none"
    BY <2>1, KindsOfSteps DEF Recoveries, UndoSteps, AtomicInv, CallOK, AnswerOK
  <2>3. result'[p] # "APPLIED"
    BY <1>2, <2>2, CalmFacts, PatchesAreCalls DEF UndoRemove, UndoMove, Answer, TypeOK
  <2>4. PICK q \in Patches : q = dead[p]
    BY <2>1, <2>2, UndoFacts
  <2> QED
    BY <2>1, <2>2, <2>3, <2>4, RecoveryUnseen, UnseenStutters DEF Unseen
<1>3. CASE PurgeRecovered(p)
  <2>1. pc[p] = "purge" /\ Alive(p) /\ UNCHANGED <<file, result, snapB>>
    BY <1>3 DEF PurgeRecovered, At, reading
  <2>2. pc[p] \in Recoveries \ {"scan", "recover"} /\ result[p] = "none"
    BY <2>1, KindsOfSteps DEF Recoveries, AtomicInv, CallOK, AnswerOK
  <2>3. PICK q \in Patches : q = dead[p]
    BY <2>1, <2>2, UndoFacts
  <2>4. /\ journal'[q] = "absent" /\ \A r \in Patches \ {q} : journal'[r] = journal[r]
        /\ pc'[p] # "cleanup" /\ \A b \in Calls \ {p} : pc'[b] = pc[b]
    BY <1>3, <2>3, CalmFacts, PatchesAreCalls DEF PurgeRecovered, RemoveStage, Goto, TypeOK
  <2> QED
    BY <2>1, <2>2, <2>3, <2>4, RecoveryUnseen, UnseenStutters DEF Unseen
<1> QED
  BY <1>1, <1>2, <1>3 DEF Recovering, Looks

\* A crash shows nothing: a torn journal is an unfinished one, and a stage is removed
\* when the documents no longer need it.
LEMMA CrashUnseen == ASSUME Calm, Calm', AtomicInv, AtomicInv', Crashing PROVE Unseen
<1>1. TypeOK /\ TypeOK' /\ UNCHANGED <<file, pc, result, snapB>>
  BY CalmFacts DEF Crashing, Crash, CrashTearsJournal, CrashMidRemoval, Kill, reading, Calm, TypeInv
<1>2. AppliedPatches' = AppliedPatches
  BY <1>1 DEF AppliedPatches
<1>3. ASSUME NEW pid \in Pids, Crash(pid) PROVE SelectedGeneration' = SelectedGeneration
  BY <1>1, <1>3, DiskSelects DEF Crash
<1>4. ASSUME NEW p \in Patches, CrashTearsJournal(p) PROVE SelectedGeneration' = SelectedGeneration
  <2>1. Alive(p) /\ pc[p] \in Midway /\ journal'[p] = "torn"
    BY <1>1, <1>4 DEF CrashTearsJournal, Kill, Alive, WriteJournal, Midway, CommitSteps, TypeOK
  <2>2. SelectedGeneration = snapB[p]
    BY <2>1, MidwaySelection
  <2>3. SelectedGeneration' = snapB'[p]
    BY <1>1, <2>1, StageSelectionNext DEF Undecided
  <2> QED
    BY <1>1, <2>2, <2>3
<1>5. ASSUME NEW p \in Patches, CrashMidRemoval(p) PROVE SelectedGeneration' = SelectedGeneration
  <2>1. PICK q \in Patches :
            /\ Alone(q) /\ HalfRemoved(q) /\ journal[q] # "torn"
            /\ journal[q] \in Unfinished => \A d \in Docs : file[d] = snapB[q][d]
    BY <1>5, HalfStage
  <2>2. journal'[q] \in {journal[q], "none"} /\ \A r \in Patches \ {q} : journal'[r] = journal[r]
    BY <1>1, <2>1 DEF HalfRemoved, TypeOK
  <2>3. journal'[q] \notin Undecided => SelectedGeneration' = file
    <3> SUFFICES ASSUME journal'[q] \notin Undecided PROVE SelectedGeneration' = file
      OBVIOUS
    <3>1. \A r \in Patches : journal'[r] \notin Undecided
      BY <2>1, <2>2 DEF Alone
    <3> QED
      BY <1>1, <3>1, SettledSelectionNext
  <2>4. CASE journal[q] \in Unfinished
    <3>1. file \in Generations /\ snapB[q] \in Generations
      BY <1>1, PatchesAreCalls DEF TypeOK
    <3>2. file = snapB[q]
      BY <2>1, <2>4, <3>1 DEF Generations
    <3>3. SelectedGeneration = snapB[q]
      BY <1>1, <2>4, StageSelection DEF Undecided
    <3>4. journal'[q] \in Undecided => SelectedGeneration' = snapB'[q]
      BY <1>1, StageSelectionNext
    <3> QED
      BY <1>1, <2>3, <3>2, <3>3, <3>4
  <2>5. CASE journal[q] \notin Unfinished
    <3>1. journal'[q] \notin Undecided
      BY <2>1, <2>2, <2>5 DEF Undecided, Unfinished
    <3>2. \A r \in Patches : journal[r] \notin Undecided
      BY <2>1, <2>5 DEF Alone, Undecided
    <3>3. SelectedGeneration = file
      BY <1>1, <3>2, SettledSelection
    <3> QED
      BY <2>3, <3>1, <3>3
  <2> QED
    BY <2>4, <2>5
<1> QED
  BY <1>1, <1>2, <1>3, <1>4, <1>5 DEF Crashing, Unseen

LEMMA StepRefines ==
    ASSUME Calm, Calm', AtomicInv, AtomicInv', Undoable, ArchivesAreWhole, [Next]_vars,
           NoArchives \/ ~\E p \in Patches : Recovering(p)
    PROVE  [Atomic!Next]_(Atomic!vars)
<1>1. CASE UNCHANGED vars
  <2>1. UNCHANGED <<file, journal, backup, snapB, pc, result>>
    BY <1>1 DEF vars, disk, reading
  <2>2. Unseen
    BY <2>1, DiskSelects DEF Unseen, AppliedPatches
  <2> QED
    BY <2>2, UnseenStutters
<1>2. ASSUME NEW c \in Calls, Read(c) PROVE [Atomic!Next]_(Atomic!vars)
  BY <1>2, ReadIsQuiet, ReadLock, QuietRefines, CalmFacts DEF Calm, TypeInv, QuietLock
<1>3. ASSUME NEW p \in Patches, Locking(p) PROVE [Atomic!Next]_(Atomic!vars)
  <2>1. QuietStep(p) /\ Alive(p) /\ p \in Calls /\ TypeOK'
    BY <1>3, LockingIsQuiet, LockingLock, CalmFacts, PatchesAreCalls DEF Calm, TypeInv, QuietLock
  <2> QED
    BY <2>1, QuietRefines
<1>4. ASSUME NEW p \in Patches, Writes(p) PROVE [Atomic!Next]_(Atomic!vars)
  <2>1. Moves(p)
    BY <1>4, WritesKeep
  <2>2. CASE Commit(p)
    BY <2>1, <2>2, CommitApplies DEF Atomic!Next
  <2>3. CASE ~Commit(p)
    BY <1>4, <2>1, <2>3, WritesUnseen, UnseenStutters
  <2> QED
    BY <2>2, <2>3
<1>5. ASSUME NEW p \in Patches, Recovering(p) PROVE [Atomic!Next]_(Atomic!vars)
  BY <1>5, RecoveringRefines
<1>6. CASE Crashing
  BY <1>6, CrashUnseen, UnseenStutters
<1> QED
  BY <1>1, <1>2, <1>3, <1>4, <1>5, <1>6, StepKinds

LEMMA InitRefines == ASSUME Init PROVE Atomic!Init
<1>1. TypeOK
  BY InitTyped DEF TypeInv
<1>2. \A q \in Patches : journal[q] \notin Undecided
  BY DEF Init, Undecided, Unfinished
<1>3. SelectedGeneration = file
  BY <1>1, <1>2, SettledSelection
<1>4. AppliedPatches = {}
  BY PatchesAreCalls DEF Init, AppliedPatches
<1>5. [p \in Patches |-> snapB[p]] \in [Patches -> [Docs -> Contents]]
  BY <1>1, PatchesAreCalls DEF TypeOK, Generations
<1> QED
  BY <1>3, <1>4, <1>5 DEF Init, Atomic!Init, Atomic!Absent, Missing

\* With crashes, I/O errors where the catch block knows what was done, and recoveries
\* that do not overlap: spec_patch without archivals is one atomic switch of the corpus.
\* Whoever goes by the journals never sees a patch half applied or half undone, and
\* every patch applies to its own base (commitDocuments, recoverInterruptedTransactions).
THEOREM RefinesUnlessRecoveriesOverlap ==
    Undoable /\ NoArchives => (Spec /\ []OneRecovery => RefinesAtomicCorpus)
<1> SUFFICES ASSUME Undoable, NoArchives PROVE Spec /\ []OneRecovery => RefinesAtomicCorpus
  OBVIOUS
<1>1. Init => Atomic!Init
  BY InitRefines
<1>2. ArchivesAreWhole
  BY DEF NoArchives, NoArchive, ArchivesAreWhole
<1>3. (Calm /\ AtomicInv) /\ (Calm /\ AtomicInv)' /\ [Next]_vars => [Atomic!Next]_(Atomic!vars)
  BY <1>2, StepRefines
<1>4. Spec /\ []OneRecovery => [](Calm /\ AtomicInv)
  BY AtomicAlways
<1> QED
  BY <1>1, <1>3, <1>4, PTL DEF Spec, RefinesAtomicCorpus, Atomic!Spec

-----------------------------------------------------------------------------
(* When no two recoveries overlap: without crashes, and with two patches. *)

LEMMA AliveAlways == ASSUME MaxCrashes = 0 PROVE Spec => []AllAlive /\ []OneRecovery
<1>1. Init => AllAlive
  BY PatchesAreCalls DEF Init, AllAlive, Recoveries, UndoSteps
<1>2. AllAlive => OneRecovery
  BY DEF AllAlive, OneRecovery
<1>3. TypeOK /\ AllAlive /\ [Next]_vars => AllAlive'
  BY NextKeepsAlive
<1> QED
  BY <1>1, <1>2, <1>3, TypeCorrect, PTL DEF Spec

LEMMA AllAliveMeans ==
    ASSUME AllAlive
    PROVE  \A p \in Patches : Alive(p) /\ pc[p] \notin Recoveries /\ ~Recovering(p)
<1>1. \A p \in Patches : Alive(p)
  BY PatchesAreCalls, CallsAssumption DEF AllAlive, Alive
<1>2. \A p \in Patches : Recovering(p) => pc[p] \in Recoveries
  BY DEF Recovering, ScanStaging, RecoverEntry, RemoveDeadLock, UndoChange, UndoRemove, UndoMove,
         PurgeRecovered, At, Recoveries, UndoSteps
<1> QED
  BY <1>1, <1>2 DEF AllAlive

\* Without crashes, and with errors thrown only where the catch block knows what was
\* done, commitDocuments is one atomic switch of the corpus: no reader of the
\* journals sees a patch half applied, and every patch applies to its own base.
THEOREM RefinesWithoutCrashes ==
    MaxCrashes = 0 /\ Undoable /\ ArchivesAreWhole => (Spec => RefinesAtomicCorpus)
<1> SUFFICES ASSUME MaxCrashes = 0, Undoable, ArchivesAreWhole PROVE Spec => RefinesAtomicCorpus
  OBVIOUS
<1>1. Init => Atomic!Init
  BY InitRefines
<1>2. (Calm /\ AtomicInv) /\ (Calm /\ AtomicInv)' /\ AllAlive /\ [Next]_vars => [Atomic!Next]_(Atomic!vars)
  BY StepRefines, AllAliveMeans
<1>3. Spec => [](Calm /\ AtomicInv) /\ []AllAlive
  BY AtomicAlways, AliveAlways, PTL
<1> QED
  BY <1>1, <1>2, <1>3, PTL DEF Spec, RefinesAtomicCorpus, Atomic!Spec

\* A recovery faces a patch of a process that is dead, and stays dead.
Facing == \A p \in Patches : pc[p] \in Recoveries => dead[p] \in Patches /\ ~Alive(dead[p])

TwoPatches == \A p, q, r \in Patches : p = q \/ q = r \/ p = r

LEMMA LeavesLockFaces == ASSUME Facing, LeavesLock PROVE Facing'
BY DEF Facing, LeavesLock, Alive

LEMMA NextFaces == ASSUME TypeOK, Facing, [Next]_vars PROVE Facing'
<1>1. pc \in [Calls -> Steps] /\ lock \in Locks /\ dead \in [Patches -> Patches \cup {"nobody"}]
  BY DEF TypeOK
<1>2. ASSUME NEW p \in Patches, Locking(p) PROVE Facing'
  <2> USE PatchesAreCalls DEF Goto, Answer, At, env, recovers, disk
  <2>1. CASE InspectLock(p) /\ lock.stamped /\ PidOf[lock.by] \notin alive
    <3>1. /\ lock.by \in Patches /\ dead' = [dead EXCEPT ![p] = lock.by] /\ Goto(p, "scan") /\ alive' = alive
      BY <1>1, <2>1, StampedLock DEF InspectLock
    <3> QED
      BY <1>1, <2>1, <3>1 DEF Facing, Alive
  <2>2. CASE ~(InspectLock(p) /\ lock.stamped /\ PidOf[lock.by] \notin alive)
    <3>1. UNCHANGED <<dead, alive>>
      BY <1>2, <2>2 DEF Locking, OpenLock, InspectLock, ReopenLock, StampLock, ReleaseLock
    <3>2. \E l \in {"stamp", "inspect", "done", "revalidate"} : Goto(p, l)
      BY <1>2, <2>2 DEF Locking, OpenLock, InspectLock, ReopenLock, StampLock, ReleaseLock, CreateLock
    <3>3. \A q \in Patches : pc'[q] \in Recoveries => pc[q] \in Recoveries
      BY <1>1, <3>2 DEF Recoveries, UndoSteps
    <3> QED
      BY <3>1, <3>3 DEF Facing, Alive
  <2> QED
    BY <2>1, <2>2
<1>3. ASSUME NEW p \in Patches, Recovering(p) PROVE Facing'
  <2> USE <1>3, PatchesAreCalls DEF Recovering, ScanStaging, RecoverEntry, RemoveDeadLock, UndoChange, UndoRemove, UndoMove,
                   PurgeRecovered, UndoNext, Refuse, Goto, Answer, At, env, recovers, disk
  <2>1. UNCHANGED <<dead, alive>> /\ pc[p] \in Recoveries
    BY DEF Recoveries, UndoSteps
  <2>2. \E l : Goto(p, l)
    OBVIOUS
  <2>3. \A q \in Patches \ {p} : pc'[q] = pc[q]
    BY <1>1, <2>2
  <2> QED
    BY <2>1, <2>3 DEF Facing, Alive
<1>4. CASE UNCHANGED vars
  BY <1>4 DEF Facing, vars, env, recovers, Alive
<1> QED
  BY <1>2, <1>3, <1>4, ReadLeavesLock, CommittingLeavesLock, EnvironmentLeavesLock, LeavesLockFaces
     DEF Next, Terminated, Writing

LEMMA TwoPatchesRecoverAlone == ASSUME TwoPatches PROVE Spec => []OneRecovery
<1>1. Init => Facing
  BY PatchesAreCalls DEF Init, Facing, Recoveries, UndoSteps
<1>2. TypeOK /\ Facing /\ [Next]_vars => Facing'
  BY NextFaces
<1>3. Facing => OneRecovery
  BY DEF Facing, OneRecovery, TwoPatches
<1> QED
  BY <1>1, <1>2, <1>3, TypeCorrect, PTL DEF Spec

\* Under the lock file two patches exclude each other, whatever process crashes at
\* whatever step: the one that recovers the other's lock is alone with it.
THEOREM OneWriterOfTwoPatches == TwoPatches => (Spec => []OneWriter)
<1> SUFFICES ASSUME TwoPatches PROVE Spec => []OneWriter
  OBVIOUS
<1> QED
  BY TwoPatchesRecoverAlone, OneWriterUnlessRecoveriesOverlap, PTL

\* Two patches without archivals implement the atomic corpus, whatever process crashes
\* at whatever step of the commit, of the rollback or of a recovery.
THEOREM RefinesForTwoPatches == TwoPatches /\ Undoable /\ NoArchives => (Spec => RefinesAtomicCorpus)
<1> SUFFICES ASSUME TwoPatches, Undoable, NoArchives PROVE Spec => RefinesAtomicCorpus
  OBVIOUS
<1> QED
  BY TwoPatchesRecoverAlone, RefinesUnlessRecoveriesOverlap, PTL

-----------------------------------------------------------------------------
(* What a recovery leaves. *)

\* Only a commit changes what the journals select.
LEMMA SelectedStays ==
    ASSUME Calm, Calm', AtomicInv, AtomicInv', Undoable, NoArchives, [Next]_vars, ~\E p \in Patches : Commit(p)
    PROVE  SelectedGeneration' = SelectedGeneration
<1>1. CASE UNCHANGED vars
  BY <1>1, DiskSelects DEF vars, disk
<1>2. ASSUME NEW c \in Calls, Read(c) PROVE SelectedGeneration' = SelectedGeneration
  BY <1>2, ReadIsQuiet, DiskSelects, CalmFacts DEF QuietStep, DiskKept
<1>3. ASSUME NEW p \in Patches, Locking(p) PROVE SelectedGeneration' = SelectedGeneration
  BY <1>3, LockingIsQuiet, DiskSelects, CalmFacts DEF QuietStep, DiskKept
<1>4. ASSUME NEW p \in Patches, Writes(p) PROVE SelectedGeneration' = SelectedGeneration
  BY <1>4, WritesKeep, WritesUnseen DEF Unseen
<1> QED
  BY <1>1, <1>2, <1>3, <1>4, RecoveringRefines, CrashUnseen, StepKinds DEF Unseen

\* The selected generation was once completely installed, and so is the one to commit.
WholeInv == /\ SelectedGeneration \in gens
            /\ \A p \in Patches : Alive(p) /\ pc[p] = "commit" => file \in gens

\* Who steps aside of the commit of p leaves the documents and the generations alone.
LEMMA CommitUndisturbed ==
    ASSUME Calm, AtomicInv, NEW p \in Patches, [Next]_vars, Alive(p)', pc'[p] = "commit"
    PROVE  file' \in gens' \/ (pc[p] = "commit" /\ Alive(p) /\ file' = file)
<1> USE PatchesAreCalls
<1>1. pc \in [Calls -> Steps] /\ TypeOK
  BY CalmFacts DEF TypeOK
<1>2. "commit" \in Midway /\ "commit" \in Holding
  BY DEF Midway, Holding, CommitSteps
<1>3. CASE UNCHANGED vars
  BY <1>3 DEF vars, disk, env, Alive
<1>4. ASSUME NEW c \in Calls, QuietStep(c), QuietLock(c)
      PROVE  pc[p] = "commit" /\ Alive(p) /\ file' = file
  <2>1. c = p => pc'[p] \in Fresh \cup {"done", "release"}
    BY <1>4, KindsOfSteps DEF QuietStep
  <2>2. c # p
    BY <1>2, <2>1, KindsOfSteps
  <2> QED
    BY <1>4, <2>2 DEF QuietStep, DiskKept, OthersKept, QuietLock, Alive
<1>5. ASSUME NEW c \in Calls, Read(c) PROVE pc[p] = "commit" /\ Alive(p) /\ file' = file
  BY <1>1, <1>4, <1>5, ReadIsQuiet, ReadLock
<1>6. ASSUME NEW q \in Patches, Locking(q) PROVE pc[p] = "commit" /\ Alive(p) /\ file' = file
  BY <1>1, <1>4, <1>6, LockingIsQuiet, LockingLock
<1>7. ASSUME NEW q \in Patches, Recovering(q) PROVE pc[p] = "commit" /\ Alive(p) /\ file' = file
  <2>1. CASE Looks(q)
    BY <1>1, <1>4, <2>1, LooksQuietly, LooksLock
  <2>2. CASE UndoRemove(q) \/ UndoMove(q) \/ PurgeRecovered(q)
    <3>1. Alive(q) /\ pc[q] \in Recoveries /\ alive' = alive
      BY <2>2 DEF UndoRemove, UndoMove, PurgeRecovered, At, Recoveries, UndoSteps, env
    <3>2. \E l \in {"undo", "undoMove", "purge", "done", "recover"} : Goto(q, l)
      BY <2>2 DEF UndoRemove, UndoMove, PurgeRecovered, UndoNext, Answer
    <3>3. p # q /\ pc'[p] = pc[p]
      BY <1>1, <3>2 DEF Goto
    <3>4. Alive(p) /\ pc[p] \notin Midway
      BY <3>1, <3>3, RecovererFacts DEF Alive
    <3> QED
      BY <1>2, <3>3, <3>4
  <2> QED
    BY <1>7, <2>1, <2>2 DEF Recovering, Looks
<1>8. ASSUME NEW q \in Patches, Writes(q) PROVE file' \in gens'
  <2>1. Alive(q) /\ pc[q] \in Holding /\ alive' = alive
    BY <1>1, <1>8, WritesStay
  <2>2. q = p
    <3>1. q # p => pc'[p] = pc[p]
      BY <1>1, <1>8 DEF Writes, Committing, RollingBack, Revalidate, MakeStage, Prepare, StageDocuments, BackupDocument,
           RecordBackup, InstallDocument, RecordInstall, Verify, Commit, Cleanup, RemoveInstalled, RestoreBackup,
           DiscardStage, CommitError, RollbackError, Goto, Leave
    <3>2. q # p => Alive(p) /\ pc[p] \in Holding
      BY <1>2, <2>1, <3>1 DEF Alive
    <3> QED
      BY <2>1, <3>2, CalmFacts
  <2>3. /\ Revalidate(p) \/ MakeStage(p) \/ Prepare(p) \/ StageDocuments(p) \/ BackupDocument(p) => pc'[p] # "commit"
        /\ RecordBackup(p) \/ InstallDocument(p) \/ RecordInstall(p) \/ Commit(p) \/ Cleanup(p) => pc'[p] # "commit"
        /\ CommitError(p) \/ RemoveInstalled(p) \/ DiscardStage(p) => pc'[p] # "commit"
    BY <1>1 DEF Revalidate, MakeStage, Prepare, StageDocuments, BackupDocument, RecordBackup, InstallDocument,
           RecordInstall, Commit, Cleanup, RemoveInstalled, DiscardStage, CommitError, Goto, Leave, At
  <2>4. Verify(p)
    <3>1. RestoreBackup(p) => pc'[p] # "commit"
      BY <1>1 DEF RestoreBackup, Goto, Leave, At
    <3>2. RollbackError(p) => pc'[p] # "commit"
      BY <1>1 DEF RollbackError, Goto, Leave, RollbackSteps
    <3> QED
      BY <1>8, <2>2, <2>3, <3>1, <3>2 DEF Writes, Committing, RollingBack
  <2>5. gens' = gens \cup {file} /\ file' = file
    BY <1>1, <2>4 DEF Verify, Goto, disk
  <2> QED
    BY <2>5
<1>9. CASE Crashing
  BY <1>9 DEF Crashing, Crash, CrashTearsJournal, CrashMidRemoval, Kill, Alive
<1> QED
  BY <1>3, <1>5, <1>6, <1>7, <1>8, <1>9, StepKinds

\* The history only grows.
LEMMA GenerationsStay == ASSUME [Next]_vars PROVE gens \subseteq gens'
<1>1. ASSUME NEW c \in Calls, Read(c) PROVE gens' = gens
  BY <1>1 DEF Read, Begin, Peek, ListDocuments, ReadDocument
<1>2. ASSUME NEW p \in Patches, Locking(p) PROVE gens' = gens
  BY <1>2 DEF Locking, OpenLock, InspectLock, ReopenLock, StampLock, ReleaseLock
<1>3. ASSUME NEW p \in Patches, Recovering(p) PROVE gens' = gens
  BY <1>3 DEF Recovering, ScanStaging, RecoverEntry, RemoveDeadLock, UndoChange, UndoRemove, UndoMove, PurgeRecovered
<1>4. ASSUME NEW p \in Patches, Writes(p) PROVE gens \subseteq gens'
  BY <1>4 DEF Writes, Committing, RollingBack, Revalidate, MakeStage, Prepare, StageDocuments, BackupDocument,
           RecordBackup, InstallDocument, RecordInstall, Verify, Commit, Cleanup, RemoveInstalled, RestoreBackup,
           DiscardStage, CommitError, RollbackError
<1>5. CASE Crashing
  BY <1>5 DEF Crashing, Crash, CrashTearsJournal, CrashMidRemoval, Kill
<1>6. CASE UNCHANGED vars
  BY <1>6 DEF vars
<1> QED
  BY <1>1, <1>2, <1>3, <1>4, <1>5, <1>6, StepKinds

LEMMA WholeStep ==
    ASSUME Calm, Calm', AtomicInv, AtomicInv', Undoable, NoArchives, WholeInv, [Next]_vars PROVE WholeInv'
<1>1. SelectedGeneration' \in gens'
  <2>1. ASSUME NEW p \in Patches, Commit(p) PROVE SelectedGeneration' \in gens'
    <3>1. pc[p] = "commit" /\ Alive(p) /\ pc[p] \in Midway
      BY <2>1 DEF Commit, At, Midway, CommitSteps
    <3>2. Alone(p) /\ p \in Calls /\ TypeOK
      BY <3>1, MidwayFacts, CalmFacts
    <3>3. /\ journal'[p] = "committed" /\ \A r \in Patches \ {p} : journal'[r] = journal[r]
          /\ file' = file /\ gens' = gens
      <4>1. ~\E i \in DOMAIN Changes[p] : Changes[p][i].op = "archive"
        BY ChangeTyping DEF NoArchives, NoArchive, Archives
      <4> QED
        BY <2>1, <3>2, <4>1 DEF Commit, WriteJournal, TypeOK
    <3>4. \A r \in Patches : journal'[r] \notin Undecided
      BY <3>2, <3>3 DEF Alone, Undecided, Unfinished
    <3>5. SelectedGeneration' = file'
      BY <3>4, SettledSelectionNext DEF Calm, TypeInv
    <3> QED
      BY <3>1, <3>3, <3>5 DEF WholeInv
  <2> QED
    BY <2>1, SelectedStays, GenerationsStay DEF WholeInv
<1>2. ASSUME NEW p \in Patches, Alive(p)', pc'[p] = "commit" PROVE file' \in gens'
  BY <1>2, CommitUndisturbed, GenerationsStay DEF WholeInv
<1> QED
  BY <1>1, <1>2 DEF WholeInv

\* With crashes, errors where the catch block knows what was done, and recoveries that do
\* not overlap: a recovery of patches without archivals leaves one complete generation.
THEOREM RecoveredIsWholeUnlessRecoveriesOverlap ==
    Undoable /\ NoArchives => (Spec /\ []OneRecovery => []RecoveredIsWhole)
<1> SUFFICES ASSUME Undoable, NoArchives PROVE Spec /\ []OneRecovery => []RecoveredIsWhole
  OBVIOUS
<1>1. Init => WholeInv
  <2> SUFFICES ASSUME Init PROVE WholeInv
    OBVIOUS
  <2>1. TypeOK /\ \A q \in Patches : journal[q] \notin Undecided /\ pc[q] = "idle"
    BY InitTyped, PatchesAreCalls DEF TypeInv, Init, Undecided, Unfinished
  <2>2. SelectedGeneration = file
    BY <2>1, SettledSelection
  <2> QED
    BY <2>1, <2>2 DEF Init, WholeInv
<1>2. (Calm /\ AtomicInv) /\ (Calm /\ AtomicInv)' /\ WholeInv /\ [Next]_vars => WholeInv'
  BY WholeStep
<1>3. Calm /\ AtomicInv /\ WholeInv => RecoveredIsWhole
  <2> SUFFICES ASSUME Calm, AtomicInv, WholeInv, lock = NoLock, ~UnfinishedStage PROVE file \in gens
    BY DEF RecoveredIsWhole
  <2>1. \A q \in Patches : q # lock.by
    BY CallsAssumption DEF NoLock
  <2>2. \A q \in Patches : journal[q] \notin Undecided
    BY <2>1 DEF AtomicInv, StageOK, UnfinishedStage, Undecided, Unfinished
  <2>3. SelectedGeneration = file
    BY <2>2, CalmFacts, SettledSelection
  <2> QED
    BY <2>3 DEF WholeInv
<1>4. Spec /\ []OneRecovery => [](Calm /\ AtomicInv)
  BY AtomicAlways
<1> QED
  BY <1>1, <1>2, <1>3, <1>4, PTL DEF Spec

\* Once a recovery between two patches without archivals is over, one complete
\* generation is in place, whatever the dead one had swapped, torn or half removed.
THEOREM RecoveredIsWholeForTwoPatches == TwoPatches /\ Undoable /\ NoArchives => (Spec => []RecoveredIsWhole)
<1> SUFFICES ASSUME TwoPatches, Undoable, NoArchives PROVE Spec => []RecoveredIsWhole
  OBVIOUS
<1> QED
  BY TwoPatchesRecoverAlone, RecoveredIsWholeUnlessRecoveriesOverlap, PTL
-----------------------------------------------------------------------------
(* What a failed patch leaves. *)

\* No two patches archive the same document.
ArchivedOnce == \A p, q \in Patches : \A d \in Docs : Archives(p, d) /\ Archives(q, d) => p = q

\* What an archival has put under .specs/archive, and what a failure leaves.
ArchiveOK(p) == \A d \in Docs : Archives(p, d) =>
    /\ pc[p] \in Fresh => archive[d] = Missing
    /\ pc[p] \in Midway /\ archive[d] # Missing =>
          d \in installed[p] \/ (pc[p] = "noteInstall" /\ Current(p, d))
FailedOK(p) == pc[p] = "release" /\ result[p] = "FAILED" =>
    file = snapB[p] /\ \A d \in Docs : Archives(p, d) => archive[d] = Missing
ArchiveInv == \A p \in Patches : Alive(p) => ArchiveOK(p) /\ FailedOK(p)

LEMMA QuietKeepsArchive ==
    ASSUME AtomicInv, ArchiveInv, NEW c \in Calls, QuietStep(c), UNCHANGED <<archive, alive, pos>> PROVE ArchiveInv'
<1> SUFFICES ASSUME NEW p \in Patches, Alive(p)' PROVE (ArchiveOK(p) /\ FailedOK(p))'
  BY DEF ArchiveInv
<1>1. /\ ArchiveOK(p) /\ FailedOK(p) /\ p \in Calls /\ Alive(p)
      /\ UNCHANGED <<file, archive, pos, installed>>
  BY PatchesAreCalls DEF ArchiveInv, QuietStep, DiskKept, Alive
<1>2. Swapping(p)' = Swapping(p)
  BY <1>1 DEF Swapping
<1>3. CASE p # c
  <2>1. pc'[p] = pc[p] /\ result'[p] = result[p] /\ snapB'[p] = snapB[p]
    BY <1>1, <1>3 DEF QuietStep, OthersKept
  <2> QED
    BY <1>1, <1>2, <2>1 DEF ArchiveOK, FailedOK, Current
<1>4. CASE p = c
  <2>1. pc'[p] \notin Midway /\ (pc'[p] \in Fresh => pc[p] \in Fresh)
    BY <1>4, KindsOfSteps DEF QuietStep
  <2>2. ~(pc'[p] = "release" /\ result'[p] = "FAILED")
    <3>1. pc[p] \in Fresh => result[p] = "none"
      BY <1>1 DEF AtomicInv, CallOK, AnswerOK
    <3> QED
      BY <1>4, <3>1, KindsOfSteps DEF QuietStep
  <2> QED
    BY <1>1, <2>1, <2>2 DEF ArchiveOK, FailedOK
<1> QED
  BY <1>3, <1>4

\* The step of a writer, as its own archival sees it.
LEMMA WritesArchive ==
    ASSUME Calm, AtomicInv, Undoable, NEW p \in Patches, Writes(p), ArchiveOK(p), Moves(p), Alive(p)
    PROVE  /\ \A d \in Docs : ~Archives(p, d) => archive'[d] = archive[d]
           /\ pc[p] \in Holding /\ pc'[p] \notin Fresh /\ (ArchiveOK(p) /\ FailedOK(p))'
<1>1. /\ p \in Calls /\ pc \in [Calls -> Steps] /\ result \in [Calls -> Results]
      /\ archive \in Generations /\ installed \in [Patches -> SUBSET Docs]
  BY CalmFacts, PatchesAreCalls DEF TypeOK
<1>2. /\ Holding \cap Fresh = {"stamp", "revalidate"}
      /\ Midway \cap Fresh = {} /\ "release" \notin Midway \cup Fresh /\ "cleanup" \notin Midway \cup Fresh
      /\ Midway \cup {"cleanup"} \subseteq Holding
  BY DEF Holding, Fresh, Midway, Unanswered, CommitSteps, RollbackSteps, Recoveries, UndoSteps
<1>3. pc[p] \in Midway \cup {"revalidate", "cleanup"} => result[p] = "none"
  BY DEF AtomicInv, CallOK, AnswerOK, Fresh
<1> DEFINE Goal == /\ \A d \in Docs : ~Archives(p, d) => archive'[d] = archive[d]
                   /\ pc[p] \in Holding /\ pc'[p] \notin Fresh /\ (ArchiveOK(p) /\ FailedOK(p))'
<1>4. ASSUME UNCHANGED <<archive, installed>>, pc[p] \in (Midway \ {"noteInstall"}) \cup {"cleanup"},
             pc'[p] \in Midway \cup {"release", "cleanup"}, result'[p] # "FAILED",
             pc'[p] \in Midway => pc[p] \in Midway
      PROVE  Goal
  BY <1>2, <1>4 DEF ArchiveOK, FailedOK
<1>5. CASE MakeStage(p) \/ Prepare(p) \/ StageDocuments(p)
  <2>1. pc[p] \in {"mkstage", "prepare", "stage"} /\ UNCHANGED <<archive, installed, result>>
    BY <1>5 DEF MakeStage, Prepare, StageDocuments, At, disk, commits
  <2>2. pc'[p] \in {"prepare", "stage", "backup"}
    BY <1>1, <1>5 DEF MakeStage, Prepare, StageDocuments, Goto
  <2> QED
    BY <1>3, <1>4, <2>1, <2>2 DEF Midway, CommitSteps
<1>6. CASE BackupDocument(p) \/ RecordBackup(p) \/ Verify(p)
  <2>1. pc[p] \in {"backup", "noteBackup", "verify"} /\ UNCHANGED <<archive, installed, result>>
    BY <1>6 DEF BackupDocument, RecordBackup, Verify, At, disk, commits
  <2>2. pc'[p] \in {"noteBackup", "install", "rollback", "commit"}
    BY <1>1, <1>6 DEF BackupDocument, RecordBackup, Verify, Goto
  <2> QED
    BY <1>3, <1>4, <2>1, <2>2 DEF Midway, CommitSteps, RollbackSteps
<1>7. CASE Commit(p) \/ Cleanup(p)
  <2>1. pc[p] \in {"commit", "cleanup"} /\ UNCHANGED <<archive, installed>>
    BY <1>7 DEF Commit, Cleanup, At, commits
  <2>2. pc'[p] \in {"cleanup", "release"} /\ result'[p] \in {result[p], "APPLIED"}
    BY <1>1, <1>7 DEF Commit, Cleanup, Goto, Leave
  <2>3. pc[p] \in (Midway \ {"noteInstall"}) \cup {"cleanup"}
    BY <2>1 DEF Midway, CommitSteps
  <2>4. result'[p] # "FAILED"
    BY <1>3, <2>2, <2>3
  <2> QED
    BY <1>2, <1>4, <2>1, <2>2, <2>3, <2>4
<1>8. CASE RestoreBackup(p) \/ RollbackError(p)
  <2>1. pc[p] \in {"restore", "discard"} /\ UNCHANGED <<archive, installed>>
    BY <1>8 DEF RestoreBackup, RollbackError, Undoable, At, RollbackSteps
  <2>2. pc'[p] \in {"restore", "discard", "release"} /\ result'[p] \in {result[p], "ROLLBACK_FAILED"}
    BY <1>1, <1>8, <2>1 DEF RestoreBackup, RollbackError, Goto, Leave
  <2> QED
    BY <1>3, <1>4, <2>1, <2>2 DEF Midway, RollbackSteps
<1>9. CASE CommitError(p)
  <2>1. pc[p] \in CommitSteps \ {"noteInstall", "cleanup"} /\ UNCHANGED <<archive, installed, result>>
    BY <1>9 DEF CommitError, Undoable, commits
  <2>2. pc'[p] = "rollback"
    BY <1>1, <1>9 DEF CommitError, Goto
  <2> QED
    BY <1>3, <1>4, <2>1, <2>2 DEF Midway, CommitSteps, RollbackSteps
<1>10. CASE DiscardStage(p)
  <2>1. pc[p] = "discard" /\ pc[p] \in Midway /\ UNCHANGED <<file, archive, installed>>
    BY <1>10 DEF DiscardStage, At, Midway, RollbackSteps, commits
  <2>2. installed[p] = {} /\ file = snapB[p]
    BY <2>1, MidwayFacts DEF SwapOK
  <2>3. \A d \in Docs : Archives(p, d) => archive[d] = Missing
    BY <2>1, <2>2 DEF ArchiveOK
  <2>4. pc'[p] = "release" /\ snapB'[p] = snapB[p]
    BY <1>1, <1>10 DEF DiscardStage, Goto, Leave, Moves
  <2> QED
    BY <1>2, <2>1, <2>2, <2>3, <2>4 DEF ArchiveOK, FailedOK
<1>11. CASE Revalidate(p)
  <2>1. pc[p] = "revalidate" /\ UNCHANGED <<archive, installed>>
    BY <1>11 DEF Revalidate, At, disk, commits
  <2>2. pc'[p] \in {"release", "mkstage"} /\ result'[p] # "FAILED"
    BY <1>1, <1>3, <1>11, <2>1 DEF Revalidate, Goto, Leave
  <2>3. pc[p] \in Fresh /\ "mkstage" \notin Fresh /\ pc[p] \in Holding
    BY <2>1 DEF Fresh, Unanswered, Recoveries, UndoSteps, Holding
  <2> QED
    BY <1>2, <2>1, <2>2, <2>3 DEF ArchiveOK, FailedOK
<1>12. CASE InstallDocument(p)
  <2>1. pc[p] = "install" /\ pc[p] \in Midway /\ pc[p] \in SwapSteps
    BY <1>12 DEF InstallDocument, At, Midway, CommitSteps, SwapSteps
  <2>2. PICK k : k = Swapping(p)
    OBVIOUS
  <2>3. k.doc \in Docs /\ (k.op = "archive" => Archives(p, k.doc))
    BY <2>1, <2>2, SwappingFacts DEF Archives
  <2>4. /\ archive' = IF k.op = "archive" THEN [archive EXCEPT ![k.doc] = snapB[p][k.doc]] ELSE archive
        /\ UNCHANGED <<pos, installed>> /\ pc'[p] = "noteInstall"
    BY <1>1, <1>12, <2>2 DEF InstallDocument, Goto, commits
  <2>5. Swapping(p)' = k
    BY <2>2, <2>4 DEF Swapping
  <2>6. \A d \in Docs \ {k.doc} : archive'[d] = archive[d]
    BY <1>1, <2>3, <2>4 DEF Generations
  <2>7. archive'[k.doc] = archive[k.doc] \/ Archives(p, k.doc)
    BY <2>3, <2>4
  <2>8. ArchiveOK(p)'
    BY <2>1, <2>4, <2>5, <2>6 DEF ArchiveOK, Current, Fresh, Unanswered, Recoveries, UndoSteps
  <2>9. FailedOK(p)' /\ pc'[p] \notin Fresh /\ pc[p] \in Holding
    BY <1>2, <2>1, <2>4 DEF FailedOK, Fresh, Unanswered, Recoveries, UndoSteps
  <2> QED
    BY <2>6, <2>7, <2>8, <2>9
<1>13. CASE RecordInstall(p)
  <2>1. pc[p] = "noteInstall" /\ pc[p] \in Midway /\ UNCHANGED archive
    BY <1>13 DEF RecordInstall, At, Midway, CommitSteps
  <2>2. pc'[p] \in {"verify", "backup"} /\ installed'[p] = installed[p] \cup {Swapping(p).doc}
    BY <1>1, <1>13 DEF RecordInstall, Goto
  <2>3. ArchiveOK(p)'
    BY <1>2, <2>1, <2>2 DEF ArchiveOK, Current, Fresh, Unanswered, Recoveries, UndoSteps
  <2>4. FailedOK(p)' /\ pc'[p] \notin Fresh /\ pc[p] \in Holding
    BY <1>2, <2>1, <2>2 DEF FailedOK, Fresh, Unanswered, Recoveries, UndoSteps
  <2> QED
    BY <2>1, <2>3, <2>4
<1>14. CASE RemoveInstalled(p)
  <2>1. pc[p] = "rollback" /\ pc[p] \in Midway
    BY <1>14 DEF RemoveInstalled, At, Midway, RollbackSteps
  <2>2. pc'[p] \in {"rollback", "restore"}
    BY <1>1, <1>14, <2>1 DEF RemoveInstalled, Goto
  <2>3. \A d \in Docs : /\ ~Archives(p, d) => archive'[d] = archive[d]
                        /\ archive'[d] \in {archive[d], Missing}
                        /\ Archives(p, d) /\ archive'[d] # Missing /\ d \in installed[p] => d \in installed'[p]
    <3>1. \/ UNCHANGED <<archive, installed>>
          \/ \E e \in installed[p] :
                /\ installed' = [installed EXCEPT ![p] = @ \ {e}]
                /\ IF Archives(p, e) THEN archive' = [archive EXCEPT ![e] = Missing] ELSE UNCHANGED archive
      BY <1>14 DEF RemoveInstalled
    <3> QED
      BY <1>1, <3>1 DEF Generations
  <2>4. ArchiveOK(p)'
    BY <1>2, <2>1, <2>2, <2>3 DEF ArchiveOK, Fresh, Unanswered, Recoveries, UndoSteps
  <2>5. FailedOK(p)' /\ pc'[p] \notin Fresh /\ pc[p] \in Holding
    BY <1>2, <2>1, <2>2 DEF FailedOK, Fresh, Unanswered, Recoveries, UndoSteps
  <2> QED
    BY <2>3, <2>4, <2>5
<1> QED
  BY <1>5, <1>6, <1>7, <1>8, <1>9, <1>10, <1>11, <1>12, <1>13, <1>14 DEF Writes, Committing, RollingBack

\* What the archival of another patch did is none of q's, and the other way round.
LEMMA WritesKeepArchive ==
    ASSUME Calm, AtomicInv, ArchiveInv, Undoable, ArchivedOnce, NEW p \in Patches, Writes(p), Moves(p)
    PROVE  ArchiveInv'
<1>1. /\ \A d \in Docs : ~Archives(p, d) => archive'[d] = archive[d]
      /\ pc[p] \in Holding /\ (ArchiveOK(p) /\ FailedOK(p))' /\ Alive(p) /\ alive' = alive
  BY WritesArchive, WritesStay, CalmFacts DEF ArchiveInv
<1>2. ASSUME NEW q \in Patches \ {p}, Alive(q)' PROVE (ArchiveOK(q) /\ FailedOK(q))'
  <2>1. pc'[q] = pc[q] /\ ArchiveOK(q) /\ Alive(q)
    BY <1>1, <1>2, PatchesAreCalls DEF Moves, OthersKept, ArchiveInv, Alive
  <2>2. pc[q] \notin Midway
    BY <1>1, <2>1, NoOtherHolder
  <2>3. pc[q] # "release"
    BY <1>1, <2>1, NoOtherHolder
  <2>4. \A d \in Docs : Archives(q, d) => archive'[d] = archive[d]
    BY <1>1 DEF ArchivedOnce
  <2> QED
    BY <2>1, <2>2, <2>3, <2>4 DEF ArchiveOK, FailedOK
<1> QED
  BY <1>1, <1>2 DEF ArchiveInv

\* A recovery only takes archived documents away, while no one else is past the lock.
LEMMA RecoveryKeepsArchive ==
    ASSUME Calm, AtomicInv, ArchiveInv, NEW p \in Patches, Recovering(p) PROVE ArchiveInv'
<1>1. /\ p \in Calls /\ pc \in [Calls -> Steps] /\ archive \in Generations
  BY CalmFacts, PatchesAreCalls DEF TypeOK
<1>2. Alive(p) /\ pc[p] \in Recoveries /\ alive' = alive
  BY DEF Recovering, ScanStaging, RecoverEntry, RemoveDeadLock, UndoChange, UndoRemove, UndoMove, PurgeRecovered,
         At, Recoveries, UndoSteps, env
<1>3. \E l \in Recoveries \cup {"reopen", "done"} : Goto(p, l)
  BY DEF Recovering, ScanStaging, RecoverEntry, RemoveDeadLock, UndoChange, UndoRemove, UndoMove, PurgeRecovered,
         UndoNext, Refuse, Answer, Recoveries, UndoSteps
<1>4. archive' = archive \/ \E d : archive' = [archive EXCEPT ![d] = Missing]
  BY DEF Recovering, ScanStaging, RecoverEntry, RemoveDeadLock, UndoChange, UndoRemove, UndoMove, PurgeRecovered, disk
<1>5. \A d \in Docs : archive'[d] \in {archive[d], Missing}
  BY <1>1, <1>4 DEF Generations
<1>6. \A q \in Patches : pc'[q] \in Fresh => pc[q] \in Fresh
  BY <1>1, <1>2, <1>3, PatchesAreCalls, KindsOfSteps DEF Goto
<1>7. ASSUME NEW q \in Patches, Alive(q) PROVE pc'[q] \notin Midway \cup {"release"}
  <2>1. pc'[p] \notin Midway \cup {"release"}
    BY <1>1, <1>3, KindsOfSteps DEF Goto, Fresh
  <2>2. q # p => pc'[q] = pc[q]
    BY <1>1, <1>3, PatchesAreCalls DEF Goto
  <2> QED
    BY <1>2, <1>7, <2>1, <2>2, RecovererFacts
<1> QED
  BY <1>2, <1>5, <1>6, <1>7 DEF ArchiveInv, ArchiveOK, FailedOK, Alive

LEMMA ArchiveStep ==
    ASSUME Calm, AtomicInv, ArchiveInv, Undoable, ArchivedOnce, [Next]_vars PROVE ArchiveInv'
<1>1. ASSUME alive' \subseteq alive, UNCHANGED <<file, archive, pc, result, snapB, pos, installed>> PROVE ArchiveInv'
  BY <1>1 DEF ArchiveInv, ArchiveOK, FailedOK, Current, Swapping, Alive
<1>2. CASE UNCHANGED vars
  BY <1>1, <1>2 DEF vars, disk, env, reading, commits
<1>3. CASE Crashing
  BY <1>1, <1>3 DEF Crashing, Crash, CrashTearsJournal, CrashMidRemoval, Kill, reading, commits
<1>4. ASSUME NEW c \in Calls, Read(c) PROVE ArchiveInv'
  BY <1>4, ReadIsQuiet, ReadLock, QuietKeepsArchive, CalmFacts
<1>5. ASSUME NEW p \in Patches, Locking(p) PROVE ArchiveInv'
  BY <1>5, LockingIsQuiet, LockingLock, QuietKeepsArchive, CalmFacts, PatchesAreCalls
<1>6. ASSUME NEW p \in Patches, Writes(p) PROVE ArchiveInv'
  BY <1>6, WritesKeep, WritesKeepArchive
<1> QED
  BY <1>2, <1>3, <1>4, <1>5, <1>6, RecoveryKeepsArchive, StepKinds

\* With crashes, errors thrown only where the catch block knows what was done, and
\* recoveries that do not overlap: a patch answered as failed has put every document of
\* its base back and left nothing under .specs/archive, provided that no two patches
\* archive the same document (the catch block of commitDocuments, under withWriteLock).
THEOREM FailureRestoresUnlessRecoveriesOverlap ==
    Undoable /\ ArchivedOnce => (Spec /\ []OneRecovery => []FailureRestores)
<1> SUFFICES ASSUME Undoable, ArchivedOnce PROVE Spec /\ []OneRecovery => []FailureRestores
  OBVIOUS
<1>1. Init => ArchiveInv
  <2> SUFFICES ASSUME Init PROVE ArchiveInv
    OBVIOUS
  <2>1. "idle" \notin Midway \cup {"release"}
    BY DEF Midway, CommitSteps, RollbackSteps
  <2> QED
    BY <2>1, PatchesAreCalls DEF Init, ArchiveInv, ArchiveOK, FailedOK
<1>2. (Calm /\ AtomicInv) /\ ArchiveInv /\ [Next]_vars => ArchiveInv'
  BY ArchiveStep
<1>3. ArchiveInv => FailureRestores
  <2> SUFFICES ASSUME ArchiveInv, NEW p \in Patches, Alive(p), pc[p] = "release", result[p] = "FAILED"
               PROVE  /\ file = snapB[p]
                      /\ \A i \in DOMAIN Changes[p] :
                            Changes[p][i].op = "archive" => archive[Changes[p][i].doc] = Missing
    BY DEF FailureRestores
  <2>1. file = snapB[p] /\ \A d \in Docs : Archives(p, d) => archive[d] = Missing
    BY DEF ArchiveInv, FailedOK
  <2>2. \A i \in DOMAIN Changes[p] : Changes[p][i].doc \in Docs
    BY ChangeTyping
  <2> QED
    BY <2>1, <2>2 DEF Archives
<1>4. Spec /\ []OneRecovery => [](Calm /\ AtomicInv)
  BY AtomicAlways
<1> QED
  BY <1>1, <1>2, <1>3, <1>4, PTL DEF Spec

\* While no process crashes, a patch answered as failed has put its base back and left
\* nothing under .specs/archive, of any number of patches that archive different documents.
THEOREM FailureRestoresWithoutCrashes ==
    MaxCrashes = 0 /\ Undoable /\ ArchivedOnce => (Spec => []FailureRestores)
<1> SUFFICES ASSUME MaxCrashes = 0, Undoable, ArchivedOnce PROVE Spec => []FailureRestores
  OBVIOUS
<1> QED
  BY AliveAlways, FailureRestoresUnlessRecoveriesOverlap, PTL

\* Of two patches, one answered as failed has put its base back and left nothing under
\* .specs/archive, whatever process crashes at whatever step.
THEOREM FailureRestoresForTwoPatches ==
    TwoPatches /\ Undoable /\ ArchivedOnce => (Spec => []FailureRestores)
<1> SUFFICES ASSUME TwoPatches, Undoable, ArchivedOnce PROVE Spec => []FailureRestores
  OBVIOUS
<1> QED
  BY TwoPatchesRecoverAlone, FailureRestoresUnlessRecoveriesOverlap, PTL

-----------------------------------------------------------------------------
(* What a reader answers beside one writer, while no process crashes: one   *)
(* that dies half way leaves a torn corpus under a lock that no longer      *)
(* counts, and a reader past its first check does not look for the journal. *)

Before == \A p \in Patches : pc[p] \in Fresh
Over   == \A p \in Patches : pc[p] \in {"release", "done"}

\* What was read so far is what is there.
Taken(snap, c) == \A d \in Docs \ unread[c] : snap[c][d] = file[d]

QueryOK(c) ==
    /\ Before /\ pc[c] = "readA" => Taken(snapA, c)
    /\ Before /\ pc[c] = "peek2" => snapA[c] = file
    /\ pc[c] = "listB" => snapA[c] \in gens \/ Over
    /\ pc[c] = "readB" => snapA[c] \in gens \/ (Over /\ Taken(snapB, c))
    /\ pc[c] = "peek3" => snapA[c] \in gens \/ (Over /\ snapB[c] = file)
    /\ result[c] = "READ" => pc[c] = "done" /\ snapB[c] \in gens

\* Every change before the one under way is installed.
Progress(p) == \A i \in DOMAIN Changes[p] :
    (pc[p] \in SwapSteps /\ i < pos[p]) \/ pc[p] \in {"verify", "commit"}
        => Changes[p][i].doc \in installed[p]

\* The generations beside which a reader may stand.
WriterOK(p) ==
    /\ Progress(p) /\ result[p] # "READ"
    /\ pc[p] \in Midway => /\ snapB[p] \in gens
                           /\ \A d \in backups[p] : backup[p][d] # Missing
    /\ pc[p] = "noteBackup" => backup[p][Swapping(p).doc] # Missing
    /\ pc[p] \in {"commit", "cleanup"} => file \in gens

ReadInv == /\ Before \/ Over => file \in gens
           /\ \A p \in Patches : WriterOK(p)
           /\ \A c \in Queries : QueryOK(c)

LoneWriter   == \A p, q \in Patches : p = q
OtherProcess == \A p \in Patches, c \in Queries : PidOf[p] # PidOf[c]

\* A query that gets past the lock checks stands before or after the writer.
LEMMA PastTheLock ==
    ASSUME Calm, AllAlive, LoneWriter, OtherProcess, NEW c \in Queries, ~LockedByOther(c) PROVE Before \/ Over
<1>1. ASSUME NEW p \in Patches PROVE pc[p] \in Fresh \cup {"done"}
  <2>1. pc[p] \in Steps /\ pc[p] \notin Recoveries /\ PidOf[p] \in alive /\ PidOf[p] # PidOf[c]
    BY CalmFacts, PatchesAreCalls, AllAliveMeans DEF TypeOK, OtherProcess, Alive
  <2>2. pc[p] \notin Holding
    <3> SUFFICES ASSUME pc[p] \in Holding PROVE FALSE
      OBVIOUS
    <3>1. lock.by = p
      BY <2>1 DEF Calm, LockInv, HoldersLock, Alive
    <3>2. lock # NoLock
      BY <3>1, CallsAssumption DEF NoLock
    <3> QED
      BY <2>1, <3>1, <3>2 DEF LockedByOther
  <2> QED
    BY <2>1, <2>2 DEF Steps, Holding, Fresh, Unanswered, UndoSteps, Recoveries, CommitSteps, RollbackSteps
<1> QED
  BY <1>1 DEF Before, Over, LoneWriter

\* The reader's own steps.
LEMMA QueryKeeps ==
    ASSUME Calm, AtomicInv, AllAlive, ReadInv, LoneWriter, OtherProcess, NEW c \in Queries, Read(c) PROVE ReadInv'
<1>0. c \in Calls /\ TypeOK'
  BY CalmFacts, ReadTyped DEF Calls
<1> USE DEF disk, env, commits, recovers, Goto, Answer, At
<1>1. /\ c \in Calls /\ c \notin Patches /\ QueryOK(c) /\ pc \in [Calls -> Steps] /\ result \in [Calls -> Results]
      /\ snapA \in [Calls -> Generations] /\ snapB \in [Calls -> Generations]
      /\ unread \in [Calls -> SUBSET Docs] /\ file \in Generations
      /\ snapA' \in [Calls -> Generations] /\ snapB' \in [Calls -> Generations]
  BY CallsAssumption, CalmFacts, <1>0 DEF Calls, TypeOK, ReadInv
<1>2. UNCHANGED <<file, backup, pos, backups, installed, gens>>
  BY DEF Read, Begin, Peek, ListDocuments, ReadDocument, reading
<1>3. QuietStep(c)
  BY <1>1, ReadIsQuiet, CalmFacts
<1>4. \A p \in Patches : pc'[p] = pc[p] /\ result'[p] = result[p] /\ snapB'[p] = snapB[p]
  BY <1>1, <1>3, PatchesAreCalls DEF QuietStep, OthersKept
<1>5. (Before' <=> Before) /\ (Over' <=> Over)
  BY <1>4 DEF Before, Over
<1>6. \A p \in Patches : WriterOK(p)'
  BY <1>2, <1>4 DEF ReadInv, WriterOK, Progress, Swapping
<1>7. ASSUME NEW b \in Queries \ {c} PROVE QueryOK(b)'
  <2>1. unread'[b] = unread[b] /\ snapA'[b] = snapA[b]
    BY <1>1 DEF Read, Begin, Peek, ListDocuments, ReadDocument, Retry, Accept, reading, Calls
  <2>2. pc'[b] = pc[b] /\ result'[b] = result[b] /\ snapB'[b] = snapB[b]
    BY <1>1, <1>3 DEF QuietStep, OthersKept, Calls
  <2>3. QueryOK(b)
    BY DEF ReadInv
  <2> QED
    BY <1>2, <1>5, <2>1, <2>2, <2>3 DEF QueryOK, Taken
<1>8. QueryOK(c)'
  <2>1. CASE Begin(c)
    <3>1. pc'[c] \in {"done", "peek1"} /\ snapB' = snapB /\ result'[c] \in {result[c], "RECOVERY_REQUIRED"}
      BY <1>1, <2>1 DEF Begin, reading
    <3>2. pc[c] = "idle"
      BY <2>1 DEF Begin
    <3> QED
      BY <1>1, <3>1, <3>2 DEF QueryOK
  <2>2. CASE Peek(c)
    <3>1. /\ UNCHANGED <<unread, snapA, snapB>> /\ pc[c] \in {"peek1", "peek2", "peek3"}
          /\ result[c] # "READ"
      BY <1>1, <2>2 DEF Peek, QueryOK
    <3>2. CASE Retry(c)
      <4>1. pc'[c] \in {"done", "peek1"} /\ result'[c] # "READ"
        BY <1>1, <3>1, <3>2 DEF Retry
      <4> QED
        BY <4>1 DEF QueryOK
    <3>3. CASE ~LockedByOther(c) /\ pc[c] = "peek3" /\ snapA[c] = snapB[c] /\ Accept(c)
      <4>1. pc'[c] = "done"
        BY <1>1, <3>3 DEF Accept
      <4>2. snapB[c] \in gens
        BY <1>1, <3>3 DEF QueryOK, ReadInv
      <4> QED
        BY <1>2, <3>1, <4>1, <4>2 DEF QueryOK
    <3>4. CASE /\ ~LockedByOther(c) /\ pc[c] # "peek3" /\ UNCHANGED result
               /\ Goto(c, IF pc[c] = "peek1" THEN "listA" ELSE "listB")
      <4>1. pc'[c] = "listA" \/ (pc[c] = "peek2" /\ pc'[c] = "listB")
        BY <1>1, <3>1, <3>4
      <4>2. pc[c] = "peek2" => snapA[c] \in gens \/ Over
        BY <1>1, <3>4, PastTheLock DEF QueryOK, ReadInv
      <4> QED
        BY <1>2, <1>5, <3>1, <3>4, <4>1, <4>2 DEF QueryOK
    <3> QED
      BY <2>2, <3>2, <3>3, <3>4 DEF Peek
  <2>3. CASE ListDocuments(c)
    <3> DEFINE listed == {d \in Docs : file[d] # Missing}
               empty == [d \in Docs |-> Missing]
    <3>1. /\ unread'[c] = listed /\ result' = result /\ pc[c] \in {"listA", "listB"} /\ result[c] # "READ"
          /\ pc[c] = "listA" => snapA'[c] = empty /\ pc'[c] = IF listed = {} THEN "peek2" ELSE "readA"
          /\ pc[c] = "listB" => /\ snapB'[c] = empty /\ snapA' = snapA
                                /\ pc'[c] = IF listed = {} THEN "peek3" ELSE "readB"
      BY <1>1, <2>3 DEF ListDocuments, NextPeek, QueryOK
    <3>2. /\ \A d \in Docs \ listed : empty[d] = file[d]
          /\ listed = {} => empty = file
      BY <1>1 DEF Generations
    <3>3. pc[c] = "listA" => QueryOK(c)'
      <4>1. pc[c] = "listA" => Taken(snapA, c)'
        BY <1>2, <3>1, <3>2 DEF Taken
      <4> QED
        BY <1>2, <3>1, <3>2, <4>1 DEF QueryOK
    <3>4. pc[c] = "listB" => QueryOK(c)'
      <4>1. pc[c] = "listB" => Taken(snapB, c)' /\ (snapA[c] \in gens \/ Over)
        BY <1>1, <1>2, <3>1, <3>2 DEF Taken, QueryOK
      <4> QED
        BY <1>2, <1>5, <3>1, <3>2, <4>1 DEF QueryOK
    <3> QED
      BY <3>1, <3>3, <3>4
  <2>4. CASE ReadDocument(c)
    <3>1. PICK d \in unread[c] :
              /\ pc[c] \in {"readA", "readB"} /\ unread' = [unread EXCEPT ![c] = @ \ {d}]
              /\ IF pc[c] = "readA"
                   THEN snapA' = [snapA EXCEPT ![c][d] = file[d]] /\ UNCHANGED snapB
                   ELSE snapB' = [snapB EXCEPT ![c][d] = file[d]] /\ UNCHANGED snapA
              /\ IF file[d] = Missing THEN Answer(c, "ADAPTER_READ_ERROR")
                 ELSE /\ IF unread[c] = {d} THEN Goto(c, NextPeek(pc[c])) ELSE UNCHANGED pc
                      /\ UNCHANGED result
      BY <2>4 DEF ReadDocument
    <3>2. d \in Docs /\ unread'[c] = unread[c] \ {d} /\ result[c] # "READ"
      BY <1>1, <3>1 DEF QueryOK
    <3>3. CASE file[d] = Missing
      <4>1. pc'[c] = "done" /\ result'[c] # "READ"
        BY <1>1, <3>1, <3>3
      <4> QED
        BY <4>1 DEF QueryOK
    <3>4. CASE file[d] # Missing /\ pc[c] = "readA"
      <4>1. snapA'[c] = [snapA[c] EXCEPT ![d] = file[d]] /\ result' = result
        BY <1>1, <3>1, <3>4
      <4>2. pc'[c] = "readA" \/ (pc'[c] = "peek2" /\ unread'[c] = {})
        BY <1>1, <3>1, <3>2, <3>4 DEF NextPeek
      <4>3. Before => Taken(snapA, c)'
        BY <1>1, <1>2, <3>2, <3>4, <4>1 DEF QueryOK, Taken, Generations
      <4>4. Before /\ unread'[c] = {} => snapA'[c] = file
        <5>1. snapA'[c] \in Generations
          BY <1>1
        <5> QED
          BY <1>1, <1>2, <4>3, <5>1 DEF Taken, Generations
      <4> QED
        BY <1>2, <1>5, <3>2, <4>1, <4>2, <4>3, <4>4 DEF QueryOK
    <3>5. CASE file[d] # Missing /\ pc[c] = "readB"
      <4>1. snapB'[c] = [snapB[c] EXCEPT ![d] = file[d]] /\ snapA' = snapA /\ result' = result
        BY <1>1, <3>1, <3>5
      <4>2. pc'[c] = "readB" \/ (pc'[c] = "peek3" /\ unread'[c] = {})
        BY <1>1, <3>1, <3>2, <3>5 DEF NextPeek
      <4>3. snapA[c] \in gens \/ (Over /\ Taken(snapB, c)')
        BY <1>1, <1>2, <3>2, <3>5, <4>1 DEF QueryOK, Taken, Generations
      <4>4. unread'[c] = {} /\ Taken(snapB, c)' => snapB'[c] = file
        <5>1. snapB'[c] \in Generations
          BY <1>1
        <5> QED
          BY <1>1, <1>2, <5>1 DEF Taken, Generations
      <4> QED
        BY <1>2, <1>5, <3>2, <4>1, <4>2, <4>3, <4>4 DEF QueryOK
    <3> QED
      BY <3>1, <3>3, <3>4, <3>5
  <2> QED
    BY <2>1, <2>2, <2>3, <2>4 DEF Read
<1> QED
  BY <1>2, <1>5, <1>6, <1>7, <1>8 DEF ReadInv

\* A step of a writer leaves the queries where they are.
LEMMA QueriesKept ==
    ASSUME Calm, NEW p \in Patches, Read(p) \/ Locking(p) \/ Writes(p), OthersKept(p)
    PROVE  /\ gens \subseteq gens'
           /\ \A c \in Queries : /\ pc'[c] = pc[c] /\ result'[c] = result[c] /\ unread'[c] = unread[c]
                                 /\ snapA'[c] = snapA[c] /\ snapB'[c] = snapB[c]
<1>1. \A c \in Queries : c \in Calls \ {p}
  BY CallsAssumption DEF Calls
<1>2. snapA \in [Calls -> Generations] /\ unread \in [Calls -> SUBSET Docs]
  BY CalmFacts DEF TypeOK
<1>3. CASE Read(p)
  <2>1. gens' = gens /\ \A c \in Calls \ {p} : unread'[c] = unread[c] /\ snapA'[c] = snapA[c]
    BY <1>2, <1>3, PatchesAreCalls DEF Read, Begin, Peek, ListDocuments, ReadDocument, Retry, Accept, reading
  <2> QED
    BY <1>1, <2>1 DEF OthersKept
<1>4. CASE Locking(p)
  <2>1. gens' = gens /\ UNCHANGED <<unread, snapA>>
    BY <1>4 DEF Locking, OpenLock, InspectLock, ReopenLock, StampLock, ReleaseLock, reading
  <2> QED
    BY <1>1, <2>1 DEF OthersKept
<1>5. CASE Writes(p)
  <2>1. UNCHANGED <<unread, snapA>>
    <3>1. Committing(p) => UNCHANGED <<unread, snapA>>
      BY DEF Committing, Revalidate, MakeStage, Prepare, StageDocuments, BackupDocument,
         RecordBackup, InstallDocument, RecordInstall, Verify, Commit, Cleanup, reading
    <3>2. RollingBack(p) => UNCHANGED <<unread, snapA>>
      BY DEF RollingBack, RemoveInstalled, RestoreBackup, DiscardStage, reading
    <3>3. CommitError(p) \/ RollbackError(p) => UNCHANGED <<unread, snapA>>
      BY DEF CommitError, RollbackError, reading
    <3> QED
      BY <1>5, <3>1, <3>2, <3>3 DEF Writes
  <2>2. gens \subseteq gens'
    <3>1. Committing(p) => gens \subseteq gens'
      BY DEF Committing, Revalidate, MakeStage, Prepare, StageDocuments, BackupDocument,
         RecordBackup, InstallDocument, RecordInstall, Verify, Commit, Cleanup
    <3>2. RollingBack(p) => gens \subseteq gens'
      BY DEF RollingBack, RemoveInstalled, RestoreBackup, DiscardStage
    <3>3. CommitError(p) \/ RollbackError(p) => gens \subseteq gens'
      BY DEF CommitError, RollbackError
    <3> QED
      BY <1>5, <3>1, <3>2, <3>3 DEF Writes
  <2> QED
    BY <1>1, <2>1, <2>2 DEF OthersKept
<1> QED
  BY <1>3, <1>4, <1>5

\* Only a query is answered with what it read.
LEMMA PatchesAreNotRead ==
    ASSUME TypeOK, NEW p \in Patches, result[p] # "READ", Read(p) \/ Locking(p) \/ Writes(p)
    PROVE  result'[p] # "READ"
<1> USE DEF Answer, Leave
<1>1. p \in Calls /\ p \notin Queries /\ result \in [Calls -> Results]
  BY PatchesAreCalls, CallsAssumption DEF TypeOK
<1>2. CASE Read(p)
  BY <1>1, <1>2 DEF Read, Begin, Peek, ListDocuments, ReadDocument, Retry, Accept
<1>3. CASE Locking(p)
  BY <1>1, <1>3 DEF Locking, OpenLock, CreateLock, InspectLock, ReopenLock, StampLock, ReleaseLock
<1>4. CASE Writes(p)
  <2>1. CASE Committing(p)
    <3>1. Revalidate(p) \/ MakeStage(p) \/ Prepare(p) \/ StageDocuments(p) => result'[p] # "READ"
      BY <1>1 DEF Revalidate, MakeStage, Prepare, StageDocuments
    <3>2. BackupDocument(p) \/ RecordBackup(p) \/ InstallDocument(p) \/ RecordInstall(p) => result'[p] # "READ"
      BY DEF BackupDocument, RecordBackup, InstallDocument, RecordInstall
    <3>3. Verify(p) \/ Commit(p) \/ Cleanup(p) => result'[p] # "READ"
      BY <1>1 DEF Verify, Commit, Cleanup
    <3> QED
      BY <2>1, <3>1, <3>2, <3>3 DEF Committing
  <2>2. CASE RollingBack(p)
    BY <1>1, <2>2 DEF RollingBack, RemoveInstalled, RestoreBackup, DiscardStage
  <2>3. CASE CommitError(p) \/ RollbackError(p)
    BY <1>1, <2>3 DEF CommitError, RollbackError
  <2> QED
    BY <1>4, <2>1, <2>2, <2>3 DEF Writes
<1> QED
  BY <1>2, <1>3, <1>4

\* A writer that reads, or is at the lock.
LEMMA QuietWriterKeeps ==
    ASSUME Calm, AtomicInv, AllAlive, ReadInv, LoneWriter, NEW p \in Patches, Read(p) \/ Locking(p) PROVE ReadInv'
<1>1. QuietStep(p)
  BY ReadIsQuiet, LockingIsQuiet, CalmFacts, PatchesAreCalls
<1>2. \A q \in Patches : q = p
  BY DEF LoneWriter
<1>3. /\ gens \subseteq gens' /\ UNCHANGED <<file, backup>>
      /\ \A c \in Queries : /\ pc'[c] = pc[c] /\ result'[c] = result[c] /\ unread'[c] = unread[c]
                            /\ snapA'[c] = snapA[c] /\ snapB'[c] = snapB[c]
  BY <1>1, QueriesKept DEF QuietStep, DiskKept
<1>4. \/ pc[p] \in Fresh /\ pc'[p] \in Fresh \cup {"done", "release"}
      \/ pc[p] = "release" /\ pc'[p] = "done"
  BY <1>1 DEF QuietStep
<1>5. Fresh \cap {"release", "done"} = {}
  BY KindsOfSteps
<1>6. (Before' => Before) /\ (Over => Over') /\ (Over' => Before \/ Over)
  BY <1>2, <1>4, <1>5 DEF Before, Over
<1>7. WriterOK(p)'
  <2>1. result'[p] # "READ"
    BY PatchesAreNotRead, CalmFacts DEF ReadInv, WriterOK
  <2> QED
    BY <1>4, <2>1 DEF WriterOK, Progress, Midway, Fresh, Unanswered, Recoveries, UndoSteps, CommitSteps, RollbackSteps, SwapSteps
<1>8. ASSUME NEW c \in Queries PROVE QueryOK(c)'
  <2>1. QueryOK(c)
    BY DEF ReadInv
  <2> QED
    BY <1>3, <1>6, <2>1 DEF QueryOK, Taken
<1> QED
  BY <1>2, <1>3, <1>6, <1>7, <1>8 DEF ReadInv

\* Every change up to the one under way is in `installed`.
LEMMA ProgressKeeps ==
    ASSUME Calm, NEW p \in Patches, Progress(p), Undoable, Writes(p) PROVE Progress(p)'
<1> USE DEF At, Goto, Leave
<1>1. p \in Calls /\ pc \in [Calls -> Steps] /\ pos \in [Patches -> Nat] /\ installed \in [Patches -> SUBSET Docs]
      /\ DOMAIN Changes[p] = 1 .. Len(Changes[p]) /\ Len(Changes[p]) \in Nat
  BY CalmFacts, PatchesAreCalls, ChangeTyping DEF TypeOK
<1>2. CASE pc'[p] \notin SwapSteps \cup {"verify", "commit"}
  BY <1>2 DEF Progress
<1>3. CASE StageDocuments(p)
  BY <1>1, <1>3 DEF StageDocuments, Progress, SwapSteps
<1>4. CASE BackupDocument(p) \/ RecordBackup(p) \/ InstallDocument(p)
  <2>1. /\ UNCHANGED <<pos, installed>> /\ pc[p] \in SwapSteps
        /\ pc'[p] \in {"noteBackup", "install", "noteInstall", "rollback"}
    BY <1>1, <1>4 DEF BackupDocument, RecordBackup, InstallDocument, SwapSteps, commits
  <2> QED
    BY <2>1 DEF Progress
<1>5. CASE RecordInstall(p)
  <2>1. /\ installed'[p] = installed[p] \cup {Swapping(p).doc} /\ pos'[p] = pos[p] + 1 /\ pc[p] = "noteInstall"
        /\ pc'[p] = IF pos[p] = Len(Changes[p]) THEN "verify" ELSE "backup"
    BY <1>1, <1>5 DEF RecordInstall
  <2>2. pc[p] \in SwapSteps /\ pos[p] \in DOMAIN Changes[p] /\ pos[p] \in Nat
    BY <1>1, <2>1, CalmFacts DEF SwapSteps, SwapsAChange
  <2>3. ASSUME NEW i \in DOMAIN Changes[p], i < pos[p] + 1 PROVE Changes[p][i].doc \in installed'[p]
    <3>1. i = pos[p] \/ i < pos[p]
      BY <1>1, <2>2, <2>3
    <3> QED
      BY <2>1, <2>2, <3>1 DEF Progress, Swapping
  <2>4. pc'[p] = "verify" => \A i \in DOMAIN Changes[p] : i < pos[p] + 1
    BY <1>1, <2>1, <2>2
  <2> QED
    BY <2>1, <2>3, <2>4 DEF Progress
<1>6. CASE Verify(p)
  <2>1. pc[p] = "verify" /\ pc'[p] \in {"commit", "rollback"} /\ installed' = installed
    BY <1>1, <1>6 DEF Verify, commits
  <2> QED
    BY <2>1 DEF Progress, SwapSteps
<1>7. CASE Revalidate(p) \/ MakeStage(p) \/ Prepare(p) \/ Commit(p) \/ Cleanup(p)
  <2>1. pc'[p] \in {"release", "mkstage", "prepare", "stage", "cleanup"}
    BY <1>1, <1>7 DEF Revalidate, MakeStage, Prepare, Commit, Cleanup
  <2> QED
    BY <1>2, <2>1 DEF SwapSteps
<1>8. CASE RollingBack(p)
  <2>1. RemoveInstalled(p) => pc'[p] \in {"rollback", "restore"}
    BY <1>1 DEF RemoveInstalled
  <2>2. RestoreBackup(p) => pc'[p] \in {"restore", "discard", "release"}
    BY <1>1 DEF RestoreBackup
  <2>3. DiscardStage(p) => pc'[p] = "release"
    BY <1>1 DEF DiscardStage
  <2> QED
    BY <1>2, <1>8, <2>1, <2>2, <2>3 DEF SwapSteps, RollingBack
<1>9. CASE CommitError(p) \/ RollbackError(p)
  <2>1. pc'[p] \in {"rollback", "release"}
    BY <1>1, <1>9 DEF CommitError, RollbackError, Undoable
  <2> QED
    BY <1>2, <2>1 DEF SwapSteps
<1> QED
  BY <1>3, <1>4, <1>5, <1>6, <1>7, <1>8, <1>9 DEF Writes, Committing

\* At the commit point an archived document has gone from its place.
LEMMA ArchivedIsGone ==
    ASSUME Calm, AtomicInv, NEW p \in Patches, Alive(p), Progress(p), pc[p] = "commit", NEW d \in Docs, Archives(p, d)
    PROVE  file[d] = Missing
<1>1. pc[p] \in Midway
  BY DEF Midway, CommitSteps
<1>2. Kept(p) /\ Recorded(p)
  BY <1>1, MidwayFacts
<1>3. d \in installed[p]
  BY DEF Archives, Progress
<1> QED
  BY <1>2, <1>3 DEF Kept, Recorded, Moved

\* The step of the lone writer: when it is over, a whole generation is in place.
LEMMA WriterStep ==
    ASSUME Calm, AtomicInv, AllAlive, ReadInv, Undoable, "restore" \notin FaultPoints, ArchivesAreWhole, LoneWriter,
           NEW p \in Patches, Writes(p), Moves(p)
    PROVE  /\ pc[p] \notin {"release", "done"} /\ pc'[p] \notin Fresh \cup {"done"}
           /\ pc'[p] = "release" => file' \in gens'
           /\ WriterOK(p)'
<1>1. /\ p \in Calls /\ pc \in [Calls -> Steps] /\ file \in Generations /\ snapB[p] \in Generations
      /\ backup \in [Patches -> Generations] /\ backups \in [Patches -> SUBSET Docs] /\ Alive(p)
  BY CalmFacts, PatchesAreCalls, AllAliveMeans DEF TypeOK
<1>2. WriterOK(p) /\ snapB'[p] = snapB[p]
  BY DEF ReadInv, Moves
<1>3. Progress(p)' /\ result'[p] # "READ"
  BY <1>2, ProgressKeeps, PatchesAreNotRead, CalmFacts DEF WriterOK
<1>4. pc[p] \in Fresh => file \in gens
  BY DEF ReadInv, Before, LoneWriter
<1>5. CASE Revalidate(p)
  <2>1. pc[p] = "revalidate" /\ pc[p] \in Fresh /\ UNCHANGED <<file, backup, backups, gens>>
    BY <1>5 DEF Revalidate, At, Fresh, disk, commits
  <2>2. pc'[p] = "release" \/ (pc'[p] = "mkstage" /\ file = snapB[p])
    BY <1>1, <1>5 DEF Revalidate, Goto, Leave
  <2>3. file \in gens /\ backups[p] = {}
    BY <1>1, <1>4, <2>1 DEF AtomicInv, CallOK, FreshOK
  <2> QED
    BY <1>3, <1>2, <2>1, <2>2, <2>3 DEF WriterOK, Fresh, Unanswered, Recoveries, UndoSteps, Midway, CommitSteps, RollbackSteps
<1>6. CASE MakeStage(p) \/ Prepare(p) \/ StageDocuments(p)
  <2>1. pc[p] \in {"mkstage", "prepare", "stage"} /\ UNCHANGED <<file, backup, backups, gens>>
    BY <1>6 DEF MakeStage, Prepare, StageDocuments, At, disk, commits
  <2>2. pc'[p] \in {"prepare", "stage", "backup"}
    BY <1>1, <1>6 DEF MakeStage, Prepare, StageDocuments, Goto
  <2> QED
    BY <1>3, <1>2, <2>1, <2>2 DEF WriterOK, Fresh, Unanswered, Recoveries, UndoSteps, Midway, CommitSteps, RollbackSteps
<1>7. CASE BackupDocument(p)
  <2>1. pc[p] = "backup" /\ pc[p] \in Midway /\ pc[p] \in SwapSteps /\ UNCHANGED <<pos, backups, gens>>
    BY <1>7 DEF BackupDocument, At, commits, SwapSteps, Midway, CommitSteps
  <2>2. PICK d : d = Swapping(p).doc
    OBVIOUS
  <2>3. d \in Docs /\ Swapping(p)'.doc = d
    BY <2>1, <2>2, SwappingFacts DEF Swapping
  <2>4. \/ /\ pc'[p] = "noteBackup" /\ file[d] # Missing
           /\ backup' = [backup EXCEPT ![p][d] = file[d]]
        \/ pc'[p] \in {"install", "rollback"} /\ UNCHANGED backup
    BY <1>1, <1>7, <2>2 DEF BackupDocument, Goto
  <2>5. \A e \in Docs : backup[p][e] # Missing => backup'[p][e] # Missing
    BY <1>1, <2>3, <2>4 DEF Generations
  <2>6. pc'[p] = "noteBackup" => backup'[p][d] # Missing
    BY <1>1, <2>3, <2>4 DEF Generations
  <2>7. pc'[p] \in {"noteBackup", "install", "rollback"}
    BY <2>4
  <2>8. snapB[p] \in gens /\ \A e \in backups[p] : e \in Docs /\ backup[p][e] # Missing
    BY <1>1, <1>2, <2>1 DEF WriterOK
  <2> QED
    BY <1>3, <1>2, <2>1, <2>3, <2>5, <2>6, <2>7, <2>8 DEF WriterOK, Fresh, Unanswered, Recoveries, UndoSteps
<1>8. CASE RecordBackup(p)
  <2>1. pc[p] = "noteBackup" /\ pc[p] \in Midway /\ UNCHANGED <<backup, gens>>
    BY <1>8 DEF RecordBackup, At, disk, Midway, CommitSteps
  <2>2. pc'[p] = "install" /\ backups'[p] = backups[p] \cup {Swapping(p).doc}
    BY <1>1, <1>8 DEF RecordBackup, Goto
  <2> QED
    BY <1>3, <1>2, <2>1, <2>2 DEF WriterOK, Fresh, Unanswered, Recoveries, UndoSteps
<1>9. CASE InstallDocument(p) \/ RecordInstall(p)
  <2>1. pc[p] \in {"install", "noteInstall"} /\ UNCHANGED <<backup, backups, gens>>
    BY <1>9 DEF InstallDocument, RecordInstall, At, commits
  <2>2. pc'[p] \in {"noteInstall", "verify", "backup"}
    BY <1>1, <1>9 DEF InstallDocument, RecordInstall, Goto
  <2> QED
    BY <1>3, <1>2, <2>1, <2>2 DEF WriterOK, Fresh, Unanswered, Recoveries, UndoSteps, Midway, CommitSteps, RollbackSteps
<1>10. CASE Verify(p)
  <2>1. pc[p] = "verify" /\ UNCHANGED <<file, backup, backups>>
    BY <1>10 DEF Verify, At, disk, commits
  <2>2. (pc'[p] = "commit" /\ gens' = gens \cup {file}) \/ (pc'[p] = "rollback" /\ gens' = gens)
    BY <1>1, <1>10 DEF Verify, Goto
  <2>3. pc[p] \in Midway
    BY <2>1 DEF Midway, CommitSteps
  <2> QED
    BY <1>3, <1>2, <2>1, <2>2, <2>3 DEF WriterOK, Fresh, Unanswered, Recoveries, UndoSteps
<1>11. CASE CommitError(p)
  <2>1. pc[p] \in Midway /\ UNCHANGED <<file, backup, backups, gens>>
    BY <1>11 DEF CommitError, Undoable, commits, Midway
  <2>2. pc'[p] = "rollback"
    BY <1>1, <1>11 DEF CommitError, Goto
  <2> QED
    BY <1>3, <1>2, <2>1, <2>2 DEF WriterOK, Fresh, Unanswered, Recoveries, UndoSteps, Midway, CommitSteps, RollbackSteps
<1>12. CASE Commit(p)
  <2>1. pc[p] = "commit" /\ pc[p] \in Midway /\ gens' = gens
    BY <1>12 DEF Commit, At, Midway, CommitSteps
  <2>2. pc'[p] = "cleanup"
    BY <1>1, <1>12 DEF Commit, Goto
  <2>3. file' = file
    <3>1. CASE \E i \in DOMAIN Changes[p] : Changes[p][i].op = "archive"
      <4>1. \A i \in DOMAIN Changes[p] : Changes[p][i].doc \in Docs
        BY ChangeTyping
      <4>2. \A d \in Docs : Archives(p, d)
        BY <3>1, <4>1 DEF ArchivesAreWhole, Archives
      <4>3. \A d \in Docs : file[d] = Missing
        BY <1>1, <1>2, <2>1, <4>2, ArchivedIsGone DEF WriterOK
      <4> QED
        BY <1>1, <1>12, <3>1, <4>3 DEF Commit, Generations
    <3>2. CASE ~\E i \in DOMAIN Changes[p] : Changes[p][i].op = "archive"
      BY <1>12, <3>2 DEF Commit
    <3> QED
      BY <3>1, <3>2
  <2> QED
    BY <1>3, <1>2, <2>1, <2>2, <2>3 DEF WriterOK, Fresh, Unanswered, Recoveries, UndoSteps, Midway, CommitSteps, RollbackSteps
<1>13. CASE Cleanup(p)
  <2>1. pc[p] = "cleanup" /\ UNCHANGED <<file, gens>>
    BY <1>13 DEF Cleanup, At
  <2>2. pc'[p] = "release"
    BY <1>1, <1>13 DEF Cleanup, Goto, Leave
  <2> QED
    BY <1>3, <1>2, <2>1, <2>2 DEF WriterOK, Fresh, Unanswered, Recoveries, UndoSteps, Midway, CommitSteps, RollbackSteps
<1>14. CASE RemoveInstalled(p)
  <2>1. pc[p] = "rollback" /\ pc[p] \in Midway /\ UNCHANGED <<backup, backups, gens>>
    BY <1>14 DEF RemoveInstalled, At, Midway, RollbackSteps
  <2>2. pc'[p] \in {"rollback", "restore"}
    BY <1>1, <1>14, <2>1 DEF RemoveInstalled, Goto
  <2> QED
    BY <1>3, <1>2, <2>1, <2>2 DEF WriterOK, Fresh, Unanswered, Recoveries, UndoSteps
<1>15. CASE RestoreBackup(p)
  <2>1. pc[p] = "restore" /\ pc[p] \in Midway /\ gens' = gens
    BY <1>15 DEF RestoreBackup, At, Midway, RollbackSteps
  <2>2. snapB[p] \in gens /\ \A e \in backups[p] : e \in Docs /\ backup[p][e] # Missing
    BY <1>1, <1>2, <2>1 DEF WriterOK
  <2>3. \/ Goto(p, "discard") /\ UNCHANGED <<backup, backups>>
        \/ \E d \in backups[p] : /\ backup' = [backup EXCEPT ![p][d] = Missing] /\ UNCHANGED pc
                                 /\ backups' = [backups EXCEPT ![p] = @ \ {d}]
    BY <1>15, <2>2 DEF RestoreBackup
  <2>4. \A e \in backups'[p] : backup'[p][e] # Missing
    BY <1>1, <2>2, <2>3 DEF Generations
  <2>5. pc'[p] \in {"discard", "restore"}
    BY <1>1, <2>1, <2>3 DEF Goto
  <2> QED
    BY <1>3, <1>2, <2>1, <2>2, <2>4, <2>5 DEF WriterOK, Fresh, Unanswered, Recoveries, UndoSteps
<1>16. CASE DiscardStage(p) \/ RollbackError(p)
  <2>1. pc[p] = "discard" /\ pc[p] \in Midway /\ UNCHANGED <<file, gens>>
    BY <1>16 DEF DiscardStage, RollbackError, Undoable, At, Midway, RollbackSteps
  <2>2. file = snapB[p]
    BY <1>1, <2>1, MidwayFacts DEF SwapOK
  <2>3. pc'[p] = "release"
    BY <1>1, <1>16, <2>1 DEF DiscardStage, RollbackError, Goto, Leave
  <2> QED
    BY <1>3, <1>2, <2>1, <2>2, <2>3 DEF WriterOK, Fresh, Unanswered, Recoveries, UndoSteps, Midway, CommitSteps, RollbackSteps
<1> QED
  BY <1>5, <1>6, <1>7, <1>8, <1>9, <1>10, <1>11, <1>12, <1>13, <1>14, <1>15, <1>16
     DEF Writes, Committing, RollingBack

\* So the query that starts afterwards, or has started before, sees one.
LEMMA WriterKeeps ==
    ASSUME Calm, AtomicInv, AllAlive, ReadInv, Undoable, "restore" \notin FaultPoints, ArchivesAreWhole, LoneWriter,
           NEW p \in Patches, Writes(p)
    PROVE  ReadInv'
<1>1. Moves(p)
  BY WritesKeep
<1>2. /\ pc[p] \notin {"release", "done"} /\ pc'[p] \notin Fresh \cup {"done"}
      /\ pc'[p] = "release" => file' \in gens'
      /\ WriterOK(p)'
  BY <1>1, WriterStep
<1>3. \A q \in Patches : q = p
  BY DEF LoneWriter
<1>4. ~Over /\ ~Before' /\ (Over' => file' \in gens') /\ (\A q \in Patches : WriterOK(q)')
  BY <1>2, <1>3 DEF Before, Over
<1>5. /\ gens \subseteq gens'
      /\ \A c \in Queries : /\ pc'[c] = pc[c] /\ result'[c] = result[c] /\ unread'[c] = unread[c]
                            /\ snapA'[c] = snapA[c] /\ snapB'[c] = snapB[c]
  BY <1>1, QueriesKept DEF Moves
<1>6. ASSUME NEW c \in Queries PROVE QueryOK(c)'
  <2>1. QueryOK(c)
    BY DEF ReadInv
  <2> QED
    BY <1>4, <1>5, <2>1 DEF QueryOK
<1> QED
  BY <1>4, <1>6 DEF ReadInv

\* A crash takes a process away: none does between two states in which all live.
LEMMA NobodyCrashes == ASSUME AllAlive, AllAlive' PROVE ~Crashing
<1>1. \A pid \in Pids : Kill(pid) => alive' # Pids
  BY DEF Kill
<1>2. \A p \in Patches : PidOf[p] \in Pids
  BY PatchesAreCalls, CallsAssumption
<1> QED
  BY <1>1, <1>2 DEF Crashing, Crash, CrashTearsJournal, CrashMidRemoval, AllAlive

\* Beside one writer of another process, and no other, every query that is answered
\* saw a complete generation (readConsistentRepositorySpecs), however often it tried
\* and whatever the writer's commit or rollback was doing, as long as no restoring
\* rename fails half way and an archival moves the whole specification directory.
THEOREM ReadsAreWholeBesideOneWriter ==
    /\ MaxCrashes = 0 /\ Undoable /\ "restore" \notin FaultPoints
    /\ ArchivesAreWhole /\ LoneWriter /\ OtherProcess
    => (Spec => []ReadsAreWhole)
<1> SUFFICES ASSUME MaxCrashes = 0, Undoable, "restore" \notin FaultPoints,
                    ArchivesAreWhole, LoneWriter, OtherProcess
             PROVE  Spec => []ReadsAreWhole
  OBVIOUS
<1>1. Init => ReadInv
  <2> SUFFICES ASSUME Init PROVE ReadInv
    OBVIOUS
  <2>1. file \in gens /\ \A c \in Calls : pc[c] = "idle" /\ result[c] = "none"
    BY DEF Init
  <2>2. \A p \in Patches : WriterOK(p)
    BY <2>1, PatchesAreCalls DEF WriterOK, Progress, SwapSteps, Midway, CommitSteps, RollbackSteps
  <2>3. \A c \in Queries : QueryOK(c)
    BY <2>1 DEF QueryOK, Calls
  <2> QED
    BY <2>1, <2>2, <2>3 DEF ReadInv
<1>2. ASSUME Calm, AtomicInv, AllAlive, AllAlive', ReadInv, [Next]_vars PROVE ReadInv'
  <2>1. CASE UNCHANGED vars
    <3>1. UNCHANGED <<file, backup, pc, result, unread, snapA, snapB, pos, backups, installed, gens>>
      BY <2>1 DEF vars, disk, reading, commits
    <3> QED
      BY <1>2, <3>1 DEF ReadInv, WriterOK, QueryOK, Progress, Before, Over, Taken, Swapping
  <2>2. ASSUME NEW c \in Calls, Read(c) PROVE ReadInv'
    <3>1. c \in Queries => ReadInv'
      BY <1>2, <2>2, QueryKeeps
    <3>2. c \in Patches => ReadInv'
      BY <1>2, <2>2, QuietWriterKeeps
    <3> QED
      BY <3>1, <3>2 DEF Calls
  <2>3. CASE \E p \in Patches : Locking(p)
    BY <1>2, <2>3, QuietWriterKeeps
  <2>4. CASE \E p \in Patches : Writes(p)
    BY <1>2, <2>4, WriterKeeps
  <2>5. ~(\E p \in Patches : Recovering(p)) /\ ~Crashing
    BY <1>2, AllAliveMeans, NobodyCrashes
  <2> QED
    BY <1>2, <2>1, <2>2, <2>3, <2>4, <2>5, StepKinds
<1>3. ReadInv => ReadsAreWhole
  BY DEF ReadInv, QueryOK, WriterOK, ReadsAreWhole, Calls
<1>4. Spec => [](Calm /\ AtomicInv) /\ []AllAlive
  BY AtomicAlways, AliveAlways, PTL
<1>5. (Calm /\ AtomicInv) /\ AllAlive /\ AllAlive' /\ ReadInv /\ [Next]_vars => ReadInv'
  BY <1>2
<1> QED
  BY <1>1, <1>3, <1>4, <1>5, PTL DEF Spec
=============================================================================
