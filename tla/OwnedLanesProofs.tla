-------------------------- MODULE OwnedLanesProofs --------------------------
(***************************************************************************)
(* Proofs about OwnedLanes, for any set of Runs and any set of them whose   *)
(* consent requests the product may grant.                                  *)
(***************************************************************************)
EXTENDS OwnedLanes, TLAPS

USE NoneIsNoRun, AnsweredAssumption
USE DEF allVars, laneVars, recoveryVars, rootVars, targetVars, memoryVars, bundleVars,
        GoTo, Acquire, Release, WriteBlock, LockIsFree, Blocked

-----------------------------------------------------------------------------
(* Types *)

\* The aggregate of any statuses is one of the three.
LEMMA AggregateIsAStatus == \A statuses : Aggregate(statuses) \in Statuses
  BY DEF Aggregate, Statuses

\* PASS is the aggregate of statuses without INCONCLUSIVE only.
LEMMA PassIsWhole ==
    \A statuses : Aggregate(statuses) = "PASS" => "INCONCLUSIVE" \notin statuses
  BY DEF Aggregate

\* A scan finds some of the rows, and what it leaves is at most a worker's mark.
LEMMA ScanLeavesMarks ==
    ASSUME NEW present \in SUBSET RowKinds
    PROVE  /\ Owned(present) \subseteq present
           /\ present \ Owned(present) \subseteq {"mark"}
           /\ Owned(present \ Owned(present)) = {}
           /\ Owned(present) = {} <=> present \subseteq {"mark"}
           /\ "event" \in present => Owned(present) = present
  BY DEF Owned, RowKinds

\* The end of a process keeps the types.
LEMMA ForgetType ==
    ASSUME TypeOK, NEW r \in Runs, Forget(r)
    PROVE  /\ facts' \in [Runs -> {"none", "partial", "whole"}]
           /\ traced' \subseteq Runs /\ failed' \subseteq Runs
           /\ recovery' \in [Runs -> {"none", "SUCCEEDED", "FAILED"}]
           /\ residue' \in [Runs -> SUBSET RowKinds]
           /\ verdict' \in [Runs -> Statuses \cup {"none"}]
  BY DEF TypeOK, Forget

\* Every step of a Run keeps the types.
LEMMA TypeRun ==
    ASSUME TypeOK, NEW r \in Runs, LaneStep(r), UNCHANGED recoveryVars
    PROVE  TypeOK'
<1> USE DEF TypeOK, Locked, Ended
<1>1. CASE Open(r)
  <2>1. CASE GoTo(r, "refused") /\ UNCHANGED journal
    BY <1>1, <2>1 DEF Open
  <2>2. CASE GoTo(r, "registered") /\ journal' = [journal EXCEPT ![r] = "REGISTERED"]
    BY <1>1, <2>2 DEF Open
  <2> QED
    BY <1>1, <2>1, <2>2 DEF Open
<1>2. CASE Lock(r)
  BY <1>2 DEF Lock
<1>3. CASE SeedLanes(r)
  <2>1. CASE rows' = [rows EXCEPT ![r] = {"seed"}] /\ GoTo(r, "seeded") /\ UNCHANGED <<journal, failed>>
    BY <1>3, <2>1 DEF SeedLanes, RowKinds
  <2>2. CASE /\ journal' = [journal EXCEPT ![r] = "SEED_FAILED"] /\ failed' = failed \cup {r}
             /\ GoTo(r, "leave-lock") /\ UNCHANGED rows
    BY <1>3, <2>2 DEF SeedLanes
  <2> QED
    BY <1>3, <2>1, <2>2 DEF SeedLanes
<1>4. CASE MarkSeeded(r)
  <2>1. CASE /\ journal' = [journal EXCEPT ![r] = "SEEDED"] /\ product' = [product EXCEPT ![r] = "asked"]
             /\ GoTo(r, "observe") /\ UNCHANGED failed
    BY <1>4, <2>1 DEF MarkSeeded
  <2>2. CASE failed' = failed \cup {r} /\ GoTo(r, "leave-lock") /\ UNCHANGED <<journal, product>>
    BY <1>4, <2>2 DEF MarkSeeded
  <2> QED
    BY <1>4, <2>1, <2>2 DEF MarkSeeded
<1>5. CASE Observe(r)
  <2>1. facts' \in [Runs -> {"none", "partial", "whole"}] /\ failed' \subseteq Runs
    BY <1>5 DEF Observe
  <2> QED
    BY <1>5, <2>1 DEF Observe
<1>6. CASE Teardown(r)
  <2>1. rows' \in [Runs -> SUBSET RowKinds] /\ traced' \subseteq Runs
        /\ recovery' \in [Runs -> {"none", "SUCCEEDED", "FAILED"}]
    BY <1>6 DEF Teardown
  <2>2. CASE GoTo(r, "recount")
    BY <1>6, <2>1, <2>2 DEF Teardown
  <2>3. CASE GoTo(r, "cleaned")
    BY <1>6, <2>1, <2>3 DEF Teardown
  <2> QED
    BY <1>6, <2>2, <2>3 DEF Teardown
<1>7. CASE Recount(r)
  <2> DEFINE counted == IF r \in traced THEN rows[r] ELSE Owned(rows[r])
  <2>1. counted \in SUBSET RowKinds
    BY ScanLeavesMarks
  <2>2. residue' \in {residue, [residue EXCEPT ![r] = counted]}
        /\ recovery' \in {[recovery EXCEPT ![r] = "SUCCEEDED"], [recovery EXCEPT ![r] = "FAILED"]}
    BY <1>7 DEF Recount
  <2>3. residue' \in [Runs -> SUBSET RowKinds] /\ recovery' \in [Runs -> {"none", "SUCCEEDED", "FAILED"}]
    BY <2>1, <2>2
  <2> QED
    BY <1>7, <2>3 DEF Recount
<1>8. CASE CutCleanup(r)
  BY <1>8 DEF CutCleanup
<1>9. CASE FinishCleanup(r)
  <2>1. CASE journal' = [journal EXCEPT ![r] = "CLEANUP_FINISHED"] /\ UNCHANGED failed
    BY <1>9, <2>1 DEF FinishCleanup
  <2>2. CASE failed' = failed \cup {r} /\ UNCHANGED journal
    BY <1>9, <2>2 DEF FinishCleanup
  <2> QED
    BY <1>9, <2>1, <2>2 DEF FinishCleanup
<1>10. CASE LeaveLock(r)
  <2>1. CASE Forget(r) /\ GoTo(r, "raised")
    BY <1>10, <2>1, ForgetType DEF LeaveLock
  <2>2. CASE UNCHANGED memoryVars /\ GoTo(r, "conclude")
    BY <1>10, <2>2 DEF LeaveLock
  <2> QED
    BY <1>10, <2>1, <2>2 DEF LeaveLock
<1>11. CASE Conclude(r)
  <2>1. PICK status \in Statuses : verdict' = [verdict EXCEPT ![r] = status]
    BY <1>11, AggregateIsAStatus DEF Conclude, Statuses
  <2>2. block' \in Runs \cup {None}
    BY <1>11 DEF Conclude
  <2> QED
    BY <1>11, <2>1, <2>2 DEF Conclude
<1>12. CASE WriteRun(r)
  <2>1. runFile' \in [Runs -> {"ABSENT", "COMPLETED", "RESTORE_FAILED"}]
    BY <1>12 DEF WriteRun
  <2> QED
    BY <1>12, <2>1 DEF WriteRun
<1>13. CASE SealBundle(r)
  BY <1>13 DEF SealBundle
<1>14. CASE Raise(r)
  BY <1>14, ForgetType DEF Raise
<1> QED
  BY <1>1, <1>2, <1>3, <1>4, <1>5, <1>6, <1>7, <1>8, <1>9, <1>10, <1>11, <1>12,
     <1>13, <1>14 DEF LaneStep

\* So do a crash, the product and the operator.
LEMMA TypeOther ==
    ASSUME TypeOK,
           \/ \E r \in Runs : (Crash(r) \/ ProductCommits(r) \/ WorkerMarks(r)) /\ UNCHANGED recoveryVars
           \/ RecoveryStep
    PROVE  TypeOK'
<1> USE DEF TypeOK, Locked, Ended
<1>1. ASSUME NEW r \in Runs, Crash(r), UNCHANGED recoveryVars PROVE TypeOK'
  BY <1>1, ForgetType DEF Crash
<1>2. ASSUME NEW r \in Runs, ProductCommits(r) \/ WorkerMarks(r), UNCHANGED recoveryVars PROVE TypeOK'
  BY <1>2 DEF ProductCommits, WorkerMarks, RowKinds
<1>3. CASE CheckBlock
  BY <1>3 DEF CheckBlock
<1>4. CASE RecoverRows
  BY <1>4 DEF RecoverRows
<1>5. CASE RecoverRaises
  BY <1>5 DEF RecoverRaises
<1>6. CASE ConfirmRecount \/ ConfirmRecord \/ ConfirmUnlink \/ ConfirmDies
  BY <1>6 DEF ConfirmRecount, ConfirmRecord, ConfirmUnlink, ConfirmDies, ConfirmSteps
<1> QED
  BY <1>1, <1>2, <1>3, <1>4, <1>5, <1>6 DEF RecoveryStep

-----------------------------------------------------------------------------
(* The invariant *)

\* A step of one Run, or of the product for it, leaves the other Runs alone.
LEMMA OthersStay ==
    ASSUME TypeOK, NEW r \in Runs,
           LaneStep(r) \/ Crash(r) \/ ProductCommits(r) \/ WorkerMarks(r),
           NEW q \in Runs, q # r
    PROVE  /\ stage'[q] = stage[q] /\ rows'[q] = rows[q] /\ product'[q] = product[q]
           /\ journal'[q] = journal[q] /\ facts'[q] = facts[q]
           /\ (q \in traced' <=> q \in traced) /\ (q \in failed' <=> q \in failed)
           /\ recovery'[q] = recovery[q] /\ residue'[q] = residue[q]
           /\ verdict'[q] = verdict[q] /\ runFile'[q] = runFile[q]
           /\ (q \in sealed' <=> q \in sealed)
<1> USE DEF TypeOK, Forget
<1>1. CASE Open(r) \/ Lock(r) \/ SeedLanes(r) \/ MarkSeeded(r)
  BY <1>1 DEF Open, Lock, SeedLanes, MarkSeeded
<1>2. CASE Observe(r) \/ Teardown(r) \/ CutCleanup(r) \/ FinishCleanup(r)
  BY <1>2 DEF Observe, Teardown, CutCleanup, FinishCleanup
<1>3. CASE Recount(r)
  BY <1>3 DEF Recount
<1>4. CASE LeaveLock(r) \/ Conclude(r)
  BY <1>4 DEF LeaveLock, Conclude
<1>5. CASE WriteRun(r) \/ SealBundle(r) \/ Raise(r) \/ Crash(r)
  BY <1>5 DEF WriteRun, SealBundle, Raise, Crash
<1>6. CASE ProductCommits(r) \/ WorkerMarks(r)
  BY <1>6 DEF ProductCommits, WorkerMarks
<1> QED
  BY <1>1, <1>2, <1>3, <1>4, <1>5, <1>6 DEF LaneStep

\* The shared files: a Run takes a free lock, gives its own back, and blocks the
\* pair only with its own ID.
LEMMA SharedFiles ==
    ASSUME TypeOK, OneRunObserves, NEW r \in Runs,
           LaneStep(r) \/ Crash(r) \/ ProductCommits(r) \/ WorkerMarks(r)
    PROVE  /\ lock' = lock \/ (lock = None /\ lock' = r) \/ (lock = r /\ lock' = None)
           /\ block' \in {block, r} /\ maintenance' = maintenance
<1>1. CASE Lock(r)
  BY <1>1 DEF Lock
<1>2. CASE LeaveLock(r)
  BY <1>2 DEF LeaveLock, OneRunObserves, Locked
<1>3. CASE Conclude(r)
  BY <1>3 DEF Conclude
<1>4. CASE \/ Crash(r) \/ ProductCommits(r) \/ WorkerMarks(r)
           \/ (LaneStep(r) /\ ~Lock(r) /\ ~LeaveLock(r) /\ ~Conclude(r))
  BY <1>4 DEF LaneStep, Open, SeedLanes, MarkSeeded, Observe, Teardown, Recount, CutCleanup,
     FinishCleanup, WriteRun, SealBundle, Raise, Crash, ProductCommits, WorkerMarks
<1> QED
  BY <1>1, <1>2, <1>3, <1>4

\* Barred stays: no Run takes a block away.
LEMMA BarredStays ==
    ASSUME TypeOK, OneRunObserves, NEW r \in Runs,
           LaneStep(r) \/ Crash(r) \/ ProductCommits(r) \/ WorkerMarks(r), Barred
    PROVE  Barred'
  BY SharedFiles DEF Barred, TypeOK

\* What a step of a Run, or of the product for it, has to keep.
Kept(r) ==
    /\ RunHolds(r)
    /\ stage[r] \in Locked => lock = r
    /\ rows[r] # {} => journal[r] \in {"REGISTERED", "SEEDED", "CLEANUP_FINISHED"}

\* A step that only ends the process.
LEMMA EndHolds ==
    ASSUME TypeOK, OneRunObserves, JournalKnowsRows, NEW r \in Runs, RunHolds(r), Forget(r),
           stage[r] \notin Ended, stage'[r] \in Ended, UNCHANGED <<targetVars, bundleVars, recoveryVars, block, maintenance>>
    PROVE  Kept(r)'
<1> USE DEF TypeOK, RunHolds, Ended, Forget
<1>1. recovery'[r] = "none" /\ r \notin sealed /\ runFile'[r] = runFile[r]
  BY DEF FilesAreTrue
<1>2. RowsAreNoted(r)' /\ EventsAreTraced(r)' /\ ResultHolds(r)' /\ MemoryIsTrue(r)'
  BY <1>1 DEF RowsAreNoted, EventsAreTraced, ResultHolds, MemoryIsTrue
<1>3. FilesAreTrue(r)'
  BY <1>1 DEF FilesAreTrue, Barred
<1>4. BlockIsOfFailure(r)'
  BY <1>1 DEF BlockIsOfFailure
<1> QED
  BY <1>2, <1>3, <1>4 DEF Kept, Locked, JournalKnowsRows

\* From the journal to the end of the observation.
LEMMA ObservingHolds ==
    ASSUME IInv, NEW r \in Runs, UNCHANGED recoveryVars,
           Open(r) \/ Lock(r) \/ SeedLanes(r) \/ MarkSeeded(r) \/ Observe(r)
    PROVE  Kept(r)'
<1> USE DEF IInv, TypeOK, OneRunObserves, JournalKnowsRows, RunHolds, Locked, Ended
<1>1. /\ stage[r] \in {"idle", "registered", "locked", "seeded", "observe"}
      /\ stage'[r] \in {"refused", "raised", "registered", "locked", "seeded", "observe",
                         "leave-lock", "teardown"}
      /\ UNCHANGED <<recovery, residue, traced, verdict, runFile, sealed, block, maintenance>>
  BY DEF Open, Lock, SeedLanes, MarkSeeded, Observe
<1>2. recovery[r] = "none" /\ runFile[r] = "ABSENT" /\ r \notin sealed /\ block # r /\ recovering # r
  BY <1>1 DEF ResultHolds, FilesAreTrue, BlockIsOfFailure
<1>3. MemoryIsTrue(r)' /\ FilesAreTrue(r)' /\ BlockIsOfFailure(r)'
  BY <1>1, <1>2 DEF MemoryIsTrue, FilesAreTrue, BlockIsOfFailure
<1>4. CASE Open(r) \/ Lock(r)
  BY <1>1, <1>2, <1>3, <1>4 DEF Open, Lock, Kept, RowsAreNoted, EventsAreTraced, ResultHolds
<1>5. CASE SeedLanes(r)
  <2>1. stage[r] = "locked" /\ rows[r] = {} /\ journal[r] = "REGISTERED" /\ product[r] = "idle" /\ lock = r
    BY <1>5 DEF SeedLanes, RowsAreNoted
  <2>2. CASE rows' = [rows EXCEPT ![r] = {"seed"}] /\ GoTo(r, "seeded") /\ UNCHANGED <<journal, failed>>
    <3>1. rows'[r] = {"seed"} /\ stage'[r] = "seeded" /\ journal'[r] = "REGISTERED"
          /\ product'[r] = "idle" /\ lock' = r
      BY <1>5, <2>1, <2>2 DEF SeedLanes
    <3>2. RowsAreNoted(r)' /\ EventsAreTraced(r)' /\ ResultHolds(r)'
      BY <1>1, <1>2, <3>1 DEF RowsAreNoted, EventsAreTraced, ResultHolds
    <3> QED
      BY <1>3, <3>1, <3>2 DEF Kept
  <2>3. CASE /\ journal' = [journal EXCEPT ![r] = "SEED_FAILED"] /\ failed' = failed \cup {r}
             /\ GoTo(r, "leave-lock") /\ UNCHANGED rows
    <3>1. rows'[r] = {} /\ stage'[r] = "leave-lock" /\ product'[r] = "idle" /\ lock' = r /\ r \in failed'
      BY <1>5, <2>1, <2>3 DEF SeedLanes
    <3>2. RowsAreNoted(r)' /\ EventsAreTraced(r)' /\ ResultHolds(r)'
      BY <1>1, <1>2, <3>1 DEF RowsAreNoted, EventsAreTraced, ResultHolds
    <3> QED
      BY <1>3, <3>1, <3>2 DEF Kept
  <2> QED
    BY <1>5, <2>2, <2>3 DEF SeedLanes
<1>6. CASE MarkSeeded(r)
  BY <1>1, <1>2, <1>3, <1>6 DEF MarkSeeded, Kept, RowsAreNoted, EventsAreTraced, ResultHolds
<1>7. CASE Observe(r)
  BY <1>1, <1>2, <1>3, <1>7 DEF Observe, Kept, RowsAreNoted, EventsAreTraced, ResultHolds
<1> QED
  BY <1>4, <1>5, <1>6, <1>7

\* The delete and the recount: SUCCEEDED is said over a database without a row.
LEMMA CleaningHolds ==
    ASSUME IInv, NEW r \in Runs, UNCHANGED recoveryVars,
           Teardown(r) \/ Recount(r) \/ CutCleanup(r) \/ FinishCleanup(r)
    PROVE  Kept(r)'
<1> USE DEF IInv, TypeOK, OneRunObserves, JournalKnowsRows, RunHolds, Locked, Ended
<1>1. /\ stage[r] \in {"teardown", "recount", "cleaned"}
      /\ stage'[r] \in {"recount", "cleaned", "leave-lock", "leave-cut"}
      /\ UNCHANGED <<facts, verdict, runFile, sealed, lock, block, maintenance, product>>
  BY DEF Teardown, Recount, CutCleanup, FinishCleanup
<1>2. runFile[r] = "ABSENT" /\ r \notin sealed /\ block # r /\ recovering # r /\ lock = r
  BY <1>1 DEF FilesAreTrue, BlockIsOfFailure
<1>3. MemoryIsTrue(r)' /\ FilesAreTrue(r)' /\ BlockIsOfFailure(r)'
  BY <1>1, <1>2 DEF MemoryIsTrue, FilesAreTrue, BlockIsOfFailure
<1>4. CASE Teardown(r)
  <2>1. CASE /\ rows' = [rows EXCEPT ![r] = @ \ Owned(@)] /\ GoTo(r, "recount") /\ UNCHANGED recovery
             /\ traced' = IF "event" \in rows[r] THEN traced \cup {r} ELSE traced
    <3>1. rows'[r] \subseteq {"mark"} /\ rows'[r] \subseteq rows[r]
      <4>1. rows[r] \in SUBSET RowKinds /\ rows'[r] = rows[r] \ Owned(rows[r])
        BY <2>1
      <4> QED
        BY <4>1, ScanLeavesMarks
    <3>2. stage'[r] = "recount" /\ UNCHANGED <<journal, failed>>
      BY <1>4, <2>1 DEF Teardown
    <3>3. EventsAreTraced(r)'
      BY <1>1, <1>4, <2>1, <3>1, <3>2 DEF EventsAreTraced, Teardown
    <3>4. RowsAreNoted(r)' /\ ResultHolds(r)'
      BY <1>1, <1>4, <2>1, <3>1, <3>2 DEF RowsAreNoted, ResultHolds, Teardown
    <3> QED
      BY <1>2, <1>3, <3>1, <3>2, <3>3, <3>4, <1>1 DEF Kept
  <2>2. CASE recovery' = [recovery EXCEPT ![r] = "FAILED"] /\ GoTo(r, "cleaned") /\ UNCHANGED <<rows, traced>>
    BY <1>1, <1>2, <1>3, <1>4, <2>2 DEF Teardown, Kept, RowsAreNoted, EventsAreTraced, ResultHolds
  <2> QED
    BY <1>4, <2>1, <2>2 DEF Teardown
<1>5. CASE Recount(r)
  <2>1. stage[r] = "recount" /\ stage'[r] = "cleaned" /\ UNCHANGED <<rows, journal, failed>>
    BY <1>5 DEF Recount
  <2>2. /\ recovery'[r] \in {"SUCCEEDED", "FAILED"}
        /\ rows[r] \subseteq {"mark"}
    BY <1>5, <2>1 DEF Recount, EventsAreTraced
  <2>3. RowsAreNoted(r)' /\ EventsAreTraced(r)' /\ ResultHolds(r)'
    BY <1>1, <2>1, <2>2 DEF RowsAreNoted, EventsAreTraced, ResultHolds
  <2> QED
    BY <1>1, <1>2, <1>3, <2>1, <2>3 DEF Kept
<1>6. CASE CutCleanup(r)
  BY <1>1, <1>2, <1>3, <1>6 DEF CutCleanup, Kept, RowsAreNoted, EventsAreTraced, ResultHolds
<1>7. CASE FinishCleanup(r)
  BY <1>1, <1>2, <1>3, <1>7 DEF FinishCleanup, Kept, RowsAreNoted, EventsAreTraced, ResultHolds
<1> QED
  BY <1>4, <1>5, <1>6, <1>7

\* Back from the lock to the sealed bundle, or out of the process.
LEMMA EndingHolds ==
    ASSUME IInv, NEW r \in Runs, UNCHANGED recoveryVars,
           LeaveLock(r) \/ Conclude(r) \/ WriteRun(r) \/ SealBundle(r) \/ Raise(r) \/ Crash(r)
    PROVE  Kept(r)'
<1> USE DEF IInv, TypeOK, OneRunObserves, JournalKnowsRows, RunHolds, Locked, Ended
<1>1. CASE Raise(r) \/ Crash(r)
  <2>1. Forget(r) /\ stage[r] \notin Ended /\ stage'[r] \in Ended
        /\ UNCHANGED <<targetVars, bundleVars, recoveryVars, block, maintenance>>
    BY <1>1 DEF Raise, Crash
  <2> QED
    BY <2>1, EndHolds
<1>2. CASE LeaveLock(r)
  <2>1. CASE r \in failed /\ GoTo(r, "raised") /\ Forget(r)
    <3>1. Forget(r) /\ stage[r] \notin Ended /\ stage'[r] \in Ended
          /\ UNCHANGED <<targetVars, bundleVars, recoveryVars, block, maintenance>>
      BY <1>2, <2>1 DEF LeaveLock
    <3> QED
      BY <3>1, EndHolds
  <2>2. CASE r \notin failed /\ GoTo(r, "conclude") /\ UNCHANGED memoryVars
    <3>1. stage[r] = "leave-lock" /\ stage'[r] = "conclude"
          /\ UNCHANGED <<targetVars, bundleVars, recoveryVars, block, maintenance>>
      BY <1>2, <2>2 DEF LeaveLock, ResultHolds
    <3>2. RowsAreNoted(r)' /\ EventsAreTraced(r)' /\ ResultHolds(r)' /\ MemoryIsTrue(r)'
      BY <2>2, <3>1 DEF RowsAreNoted, EventsAreTraced, ResultHolds, MemoryIsTrue
    <3>3. FilesAreTrue(r)' /\ BlockIsOfFailure(r)'
      BY <2>2, <3>1 DEF FilesAreTrue, BlockIsOfFailure
    <3> QED
      BY <3>1, <3>2, <3>3 DEF Kept
  <2> QED
    BY <1>2, <2>1, <2>2 DEF LeaveLock
<1>3. CASE Conclude(r)
  <2>1. /\ stage[r] = "conclude" /\ stage'[r] = "write"
        /\ UNCHANGED <<targetVars, facts, traced, recovery, residue, failed, bundleVars, recoveryVars, maintenance>>
        /\ block' \in {block, r}
    BY <1>3 DEF Conclude
  <2>2. CleanupVerified(r)' = CleanupVerified(r)
    BY <2>1 DEF CleanupVerified
  <2>3. PICK statuses \in AssertionStatuses(r) :
            verdict' = [verdict EXCEPT ![r] =
                IF CleanupVerified(r) THEN Aggregate(statuses) ELSE "INCONCLUSIVE"]
    BY <1>3 DEF Conclude
  <2>4. /\ verdict'[r] \in {"PASS", "FAIL"} => CleanupVerified(r)
        /\ verdict'[r] = "PASS" => facts[r] = "whole"
    <3>1. verdict'[r] = IF CleanupVerified(r) THEN Aggregate(statuses) ELSE "INCONCLUSIVE"
      BY <2>3
    <3>2. facts[r] \in {"partial", "whole"}
      BY <2>1 DEF ResultHolds
    <3>3. Aggregate(statuses) = "PASS" => facts[r] = "whole"
      BY <3>2, PassIsWhole DEF AssertionStatuses
    <3> QED
      BY <3>1, <3>3
  <2>5. /\ CleanupVerified(r) => block' = block
        /\ ~CleanupVerified(r) => block' = r
    BY <1>3 DEF Conclude
  <2>6. RowsAreNoted(r)' /\ EventsAreTraced(r)' /\ ResultHolds(r)'
    BY <2>1 DEF RowsAreNoted, EventsAreTraced, ResultHolds
  <2>7. MemoryIsTrue(r)'
    BY <2>1, <2>2, <2>4, <2>5 DEF MemoryIsTrue, Barred
  <2>8. runFile[r] = "ABSENT" /\ r \notin sealed /\ block # r
    BY <2>1 DEF FilesAreTrue, BlockIsOfFailure
  <2>9. FilesAreTrue(r)' /\ BlockIsOfFailure(r)'
    BY <2>1, <2>2, <2>5, <2>8 DEF FilesAreTrue, BlockIsOfFailure
  <2> QED
    BY <2>1, <2>6, <2>7, <2>9 DEF Kept
<1>4. CASE WriteRun(r)
  <2>1. /\ stage[r] = "write" /\ stage'[r] = "seal"
        /\ UNCHANGED <<rootVars, targetVars, memoryVars, journal, sealed, recoveryVars>>
        /\ runFile'[r] = IF CleanupVerified(r) THEN "COMPLETED" ELSE "RESTORE_FAILED"
    BY <1>4 DEF WriteRun
  <2>2. CleanupVerified(r)' = CleanupVerified(r) /\ Barred' = Barred
    BY <2>1 DEF CleanupVerified, Barred
  <2>3. RowsAreNoted(r)' /\ EventsAreTraced(r)' /\ ResultHolds(r)' /\ MemoryIsTrue(r)'
    BY <2>1, <2>2 DEF RowsAreNoted, EventsAreTraced, ResultHolds, MemoryIsTrue
  <2>4. FilesAreTrue(r)'
    BY <2>1, <2>2 DEF FilesAreTrue, ResultHolds, CleanupVerified, MemoryIsTrue
  <2>5. BlockIsOfFailure(r)'
    BY <2>1, <2>2 DEF BlockIsOfFailure, FilesAreTrue
  <2> QED
    BY <2>1, <2>3, <2>4, <2>5 DEF Kept
<1>5. CASE SealBundle(r)
  <2>1. /\ stage[r] = "seal" /\ stage'[r] \in {"done", "raised"}
        /\ UNCHANGED <<rootVars, targetVars, memoryVars, journal, runFile, recoveryVars>>
    BY <1>5 DEF SealBundle
  <2>2. CleanupVerified(r)' = CleanupVerified(r) /\ Barred' = Barred
    BY <2>1 DEF CleanupVerified, Barred
  <2>3. RowsAreNoted(r)' /\ EventsAreTraced(r)' /\ ResultHolds(r)' /\ MemoryIsTrue(r)'
    BY <2>1, <2>2 DEF RowsAreNoted, EventsAreTraced, ResultHolds, MemoryIsTrue
  <2>4. FilesAreTrue(r)'
    BY <2>1, <2>2 DEF FilesAreTrue, MemoryIsTrue
  <2>5. BlockIsOfFailure(r)'
    BY <2>1, <2>2 DEF BlockIsOfFailure
  <2> QED
    BY <2>1, <2>3, <2>4, <2>5 DEF Kept
<1> QED
  BY <1>1, <1>2, <1>3, <1>4, <1>5

\* What the product adds belongs to an event that the teardown finds, or that it
\* has found.
LEMMA ProductHolds ==
    ASSUME IInv, NEW r \in Runs, UNCHANGED recoveryVars, ProductCommits(r) \/ WorkerMarks(r)
    PROVE  Kept(r)'
<1> USE DEF IInv, TypeOK, OneRunObserves, JournalKnowsRows, RunHolds, Locked, Ended
<1>1. UNCHANGED <<rootVars, stage, memoryVars, bundleVars, recoveryVars>>
  BY DEF ProductCommits, WorkerMarks
<1>2. CleanupVerified(r)' = CleanupVerified(r) /\ Barred' = Barred
  BY <1>1 DEF CleanupVerified, Barred
<1>3. MemoryIsTrue(r)' /\ BlockIsOfFailure(r)'
  BY <1>1, <1>2 DEF MemoryIsTrue, BlockIsOfFailure
<1>4. product[r] # "idle" /\ journal[r] \in {"SEEDED", "CLEANUP_FINISHED"}
      /\ stage[r] \notin {"idle", "registered", "locked", "seeded"}
  BY DEF ProductCommits, WorkerMarks, RowsAreNoted
<1>5. CASE ProductCommits(r)
  <2>1. /\ rows'[r] = rows[r] \cup {"event"} /\ product'[r] = "queued" /\ "seed" \in rows[r]
        /\ product[r] = "asked"
    BY <1>5 DEF ProductCommits
  <2>2. RowsAreNoted(r)' /\ EventsAreTraced(r)' /\ ResultHolds(r)'
    BY <1>1, <1>4, <2>1 DEF RowsAreNoted, EventsAreTraced, ResultHolds
  <2>3. FilesAreTrue(r)'
    BY <1>1, <1>2, <2>1 DEF FilesAreTrue
  <2> QED
    BY <1>1, <1>3, <1>4, <2>2, <2>3 DEF Kept
<1>6. CASE WorkerMarks(r)
  <2>1. rows'[r] = rows[r] \cup {"mark"} /\ product'[r] = "idle" /\ product[r] = "queued"
    BY <1>6 DEF WorkerMarks
  <2>2. RowsAreNoted(r)' /\ EventsAreTraced(r)' /\ ResultHolds(r)'
    BY <1>1, <1>4, <2>1 DEF RowsAreNoted, EventsAreTraced, ResultHolds
  <2>3. FilesAreTrue(r)'
    BY <1>1, <1>2, <2>1 DEF FilesAreTrue
  <2> QED
    BY <1>1, <1>3, <1>4, <2>2, <2>3 DEF Kept
<1> QED
  BY <1>5, <1>6

\* Of its own Run, a step keeps the invariant,
LEMMA OwnStep ==
    ASSUME IInv, NEW r \in Runs, UNCHANGED recoveryVars,
           LaneStep(r) \/ Crash(r) \/ ProductCommits(r) \/ WorkerMarks(r)
    PROVE  Kept(r)'
  BY ObservingHolds, CleaningHolds, EndingHolds, ProductHolds DEF LaneStep

\* and of the others too: they see the shared files at most.
LEMMA OtherStep ==
    ASSUME IInv, NEW r \in Runs, UNCHANGED recoveryVars,
           LaneStep(r) \/ Crash(r) \/ ProductCommits(r) \/ WorkerMarks(r),
           NEW q \in Runs, q # r
    PROVE  Kept(q)'
<1> USE DEF IInv, RunHolds
<1>1. /\ stage'[q] = stage[q] /\ rows'[q] = rows[q] /\ product'[q] = product[q]
      /\ journal'[q] = journal[q] /\ facts'[q] = facts[q]
      /\ (q \in traced' <=> q \in traced) /\ (q \in failed' <=> q \in failed)
      /\ recovery'[q] = recovery[q] /\ residue'[q] = residue[q]
      /\ verdict'[q] = verdict[q] /\ runFile'[q] = runFile[q]
      /\ (q \in sealed' <=> q \in sealed)
  BY OthersStay
<1>2. /\ lock = q => lock' = q
      /\ block' = q => block = q
      /\ Barred => Barred'
  BY SharedFiles, BarredStays
<1>3. CleanupVerified(q)' = CleanupVerified(q)
  BY <1>1 DEF CleanupVerified
<1>4. RowsAreNoted(q)' /\ EventsAreTraced(q)' /\ ResultHolds(q)'
  BY <1>1 DEF RowsAreNoted, EventsAreTraced, ResultHolds
<1>5. MemoryIsTrue(q)' /\ FilesAreTrue(q)'
  BY <1>1, <1>2, <1>3 DEF MemoryIsTrue, FilesAreTrue
<1>6. BlockIsOfFailure(q)'
  BY <1>1, <1>2, <1>3 DEF BlockIsOfFailure
<1> QED
  BY <1>1, <1>2, <1>4, <1>5, <1>6 DEF Kept, OneRunObserves, JournalKnowsRows

\* Every step of a Run, or of the product for it, keeps the invariant.
LEMMA RunKeeps ==
    ASSUME IInv, NEW r \in Runs, UNCHANGED recoveryVars,
           LaneStep(r) \/ Crash(r) \/ ProductCommits(r) \/ WorkerMarks(r)
    PROVE  IInv'
<1>1. TypeOK'
  BY TypeRun, TypeOther DEF IInv
<1>2. \A q \in Runs : Kept(q)'
  BY OwnStep, OtherStep
<1>3. confirm' = "recorded" => maintenance' # {}
  <2>1. maintenance' = maintenance
    BY SharedFiles DEF IInv
  <2> QED
    BY <2>1 DEF IInv
<1> QED
  BY <1>1, <1>2, <1>3 DEF IInv, Kept, OneRunObserves, JournalKnowsRows

\* The script deletes rows of a Run that said RESTORE_FAILED, and cleanup-confirm
\* takes a block away behind a confirmation only.
LEMMA OperatorKeeps ==
    ASSUME IInv, RecoveryStep
    PROVE  IInv'
<1> USE DEF IInv, RunHolds
<1>1. TypeOK'
  BY TypeOther
<1>2. UNCHANGED <<lock, stage, product, memoryVars, bundleVars>>
  BY DEF RecoveryStep, CheckBlock, RecoverRows, RecoverRaises, ConfirmRecount, ConfirmRecord,
     ConfirmUnlink, ConfirmDies
<1>3. ASSUME NEW q \in Runs
      PROVE  /\ rows'[q] = rows[q] \/ (runFile[q] = "RESTORE_FAILED" /\ rows'[q] \subseteq rows[q])
             /\ recovering' = q => runFile[q] = "RESTORE_FAILED"
             /\ block' = q => block = q
  <2>1. CASE CheckBlock
    BY <2>1 DEF CheckBlock, TypeOK, BlockIsOfFailure
  <2>2. CASE RecoverRows
    BY <2>2 DEF RecoverRows, TypeOK, BlockIsOfFailure
  <2>3. CASE RecoverRaises \/ ConfirmRecount \/ ConfirmRecord \/ ConfirmUnlink \/ ConfirmDies
    BY <2>3 DEF RecoverRaises, ConfirmRecount, ConfirmRecord, ConfirmUnlink, ConfirmDies,
       BlockIsOfFailure
  <2> QED
    BY <2>1, <2>2, <2>3 DEF RecoveryStep
<1>4. /\ Barred => Barred'
      /\ confirm' = "recorded" => maintenance' # {}
  BY DEF RecoveryStep, CheckBlock, RecoverRows, RecoverRaises, ConfirmRecount, ConfirmRecord,
     ConfirmUnlink, ConfirmDies, Barred, TypeOK
<1>5. OneRunObserves' /\ JournalKnowsRows'
  BY <1>2, <1>3 DEF OneRunObserves, JournalKnowsRows
<1>6. ASSUME NEW q \in Runs PROVE RunHolds(q)'
  <2>1. CleanupVerified(q)' = CleanupVerified(q)
    BY <1>2 DEF CleanupVerified
  <2>2. stage[q] \in {"seal"} \cup Ended \/ rows'[q] = rows[q]
    BY <1>3 DEF FilesAreTrue
  <2>3. rows'[q] \subseteq rows[q]
    BY <1>3
  <2>4. RowsAreNoted(q)' /\ EventsAreTraced(q)' /\ ResultHolds(q)'
    BY <1>2, <2>2, <2>3 DEF RowsAreNoted, EventsAreTraced, ResultHolds, Ended
  <2>5. MemoryIsTrue(q)' /\ FilesAreTrue(q)'
    BY <1>2, <1>4, <2>1, <2>3 DEF MemoryIsTrue, FilesAreTrue
  <2>6. BlockIsOfFailure(q)'
    BY <1>2, <1>3, <2>1 DEF BlockIsOfFailure
  <2> QED
    BY <2>4, <2>5, <2>6
<1> QED
  BY <1>1, <1>4, <1>5, <1>6

\* The empty run root satisfies it.
LEMMA IInvInit == SystemInit => IInv
<1> SUFFICES ASSUME SystemInit PROVE IInv
  OBVIOUS
<1> USE DEF SystemInit, LaneInit, RootInit, RecoveryInit
<1>1. TypeOK
  BY DEF TypeOK, Ended, ConfirmSteps
<1>2. OneRunObserves /\ JournalKnowsRows
  BY DEF OneRunObserves, JournalKnowsRows, Locked
<1>3. \A r \in Runs : RunHolds(r)
  BY DEF RunHolds, RowsAreNoted, EventsAreTraced, ResultHolds, MemoryIsTrue, FilesAreTrue,
     BlockIsOfFailure
<1> QED
  BY <1>1, <1>2, <1>3 DEF IInv

\* A step of the system is one of a Run, a crash, or one beside the Runs: each
\* keeps the invariant.
LEMMA IInvNext == IInv /\ [SystemNext]_allVars => IInv'
<1> SUFFICES ASSUME IInv, [SystemNext]_allVars PROVE IInv'
  OBVIOUS
<1>1. CASE UNCHANGED allVars
  BY <1>1 DEF IInv, TypeOK, OneRunObserves, JournalKnowsRows, RunHolds, RowsAreNoted,
     EventsAreTraced, ResultHolds, MemoryIsTrue, FilesAreTrue, BlockIsOfFailure, CleanupVerified,
     Barred
<1> QED
  BY <1>1, RunKeeps, OperatorKeeps DEF SystemNext, RunStep

\* The invariant behind the properties below holds of every behaviour.
THEOREM Invariance == SystemSpec => []IInv
  BY IInvInit, IInvNext, PTL DEF SystemSpec

-----------------------------------------------------------------------------
(* Safety *)

\* Every variable keeps its type.
THEOREM TypeCorrect == SystemSpec => []TypeOK
<1>1. IInv => TypeOK
  BY DEF IInv
<1> QED
  BY <1>1, Invariance, PTL

\* Only the holder of the lock seeds, observes and cleans up.
THEOREM OneObserves == SystemSpec => []OneRunObserves
<1>1. IInv => OneRunObserves
  BY DEF IInv
<1> QED
  BY <1>1, Invariance, PTL

\* Whatever dies and whenever, rows in the database belong to a Run whose journal
\* is on disk.
THEOREM JournalsKnow == SystemSpec => []JournalKnowsRows
<1>1. IInv => JournalKnowsRows
  BY DEF IInv
<1> QED
  BY <1>1, Invariance, PTL

\* A sealed PASS or FAIL comes from a Run whose own rows are gone, and a PASS from
\* a whole observation.
THEOREM VerdictsNeedCleanup == SystemSpec => []VerdictNeedsCleanup
<1>1. IInv => VerdictNeedsCleanup
  BY DEF IInv, TypeOK, RunHolds, FilesAreTrue, VerdictNeedsCleanup
<1> QED
  BY <1>1, Invariance, PTL

\* Two facts about a step: where it says SUCCEEDED, and where it deletes.
LEMMA StepFacts ==
    IInv /\ [SystemNext]_allVars =>
        /\ [\A r \in Runs :
               recovery[r] # "SUCCEEDED" /\ recovery'[r] = "SUCCEEDED" => rows[r] = {}]_allVars
        /\ [\A r \in Runs : rows[r] \ rows'[r] # {} =>
               \/ stage[r] = "teardown" /\ lock = r
               \/ runFile[r] = "RESTORE_FAILED"]_allVars
<1> SUFFICES ASSUME IInv, SystemNext, NEW q \in Runs
             PROVE  /\ recovery[q] # "SUCCEEDED" /\ recovery'[q] = "SUCCEEDED" => rows[q] = {}
                    /\ rows[q] \ rows'[q] # {} =>
                          (stage[q] = "teardown" /\ lock = q) \/ runFile[q] = "RESTORE_FAILED"
  OBVIOUS
<1> USE DEF IInv, TypeOK, RunHolds
<1>1. ASSUME NEW r \in Runs, Recount(r) PROVE recovery'[q] = "SUCCEEDED" /\ recovery[q] # "SUCCEEDED" => rows[q] = {}
  <2>1. CASE q # r
    BY <1>1, <2>1 DEF Recount
  <2>2. CASE q = r /\ recovery'[r] = "SUCCEEDED"
    <3>1. rows[r] \in SUBSET RowKinds /\ stage[r] = "recount"
          /\ (IF r \in traced THEN rows[r] ELSE Owned(rows[r])) = {}
      BY <1>1, <2>2 DEF Recount
    <3>2. "mark" \in rows[r] => r \in traced
      BY <3>1 DEF EventsAreTraced
    <3> QED
      BY <2>2, <3>1, <3>2, ScanLeavesMarks
  <2> QED
    BY <2>1, <2>2
<1>2. ASSUME NEW r \in Runs, Recount(r) PROVE rows' = rows
  BY <1>2 DEF Recount
<1>3. ASSUME NEW r \in Runs, Teardown(r)
      PROVE  /\ ~(recovery[q] # "SUCCEEDED" /\ recovery'[q] = "SUCCEEDED")
             /\ rows[q] \ rows'[q] # {} => stage[q] = "teardown" /\ lock = q
  BY <1>3 DEF Teardown, OneRunObserves, Locked
<1>4. ASSUME NEW r \in Runs,
             \/ LaneStep(r) /\ ~Recount(r) /\ ~Teardown(r)
             \/ Crash(r) \/ ProductCommits(r) \/ WorkerMarks(r)
      PROVE  /\ ~(recovery[q] # "SUCCEEDED" /\ recovery'[q] = "SUCCEEDED")
             /\ rows[q] \ rows'[q] = {}
  <2>1. CASE Open(r) \/ Lock(r) \/ MarkSeeded(r) \/ Observe(r) \/ CutCleanup(r) \/ FinishCleanup(r)
    BY <2>1 DEF Open, Lock, MarkSeeded, Observe, CutCleanup, FinishCleanup
  <2>2. CASE SeedLanes(r)
    BY <2>2 DEF SeedLanes, RowsAreNoted
  <2>3. CASE LeaveLock(r) \/ Conclude(r) \/ WriteRun(r) \/ SealBundle(r) \/ Raise(r) \/ Crash(r)
    BY <2>3 DEF LeaveLock, Conclude, WriteRun, SealBundle, Raise, Crash, Forget
  <2>4. CASE ProductCommits(r) \/ WorkerMarks(r)
    BY <2>4 DEF ProductCommits, WorkerMarks
  <2> QED
    BY <1>4, <2>1, <2>2, <2>3, <2>4 DEF LaneStep
<1>5. CASE RecoveryStep
  <2>1. recovery' = recovery
    BY <1>5 DEF RecoveryStep, CheckBlock, RecoverRows, RecoverRaises, ConfirmRecount,
       ConfirmRecord, ConfirmUnlink, ConfirmDies
  <2>2. rows' = rows \/ RecoverRows
    BY <1>5 DEF RecoveryStep, CheckBlock, RecoverRaises, ConfirmRecount, ConfirmRecord,
       ConfirmUnlink, ConfirmDies
  <2>3. RecoverRows /\ rows[q] \ rows'[q] # {} => runFile[q] = "RESTORE_FAILED"
    BY DEF RecoverRows, BlockIsOfFailure
  <2> QED
    BY <2>1, <2>2, <2>3
<1> QED
  BY <1>1, <1>2, <1>3, <1>4, <1>5 DEF SystemNext, RunStep

\* SUCCEEDED is only said over a database without a row of the Run, a worker's
\* late mark included.
THEOREM VerifiedEmpty == SystemSpec => VerifiedMeansEmpty
  BY Invariance, StepFacts, PTL DEF SystemSpec, VerifiedMeansEmpty

\* Rows are deleted by their own Run under its lock, or once it has said that it
\* left them.
THEOREM DeletesOwned == SystemSpec => DeletesAreOwned
  BY Invariance, StepFacts, PTL DEF SystemSpec, DeletesAreOwned

-----------------------------------------------------------------------------
(* Refinement: the Runs and the operator implement the promise of FaultWindow *)

Reported(r) == CASE runFile[r] = "COMPLETED"      -> "clean"
                 [] runFile[r] = "RESTORE_FAILED" -> "unsafe"
                 [] OTHER                         -> "open"

Reports == [r \in Runs |-> Reported(r)]
Occupied == {r \in Runs : Owned(rows[r]) # {}}

\* Rows found before are found with a product's row added: its event comes to a
\* seed, its mark is found by an event only.
LEMMA MoreRows ==
    ASSUME NEW present \in SUBSET RowKinds
    PROVE  /\ "seed" \in present => Owned(present) # {} /\ Owned(present \cup {"event"}) # {}
           /\ Owned(present \cup {"mark"}) = {} <=> Owned(present) = {}
  BY DEF Owned, RowKinds

\* A step of a Run puts its rows in place, takes them away or bars the pair, or
\* writes a run.json that is true.
LEMMA RefineRun ==
    ASSUME IInv, NEW r \in Runs, LaneStep(r) \/ Crash(r)
    PROVE  FW!FWNext \/ UNCHANGED FW!fwVars
<1> USE DEF IInv, TypeOK, RunHolds
<1>1. CASE SeedLanes(r)
  <2>1. UNCHANGED <<block, maintenance, runFile>>
    BY <1>1 DEF SeedLanes
  <2>2. runFile[r] = "ABSENT"
    BY <1>1 DEF SeedLanes, FilesAreTrue, Ended
  <2>3. Reports' = Reports /\ Reports[r] = "open"
    BY <2>1, <2>2 DEF Reports, Reported
  <2>4. Occupied' = Occupied \/ Occupied' = Occupied \cup {r}
    <3>1. rows' = rows \/ rows' = [rows EXCEPT ![r] = {"seed"}]
      BY <1>1 DEF SeedLanes
    <3>2. Owned({"seed"}) # {}
      BY DEF Owned
    <3>3. CASE rows' = [rows EXCEPT ![r] = {"seed"}]
      <4>1. rows'[r] = {"seed"} /\ \A q \in Runs \ {r} : rows'[q] = rows[q]
        BY <3>3
      <4>2. Owned(rows'[r]) # {}
        BY <3>2, <4>1
      <4>3. \A q \in Runs : Owned(rows'[q]) # {} <=> q = r \/ Owned(rows[q]) # {}
        BY <4>1, <4>2
      <4>4. Occupied' = Occupied \cup {r}
        BY <4>3 DEF Occupied
      <4> QED
        BY <4>4
    <3>4. CASE rows' = rows
      <4>1. Occupied' = Occupied
        BY <3>4, Zenon DEF Occupied
      <4> QED
        BY <4>1
    <3> QED
      BY <3>1, <3>3, <3>4
  <2>5. FW!Inject(r) \/ UNCHANGED FW!fwVars
    BY <2>1, <2>3, <2>4 DEF FW!Inject, FW!fwVars, Reports, Reported, Occupied
  <2> QED
    BY <2>5 DEF FW!FWNext
<1>2. CASE Teardown(r) \/ Conclude(r)
  <2>1. UNCHANGED <<maintenance, runFile>> /\ (Blocked => Blocked')
    BY <1>2 DEF Teardown, Conclude
  <2>2. Reports' = Reports
    BY <2>1 DEF Reports, Reported
  <2>3. Occupied' \in {Occupied, Occupied \ {r}}
    <3>1. rows' = rows \/ rows' = [rows EXCEPT ![r] = rows[r] \ Owned(rows[r])]
      BY <1>2 DEF Teardown, Conclude
    <3>2. CASE rows' = [rows EXCEPT ![r] = rows[r] \ Owned(rows[r])]
      <4>1. rows'[r] = rows[r] \ Owned(rows[r]) /\ \A q \in Runs \ {r} : rows'[q] = rows[q]
        BY <3>2
      <4>2. Owned(rows'[r]) = {}
        BY <4>1, ScanLeavesMarks
      <4>3. Occupied' = Occupied \ {r}
        BY <4>1, <4>2 DEF Occupied
      <4> QED
        BY <4>3
    <3>3. CASE rows' = rows
      <4>1. Occupied' = Occupied
        BY <3>3, Zenon DEF Occupied
      <4> QED
        BY <4>1
    <3> QED
      BY <3>1, <3>2, <3>3
  <2>4. FW!Withdraw(r)
    BY <2>1, <2>2, <2>3 DEF FW!Withdraw, Reports, Reported, Occupied
  <2> QED
    BY <2>4 DEF FW!FWNext
<1>3. CASE WriteRun(r)
  <2>1. /\ stage[r] = "write" /\ UNCHANGED <<rows, block, maintenance>>
        /\ runFile' = [runFile EXCEPT ![r] =
              IF CleanupVerified(r) THEN "COMPLETED" ELSE "RESTORE_FAILED"]
    BY <1>3 DEF WriteRun
  <2>2. Reports[r] = "open" /\ Occupied' = Occupied
    BY <2>1 DEF Reports, Reported, Occupied, FilesAreTrue, Ended
  <2>3. CASE CleanupVerified(r)
    <3>1. Reports' = [Reports EXCEPT ![r] = "clean"]
      BY <2>1, <2>3 DEF Reports, Reported
    <3>2. r \notin Occupied
      <4>1. rows[r] \in SUBSET RowKinds /\ rows[r] \subseteq {"mark"}
        BY <2>3 DEF ResultHolds, CleanupVerified
      <4> QED
        BY <4>1, ScanLeavesMarks DEF Occupied
    <3>3. FW!Report(r)
      BY <2>1, <2>2, <3>1, <3>2 DEF FW!Report, Reports, Reported, Occupied
    <3> QED
      BY <3>3 DEF FW!FWNext
  <2>4. CASE ~CleanupVerified(r)
    <3>1. Reports' = [Reports EXCEPT ![r] = "unsafe"]
      BY <2>1, <2>4 DEF Reports, Reported
    <3>2. Blocked \/ maintenance # {}
      BY <2>1, <2>4 DEF MemoryIsTrue, Barred
    <3>3. FW!Report(r)
      BY <2>1, <2>2, <3>1, <3>2 DEF FW!Report, Reports, Reported, Occupied
    <3> QED
      BY <3>3 DEF FW!FWNext
  <2> QED
    BY <2>3, <2>4
<1>4. CASE \/ Open(r) \/ Lock(r) \/ MarkSeeded(r) \/ Observe(r) \/ Recount(r) \/ CutCleanup(r)
           \/ FinishCleanup(r) \/ LeaveLock(r) \/ SealBundle(r) \/ Raise(r) \/ Crash(r)
  <2>1. UNCHANGED <<rows, block, maintenance, runFile>>
    BY <1>4 DEF Open, Lock, MarkSeeded, Observe, Recount, CutCleanup, FinishCleanup, LeaveLock,
       SealBundle, Raise, Crash
  <2> QED
    BY <2>1 DEF FW!fwVars
<1> QED
  BY <1>1, <1>2, <1>3, <1>4 DEF LaneStep

\* What the product adds puts no further Run in place.
LEMMA RefineProduct ==
    ASSUME IInv, NEW r \in Runs, ProductCommits(r) \/ WorkerMarks(r)
    PROVE  UNCHANGED FW!fwVars
<1> USE DEF IInv, TypeOK
<1>1. UNCHANGED <<block, maintenance, runFile>>
  BY DEF ProductCommits, WorkerMarks
<1>2. rows[r] \in SUBSET RowKinds
  OBVIOUS
<1>3. \/ rows' = [rows EXCEPT ![r] = rows[r] \cup {"event"}] /\ "seed" \in rows[r]
      \/ rows' = [rows EXCEPT ![r] = rows[r] \cup {"mark"}]
  BY DEF ProductCommits, WorkerMarks
<1>4. \A q \in Runs \ {r} : rows'[q] = rows[q]
  BY <1>3
<1>5. Owned(rows'[r]) = {} <=> Owned(rows[r]) = {}
  <2>1. CASE rows' = [rows EXCEPT ![r] = rows[r] \cup {"event"}] /\ "seed" \in rows[r]
    <3>1. rows'[r] = rows[r] \cup {"event"}
      BY <2>1
    <3> QED
      BY <1>2, <2>1, <3>1, MoreRows
  <2>2. CASE rows' = [rows EXCEPT ![r] = rows[r] \cup {"mark"}]
    <3>1. rows'[r] = rows[r] \cup {"mark"}
      BY <2>2
    <3>2. Owned(rows[r] \cup {"mark"}) = {} <=> Owned(rows[r]) = {}
      BY <1>2, MoreRows
    <3> QED
      BY <3>1, <3>2
  <2> QED
    BY <1>3, <2>1, <2>2
<1>6. \A q \in Runs : Owned(rows'[q]) = {} <=> Owned(rows[q]) = {}
  BY <1>4, <1>5
<1>7. Occupied' = Occupied
  BY <1>6 DEF Occupied
<1> QED
  BY <1>1, <1>7 DEF FW!fwVars, Occupied

\* A step of the script or of cleanup-confirm is one of the promise too.
LEMMA RefineOperator ==
    ASSUME IInv, RecoveryStep
    PROVE  FW!FWNext \/ UNCHANGED FW!fwVars
<1> USE DEF IInv, TypeOK
<1>1. CASE RecoverRows
  <2>1. PICK r \in Runs : r = recovering
    BY <1>1 DEF RecoverRows
  <2>2. UNCHANGED <<block, maintenance, runFile>>
    BY <1>1 DEF RecoverRows
  <2>3. Reports' = Reports
    BY <2>2 DEF Reports, Reported
  <2>4. Occupied' = Occupied \ {r}
    <3>1. rows' = [rows EXCEPT ![r] = rows[r] \ Owned(rows[r])]
      BY <1>1, <2>1 DEF RecoverRows
    <3>2. rows'[r] = rows[r] \ Owned(rows[r]) /\ \A q \in Runs \ {r} : rows'[q] = rows[q]
      BY <3>1
    <3>3. Owned(rows'[r]) = {}
      BY <3>2, ScanLeavesMarks
    <3> QED
      BY <3>2, <3>3 DEF Occupied
  <2>5. FW!Withdraw(r)
    BY <2>2, <2>3, <2>4 DEF FW!Withdraw, Reports, Reported, Occupied
  <2> QED
    BY <2>5 DEF FW!FWNext
<1>2. CASE ConfirmRecord
  <2>1. UNCHANGED <<rows, block, runFile>> /\ maintenance' # {} /\ Blocked
    BY <1>2 DEF ConfirmRecord
  <2> QED
    BY <2>1 DEF FW!FWNext, FW!Confirm
<1>3. CASE ConfirmUnlink
  <2>1. UNCHANGED <<rows, maintenance, runFile>> /\ maintenance # {} /\ ~Blocked'
    BY <1>3 DEF ConfirmUnlink
  <2> QED
    BY <2>1 DEF FW!FWNext, FW!Lift
<1>4. CASE CheckBlock \/ RecoverRaises \/ ConfirmRecount \/ ConfirmDies
  <2>1. UNCHANGED <<rows, block, maintenance, runFile>>
    BY <1>4 DEF CheckBlock, RecoverRaises, ConfirmRecount, ConfirmDies
  <2> QED
    BY <2>1 DEF FW!fwVars
<1> QED
  BY <1>1, <1>2, <1>3, <1>4 DEF RecoveryStep

\* The empty run root has reported nothing.
LEMMA RefineInit == SystemInit => FW!FWInit
  BY DEF SystemInit, LaneInit, RootInit, FW!FWInit, Owned

\* Every step of the system is a step of the promise or leaves it unchanged.
LEMMA RefineNext == IInv /\ [SystemNext]_allVars => [FW!FWNext]_(FW!fwVars)
<1> SUFFICES ASSUME IInv, [SystemNext]_allVars PROVE FW!FWNext \/ UNCHANGED FW!fwVars
  OBVIOUS
<1>1. CASE UNCHANGED allVars
  BY <1>1 DEF FW!fwVars
<1> QED
  BY <1>1, RefineRun, RefineProduct, RefineOperator DEF SystemNext, RunStep

\* Every behaviour of the Runs, the product and the operator is one the promise
\* allows.
THEOREM Implementation == SystemSpec => ImplementsFaultWindow
  BY RefineInit, RefineNext, Invariance, PTL DEF SystemSpec, ImplementsFaultWindow, FW!FWSpec
=============================================================================
