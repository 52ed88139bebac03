--------------------------- MODULE FaultRunsProofs ---------------------------
(***************************************************************************)
(* Proofs about FaultRuns, for any set of Runs, any split into the two     *)
(* profiles, any set of retests and any number of restore attempts.        *)
(***************************************************************************)
EXTENDS FaultRuns, TLAPS

\* The definitions every step of a Run is built from.
USE DEF vars, allVars, rootVars, targetVars, processVars, bundleVars, processAndBundle,
        GoTo, Acquire, Release, WriteBlock, LockIsFree, Blocked

-----------------------------------------------------------------------------
(* Types *)

\* An observation is followed by another one or by the end of the lock's body.
LEMMA ObservationsEnd ==
    \A s \in Observations : NextObservation[s] \in Observations \cup {"leave-lock"}
  BY DEF Observations, NextObservation

\* `transition` returns a Run record.
LEMMA MovedIsARun ==
    ASSUME NEW x \in RunRecords, NEW d \in RunStates
    PROVE  Moved(x, d) \in RunRecords
  BY DEF Moved, RunRecords

\* So is what records the fault in one.
LEMMA FaultedIsARun ==
    ASSUME NEW x \in RunRecords
    PROVE  [x EXCEPT !.faulted = TRUE] \in RunRecords
  BY DEF RunRecords

\* Every step of RunOrchestrator.execute keeps the types.
LEMMA TypeMinimal ==
    ASSUME TypeOK, NEW r \in Runs, MinimalStep(r), UNCHANGED <<redrive, cleanup>>
    PROVE  TypeOK'
<1> USE NoneIsNoRun, PollsAssumption, MovedIsARun DEF TypeOK
<1>1. CASE Begin(r)
  <2>1. NewRun \in RunRecords
    BY DEF NewRun, RunRecords, RunStates
  <2> QED
    BY <1>1, <2>1 DEF Begin, MinimalStages, Ended
<1>2. CASE EnterLock(r)
  BY <1>2 DEF EnterLock, MinimalStages, Ended, MinimalLocked, BodyStages
<1>3. CASE StartRunning(r)
  BY <1>3 DEF StartRunning, MinimalStages, MinimalLocked, BodyStages, RunStates
<1>4. CASE Seed(r)
  BY <1>4 DEF Seed, MinimalStages, MinimalLocked, BodyStages
<1>5. CASE CaptureBaseline(r)
  BY <1>5 DEF CaptureBaseline, MinimalStages, MinimalLocked, BodyStages
<1>6. CASE ApplyFault(r)
  BY <1>6 DEF ApplyFault, MinimalStages, MinimalLocked, BodyStages
<1>7. CASE RecordFault(r)
  <2>1. "trigger-reporting" \in Observations
    BY DEF Observations
  <2>2. [run[r] EXCEPT !.faulted = TRUE] \in RunRecords
    BY FaultedIsARun
  <2> QED
    BY <1>7, <2>1, <2>2 DEF RecordFault, MinimalStages, MinimalLocked, BodyStages
<1>8. CASE Observe(r)
  BY <1>8, ObservationsEnd DEF Observe, MinimalStages, MinimalLocked, BodyStages
<1>9. CASE BodyRaises(r)
  BY <1>9 DEF BodyRaises, MinimalStages, MinimalLocked
<1>10. CASE LeaveLock(r)
  BY <1>10 DEF LeaveLock, MinimalStages
<1>11. CASE Settle(r)
  BY <1>11 DEF Settle, MinimalStages, RunStates
<1>12. CASE RestoreAttempt(r)
  BY <1>12 DEF RestoreAttempt, MinimalStages, RestoreAnswers, AnswerOf
<1>13. CASE Conclude(r)
  BY <1>13 DEF Conclude, MinimalStages, RunStates
<1>14. CASE RestoreRaises(r)
  BY <1>14 DEF RestoreRaises, MinimalStages, RunStates, RestoreAnswers
<1>15. CASE Persist(r)
  BY <1>15 DEF Persist, MinimalStages
<1>16. CASE Teardown(r)
  BY <1>16 DEF Teardown, MinimalStages
<1>17. CASE Seal(r)
  BY <1>17 DEF Seal, MinimalStages, Ended
<1> QED
  BY <1>1, <1>2, <1>3, <1>4, <1>5, <1>6, <1>7, <1>8, <1>9, <1>10, <1>11, <1>12,
     <1>13, <1>14, <1>15, <1>16, <1>17 DEF MinimalStep

\* Every step of execute_profile and its collector keeps the types.
LEMMA TypeDlq ==
    ASSUME TypeOK, NEW r \in Runs, DlqStep(r), UNCHANGED cleanup
    PROVE  TypeOK'
<1> USE NoneIsNoRun DEF TypeOK
<1>1. CASE DlqBegin(r)
  BY <1>1 DEF DlqBegin, DlqStages, DlqLocked, Ended
<1>2. CASE DlqEnterLock(r)
  BY <1>2 DEF DlqEnterLock, DlqStages, DlqLocked, Ended
<1>3. CASE DlqSeed(r)
  BY <1>3 DEF DlqSeed, DlqStages, DlqLocked
<1>4. CASE DlqBaseline(r)
  BY <1>4 DEF DlqBaseline, DlqStages, DlqLocked
<1>5. CASE DlqApply(r)
  BY <1>5 DEF DlqApply, DlqStages, DlqLocked
<1>6. CASE DlqApplied(r)
  BY <1>6 DEF DlqApplied, DlqStages, DlqLocked
<1>7. CASE DlqObserve(r)
  BY <1>7 DEF DlqObserve, DlqStages, DlqLocked
<1>8. CASE DlqRaises(r)
  BY <1>8 DEF DlqRaises, DlqStages, DlqLocked
<1>9. CASE DlqUndo(r)
  BY <1>9 DEF DlqUndo, DlqStages, DlqLocked, RestoreAnswers, AnswerOf
<1>10. CASE DlqRestore(r)
  BY <1>10 DEF DlqRestore, DlqStages, DlqLocked, RestoreAnswers, AnswerOf
<1>11. CASE DlqRedrive(r)
  BY <1>11 DEF DlqRedrive, DlqStages, DlqLocked, RedriveResults
<1>12. CASE DlqTeardown(r)
  BY <1>12 DEF DlqTeardown, DlqStages, DlqLocked
<1>13. CASE DlqLeaveLock(r)
  BY <1>13 DEF DlqLeaveLock, DlqStages, DlqLocked, Ended
<1>14. CASE DlqOverrun(r)
  BY <1>14 DEF DlqOverrun, DlqStages, DlqLocked, Ended
<1>15. CASE DlqConclude(r)
  BY <1>15 DEF DlqConclude, DlqStages, DlqLocked, RunRecords, RunStates
<1>16. CASE DlqWrite(r)
  BY <1>16 DEF DlqWrite, DlqStages, DlqLocked
<1>17. CASE DlqSeal(r)
  BY <1>17 DEF DlqSeal, DlqStages, DlqLocked, Ended
<1> QED
  BY <1>1, <1>2, <1>3, <1>4, <1>5, <1>6, <1>7, <1>8, <1>9, <1>10, <1>11, <1>12,
     <1>13, <1>14, <1>15, <1>16, <1>17 DEF DlqStep

\* A crash and the operator's command keep the types.
LEMMA TypeOther ==
    ASSUME TypeOK,
           \/ \E r \in Runs : Crash(r) /\ UNCHANGED <<redrive, cleanup>>
           \/ CleanupStep /\ UNCHANGED redrive
    PROVE  TypeOK'
<1> USE DEF TypeOK
<1>1. ASSUME NEW r \in Runs, Crash(r), UNCHANGED <<redrive, cleanup>>
      PROVE  TypeOK'
  BY <1>1 DEF Crash, MinimalStages, Ended
<1>2. CASE CleanupStep /\ UNCHANGED redrive
  BY <1>2 DEF CleanupStep, Probe, Record, NothingToConfirm, Unblock, CleanupCrash, CleanupStages
<1> QED
  BY <1>1, <1>2

\* The empty run root has the types.
LEMMA TypeInit == SystemInit => TypeOK
  BY PollsAssumption DEF SystemInit, Init, RootInit, DlqInit, CleanupInit, TypeOK, MinimalStages,
     NewRun, RunRecords, RunStates, RestoreAnswers, RedriveResults, CleanupStages

\* Every step of the system keeps them.
LEMMA TypeNext == TypeOK /\ [SystemNext]_allVars => TypeOK'
<1> SUFFICES ASSUME TypeOK, [SystemNext]_allVars PROVE TypeOK'
  OBVIOUS
<1>1. ASSUME NEW r \in Runs, RunStep(r) PROVE TypeOK'
  BY <1>1, TypeMinimal, TypeDlq DEF RunStep
<1>2. CASE UNCHANGED allVars
  BY <1>2 DEF TypeOK
<1> QED
  BY <1>1, <1>2, TypeOther DEF SystemNext

\* Every variable keeps its type, whatever the Runs, the operator and the
\* crashes do.
THEOREM TypeCorrect == SystemSpec => []TypeOK
  BY TypeInit, TypeNext, PTL DEF SystemSpec

-----------------------------------------------------------------------------
(* The inductive invariant *)

\* A step of RunOrchestrator.execute keeps every part of the invariant.
LEMMA MinimalKeeps ==
    ASSUME IInv, NEW r \in Runs, MinimalStep(r), UNCHANGED <<redrive, cleanup>>
    PROVE  /\ LockExclusion' /\ ConcludesOnce' /\ AnswerIsTrue'
           /\ RecordsAreTrue' /\ FailuresAreBarred' /\ DiskLag'
<1> USE NoneIsNoRun DEF IInv, TypeOK, LockExclusion, ConcludesOnce, AnswerIsTrue,
        RecordsAreTrue, FailuresAreBarred, DiskLag, Locked, Barred, GoodEnd,
        MinimalUnconcluded, DlqUnconcluded, BeforeFault, MinimalLocked, DlqLocked,
        BodyStages, Observations, Ended, Moved, RunRecords, RunStates,
        TerminalRunStates, NewRun, NoFile
<1>1. CASE Begin(r)
  <2>1. CASE Blocked
    <3>1. stage' = [stage EXCEPT ![r] = "refused"] /\ UNCHANGED <<lock, block, maintenance, marker, fixture, run, runFile, answer>>
      BY <1>1, <2>1 DEF Begin
    <3> QED
      BY <3>1
  <2>2. CASE ~Blocked
    <3>1. stage' = [stage EXCEPT ![r] = "opened"] /\ runFile' = [runFile EXCEPT ![r] = NewRun]
      BY <1>1, <2>2 DEF Begin
    <3>2. UNCHANGED <<lock, block, maintenance, marker, fixture, run, answer>>
      BY <1>1 DEF Begin
    <3>3. stage[r] = "idle"
      BY <1>1 DEF Begin
    <3>4. LockExclusion' /\ ConcludesOnce'
      BY <3>1, <3>2, <3>3
    <3>5. AnswerIsTrue'
      BY <3>1, <3>2, <3>3
    <3>6. RecordsAreTrue'
      BY <3>1, <3>2, <3>3
    <3>7. FailuresAreBarred'
      BY <3>1, <3>2, <3>3
    <3>8. DiskLag'
      BY <3>1, <3>2, <3>3
    <3> QED
      BY <3>4, <3>5, <3>6, <3>7, <3>8
  <2> QED
    BY <2>1, <2>2
<1>2. CASE EnterLock(r)
  BY <1>2 DEF EnterLock
<1>3. CASE StartRunning(r)
  BY <1>3 DEF StartRunning
<1>4. CASE Seed(r)
  BY <1>4 DEF Seed
<1>5. CASE CaptureBaseline(r)
  BY <1>5 DEF CaptureBaseline
<1>6. CASE ApplyFault(r)
  BY <1>6 DEF ApplyFault
<1>7. CASE RecordFault(r)
  BY <1>7 DEF RecordFault
<1>8. CASE Observe(r)
  BY <1>8, ObservationsEnd DEF Observe
<1>9. CASE BodyRaises(r)
  BY <1>9 DEF BodyRaises
<1>10. CASE LeaveLock(r)
  BY <1>10 DEF LeaveLock
<1>11. CASE Settle(r)
  <2>1. CASE run[r].faulted
    <3>1. /\ stage[r] = "settle"
          /\ run' = [run EXCEPT ![r] = Moved(@, "RESTORING")]
          /\ runFile' = [runFile EXCEPT ![r] = run'[r]]
          /\ stage' = [stage EXCEPT ![r] = "restore-environment"]
          /\ UNCHANGED <<lock, block, maintenance, marker, answer>>
      BY <1>11, <2>1 DEF Settle
    <3> QED
      BY <3>1
  <2>2. CASE ~run[r].faulted
    <3>1. /\ stage[r] = "settle"
          /\ CanMove(run[r], "ABORTED")
          /\ run' = [run EXCEPT ![r] = Moved(@, "ABORTED")]
          /\ stage' = [stage EXCEPT ![r] = "persist"]
          /\ UNCHANGED <<lock, block, maintenance, marker, runFile, answer>>
      BY <1>11, <2>2 DEF Settle
    <3>2. run[r] = runFile[r]
      BY <3>1
    <3>3. run'[r].state = "ABORTED"
      BY <3>1
    <3>4. DiskLag'
      BY <3>1, <3>2, <3>3
    <3>5. RecordsAreTrue'
      BY <3>1, <3>2, <2>2
    <3> QED
      BY <3>1, <3>4, <3>5
  <2> QED
    BY <2>1, <2>2
<1>12. CASE RestoreAttempt(r)
  BY <1>12 DEF RestoreAttempt
<1>13. CASE Conclude(r)
  BY <1>13 DEF Conclude
<1>14. CASE RestoreRaises(r)
  BY <1>14 DEF RestoreRaises
<1>15. CASE Persist(r)
  BY <1>15 DEF Persist
<1>16. CASE Teardown(r)
  BY <1>16 DEF Teardown
<1>17. CASE Seal(r)
  BY <1>17 DEF Seal
<1> QED
  BY <1>1, <1>2, <1>3, <1>4, <1>5, <1>6, <1>7, <1>8, <1>9, <1>10, <1>11, <1>12, <1>13, <1>14, <1>15, <1>16, <1>17 DEF MinimalStep

\* A step of execute_profile and its collector keeps every part of it.
LEMMA DlqKeeps ==
    ASSUME IInv, NEW r \in Runs, DlqStep(r), UNCHANGED cleanup
    PROVE  /\ LockExclusion' /\ ConcludesOnce' /\ AnswerIsTrue'
           /\ RecordsAreTrue' /\ FailuresAreBarred' /\ DiskLag'
<1> USE NoneIsNoRun DEF IInv, TypeOK, LockExclusion, ConcludesOnce, AnswerIsTrue,
        RecordsAreTrue, FailuresAreBarred, DiskLag, Locked, Barred, GoodEnd,
        MinimalUnconcluded, DlqUnconcluded, BeforeFault, MinimalLocked, DlqLocked,
        BodyStages, Observations, Ended, Moved, RunRecords, RunStates,
        TerminalRunStates, NewRun, NoFile
<1>1. CASE DlqBegin(r)
  BY <1>1 DEF DlqBegin
<1>2. CASE DlqEnterLock(r)
  BY <1>2 DEF DlqEnterLock
<1>3. CASE DlqSeed(r)
  BY <1>3 DEF DlqSeed
<1>4. CASE DlqBaseline(r)
  BY <1>4 DEF DlqBaseline
<1>5. CASE DlqApply(r)
  BY <1>5 DEF DlqApply
<1>6. CASE DlqApplied(r)
  BY <1>6 DEF DlqApplied
<1>7. CASE DlqObserve(r)
  BY <1>7 DEF DlqObserve
<1>8. CASE DlqRaises(r)
  BY <1>8 DEF DlqRaises
<1>9. CASE DlqUndo(r)
  BY <1>9 DEF DlqUndo
<1>10. CASE DlqRestore(r)
  BY <1>10 DEF DlqRestore
<1>11. CASE DlqRedrive(r)
  BY <1>11 DEF DlqRedrive
<1>12. CASE DlqTeardown(r)
  BY <1>12 DEF DlqTeardown
<1>13. CASE DlqLeaveLock(r)
  BY <1>13 DEF DlqLeaveLock
<1>14. CASE DlqOverrun(r)
  BY <1>14 DEF DlqOverrun
<1>15. CASE DlqConclude(r)
  BY <1>15 DEF DlqConclude
<1>16. CASE DlqWrite(r)
  BY <1>16 DEF DlqWrite
<1>17. CASE DlqSeal(r)
  BY <1>17 DEF DlqSeal
<1> QED
  BY <1>1, <1>2, <1>3, <1>4, <1>5, <1>6, <1>7, <1>8, <1>9, <1>10, <1>11, <1>12, <1>13, <1>14, <1>15, <1>16, <1>17 DEF DlqStep

\* So does the death of a process: no part speaks of a dead one.
LEMMA CrashKeeps ==
    ASSUME IInv, NEW r \in Runs, Crash(r), UNCHANGED <<redrive, cleanup>>
    PROVE  /\ LockExclusion' /\ ConcludesOnce' /\ AnswerIsTrue'
           /\ RecordsAreTrue' /\ FailuresAreBarred' /\ DiskLag'
<1> USE NoneIsNoRun DEF IInv, TypeOK, LockExclusion, ConcludesOnce, AnswerIsTrue,
        RecordsAreTrue, FailuresAreBarred, DiskLag, Locked, Barred, GoodEnd,
        MinimalUnconcluded, DlqUnconcluded, BeforeFault, MinimalLocked, DlqLocked,
        BodyStages, Observations, Ended, Moved, RunRecords, RunStates,
        TerminalRunStates, NewRun, NoFile
<1> QED
  BY DEF Crash

\* And cleanup-confirm: it unlinks a block only after storing a confirmation.
LEMMA CleanupKeeps ==
    ASSUME IInv, CleanupStep, UNCHANGED redrive
    PROVE  /\ LockExclusion' /\ ConcludesOnce' /\ AnswerIsTrue'
           /\ RecordsAreTrue' /\ FailuresAreBarred' /\ DiskLag'
<1>1. UNCHANGED <<lock, marker, processVars, bundleVars>>
  BY DEF CleanupStep, Probe, Record, NothingToConfirm, Unblock, CleanupCrash
<1>2. LockExclusion' /\ ConcludesOnce' /\ AnswerIsTrue' /\ RecordsAreTrue' /\ DiskLag'
  BY <1>1 DEF IInv, LockExclusion, Locked, ConcludesOnce, AnswerIsTrue, RecordsAreTrue,
              DiskLag, CanMove
<1>3. FailuresAreBarred'
  <2> USE <1>1 DEF IInv, FailuresAreBarred, Barred
  <2>1. CASE Record
    BY <2>1 DEF Record
  <2>2. CASE Unblock
    BY <2>2 DEF Unblock
  <2>3. CASE Probe \/ NothingToConfirm \/ CleanupCrash
    BY <2>3 DEF Probe, NothingToConfirm, CleanupCrash
  <2> QED
    BY <2>1, <2>2, <2>3 DEF CleanupStep
<1> QED
  BY <1>2, <1>3

\* The empty run root satisfies every part of the invariant.
LEMMA IInvInit == SystemInit => IInv
<1> SUFFICES ASSUME SystemInit PROVE IInv
  OBVIOUS
<1>1. TypeOK
  BY TypeInit
<1>2. LockExclusion
  BY DEF SystemInit, Init, RootInit, LockExclusion, Locked, MinimalLocked, BodyStages, Observations, DlqLocked
<1>3. ConcludesOnce /\ AnswerIsTrue /\ RecordsAreTrue /\ FailuresAreBarred
  BY DEF SystemInit, Init, RootInit, CleanupInit, ConcludesOnce, AnswerIsTrue, RecordsAreTrue,
         FailuresAreBarred, GoodEnd, NewRun, NoFile, TerminalRunStates
<1>4. DiskLag
  BY DEF SystemInit, Init, RootInit, DiskLag, MinimalUnconcluded, MinimalLocked, BodyStages,
         Observations, DlqUnconcluded, DlqLocked
<1> QED
  BY <1>1, <1>2, <1>3, <1>4 DEF IInv

\* Every step of the system keeps the invariant.
LEMMA IInvNext == IInv /\ [SystemNext]_allVars => IInv'
<1> SUFFICES ASSUME IInv, [SystemNext]_allVars PROVE IInv'
  OBVIOUS
<1>1. TypeOK'
  BY TypeNext DEF IInv
<1>2. ASSUME NEW r \in Runs, RunStep(r) PROVE IInv'
  BY <1>1, <1>2, MinimalKeeps, DlqKeeps DEF IInv, RunStep
<1>3. ASSUME NEW r \in Runs, Crash(r), UNCHANGED <<redrive, cleanup>> PROVE IInv'
  BY <1>1, <1>3, CrashKeeps DEF IInv
<1>4. CASE CleanupStep /\ UNCHANGED redrive
  BY <1>1, <1>4, CleanupKeeps DEF IInv
<1>5. CASE UNCHANGED allVars
  BY <1>1, <1>5 DEF IInv, LockExclusion, Locked, ConcludesOnce, AnswerIsTrue, RecordsAreTrue,
     FailuresAreBarred, Barred, DiskLag, CanMove
<1> QED
  BY <1>2, <1>3, <1>4, <1>5 DEF SystemNext

\* The invariant holds in every reachable state.
THEOREM Invariance == SystemSpec => []IInv
  BY IInvInit, IInvNext, PTL DEF SystemSpec

\* TargetSubjectLock excludes: two live Runs are never both between lock and
\* release.
THEOREM Exclusion == SystemSpec => []LockExclusion
<1>1. IInv => LockExclusion
  BY DEF IInv
<1> QED
  BY <1>1, Invariance, PTL

\* A run.json that reports a good end is never on disk over a live marker.
THEOREM GoodEnds == SystemSpec => []GoodEndMeansMarkerGone
<1>1. IInv => GoodEndMeansMarkerGone
  BY DEF IInv, RecordsAreTrue, GoodEnd, GoodEndMeansMarkerGone
<1> QED
  BY <1>1, Invariance, PTL

\* A RESTORE_FAILED run.json comes with its block or after a confirmation.
THEOREM FailuresBarred == SystemSpec => []FailureIsBarred
<1>1. IInv => FailureIsBarred
  BY DEF IInv, FailuresAreBarred, Barred, FailureIsBarred
<1> QED
  BY <1>1, Invariance, PTL

-----------------------------------------------------------------------------
(* Action properties *)

\* Only two steps delete a subject's rows, each behind a restored fault.
LEMMA TeardownStep ==
    ASSUME IInv, [SystemNext]_allVars, NEW q \in fixture \ fixture'
    PROVE  q \notin marker
<1>1. ASSUME NEW r \in Runs, MinimalStep(r) PROVE q \notin marker
  <2>1. Teardown(r) \/ UNCHANGED fixture \/ fixture' = fixture \cup {r}
    BY <1>1 DEF MinimalStep,
         Begin, EnterLock, StartRunning, Seed, CaptureBaseline, ApplyFault,
         RecordFault, Observe, BodyRaises, LeaveLock, Settle, RestoreAttempt,
         Conclude, RestoreRaises, Persist, Teardown, Seal
  <2> QED
    BY <2>1 DEF Teardown, IInv, AnswerIsTrue
<1>2. ASSUME NEW r \in Runs, DlqStep(r) PROVE q \notin marker
  <2>1. DlqTeardown(r) \/ UNCHANGED fixture \/ fixture' = fixture \cup {r}
    BY <1>2 DEF DlqStep,
         DlqBegin, DlqEnterLock, DlqSeed, DlqBaseline, DlqApply, DlqApplied,
         DlqObserve, DlqRaises, DlqUndo, DlqRestore, DlqRedrive, DlqTeardown,
         DlqLeaveLock, DlqOverrun, DlqConclude, DlqWrite, DlqSeal
  <2> QED
    BY <2>1 DEF DlqTeardown, IInv, AnswerIsTrue
<1>3. ASSUME NEW r \in Runs, Crash(r) PROVE q \notin marker
  BY <1>3 DEF Crash
<1>4. CASE CleanupStep
  BY <1>4 DEF CleanupStep, Probe, Record, NothingToConfirm, Unblock, CleanupCrash
<1> QED
  BY <1>1, <1>2, <1>3, <1>4 DEF SystemNext, RunStep

\* No teardown pulls the subject from under an active fault.
THEOREM TeardownsAfterLift == SystemSpec => TeardownAfterLift
<1>1. IInv /\ [SystemNext]_allVars => [\A r \in fixture \ fixture' : r \notin marker]_allVars
  BY TeardownStep
<1> QED
  BY <1>1, Invariance, PTL DEF SystemSpec, TeardownAfterLift

\* Only the end of the lock's body writes to a lock file that exists.
LEMMA UnlockStep ==
    ASSUME IInv, [SystemNext]_allVars, lock # None, lock' # lock
    PROVE  stage[lock] \in {"leave-lock", "dlq-return", "dlq-raise"}
<1>1. ASSUME NEW r \in Runs, MinimalStep(r)
      PROVE  stage[lock] \in {"leave-lock", "dlq-return", "dlq-raise"}
  <2>1. LeaveLock(r) \/ UNCHANGED lock \/ lock = None
    BY <1>1 DEF MinimalStep,
         Begin, EnterLock, StartRunning, Seed, CaptureBaseline, ApplyFault,
         RecordFault, Observe, BodyRaises, LeaveLock, Settle, RestoreAttempt,
         Conclude, RestoreRaises, Persist, Teardown, Seal
  <2> QED
    BY <2>1 DEF LeaveLock, IInv, LockExclusion, Locked, MinimalLocked
<1>2. ASSUME NEW r \in Runs, DlqStep(r)
      PROVE  stage[lock] \in {"leave-lock", "dlq-return", "dlq-raise"}
  <2>1. DlqLeaveLock(r) \/ UNCHANGED lock \/ lock = None
    BY <1>2 DEF DlqStep,
         DlqBegin, DlqEnterLock, DlqSeed, DlqBaseline, DlqApply, DlqApplied,
         DlqObserve, DlqRaises, DlqUndo, DlqRestore, DlqRedrive, DlqTeardown,
         DlqLeaveLock, DlqOverrun, DlqConclude, DlqWrite, DlqSeal
  <2> QED
    BY <2>1 DEF DlqLeaveLock, IInv, LockExclusion, Locked, DlqLocked
<1>3. ASSUME NEW r \in Runs, Crash(r) PROVE FALSE
  BY <1>3 DEF Crash
<1>4. CASE CleanupStep
  BY <1>4 DEF CleanupStep, Probe, Record, NothingToConfirm, Unblock, CleanupCrash
<1> QED
  BY <1>1, <1>2, <1>3, <1>4 DEF SystemNext, RunStep

\* Nothing but its holder removes a lock file: not another Run that was
\* refused, not the operator, not a crash.
THEOREM HolderUnlocks == SystemSpec => OnlyHolderUnlocks
<1>1. IInv /\ [SystemNext]_allVars
        => [lock # None /\ lock' # lock =>
              stage[lock] \in {"leave-lock", "dlq-return", "dlq-raise"}]_allVars
  BY UnlockStep
<1> QED
  BY <1>1, Invariance, PTL DEF SystemSpec, OnlyHolderUnlocks

\* run.json only moves along the lifecycle: each of the six writes does.
LEMMA DiskStep ==
    ASSUME IInv, [SystemNext]_allVars, NEW q \in Runs, runFile'[q] # runFile[q]
    PROVE  FollowsLifecycle(runFile[q], runFile'[q])
<1> USE DEF FollowsLifecycle, IInv, TypeOK, DiskLag
<1>1. ASSUME NEW r \in Runs, MinimalStep(r)
      PROVE  FollowsLifecycle(runFile[q], runFile'[q])
  <2>1. \/ Begin(r) \/ StartRunning(r) \/ RecordFault(r) \/ Settle(r) \/ Persist(r)
        \/ UNCHANGED runFile
    BY <1>1 DEF MinimalStep,
         Begin, EnterLock, StartRunning, Seed, CaptureBaseline, ApplyFault,
         RecordFault, Observe, BodyRaises, LeaveLock, Settle, RestoreAttempt,
         Conclude, RestoreRaises, Persist, Teardown, Seal
  <2>2. CASE Begin(r)
    BY <2>2 DEF Begin, NewRun, NoFile
  <2>3. CASE StartRunning(r)
    BY <2>3 DEF StartRunning, Moved, MinimalUnconcluded, MinimalLocked, BodyStages, RunRecords
  <2>4. CASE RecordFault(r)
    BY <2>4 DEF RecordFault, MinimalUnconcluded, MinimalLocked, BodyStages, RunRecords
  <2>5. CASE Settle(r)
    <3>1. CanMove(run[r], "RESTORING") /\ q = r /\ runFile[r] = run[r]
      BY <2>5 DEF Settle, MinimalUnconcluded
    <3>2. runFile'[r] = Moved(run[r], "RESTORING")
      BY <2>5, <3>1 DEF Settle
    <3>3. Moved(run[r], "RESTORING").state = "RESTORING" /\ run[r].state \in RunStates
      BY DEF Moved, RunRecords
    <3> QED
      BY <3>1, <3>2, <3>3
  <2>6. CASE Persist(r)
    BY <2>6 DEF Persist
  <2> QED
    BY <2>1, <2>2, <2>3, <2>4, <2>5, <2>6
<1>2. ASSUME NEW r \in Runs, DlqStep(r)
      PROVE  FollowsLifecycle(runFile[q], runFile'[q])
  <2>1. DlqWrite(r) \/ UNCHANGED runFile
    BY <1>2 DEF DlqStep,
         DlqBegin, DlqEnterLock, DlqSeed, DlqBaseline, DlqApply, DlqApplied,
         DlqObserve, DlqRaises, DlqUndo, DlqRestore, DlqRedrive, DlqTeardown,
         DlqLeaveLock, DlqOverrun, DlqConclude, DlqWrite, DlqSeal
  <2> QED
    BY <2>1 DEF DlqWrite, NoFile
<1>3. ASSUME NEW r \in Runs, Crash(r) PROVE FALSE
  BY <1>3 DEF Crash
<1>4. CASE CleanupStep
  BY <1>4 DEF CleanupStep, Probe, Record, NothingToConfirm, Unblock, CleanupCrash
<1> QED
  BY <1>1, <1>2, <1>3, <1>4 DEF SystemNext, RunStep

\* The record on disk never leaves a terminal state and never jumps from a
\* recorded fault to ABORTED, though memory and disk are written apart.
THEOREM DiskLifecycle == SystemSpec => DiskFollowsLifecycle
<1>1. IInv /\ [SystemNext]_allVars
        => [\A r \in Runs : runFile'[r] # runFile[r]
                               => FollowsLifecycle(runFile[r], runFile'[r])]_allVars
  BY DiskStep
<1> QED
  BY <1>1, Invariance, PTL DEF SystemSpec, DiskFollowsLifecycle
-----------------------------------------------------------------------------
(* Refinement: the run root implements the promise of FaultWindow *)

Verdicts == [r \in Runs |-> VerdictOf(runFile[r])]

\* A step that leaves marker, block, confirmations and run.json alone, or
\* writes a record that reports nothing, is a stutter.
LEMMA StutterStep ==
    ASSUME UNCHANGED <<marker, block, maintenance>>, Verdicts' = Verdicts
    PROVE  UNCHANGED FW!fwVars
  BY DEF FW!fwVars, Verdicts

\* A write of run.json with a report is a Report.
LEMMA ReportStep ==
    ASSUME IInv, NEW r \in Runs, UNCHANGED <<marker, block, maintenance>>,
           runFile' = [runFile EXCEPT ![r] = run[r]],
           VerdictOf(runFile[r]) = "open", VerdictOf(run[r]) # "open"
    PROVE  FW!Report(r)
<1>1. Verdicts' = [Verdicts EXCEPT ![r] = VerdictOf(run[r])]
  BY DEF Verdicts, IInv, TypeOK
<1>2. Verdicts[r] = "open"
  BY DEF Verdicts
<1>3. CASE VerdictOf(run[r]) = "clean"
  <2>1. r \notin marker
    BY <1>3 DEF VerdictOf, IInv, RecordsAreTrue, GoodEnd, ConcludesOnce
  <2> QED
    BY <1>1, <1>2, <1>3, <2>1 DEF FW!Report, Verdicts
<1>4. CASE VerdictOf(run[r]) = "unsafe"
  <2>1. Blocked \/ maintenance # {}
    BY <1>4 DEF VerdictOf, IInv, FailuresAreBarred, Barred
  <2> QED
    BY <1>1, <1>2, <1>4, <2>1 DEF FW!Report, Verdicts
<1> QED
  BY <1>3, <1>4 DEF VerdictOf
\* A record that is not terminal reports nothing.
LEMMA UnreportedIsOpen ==
    ASSUME NEW rec, rec.state \notin TerminalRunStates
    PROVE  VerdictOf(rec) = "open"
  BY DEF VerdictOf, GoodEnd, TerminalRunStates

\* A step of RunOrchestrator.execute is a step of the promise.
LEMMA RefineMinimal ==
    ASSUME IInv, NEW r \in Runs, MinimalStep(r), UNCHANGED cleanup
    PROVE  FW!FWNext \/ UNCHANGED FW!fwVars
<1> USE DEF IInv, TypeOK
<1>1. CASE \/ EnterLock(r) \/ Seed(r) \/ CaptureBaseline(r) \/ Observe(r) \/ BodyRaises(r)
           \/ LeaveLock(r) \/ Teardown(r) \/ Seal(r)
  <2>1. UNCHANGED <<marker, block, maintenance, runFile>>
    BY <1>1 DEF EnterLock, Seed, CaptureBaseline, Observe, BodyRaises, LeaveLock, Teardown, Seal
  <2> QED
    BY <2>1, StutterStep DEF Verdicts
<1>2. CASE Begin(r) \/ StartRunning(r) \/ RecordFault(r) \/ Settle(r)
  <2>1. UNCHANGED <<marker, block, maintenance>>
    BY <1>2 DEF Begin, StartRunning, RecordFault, Settle
  <2>2. runFile[r].state \notin TerminalRunStates
    BY <1>2 DEF Begin, StartRunning, RecordFault, Settle, ConcludesOnce, MinimalUnconcluded,
       MinimalLocked, BodyStages
  <2>3. runFile'[r].state \notin TerminalRunStates
    <3>1. CASE Begin(r)
      BY <2>2, <3>1 DEF Begin, NewRun, TerminalRunStates
    <3>2. CASE StartRunning(r)
      BY <3>2 DEF StartRunning, Moved, RunRecords, TerminalRunStates
    <3>3. CASE RecordFault(r)
      BY <3>3 DEF RecordFault, RunRecords, ConcludesOnce, MinimalUnconcluded, MinimalLocked,
         BodyStages
    <3>4. CASE Settle(r)
      <4>1. CASE run[r].faulted
        <5>1. Moved(run[r], "RESTORING").state = "RESTORING"
          BY DEF Moved, RunRecords
        <5>2. runFile'[r] = Moved(run[r], "RESTORING")
          BY <3>4, <4>1 DEF Settle
        <5> QED
          BY <5>1, <5>2 DEF TerminalRunStates
      <4>2. CASE ~run[r].faulted
        BY <2>2, <3>4, <4>2 DEF Settle
      <4> QED
        BY <4>1, <4>2
    <3> QED
      BY <1>2, <3>1, <3>2, <3>3, <3>4
  <2>4. \A q \in Runs \ {r} : runFile'[q] = runFile[q]
    BY <1>2 DEF Begin, StartRunning, RecordFault, Settle
  <2>5. Verdicts' = Verdicts
    BY <2>2, <2>3, <2>4, UnreportedIsOpen DEF Verdicts
  <2> QED
    BY <2>1, <2>5, StutterStep
<1>3. CASE ApplyFault(r)
  <2>1. Verdicts[r] = "open"
    BY <1>3, UnreportedIsOpen DEF ApplyFault, Verdicts, ConcludesOnce, MinimalUnconcluded,
       MinimalLocked, BodyStages
  <2>2. FW!Inject(r)
    BY <1>3, <2>1 DEF ApplyFault, FW!Inject, Verdicts
  <2> QED
    BY <2>2 DEF FW!FWNext
<1>4. CASE RestoreAttempt(r) \/ Conclude(r) \/ RestoreRaises(r)
  <2>1. marker' \in {marker, marker \ {r}} /\ UNCHANGED <<maintenance, runFile>>
    BY <1>4 DEF RestoreAttempt, Conclude, RestoreRaises
  <2>2. block' = block \/ block' # None
    BY <1>4, NoneIsNoRun DEF RestoreAttempt, Conclude, RestoreRaises
  <2>3. FW!Withdraw(r)
    BY <2>1, <2>2 DEF FW!Withdraw
  <2> QED
    BY <2>3 DEF FW!FWNext
<1>5. CASE Persist(r)
  <2>1. /\ UNCHANGED <<marker, block, maintenance>>
        /\ runFile' = [runFile EXCEPT ![r] = run[r]]
    BY <1>5 DEF Persist
  <2>2. VerdictOf(runFile[r]) = "open"
    <3>1. runFile[r].state \in RunStates /\ CanMove(runFile[r], run[r].state)
      BY <1>5 DEF Persist, DiskLag
    <3> QED
      BY <3>1, UnreportedIsOpen DEF CanMove, Transitions, RunStates, TerminalRunStates
  <2>3. CASE VerdictOf(run[r]) = "open"
    <3>1. Verdicts' = Verdicts
      BY <2>1, <2>2, <2>3 DEF Verdicts
    <3> QED
      BY <2>1, <3>1, StutterStep
  <2>4. CASE VerdictOf(run[r]) # "open"
    BY <2>1, <2>2, <2>4, ReportStep DEF FW!FWNext
  <2> QED
    BY <2>3, <2>4
<1> QED
  BY <1>1, <1>2, <1>3, <1>4, <1>5 DEF MinimalStep

\* A step of execute_profile and its collector is one too.
LEMMA RefineDlq ==
    ASSUME IInv, NEW r \in Runs, DlqStep(r), UNCHANGED cleanup
    PROVE  FW!FWNext \/ UNCHANGED FW!fwVars
<1> USE DEF IInv, TypeOK
<1>1. CASE \/ DlqBegin(r) \/ DlqEnterLock(r) \/ DlqSeed(r) \/ DlqBaseline(r) \/ DlqApplied(r)
           \/ DlqObserve(r) \/ DlqRedrive(r) \/ DlqTeardown(r) \/ DlqLeaveLock(r)
           \/ DlqOverrun(r) \/ DlqSeal(r)
  <2>1. UNCHANGED <<marker, block, maintenance, runFile>>
    BY <1>1 DEF DlqBegin, DlqEnterLock, DlqSeed, DlqBaseline, DlqApplied, DlqObserve,
       DlqRedrive, DlqTeardown, DlqLeaveLock, DlqOverrun, DlqSeal
  <2> QED
    BY <2>1, StutterStep DEF Verdicts
<1>2. CASE DlqApply(r)
  <2>1. Verdicts[r] = "open"
    BY <1>2, UnreportedIsOpen DEF DlqApply, Verdicts, ConcludesOnce, DlqUnconcluded, DlqLocked
  <2>2. FW!Inject(r)
    BY <1>2, <2>1 DEF DlqApply, FW!Inject, Verdicts
  <2> QED
    BY <2>2 DEF FW!FWNext
<1>3. CASE DlqRaises(r) \/ DlqUndo(r) \/ DlqRestore(r) \/ DlqConclude(r)
  <2>1. marker' \in {marker, marker \ {r}} /\ UNCHANGED <<maintenance, runFile>>
    BY <1>3 DEF DlqRaises, DlqUndo, DlqRestore, DlqConclude
  <2>2. block' = block \/ block' # None
    BY <1>3, NoneIsNoRun DEF DlqRaises, DlqUndo, DlqRestore, DlqConclude
  <2>3. FW!Withdraw(r)
    BY <2>1, <2>2 DEF FW!Withdraw
  <2> QED
    BY <2>3 DEF FW!FWNext
<1>4. CASE DlqWrite(r)
  <2>1. /\ UNCHANGED <<marker, block, maintenance>>
        /\ runFile' = [runFile EXCEPT ![r] = run[r]]
        /\ runFile[r] = NoFile
        /\ run[r].state \in {"COMPLETED", "RESTORE_FAILED"}
    BY <1>4 DEF DlqWrite, DiskLag
  <2>2. VerdictOf(runFile[r]) = "open" /\ VerdictOf(run[r]) # "open"
    BY <2>1 DEF VerdictOf, GoodEnd, NoFile
  <2> QED
    BY <2>1, <2>2, ReportStep DEF FW!FWNext
<1> QED
  BY <1>1, <1>2, <1>3, <1>4 DEF DlqStep

\* And so is a step of cleanup-confirm.
LEMMA RefineCleanup ==
    ASSUME IInv, CleanupStep
    PROVE  FW!FWNext \/ UNCHANGED FW!fwVars
<1>1. UNCHANGED <<marker, runFile>> /\ Verdicts' = Verdicts
  BY DEF CleanupStep, Probe, Record, NothingToConfirm, Unblock, CleanupCrash, Verdicts
<1>2. CASE Record
  BY <1>1, <1>2 DEF Record, FW!FWNext, FW!Confirm, Verdicts
<1>3. CASE Unblock
  BY <1>1, <1>3 DEF Unblock, FW!FWNext, FW!Lift, IInv, FailuresAreBarred, Verdicts
<1>4. CASE Probe \/ NothingToConfirm \/ CleanupCrash
  BY <1>1, <1>4, StutterStep DEF Probe, NothingToConfirm, CleanupCrash
<1> QED
  BY <1>2, <1>3, <1>4 DEF CleanupStep

\* The empty run root has reported nothing.
LEMMA RefineInit == SystemInit => FW!FWInit
  BY DEF SystemInit, Init, RootInit, FW!FWInit, VerdictOf, GoodEnd, NoFile

\* Every step of the system is a step or a stutter of the promise.
LEMMA RefineNext == IInv /\ [SystemNext]_allVars => [FW!FWNext]_(FW!fwVars)
<1> SUFFICES ASSUME IInv, [SystemNext]_allVars PROVE FW!FWNext \/ UNCHANGED FW!fwVars
  OBVIOUS
<1>1. ASSUME NEW r \in Runs, RunStep(r) PROVE FW!FWNext \/ UNCHANGED FW!fwVars
  BY <1>1, RefineMinimal, RefineDlq DEF RunStep
<1>2. CASE UNCHANGED allVars \/ \E r \in Runs : Crash(r)
  BY <1>2, StutterStep DEF Crash, Verdicts
<1> QED
  BY <1>1, <1>2, RefineCleanup DEF SystemNext

\* Every behaviour of the Runs, their crashes and the operator is one the
\* promise allows.
THEOREM Implementation == SystemSpec => ImplementsFaultWindow
  BY RefineInit, RefineNext, Invariance, PTL DEF SystemSpec, ImplementsFaultWindow, FW!FWSpec

\* Nothing the promise allows makes a report false later: the induction needs
\* the types only.
LEMMA PromiseHolds == FW!FWSpec => [](FW!FWTypeOK /\ FW!ReportsHold)
<1> USE DEF FW!FWTypeOK, FW!ReportsHold
<1>1. FW!FWInit => FW!FWTypeOK /\ FW!ReportsHold
  BY DEF FW!FWInit
<1>2. FW!FWTypeOK /\ FW!ReportsHold /\ [FW!FWNext]_(FW!fwVars) => (FW!FWTypeOK /\ FW!ReportsHold)'
  <2> SUFFICES ASSUME FW!FWTypeOK, FW!ReportsHold, [FW!FWNext]_(FW!fwVars)
               PROVE  (FW!FWTypeOK /\ FW!ReportsHold)'
    OBVIOUS
  <2>1. ASSUME NEW r \in Runs, FW!Inject(r) PROVE (FW!FWTypeOK /\ FW!ReportsHold)'
    BY <2>1 DEF FW!Inject
  <2>2. ASSUME NEW r \in Runs, FW!Withdraw(r) PROVE (FW!FWTypeOK /\ FW!ReportsHold)'
    BY <2>2 DEF FW!Withdraw
  <2>3. ASSUME NEW r \in Runs, FW!Report(r) PROVE (FW!FWTypeOK /\ FW!ReportsHold)'
    <3>1. CASE r \notin marker /\ Verdicts' = [Verdicts EXCEPT ![r] = "clean"]
      BY <2>3, <3>1 DEF FW!Report, Verdicts
    <3>2. CASE (Blocked \/ maintenance # {}) /\ Verdicts' = [Verdicts EXCEPT ![r] = "unsafe"]
      BY <2>3, <3>2 DEF FW!Report, Verdicts
    <3> QED
      BY <2>3, <3>1, <3>2 DEF FW!Report, Verdicts
  <2>4. CASE FW!Confirm
    BY <2>4 DEF FW!Confirm
  <2>5. CASE FW!Lift
    BY <2>5 DEF FW!Lift
  <2>6. CASE UNCHANGED FW!fwVars
    BY <2>6 DEF FW!fwVars
  <2> QED
    BY <2>1, <2>2, <2>3, <2>4, <2>5, <2>6 DEF FW!FWNext
<1> QED
  BY <1>1, <1>2, PTL DEF FW!FWSpec

\* So whatever run.json reports is true and stays true.
THEOREM PromiseKept == SystemSpec => []FW!ReportsHold
<1>1. ImplementsFaultWindow => [](FW!FWTypeOK /\ FW!ReportsHold)
  BY PromiseHolds DEF ImplementsFaultWindow
<1> QED
  BY <1>1, Implementation, PTL
=============================================================================
