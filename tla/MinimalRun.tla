----------------------------- MODULE MinimalRun -----------------------------
(***************************************************************************)
(* RunOrchestrator.execute (engine/runner.py): one H03_MINIMAL_V1 Run from *)
(* the block check to the sealed bundle.  The lock covers the scenario     *)
(* steps only: the `with lock` statement lies inside the `try`, so the     *)
(* `finally` that restores the target runs after the lock file is gone.    *)
(*                                                                         *)
(* Readiness is READY here.  Evidence contents, checkpoints and the        *)
(* judgement are not part of the state.  Reads and writes of the run root  *)
(* succeed unless the process dies, and an interrupt arrives in the body   *)
(* of the lock or while the target is being restored: one between the last *)
(* transition and the block write after it is left out.                    *)
(***************************************************************************)
EXTENDS RunRoot, Naturals

CONSTANTS MaxPolls,   \* restore deadline / poll interval of the scenario
          Retests     \* the Runs given retest_records

ASSUME PollsAssumption == MaxPolls \in Nat \ {0}

\* The observations under an active fault, in the order of the code.
Observations ==
    {"trigger-reporting", "confirm-fault-effect", "observe-report",
     "observe-company-console", "attempt-final-decision",
     "capture-post-decision-state", "observe-automatic-decision-window"}

NextObservation ==
    [ s \in Observations |->
        CASE s = "trigger-reporting"           -> "confirm-fault-effect"
          [] s = "confirm-fault-effect"        -> "observe-report"
          [] s = "observe-report"              -> "observe-company-console"
          [] s = "observe-company-console"     -> "attempt-final-decision"
          [] s = "attempt-final-decision"      -> "capture-post-decision-state"
          [] s = "capture-post-decision-state" -> "observe-automatic-decision-window"
          [] OTHER                             -> "leave-lock" ]

\* The body of the `with lock` statement.
BodyStages ==
    {"locked", "seed-pending-report", "capture-baseline",
     "apply-reporting-fault", "fault-applied"} \cup Observations

MinimalLocked == BodyStages \cup {"leave-lock"}

MinimalStages ==
    MinimalLocked \cup Ended \cup
    {"idle", "opened", "settle", "restore-environment", "recovered",
     "persist", "teardown", "judge"}

\* Lines before the lock: refused while a block exists, otherwise the bundle
\* directory is created and run.json is written as PENDING.
Begin(r) ==
    /\ stage[r] = "idle"
    /\ \/ /\ Blocked
          /\ GoTo(r, "refused")
          /\ UNCHANGED runFile
       \/ /\ ~Blocked
          /\ GoTo(r, "opened")
          /\ runFile' = [runFile EXCEPT ![r] = NewRun]
    /\ UNCHANGED <<rootVars, targetVars, run, failed, answer, polls, subjects, sealed>>

\* Mutant: the lock file is opened without O_EXCL.
EnterLockShared(r) ==
    /\ stage[r] = "opened"
    /\ Acquire(r)
    /\ GoTo(r, "locked")
    /\ UNCHANGED <<block, maintenance, targetVars, run, failed, answer, polls, bundleVars>>

\* Mutant: a held lock is waited for.
EnterLockWaits(r) ==
    /\ stage[r] = "opened"
    /\ LockIsFree
    /\ Acquire(r)
    /\ GoTo(r, "locked")
    /\ UNCHANGED <<block, maintenance, targetVars, run, failed, answer, polls, bundleVars>>

\* `with lock`: the file is created exclusively, or RuntimeError is raised
\* inside the `try` and the Run goes straight to the `finally`.
EnterLock(r) ==
    /\ stage[r] = "opened"
    /\ \/ /\ LockIsFree
          /\ Acquire(r)
          /\ GoTo(r, "locked")
          /\ UNCHANGED failed
       \/ /\ ~LockIsFree
          /\ GoTo(r, "settle")
          /\ failed' = [failed EXCEPT ![r] = TRUE]
          /\ UNCHANGED lock
    /\ UNCHANGED <<block, maintenance, targetVars, run, answer, polls, bundleVars>>

StartRunning(r) ==
    /\ stage[r] = "locked"
    /\ CanMove(run[r], "RUNNING")
    /\ run' = [run EXCEPT ![r] = Moved(@, "RUNNING")]
    /\ runFile' = [runFile EXCEPT ![r] = run'[r]]
    /\ GoTo(r, "seed-pending-report")
    /\ UNCHANGED <<rootVars, targetVars, failed, answer, polls, subjects, sealed>>

Seed(r) ==
    /\ stage[r] = "seed-pending-report"
    /\ fixture' = fixture \cup {r}
    /\ GoTo(r, "capture-baseline")
    /\ UNCHANGED <<rootVars, marker, run, failed, answer, polls, bundleVars>>

CaptureBaseline(r) ==
    /\ stage[r] = "capture-baseline"
    /\ subjects' = subjects \cup {r}
    /\ GoTo(r, "apply-reporting-fault")
    /\ UNCHANGED <<rootVars, targetVars, run, failed, answer, polls, runFile, sealed>>

\* The marker file is written first; the Run record learns of it next.
ApplyFault(r) ==
    /\ stage[r] = "apply-reporting-fault"
    /\ marker' = marker \cup {r}
    /\ GoTo(r, "fault-applied")
    /\ UNCHANGED <<rootVars, fixture, run, failed, answer, polls, bundleVars>>

RecordFault(r) ==
    /\ stage[r] = "fault-applied"
    /\ run' = [run EXCEPT ![r].faulted = TRUE]
    /\ runFile' = [runFile EXCEPT ![r] = run'[r]]
    /\ GoTo(r, "trigger-reporting")
    /\ UNCHANGED <<rootVars, targetVars, failed, answer, polls, subjects, sealed>>

Observe(r) ==
    /\ stage[r] \in Observations
    /\ GoTo(r, NextObservation[stage[r]])
    /\ UNCHANGED <<rootVars, targetVars, run, failed, answer, polls, bundleVars>>

\* Any step of the body may raise: an adapter result that is not ok, an
\* adapter exception, an interrupt.  The lock is left and execution_error set.
BodyRaises(r) ==
    /\ stage[r] \in BodyStages
    /\ GoTo(r, "leave-lock")
    /\ failed' = [failed EXCEPT ![r] = TRUE]
    /\ UNCHANGED <<rootVars, targetVars, run, answer, polls, bundleVars>>

LeaveLock(r) ==
    /\ stage[r] = "leave-lock"
    /\ Release
    /\ GoTo(r, "settle")
    /\ UNCHANGED <<block, maintenance, targetVars, run, failed, answer, polls, bundleVars>>

\* Mutant: the RESTORING record is not saved.
SettleUnsaved(r) ==
    /\ stage[r] = "settle"
    /\ run' = [run EXCEPT ![r] = Moved(@, IF @.faulted THEN "RESTORING" ELSE "ABORTED")]
    /\ GoTo(r, IF run[r].faulted THEN "restore-environment" ELSE "persist")
    /\ UNCHANGED <<rootVars, targetVars, failed, answer, polls, bundleVars>>

\* The `finally`: a Run that knows of its fault must restore, any other aborts.
Settle(r) ==
    /\ stage[r] = "settle"
    /\ \/ /\ run[r].faulted
          /\ CanMove(run[r], "RESTORING")
          /\ run' = [run EXCEPT ![r] = Moved(@, "RESTORING")]
          /\ runFile' = [runFile EXCEPT ![r] = run'[r]]
          /\ GoTo(r, "restore-environment")
       \/ /\ ~run[r].faulted
          /\ CanMove(run[r], "ABORTED")
          /\ run' = [run EXCEPT ![r] = Moved(@, "ABORTED")]
          /\ GoTo(r, "persist")
          /\ UNCHANGED runFile
    /\ UNCHANGED <<rootVars, targetVars, failed, answer, polls, subjects, sealed>>

\* One fault.restore call: the marker is unlinked, worker health and report
\* processing are asked for.  The last answer counts; polling stops early
\* only when the environment is restored and report processing is terminal.
RestoreAttempt(r) ==
    /\ stage[r] = "restore-environment"
    /\ polls[r] < MaxPolls
    /\ marker' = marker \ {r}
    /\ polls' = [polls EXCEPT ![r] = @ + 1]
    /\ \E healthy, terminal \in BOOLEAN :
         /\ answer' = [answer EXCEPT ![r] = AnswerOf(healthy)]
         /\ IF (healthy /\ terminal) \/ polls'[r] = MaxPolls
              THEN GoTo(r, "recovered")
              ELSE UNCHANGED stage
    /\ UNCHANGED <<rootVars, fixture, run, failed, bundleVars>>

\* The terminal state follows the last restore answer; a failed restore
\* blocks the pair.
Conclude(r) ==
    /\ stage[r] = "recovered"
    /\ LET dest == IF answer[r] # "ok" THEN "RESTORE_FAILED"
                   ELSE IF failed[r] THEN "ABORTED" ELSE "COMPLETED"
       IN  /\ CanMove(run[r], dest)
           /\ run' = [run EXCEPT ![r] = Moved(@, dest)]
           /\ IF dest = "RESTORE_FAILED" THEN WriteBlock(r) ELSE UNCHANGED block
    /\ GoTo(r, "persist")
    /\ UNCHANGED <<lock, maintenance, targetVars, failed, answer, polls, bundleVars>>

\* Mutant: the handler records the failure and writes no block.
RestoreRaisesUnblocked(r) ==
    /\ stage[r] \in {"restore-environment", "recovered"}
    /\ marker' \in {marker, marker \ {r}}
    /\ run' = [run EXCEPT ![r] = Moved(@, "RESTORE_FAILED")]
    /\ failed' = [failed EXCEPT ![r] = TRUE]
    /\ answer' = [answer EXCEPT ![r] = "failed"]
    /\ GoTo(r, "persist")
    /\ UNCHANGED <<rootVars, fixture, polls, bundleVars>>

\* An exception while restoring, before or after the marker was unlinked:
\* RESTORE_FAILED and the block, whatever earlier attempts had answered.
RestoreRaises(r) ==
    /\ stage[r] \in {"restore-environment", "recovered"}
    /\ CanMove(run[r], "RESTORE_FAILED")
    /\ marker' \in {marker, marker \ {r}}
    /\ run' = [run EXCEPT ![r] = Moved(@, "RESTORE_FAILED")]
    /\ WriteBlock(r)
    /\ failed' = [failed EXCEPT ![r] = TRUE]
    /\ answer' = [answer EXCEPT ![r] = "failed"]
    /\ GoTo(r, "persist")
    /\ UNCHANGED <<lock, maintenance, fixture, polls, bundleVars>>

\* Mutant: every seeded subject is torn down, restored or not.
PersistTearsDown(r) ==
    /\ stage[r] = "persist"
    /\ runFile' = [runFile EXCEPT ![r] = run[r]]
    /\ GoTo(r, IF r \in fixture THEN "teardown" ELSE "judge")
    /\ UNCHANGED <<rootVars, targetVars, run, failed, answer, polls, subjects, sealed>>

\* The inner `finally` writes the terminal record; only a seeded and restored
\* subject is torn down.
Persist(r) ==
    /\ stage[r] = "persist"
    /\ runFile' = [runFile EXCEPT ![r] = run[r]]
    /\ GoTo(r, IF r \in fixture /\ answer[r] = "ok" THEN "teardown" ELSE "judge")
    /\ UNCHANGED <<rootVars, targetVars, run, failed, answer, polls, subjects, sealed>>

\* A teardown that is not ok leaves the rows and sets execution_error.
Teardown(r) ==
    /\ stage[r] = "teardown"
    /\ \/ /\ fixture' = fixture \ {r}
          /\ UNCHANGED failed
       \/ /\ failed' = [failed EXCEPT ![r] = TRUE]
          /\ UNCHANGED fixture
    /\ GoTo(r, "judge")
    /\ UNCHANGED <<rootVars, marker, run, answer, polls, bundleVars>>

\* Judgement and seal.  A retest whose test subject was never captured raises
\* before the seal, and its bundle directory stays open.
Seal(r) ==
    /\ stage[r] = "judge"
    /\ \/ /\ r \in Retests \ subjects
          /\ GoTo(r, "raised")
          /\ UNCHANGED sealed
       \/ /\ r \notin Retests \ subjects
          /\ GoTo(r, "done")
          /\ sealed' = sealed \cup {r}
    /\ UNCHANGED <<rootVars, targetVars, run, failed, answer, polls, runFile, subjects>>

MinimalStep(r) ==
    \/ Begin(r) \/ EnterLock(r) \/ StartRunning(r) \/ Seed(r) \/ CaptureBaseline(r)
    \/ ApplyFault(r) \/ RecordFault(r) \/ Observe(r) \/ BodyRaises(r) \/ LeaveLock(r)
    \/ Settle(r) \/ RestoreAttempt(r) \/ Conclude(r) \/ RestoreRaises(r)
    \/ Persist(r) \/ Teardown(r) \/ Seal(r)
=============================================================================
