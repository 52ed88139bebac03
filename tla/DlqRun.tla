------------------------------- MODULE DlqRun -------------------------------
(***************************************************************************)
(* A full-profile H03_DLQ_V2 Run: execute_profile (engine/executors/       *)
(* sealed.py) around H03DlqExecutor._collect (engine/executors/h03_dlq.py) *)
(* and coordinate_reporting_recovery (engine/execution.py).                *)
(*                                                                         *)
(* Here the collector restores the fault while the lock is held, nothing   *)
(* is written to the run root before it returns, and an exception it lets  *)
(* through leaves neither block nor bundle.                                *)
(***************************************************************************)
EXTENDS RunRoot

VARIABLE redrive   \* what the Run's redrive did with the DLQ message

\* "none": not called.  "not-sent": the send failed, the message is still in
\* the DLQ only.  "undeleted": sent, but its DLQ original was not deleted.
RedriveResults == {"none", "not-sent", "undeleted", "moved"}

DlqInit == redrive = [r \in Runs |-> "none"]

DlqLocked ==
    {"dlq-seed", "dlq-baseline", "dlq-apply", "dlq-applied", "dlq-observe",
     "dlq-undo", "dlq-recover", "dlq-redrive", "dlq-teardown",
     "dlq-return", "dlq-raise"}

DlqStages ==
    DlqLocked \cup Ended \cup {"idle", "dlq-opened", "dlq-decide", "dlq-write", "dlq-seal"}

processAndBundle == <<run, failed, answer, polls, bundleVars>>

DlqBegin(r) ==
    /\ stage[r] = "idle"
    /\ GoTo(r, IF Blocked THEN "refused" ELSE "dlq-opened")
    /\ UNCHANGED <<rootVars, targetVars, processAndBundle, redrive>>

\* `with lock` is outside every try: a held lock refuses the Run.
DlqEnterLock(r) ==
    /\ stage[r] = "dlq-opened"
    /\ \/ /\ LockIsFree
          /\ Acquire(r)
          /\ GoTo(r, "dlq-seed")
       \/ /\ ~LockIsFree
          /\ GoTo(r, "refused")
          /\ UNCHANGED lock
    /\ UNCHANGED <<block, maintenance, targetVars, processAndBundle, redrive>>

DlqSeed(r) ==
    /\ stage[r] = "dlq-seed"
    /\ fixture' = fixture \cup {r}
    /\ GoTo(r, "dlq-baseline")
    /\ UNCHANGED <<rootVars, marker, processAndBundle, redrive>>

DlqBaseline(r) ==
    /\ stage[r] = "dlq-baseline"
    /\ GoTo(r, "dlq-apply")
    /\ UNCHANGED <<rootVars, targetVars, processAndBundle, redrive>>

\* fault.apply has written the marker; `applied` is bound when it returns.
DlqApply(r) ==
    /\ stage[r] = "dlq-apply"
    /\ marker' = marker \cup {r}
    /\ GoTo(r, "dlq-applied")
    /\ UNCHANGED <<rootVars, fixture, processAndBundle, redrive>>

DlqApplied(r) ==
    /\ stage[r] = "dlq-applied"
    /\ GoTo(r, "dlq-observe")
    /\ UNCHANGED <<rootVars, targetVars, processAndBundle, redrive>>

\* Trigger, boundary receipt, attempts and DLQ, report, console, decisions.
DlqObserve(r) ==
    /\ stage[r] = "dlq-observe"
    /\ GoTo(r, "dlq-recover")
    /\ UNCHANGED <<rootVars, targetVars, processAndBundle, redrive>>

\* An exception inside the collector.  Its `finally` restores only a fault
\* whose apply returned ok and whose observation was under way; one raised by
\* the later restore call comes before or after the marker was unlinked.
DlqRaises(r) ==
    /\ \/ /\ stage[r] = "dlq-observe"
          /\ GoTo(r, "dlq-undo")
          /\ UNCHANGED marker
       \/ /\ stage[r] \in DlqLocked \ {"dlq-observe", "dlq-undo", "dlq-raise"}
          /\ GoTo(r, "dlq-raise")
          /\ marker' \in IF stage[r] = "dlq-recover" THEN {marker, marker \ {r}} ELSE {marker}
    /\ UNCHANGED <<rootVars, fixture, processAndBundle, redrive>>

\* The `finally` of the collector: restore, its answer not looked at, and an
\* exception of its own no different from the one that continues.
DlqUndo(r) ==
    /\ stage[r] = "dlq-undo"
    /\ \/ /\ marker' = marker \ {r}
          /\ \E healthy \in BOOLEAN : answer' = [answer EXCEPT ![r] = AnswerOf(healthy)]
       \/ /\ marker' \in {marker, marker \ {r}}
          /\ answer' = [answer EXCEPT ![r] = "failed"]
    /\ GoTo(r, "dlq-raise")
    /\ UNCHANGED <<rootVars, fixture, run, failed, polls, bundleVars, redrive>>

\* The restore call.  Redrive follows when a terminal DLQ message was found
\* and the environment is safe.
DlqRestore(r) ==
    /\ stage[r] = "dlq-recover"
    /\ marker' = marker \ {r}
    /\ \E healthy, terminal \in BOOLEAN :
         /\ answer' = [answer EXCEPT ![r] = AnswerOf(healthy)]
         /\ GoTo(r, IF healthy /\ terminal THEN "dlq-redrive" ELSE "dlq-teardown")
    /\ UNCHANGED <<rootVars, fixture, run, failed, polls, bundleVars, redrive>>

\* Send to the source queue, then delete from the DLQ.  The collector keeps
\* recovery.restore and recovery.redrive, not recovery.restore_safe.
DlqRedrive(r) ==
    /\ stage[r] = "dlq-redrive"
    /\ redrive' \in {[redrive EXCEPT ![r] = x] : x \in RedriveResults \ {"none"}}
    /\ GoTo(r, "dlq-teardown")
    /\ UNCHANGED <<rootVars, targetVars, processAndBundle>>

DlqTeardown(r) ==
    /\ stage[r] = "dlq-teardown"
    /\ fixture' = fixture \ {r}
    /\ GoTo(r, "dlq-return")
    /\ UNCHANGED <<rootVars, marker, processAndBundle, redrive>>

DlqLeaveLock(r) ==
    /\ stage[r] \in {"dlq-return", "dlq-raise"}
    /\ Release
    /\ GoTo(r, IF stage[r] = "dlq-return" THEN "dlq-decide" ELSE "raised")
    /\ UNCHANGED <<block, maintenance, targetVars, processAndBundle, redrive>>

\* The Run deadline is looked at first: an overrun raises at once.
DlqOverrun(r) ==
    /\ stage[r] = "dlq-decide"
    /\ GoTo(r, "raised")
    /\ UNCHANGED <<rootVars, targetVars, processAndBundle, redrive>>

\* Mutant: only a restore that was never tried blocks.
DlqConcludeUnblocked(r) ==
    /\ stage[r] = "dlq-decide"
    /\ run' = [run EXCEPT ![r] =
                 [state   |-> IF answer[r] = "ok" THEN "COMPLETED" ELSE "RESTORE_FAILED",
                  faulted |-> TRUE,
                  manual  |-> answer[r] # "ok"]]
    /\ IF answer[r] = "none" THEN WriteBlock(r) ELSE UNCHANGED block
    /\ GoTo(r, "dlq-write")
    /\ UNCHANGED <<lock, maintenance, targetVars, failed, answer, polls, bundleVars, redrive>>

\* The Run record is built in its terminal state; a failed restore blocks.
DlqConclude(r) ==
    /\ stage[r] = "dlq-decide"
    /\ run' = [run EXCEPT ![r] =
                 [state   |-> IF answer[r] = "ok" THEN "COMPLETED" ELSE "RESTORE_FAILED",
                  faulted |-> TRUE,
                  manual  |-> answer[r] # "ok"]]
    /\ IF answer[r] = "ok" THEN UNCHANGED block ELSE WriteBlock(r)
    /\ GoTo(r, "dlq-write")
    /\ UNCHANGED <<lock, maintenance, targetVars, failed, answer, polls, bundleVars, redrive>>

DlqWrite(r) ==
    /\ stage[r] = "dlq-write"
    /\ runFile' = [runFile EXCEPT ![r] = run[r]]
    /\ subjects' = subjects \cup {r}
    /\ GoTo(r, "dlq-seal")
    /\ UNCHANGED <<rootVars, targetVars, run, failed, answer, polls, sealed, redrive>>

DlqSeal(r) ==
    /\ stage[r] = "dlq-seal"
    /\ sealed' = sealed \cup {r}
    /\ GoTo(r, "done")
    /\ UNCHANGED <<rootVars, targetVars, run, failed, answer, polls, runFile, subjects, redrive>>

DlqStep(r) ==
    \/ DlqBegin(r) \/ DlqEnterLock(r) \/ DlqSeed(r) \/ DlqBaseline(r) \/ DlqApply(r)
    \/ DlqApplied(r) \/ DlqObserve(r) \/ DlqRaises(r) \/ DlqUndo(r) \/ DlqRestore(r)
    \/ DlqRedrive(r) \/ DlqTeardown(r) \/ DlqLeaveLock(r) \/ DlqOverrun(r)
    \/ DlqConclude(r) \/ DlqWrite(r) \/ DlqSeal(r)
=============================================================================
