----------------------------- MODULE ConsentRun -----------------------------
(***************************************************************************)
(* N02Executor.execute and its collectors (engine/executors/n02.py): six   *)
(* lanes are seeded once, the bypass and normal-order slices run, then one *)
(* consent request is made to fail by a marker, the marker is taken back,  *)
(* the three protected paths are probed and the request is retried.  An    *)
(* exception and an interrupt (KeyboardInterrupt) leave on different ways. *)
(***************************************************************************)
EXTENDS ConsentFault

VARIABLES
    mem,       \* what collect_us3 keeps of each Run
    started,   \* Runs whose fault_stage_started is set
    leaving,   \* how a process is on its way out: "no", "exception", "interrupt"
    recovery,  \* RecoveryRecord.restore_status, and the worse of A6 and A7
    teardown,  \* how the final teardown ended
    outcome,   \* Run.state in memory, or "none"
    verdict,   \* the Judgement in memory
    runFile,   \* state in run.json
    verified   \* Runs whose sealed bundle verifies

processVars == <<stage, mem, started, leaving, recovery, teardown, outcome, verdict>>
consentVars == <<rootVars, targetVars, processVars, runFile, verified>>

NoMem == [applied |-> FALSE, replied |-> FALSE, receipt |-> FALSE, zero |-> TRUE,
          restore |-> "none", overlayOk |-> TRUE, safe |-> FALSE, durable |-> "unread"]
NoRecovery == [safe |-> FALSE, result |-> "none"]

ConsentInit ==
    /\ RootInit /\ TargetInit
    /\ mem = [r \in Runs |-> NoMem]
    /\ started = {}
    /\ leaving = [r \in Runs |-> "no"]
    /\ recovery = [r \in Runs |-> NoRecovery]
    /\ teardown = [r \in Runs |-> "not run"]
    /\ outcome = [r \in Runs |-> "none"]
    /\ verdict = [r \in Runs |-> "none"]
    /\ runFile = [r \in Runs |-> "ABSENT"]
    /\ verified = {}

Gone == Ended \cup {"interrupted", "stopped"}

\* What a process that ends takes with it.
Forget(r) ==
    /\ mem' = [mem EXCEPT ![r] = NoMem]
    /\ started' = started \ {r}
    /\ leaving' = [leaving EXCEPT ![r] = "no"]
    /\ recovery' = [recovery EXCEPT ![r] = NoRecovery]
    /\ teardown' = [teardown EXCEPT ![r] = "not run"]
    /\ outcome' = [outcome EXCEPT ![r] = "none"]

resultVars == <<recovery, teardown, outcome, verdict, runFile, verified>>
quietVars  == <<started, leaving, resultVars>>

Keep(r, changes) == mem' = [mem EXCEPT ![r] = changes]

-----------------------------------------------------------------------------
(* The envelope up to the collectors *)

Open(r) ==
    /\ stage[r] = "idle"
    /\ GoTo(r, IF Blocked THEN "refused" ELSE "opened")
    /\ UNCHANGED <<rootVars, targetVars, mem, quietVars>>

\* Mutant: the lock file is opened without O_EXCL.
EnterLockShared(r) ==
    /\ stage[r] = "opened"
    /\ Acquire(r) /\ GoTo(r, "entered")
    /\ UNCHANGED <<block, maintenance, targetVars, mem, quietVars>>

EnterLock(r) ==
    /\ stage[r] = "opened"
    /\ \/ LockIsFree /\ Acquire(r) /\ GoTo(r, "entered")
       \/ ~LockIsFree /\ GoTo(r, "raised") /\ UNCHANGED lock
    /\ UNCHANGED <<block, maintenance, targetVars, mem, quietVars>>

\* The block is read again under the lock, outside the try.
CheckBlock(r) ==
    /\ stage[r] = "entered"
    /\ \/ Blocked /\ leaving' = [leaving EXCEPT ![r] = "exception"] /\ GoTo(r, "leave")
       \/ ~Blocked /\ GoTo(r, "seed") /\ UNCHANGED leaving
    /\ UNCHANGED <<rootVars, targetVars, mem, started, resultVars>>

\* Leave the slice at hand by an exception, or the whole execute by an
\* interrupt, which `except Exception` does not see.
Fail(r, next) ==
    /\ leaving' = [leaving EXCEPT ![r] = "exception"]
    /\ GoTo(r, next)
Interrupt(r, next) ==
    /\ r \in Disturbed
    /\ leaving' = [leaving EXCEPT ![r] = "interrupt"]
    /\ GoTo(r, next)

SeedLanes(r) ==
    /\ stage[r] = "seed"
    /\ \/ SeedRows(r, TRUE) /\ GoTo(r, "slices") /\ UNCHANGED leaving
       \/ SeedRows(r, FALSE) /\ Fail(r, "handler")
       \/ \E ok \in BOOLEAN : SeedRows(r, ok) /\ Interrupt(r, "leave")
    /\ UNCHANGED <<rootVars, marker, token, receipts, overlays, pending, consents,
                   mem, started, resultVars>>

\* Mutant: the fault stage is only marked when collect_us3 is back.
CollectSlicesUnmarked(r) ==
    /\ stage[r] = "slices"
    /\ \/ GoTo(r, "apply") /\ UNCHANGED leaving
       \/ Fail(r, "handler")
       \/ Interrupt(r, "leave")
    /\ UNCHANGED <<rootVars, targetVars, mem, started, resultVars>>

\* collect_us1 and collect_us2 work on lanes of their own; their teardowns are
\* deferred by _SharedSeed.
CollectSlices(r) ==
    /\ stage[r] = "slices"
    /\ \/ GoTo(r, "apply") /\ started' = started \cup {r} /\ UNCHANGED leaving
       \/ Fail(r, "handler") /\ UNCHANGED started
       \/ Interrupt(r, "leave") /\ UNCHANGED started
    /\ UNCHANGED <<rootVars, targetVars, mem, resultVars>>

-----------------------------------------------------------------------------
(* collect_us3: the body *)

\* The marker may be written and the answer lost to an interrupt.
ApplyFault(r) ==
    /\ stage[r] = "apply"
    /\ \/ /\ ApplyMarker(r, TRUE) /\ Keep(r, [mem[r] EXCEPT !.applied = TRUE])
          /\ GoTo(r, "request") /\ UNCHANGED leaving
       \/ ApplyMarker(r, FALSE) /\ Fail(r, "finally") /\ UNCHANGED mem
       \/ \E ok \in BOOLEAN : ApplyMarker(r, ok) /\ Interrupt(r, "finally") /\ UNCHANGED mem
    /\ UNCHANGED <<rootVars, token, receipts, rows, overlays, pending, consents,
                   started, resultVars>>

SendRequest(r) ==
    /\ stage[r] \in {"request", "retry"}
    /\ IF stage[r] = "request"
       THEN Send(r, "failed") /\ GoTo(r, "await failed")
       ELSE Send(r, "retry") /\ GoTo(r, "await retry")
    /\ UNCHANGED <<rootVars, marker, token, receipts, rows, overlays, consents,
                   mem, quietVars>>

\* The answer of the failed request, or a timeout before it; a 2xx answer is
\* only received of a committed consent.
AwaitFailed(r) ==
    /\ stage[r] = "await failed"
    /\ AnsweredOrLate(r, "failed")
    /\ \E replied \in BOOLEAN :
          /\ replied => "failed" \in consents[r]
          /\ Keep(r, [mem[r] EXCEPT !.replied = replied])
    /\ GoTo(r, "read failed")
    /\ UNCHANGED <<rootVars, targetVars, quietVars>>

\* Receipt, then state; a state that cannot be read raises.
ReadFailed(r) ==
    /\ stage[r] = "read failed"
    /\ \/ /\ \E seen \in BOOLEAN :
                /\ seen => r \in receipts
                /\ Keep(r, [mem[r] EXCEPT !.receipt = seen, !.zero = StateIsZero(r)])
          /\ GoTo(r, "restore") /\ UNCHANGED leaving
       \/ Fail(r, "finally") /\ UNCHANGED mem
       \/ Interrupt(r, "finally") /\ UNCHANGED mem
    /\ UNCHANGED <<rootVars, targetVars, started, resultVars>>

RestoreFirst(r) ==
    /\ stage[r] = "restore"
    /\ \E ok \in BOOLEAN :
          /\ RestoreFault(r, ok)
          /\ \/ /\ Keep(r, [mem[r] EXCEPT !.restore = IF ok THEN "ok" ELSE "failed"])
                /\ GoTo(r, IF ok THEN "probe" ELSE "record")
                /\ UNCHANGED leaving
             \/ Interrupt(r, "finally") /\ UNCHANGED mem
    /\ UNCHANGED <<rootVars, receipts, rows, overlays, pending, consents, started, resultVars>>

\* A turn of the path loop.  RECORDING and AI_ASSESSMENT need rows of their
\* own to be probed and take the same turn, DOCUMENT_ANALYSIS needs none: one
\* turn stands for the loop.
ProbePath(r) ==
    /\ stage[r] = "probe"
    /\ \/ ApplyOverlay(r) /\ GoTo(r, "undo") /\ UNCHANGED leaving
       \/ Fail(r, "finally") /\ UNCHANGED overlays
       \/ Interrupt(r, "finally") /\ UNCHANGED overlays
    /\ UNCHANGED <<rootVars, marker, token, receipts, rows, pending, consents,
                   mem, started, resultVars>>

\* The inner finally removes the overlay whether the attempt raised or not.
UndoPath(r) ==
    /\ stage[r] = "undo"
    /\ \/ RemoveOverlay(r) /\ UNCHANGED mem
       \/ Keep(r, [mem[r] EXCEPT !.overlayOk = FALSE]) /\ UNCHANGED overlays
    /\ \/ GoTo(r, "safe") /\ UNCHANGED leaving
       \/ Fail(r, "finally")
       \/ Interrupt(r, "finally")
    /\ UNCHANGED <<rootVars, marker, token, receipts, rows, pending, consents,
                   started, resultVars>>

\* verify-pristine-before-retry: anything but zero raises.
SafeState(r) ==
    /\ stage[r] = "safe"
    /\ \/ /\ StateIsZero(r) /\ Keep(r, [mem[r] EXCEPT !.safe = TRUE])
          /\ GoTo(r, "retry") /\ UNCHANGED leaving
       \/ Fail(r, "finally") /\ UNCHANGED mem
       \/ Interrupt(r, "finally") /\ UNCHANGED mem
    /\ UNCHANGED <<rootVars, targetVars, started, resultVars>>

\* The retry was answered, or not in time; its code is evidence only.
ReadRecovered(r) ==
    /\ stage[r] = "await retry"
    /\ AnsweredOrLate(r, "retry")
    /\ \/ /\ Keep(r, [mem[r] EXCEPT !.durable = IF ConsentIsDurable(r) THEN "one" ELSE "other"])
          /\ GoTo(r, "record") /\ UNCHANGED leaving
       \/ Fail(r, "finally") /\ UNCHANGED mem
       \/ Interrupt(r, "finally") /\ UNCHANGED mem
    /\ UNCHANGED <<rootVars, targetVars, started, resultVars>>

\* RecoveryRecord and the assertions over what was read.
RecordOf(read, probes, order) ==
    LET safe == read.restore = "ok" /\ read.overlayOk /\ read.safe IN
    [safe |-> safe, result |-> Worst({AssertA6(read, probes), AssertA7(read, safe, order)})]

\* What the probes and the order of the processing came to is the product's
\* choice.
Record(r) ==
    /\ stage[r] = "record"
    /\ \E probes \in IF mem[r].restore = "ok" THEN {"denied", "leak", "gap"} ELSE {"gap"},
          order \in IF mem[r].durable = "one" THEN Statuses ELSE {"none"} :
          recovery' = [recovery EXCEPT ![r] = RecordOf(mem[r], probes, order)]
    /\ GoTo(r, "finally")
    /\ UNCHANGED <<rootVars, targetVars, mem, started, leaving,
                   teardown, outcome, verdict, runFile, verified>>

\* Where the finally of collect_us3 lets the process go.
AfterFinally(r) ==
    CASE leaving[r] = "no"        -> "teardown"
      [] leaving[r] = "exception" -> "handler"
      [] OTHER                    -> "leave"

\* The finally: active overlays go if they can, then a fault that was applied
\* and not restored is restored again.  The record made before is not changed.
Finally(r) ==
    /\ stage[r] = "finally"
    /\ overlays' \in {overlays, overlays \ {r}}
    /\ IF mem[r].applied /\ mem[r].restore # "ok"
       THEN \E ok \in BOOLEAN : RestoreFault(r, ok)
       ELSE UNCHANGED <<marker, token>>
    /\ GoTo(r, AfterFinally(r))
    /\ UNCHANGED <<rootVars, receipts, rows, pending, consents, mem, quietVars>>

-----------------------------------------------------------------------------
(* execute after the collectors *)

\* Rows of a Run that did not recover are held for the manual cleanup.
FinalTeardown(r) ==
    /\ stage[r] = "teardown"
    /\ \/ \E ok \in {TRUE, FALSE} :
             /\ recovery[r].safe
             /\ TeardownLanes(r, ok)
             /\ teardown' = [teardown EXCEPT ![r] = IF ok THEN "ok" ELSE "failed"]
             /\ GoTo(r, "leave") /\ UNCHANGED leaving
       \/ /\ ~recovery[r].safe
          /\ teardown' = [teardown EXCEPT ![r] = "held"]
          /\ GoTo(r, "leave") /\ UNCHANGED <<rows, overlays, pending, leaving>>
       \/ \E ok \in BOOLEAN :
             recovery[r].safe /\ TeardownLanes(r, ok) /\ Interrupt(r, "leave")
             /\ UNCHANGED teardown
    /\ UNCHANGED <<rootVars, marker, token, receipts, consents, mem, started,
                   recovery, outcome, verdict, runFile, verified>>

\* except Exception: the fault once more if its stage had started, the rows if
\* that is certain, and a block if anything of it is not.
HandlerRestore(r) ==
    /\ stage[r] = "handler"
    /\ IF r \in started
       THEN \E ok \in BOOLEAN :
               RestoreFault(r, ok) /\ GoTo(r, IF ok THEN "handler rows" ELSE "handler block")
       ELSE GoTo(r, "handler rows") /\ UNCHANGED <<marker, token>>
    /\ UNCHANGED <<rootVars, receipts, rows, overlays, pending, consents, mem, quietVars>>

\* Mutant: the teardown that failed is not an obligation any more.
HandlerTeardownForgets(r) ==
    /\ stage[r] = "handler rows"
    /\ \E ok \in BOOLEAN : TeardownLanes(r, ok)
    /\ GoTo(r, "leave")
    /\ UNCHANGED <<rootVars, marker, token, receipts, consents, mem, quietVars>>

\* Without lanes in memory there is nothing to tear down.
HandlerTeardown(r) ==
    /\ stage[r] = "handler rows"
    /\ \E ok \in BOOLEAN :
          /\ r \notin rows => ok
          /\ TeardownLanes(r, ok)
          /\ GoTo(r, IF ok THEN "leave" ELSE "handler block")
    /\ UNCHANGED <<rootVars, marker, token, receipts, consents, mem, quietVars>>

HandlerBlock(r) ==
    /\ stage[r] = "handler block"
    /\ WriteBlock(r)
    /\ GoTo(r, "leave")
    /\ UNCHANGED <<lock, maintenance, targetVars, mem, quietVars>>

LeaveLock(r) ==
    /\ stage[r] = "leave"
    /\ Release
    /\ \/ leaving[r] = "no" /\ GoTo(r, "conclude")
          /\ UNCHANGED <<mem, started, leaving, recovery, teardown, outcome>>
       \/ leaving[r] = "exception" /\ GoTo(r, "raised") /\ Forget(r)
       \/ leaving[r] = "interrupt" /\ GoTo(r, "interrupted") /\ Forget(r)
    /\ UNCHANGED <<block, maintenance, targetVars, verdict, runFile, verified>>

\* Mutant: what the teardown came to is left out of the state.
ConcludeByRecovery(r) ==
    /\ stage[r] = "conclude"
    /\ outcome' = [outcome EXCEPT ![r] =
           IF recovery[r].safe THEN "COMPLETED" ELSE "RESTORE_FAILED"]
    /\ GoTo(r, "block")
    /\ UNCHANGED <<rootVars, targetVars, mem, started, leaving, recovery, teardown,
                   verdict, runFile, verified>>

\* A restore that took longer than its budget is no restore.  The capture of
\* the environment and the retest checks stand before the block and may raise.
Conclude(r) ==
    /\ stage[r] = "conclude"
    /\ \E inTime \in BOOLEAN :
          outcome' = [outcome EXCEPT ![r] =
              IF recovery[r].safe /\ teardown[r] = "ok" /\ inTime
              THEN "COMPLETED" ELSE "RESTORE_FAILED"]
    /\ GoTo(r, "block")
    /\ UNCHANGED <<rootVars, targetVars, mem, started, leaving, recovery, teardown,
                   verdict, runFile, verified>>

\* The block of a RESTORE_FAILED Run, then the judgement.
BlockAndJudge(r) ==
    /\ stage[r] = "block"
    /\ IF outcome[r] = "COMPLETED" THEN UNCHANGED block ELSE WriteBlock(r)
    /\ \E slices \in Statuses :
          verdict' = [verdict EXCEPT ![r] =
              JudgeRun(outcome[r], {slices, recovery[r].result})]
    /\ mem' = [mem EXCEPT ![r] = NoMem]
    /\ recovery' = [recovery EXCEPT ![r] = NoRecovery]
    /\ teardown' = [teardown EXCEPT ![r] = "not run"]
    /\ started' = started \ {r}
    /\ GoTo(r, "write")
    /\ UNCHANGED <<lock, maintenance, targetVars, leaving, outcome, runFile, verified>>

WriteRun(r) ==
    /\ stage[r] = "write"
    /\ runFile' = [runFile EXCEPT ![r] = outcome[r]]
    /\ GoTo(r, "seal")
    /\ UNCHANGED <<rootVars, targetVars, mem, started, leaving, recovery, teardown,
                   outcome, verdict, verified>>

SealBundle(r) ==
    /\ stage[r] = "seal"
    /\ \/ verified' = verified \cup {r} /\ GoTo(r, "done")
       \/ UNCHANGED verified /\ GoTo(r, "stopped")
    /\ Forget(r)
    /\ UNCHANGED <<rootVars, targetVars, verdict, runFile>>

\* An error or an interrupt after the lock ends the Run where it is.
Stop(r) ==
    /\ stage[r] \in {"conclude", "block", "write", "seal"}
    /\ GoTo(r, "stopped")
    /\ Forget(r)
    /\ UNCHANGED <<rootVars, targetVars, verdict, runFile, verified>>

RunStep(r) ==
    \/ Open(r) \/ EnterLock(r) \/ CheckBlock(r) \/ SeedLanes(r) \/ CollectSlices(r)
    \/ ApplyFault(r) \/ SendRequest(r) \/ AwaitFailed(r) \/ ReadFailed(r)
    \/ RestoreFirst(r) \/ ProbePath(r) \/ UndoPath(r) \/ SafeState(r) \/ ReadRecovered(r)
    \/ Record(r) \/ Finally(r) \/ FinalTeardown(r)
    \/ HandlerRestore(r) \/ HandlerTeardown(r) \/ HandlerBlock(r)
    \/ LeaveLock(r) \/ Conclude(r) \/ BlockAndJudge(r) \/ WriteRun(r) \/ SealBundle(r)
    \/ Stop(r)

\* The process dies: files, rows and requests under way stay.
Crash(r) ==
    /\ r \in Disturbed
    /\ stage[r] \notin Gone \cup {"idle"}
    /\ GoTo(r, "crashed")
    /\ Forget(r)
    /\ UNCHANGED <<rootVars, targetVars, verdict, runFile, verified>>
=============================================================================
