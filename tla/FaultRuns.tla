------------------------------ MODULE FaultRuns ------------------------------
(***************************************************************************)
(* Several `controlproof run` processes of both envelopes and one          *)
(* cleanup-confirm command on the same target+subject pair.                *)
(***************************************************************************)
EXTENDS MinimalRun, DlqRun

CONSTANT DlqRuns   \* the Runs with the H03_DLQ_V2 profile, the rest are H03_MINIMAL_V1

ASSUME DlqRunsAssumption == DlqRuns \subseteq Runs

MinimalRuns == Runs \ DlqRuns

allVars == <<vars, redrive, cleanup>>

SystemInit == Init /\ DlqInit /\ CleanupInit

RunStep(r) ==
    /\ \/ r \in MinimalRuns /\ MinimalStep(r) /\ UNCHANGED redrive
       \/ r \in DlqRuns /\ DlqStep(r)
    /\ UNCHANGED cleanup

SystemNext ==
    \/ \E r \in Runs : RunStep(r)
    \/ \E r \in Runs : Crash(r) /\ UNCHANGED <<redrive, cleanup>>
    \/ CleanupStep /\ UNCHANGED redrive

SystemSpec == SystemInit /\ [][SystemNext]_allVars

\* A process that is alive keeps executing; nobody owes a cleanup-confirm.
FairSystemSpec == SystemSpec /\ \A r \in Runs : WF_allVars(RunStep(r))

-----------------------------------------------------------------------------
(* Types *)

TypeOK ==
    /\ lock \in Runs \cup {None}
    /\ block \in Runs \cup {None}
    /\ maintenance \subseteq Runs
    /\ marker \subseteq Runs
    /\ fixture \subseteq Runs
    /\ stage \in [Runs -> MinimalStages \cup DlqStages]
    /\ run \in [Runs -> RunRecords]
    /\ failed \in [Runs -> BOOLEAN]
    /\ answer \in [Runs -> RestoreAnswers]
    /\ polls \in [Runs -> 0..MaxPolls]
    /\ runFile \in [Runs -> RunRecords \cup {NoFile}]
    /\ subjects \subseteq Runs
    /\ sealed \subseteq Runs
    /\ redrive \in [Runs -> RedriveResults]
    /\ cleanup \in CleanupStages

-----------------------------------------------------------------------------
(* Safety *)

Locked(r) == stage[r] \in MinimalLocked \cup DlqLocked

\* TargetSubjectLock: at most one live Run of a pair is between lock and
\* release, and the lock file is then its own.
LockExclusion ==
    \A r \in Runs : Locked(r) => lock = r

\* A Run that claims a restored target; ABORTED without a fault claims nothing.
GoodEnd(rec) == rec.state = "COMPLETED" \/ (rec.state = "ABORTED" /\ rec.faulted)

\* transition and _restore_until_deadline: a run.json that says a faulted Run
\* ended well (COMPLETED, or ABORTED after a restore) is never on disk while
\* the fault marker of that Run is still at the target.
GoodEndMeansMarkerGone ==
    \A r \in Runs : GoodEnd(runFile[r]) => r \notin marker

\* Both envelopes write the restore block before the record that needs it: a
\* RESTORE_FAILED run.json is on disk only if a block is there or some
\* cleanup has been confirmed since.
FailureIsBarred ==
    (\E r \in Runs : runFile[r].state = "RESTORE_FAILED")
        => Blocked \/ maintenance # {}

(* Action properties *)

\* The rows of a subject are deleted only after its fault marker is gone: no
\* teardown pulls the subject from under an active fault.
TeardownAfterLift ==
    [][\A r \in fixture \ fixture' : r \notin marker]_allVars

\* The lock is only ever removed by the process that created it.  The file of
\* a dead Run therefore stays and keeps every later Run out.
OnlyHolderUnlocks ==
    [][lock # None /\ lock' # lock => stage[lock] \in {"leave-lock", "dlq-return", "dlq-raise"}]_allVars

\* run.json on disk only moves along the lifecycle, never out of a terminal
\* state, and never straight to ABORTED once it records a fault.
FollowsLifecycle(old, new) ==
    \/ old.state = "ABSENT" /\ new.state \in {"PENDING", "COMPLETED", "RESTORE_FAILED"}
    \/ old.state \in RunStates /\ CanMove(old, new.state)
    \/ old.state = "RUNNING" /\ new = [old EXCEPT !.faulted = TRUE]

DiskFollowsLifecycle ==
    [][\A r \in Runs : runFile'[r] # runFile[r] => FollowsLifecycle(runFile[r], runFile'[r])]_allVars

(***************************************************************************)
(* The run root implements FaultWindow.  A Run has reported once its       *)
(* run.json is terminal and says something about the target.               *)
(***************************************************************************)
VerdictOf(file) ==
    IF GoodEnd(file) THEN "clean"
    ELSE IF file.state = "RESTORE_FAILED" THEN "unsafe" ELSE "open"

FW == INSTANCE FaultWindow
        WITH active  <- marker,
             barrier <- Blocked,
             cleared <- maintenance # {},
             verdict <- [r \in Runs |-> VerdictOf(runFile[r])]

\* Every step of the Runs and of cleanup-confirm is a step of the promise:
\* faults are only injected before a report, reports are true and final.
ImplementsFaultWindow == FW!FWSpec

-----------------------------------------------------------------------------
(* The inductive invariant behind the safety properties *)

\* Until these control points the Run has not concluded.
MinimalUnconcluded == MinimalLocked \cup {"idle", "opened", "settle", "restore-environment", "recovered"}
DlqUnconcluded     == DlqLocked \cup {"dlq-opened", "dlq-decide"}

\* Here the Run's fault is still to be injected.
BeforeFault ==
    {"idle", "opened", "locked", "seed-pending-report", "capture-baseline",
     "apply-reporting-fault", "dlq-opened", "dlq-seed", "dlq-baseline", "dlq-apply"}

\* Until it concludes, a Run is in no terminal state, in memory or on disk.
ConcludesOnce ==
    \A r \in Runs : stage[r] \in MinimalUnconcluded \cup DlqUnconcluded =>
        /\ run[r].state \notin TerminalRunStates
        /\ runFile[r].state \notin TerminalRunStates

\* A restore that answered ok is about a fault injected before, and it is gone.
AnswerIsTrue ==
    \A r \in Runs :
        /\ stage[r] \in BeforeFault => answer[r] = "none"
        /\ answer[r] = "ok" => r \notin marker
        /\ stage[r] \in {"teardown", "dlq-redrive", "dlq-teardown"} => r \notin marker

\* No record, in memory or on disk, claims a good end over a live fault.
RecordsAreTrue ==
    \A r \in Runs : GoodEnd(run[r]) \/ GoodEnd(runFile[r]) => r \notin marker

\* A failed Run in memory already has its block; an unlink of the block comes
\* after a confirmation was stored.
FailuresAreBarred ==
    /\ \A r \in Runs : run[r].state = "RESTORE_FAILED" => Barred
    /\ \A r \in Runs : runFile[r].state = "RESTORE_FAILED" => Barred
    /\ cleanup = "recorded" => maintenance # {}

\* How far run.json on disk lags behind the record in memory.
DiskLag ==
    \A r \in Runs :
        /\ stage[r] = "idle" => run[r] = NewRun
        /\ stage[r] \in BodyStages \ {"locked"} => run[r].state = "RUNNING"
        /\ stage[r] \in MinimalUnconcluded \ {"idle"} => runFile[r] = run[r]
        /\ stage[r] = "persist" =>
             runFile[r].state \in RunStates /\ CanMove(runFile[r], run[r].state)
        /\ stage[r] \in DlqUnconcluded \cup {"idle", "dlq-write"} => runFile[r] = NoFile
        /\ stage[r] = "dlq-write" => run[r].state \in {"COMPLETED", "RESTORE_FAILED"}

IInv ==
    /\ TypeOK
    /\ LockExclusion
    /\ ConcludesOnce
    /\ AnswerIsTrue
    /\ RecordsAreTrue
    /\ FailuresAreBarred
    /\ DiskLag

(* Liveness, under FairSystemSpec *)

\* execute always ends: every Run that was started is refused, raises, seals
\* or dies; no wait or retry keeps it for ever.
RunsEnd == \A r \in Runs : stage[r] # "idle" ~> stage[r] \in Ended

\* "finally": a fault recorded in run.json does not outlast its Run unless the
\* process died; it is lifted or the pair is blocked.
RecordedFaultIsDealtWith ==
    \A r \in Runs :
        r \in marker /\ runFile[r].faulted
            ~> r \notin marker \/ Blocked \/ maintenance # {} \/ stage[r] = "crashed"

-----------------------------------------------------------------------------
(* What the documents say and the code does not do *)

\* specs/001 FR-020: after a failed restore, later fault Runs on the target
\* are blocked until cleanup is confirmed.
NoFaultUnderBlock ==
    [][Blocked => marker' \subseteq marker]_allVars

\* specs/001 plan, Constraints: no concurrent fault Runs on one target+subject.
OneFaultAtATime ==
    \A r, q \in marker :
        stage[r] \notin Ended /\ stage[q] \notin Ended => r = q

\* specs/002 SC-009: every failed restore ends in RESTORE_FAILED and a block.
FailedRestoreIsBarred ==
    \A r \in Runs :
        stage[r] \in {"raised", "done"} /\ answer[r] = "failed"
            => Blocked \/ maintenance # {}

\* specs/002 data-model, RedriveReceipt: sent but not deleted is a restore
\* uncertainty and blocks later fault Runs.
UncertainRedriveIsBarred ==
    \A r \in DlqRuns :
        stage[r] = "done" /\ redrive[r] = "undeleted" => Blocked \/ maintenance # {}
=============================================================================
