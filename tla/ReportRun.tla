------------------------------ MODULE ReportRun ------------------------------
(***************************************************************************)
(* Spec004LaneExecutor.execute (engine/executors/report_lanes.py): the     *)
(* part E-01 and E-02 share.  The journey of a Run seeds lanes, changes    *)
(* rows of them, puts the changes back and tears the lanes down, all under *)
(* the lock; what it comes to is judged and written after the lock is left.*)
(***************************************************************************)
EXTENDS RunFiles

CONSTANT Reporting   \* bound: the Runs whose reports appear in time to change them

ASSUME ReportingAssumption == Reporting \subseteq Runs

VARIABLES
    pair,        \* the scenario, and with it the block subject, of all Runs here
    rows,        \* Runs whose seeded rows are in the target database
    altered,     \* changes in place among each Run's rows
    injections,  \* ChangeInjection.state in the journey, "none" without a record
    teardown,    \* how the journey's teardown ended
    others,      \* E-02: what is known of the other positions' digest
    failed,      \* an exception is on its way out of the process
    outcome,     \* the Run's state in memory until run.json has it
    verdict,     \* the Judgement in memory
    runFile,     \* state in run.json
    verified     \* Runs whose sealed bundle verifies

targetVars  == <<rows, altered>>
journeyVars == <<injections, teardown, others, failed>>
resultVars  == <<outcome, verdict, runFile, verified>>
reportVars  == <<rootVars, stage, pair, targetVars, journeyVars, resultVars>>

\* ChangeInjectionKind: EVIDENCE_SEGMENT_REMOVAL, STORAGE_PROBE_WRITE,
\* CRITERIA_VERSION_PUBLISH.
Kinds == {"removal", "probe", "publish"}

Statuses == {"PASS", "FAIL", "INCONCLUSIVE"}

Recorded(r) == {i \in Kinds : injections[r][i] # "none"}

ReportInit ==
    /\ RootInit
    /\ pair \in {"E01", "E02"}
    /\ rows = {}
    /\ altered = [r \in Runs |-> {}]
    /\ injections = [r \in Runs |-> [i \in Kinds |-> "none"]]
    /\ teardown = [r \in Runs |-> "not run"]
    /\ others = [r \in Runs |-> "unread"]
    /\ failed = {}
    /\ outcome = [r \in Runs |-> "none"]
    /\ verdict = [r \in Runs |-> "none"]
    /\ runFile = [r \in Runs |-> "ABSENT"]
    /\ verified = {}

\* Entering the lock: refused with an exception while the file exists.
EnterLock(r) ==
    /\ stage[r] = "idle"
    /\ \/ LockIsFree /\ Acquire(r) /\ GoTo(r, "entered")
       \/ ~LockIsFree /\ GoTo(r, "raised") /\ UNCHANGED lock
    /\ UNCHANGED <<block, maintenance, pair, targetVars, journeyVars, resultVars>>

\* Unlike the other executors, the block is read under the lock.
CheckBlock(r) ==
    /\ stage[r] = "entered"
    /\ \/ Blocked /\ failed' = failed \cup {r} /\ GoTo(r, "leave-lock")
       \/ /\ ~Blocked
          /\ GoTo(r, IF pair = "E01" THEN "citation" ELSE "position")
          /\ UNCHANGED failed
    /\ UNCHANGED <<rootVars, pair, targetVars, injections, teardown, others, resultVars>>

\* What a process that ends without a bundle takes with it.
Forget(r) ==
    /\ injections' = [injections EXCEPT ![r] = [i \in Kinds |-> "none"]]
    /\ teardown' = [teardown EXCEPT ![r] = "not run"]
    /\ others' = [others EXCEPT ![r] = "unread"]
    /\ failed' = failed \ {r}
    /\ outcome' = [outcome EXCEPT ![r] = "none"]
    /\ verdict' = [verdict EXCEPT ![r] = "none"]
    /\ UNCHANGED <<runFile, verified>>

LeaveLock(r) ==
    /\ stage[r] \in {"leave-lock", "leave-cut"}
    /\ Release
    /\ \/ r \in failed /\ GoTo(r, "raised") /\ Forget(r)
       \/ r \notin failed /\ GoTo(r, "conclude") /\ UNCHANGED <<journeyVars, resultVars>>
    /\ UNCHANGED <<block, maintenance, pair, targetVars>>

\* `restore_ok` of the two journeys' outcomes.
RestoreOk(r) ==
    /\ teardown[r] = "ok"
    /\ \A i \in Recorded(r) : injections[r][i] = "RESTORED"
    /\ pair = "E02" => others[r] = "unchanged"

\* What the outcome was made of is not looked at again.
Consumed(r) ==
    /\ teardown' = [teardown EXCEPT ![r] = "not run"]
    /\ others' = [others EXCEPT ![r] = "unread"]
    /\ UNCHANGED <<injections, failed>>

\* The verdicts judge_spec004_run can give a Run of this state.
Verdicts(state) == IF state = "RESTORE_FAILED" THEN {"INCONCLUSIVE"} ELSE Statuses

\* Mutant: a direct FAIL counts before the state of the Run.
ConcludeFailFirst(r) ==
    /\ stage[r] = "conclude"
    /\ \E inTime \in BOOLEAN :
          LET state == IF RestoreOk(r) /\ inTime THEN "COMPLETED" ELSE "RESTORE_FAILED" IN
          /\ outcome' = [outcome EXCEPT ![r] = state]
          /\ IF state = "COMPLETED" THEN UNCHANGED block ELSE WriteBlock(r)
          /\ \E v \in Verdicts(state) \cup {"FAIL"} : verdict' = [verdict EXCEPT ![r] = v]
    /\ Consumed(r)
    /\ GoTo(r, "write")
    /\ UNCHANGED <<lock, maintenance, pair, targetVars, runFile, verified>>

\* The Run record, from the outcome and the time the restores took, the block
\* behind a RESTORE_FAILED one and, after it, the judgement.
Conclude(r) ==
    /\ stage[r] = "conclude"
    /\ \E inTime \in BOOLEAN :
          LET state == IF RestoreOk(r) /\ inTime THEN "COMPLETED" ELSE "RESTORE_FAILED" IN
          /\ outcome' = [outcome EXCEPT ![r] = state]
          /\ IF state = "COMPLETED" THEN UNCHANGED block ELSE WriteBlock(r)
          /\ \E v \in Verdicts(state) : verdict' = [verdict EXCEPT ![r] = v]
    /\ Consumed(r)
    /\ GoTo(r, "write")
    /\ UNCHANGED <<lock, maintenance, pair, targetVars, runFile, verified>>

\* run.json is the first document of the bundle, the injections come late.
WriteRun(r) ==
    /\ stage[r] = "write"
    /\ runFile' = [runFile EXCEPT ![r] = outcome[r]]
    /\ outcome' = [outcome EXCEPT ![r] = "none"]
    /\ GoTo(r, "seal")
    /\ UNCHANGED <<rootVars, pair, targetVars, journeyVars, verdict, verified>>

\* The other files and the manifest; a bundle that does not verify raises.
SealBundle(r) ==
    /\ stage[r] = "seal"
    /\ \/ verified' = verified \cup {r} /\ \E end \in {"done", "raised"} : GoTo(r, end)
       \/ GoTo(r, "raised") /\ UNCHANGED verified
    /\ UNCHANGED <<rootVars, pair, targetVars, journeyVars, outcome, verdict, runFile>>

\* An error or interrupt after the lock ends the Run where it is: before the
\* block is written, as when the environment cannot be captured, or after.
Raise(r) ==
    /\ stage[r] \in {"conclude", "write", "seal"}
    /\ GoTo(r, "raised")
    /\ Forget(r)
    /\ UNCHANGED <<rootVars, pair, targetVars>>

EnvelopeStep(r) ==
    \/ EnterLock(r) \/ CheckBlock(r) \/ LeaveLock(r)
    \/ Conclude(r) \/ WriteRun(r) \/ SealBundle(r) \/ Raise(r)

Crash(r) ==
    /\ stage[r] \notin Ended \cup {"idle"}
    /\ GoTo(r, "crashed")
    /\ Forget(r)
    /\ UNCHANGED <<rootVars, pair, targetVars>>

-----------------------------------------------------------------------------
(* Helpers of the journeys *)

Note(r, i, state) == injections' = [injections EXCEPT ![r][i] = state]
Alter(r, i)       == altered' = [altered EXCEPT ![r] = @ \cup {i}]
PutBack(r, i)     == altered' = [altered EXCEPT ![r] = @ \ {i}]
Interrupted(r)    == failed' = failed \cup {r}

\* WhyYouSpec004SeedAdapter.teardown: one transaction over everything the
\* adapter registered for the Run, reports included, or nothing.
RemoveRows(r) ==
    \/ /\ rows' = rows \ {r}
       /\ altered' = [altered EXCEPT ![r] = {}]
       /\ teardown' = [teardown EXCEPT ![r] = "ok"]
    \/ teardown' = [teardown EXCEPT ![r] = "failed"] /\ UNCHANGED targetVars
=============================================================================
