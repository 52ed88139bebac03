------------------------------ MODULE LaneRun ------------------------------
(***************************************************************************)
(* Spec009Executor.execute (engine/executors/spec009.py) for N-01 and N-03 *)
(* with the WhyYou lane seed and teardown it calls (adapters/whyyou/       *)
(* spec009_seed.py, spec009_cleanup.py).  The Run inserts the rows of its  *)
(* synthetic applicants, observes the product, deletes what is its own and *)
(* recounts.  What an observation contains is abstracted to whether it is  *)
(* whole, and the assertion statuses follow from that.                     *)
(***************************************************************************)
EXTENDS RunFiles

CONSTANT Answered   \* bound: the Runs whose consent requests the product may grant

ASSUME AnsweredAssumption == Answered \subseteq Runs

VARIABLES
    rows,      \* rows of each Run in the target database
    product,   \* what the product is still doing for each Run's subjects
    journal,   \* phase in progress/<run_id>.json
    facts,     \* how much of the observation the record holds
    traced,    \* Runs whose teardown found the event row and so knows its ID
    recovery,  \* the `recovery` dict: status ...
    residue,   \* ... and owned_residue_counts, as the kinds counted above 0
    failed,    \* an exception is on its way out of the process
    verdict,   \* the Judgement in memory
    runFile,   \* state in run.json
    sealed     \* Runs whose manifest.json exists

targetVars == <<rows, product>>
memoryVars == <<facts, traced, recovery, residue, failed, verdict>>
bundleVars == <<journal, runFile, sealed>>
laneVars   == <<rootVars, stage, targetVars, memoryVars, bundleVars>>

\* "seed": inserted by the Run.  "event": consent and outbox rows the product
\* wrote for the subjects, found by their IDs.  "mark": a processed_messages
\* row of a worker, found only by the ID of the outbox row it is about.
RowKinds == {"seed", "event", "mark"}

\* expand_resources and _predicate: what a scan from the planned IDs finds.
Owned(present) == IF "event" \in present THEN present ELSE present \ {"mark"}

Statuses == {"PASS", "FAIL", "INCONCLUSIVE"}

\* n01.aggregate, shared by the Spec 006 and Spec 009 judges.
Aggregate(statuses) ==
    IF "FAIL" \in statuses THEN "FAIL"
    ELSE IF "INCONCLUSIVE" \in statuses THEN "INCONCLUSIVE" ELSE "PASS"

\* n01.cleanup_verified: the status and every recounted table.
CleanupVerified(r) == recovery[r] = "SUCCEEDED" /\ residue[r] = {}

LaneInit ==
    /\ RootInit
    /\ rows = [r \in Runs |-> {}]
    /\ product = [r \in Runs |-> "idle"]
    /\ journal = [r \in Runs |-> "ABSENT"]
    /\ facts = [r \in Runs |-> "none"]
    /\ traced = {}
    /\ recovery = [r \in Runs |-> "none"]
    /\ residue = [r \in Runs |-> {}]
    /\ failed = {}
    /\ verdict = [r \in Runs |-> "none"]
    /\ runFile = [r \in Runs |-> "ABSENT"]
    /\ sealed = {}

\* Mutant: the journal is left to the checkpoint after the seed.
OpenUnregistered(r) ==
    /\ stage[r] = "idle"
    /\ GoTo(r, IF Blocked THEN "refused" ELSE "registered")
    /\ UNCHANGED <<rootVars, targetVars, memoryVars, bundleVars>>

\* What a process that ends without a bundle takes with it.
Forget(r) ==
    /\ facts' = [facts EXCEPT ![r] = "none"]
    /\ traced' = traced \ {r}
    /\ recovery' = [recovery EXCEPT ![r] = "none"]
    /\ residue' = [residue EXCEPT ![r] = {}]
    /\ failed' = failed \ {r}
    /\ verdict' = [verdict EXCEPT ![r] = "none"]

\* A READY execute: refused behind a block, which it looks at only here, or
\* checkpoint("REGISTERED_BEFORE_WRITES"), before the lock.
Open(r) ==
    /\ stage[r] = "idle"
    /\ \/ Blocked /\ GoTo(r, "refused") /\ UNCHANGED journal
       \/ /\ ~Blocked
          /\ journal' = [journal EXCEPT ![r] = "REGISTERED"]
          /\ GoTo(r, "registered")
    /\ UNCHANGED <<rootVars, targetVars, memoryVars, runFile, sealed>>

\* Entering the lock: refused with an exception while the file exists.
Lock(r) ==
    /\ stage[r] = "registered"
    /\ \/ LockIsFree /\ Acquire(r) /\ GoTo(r, "locked")
       \/ ~LockIsFree /\ GoTo(r, "raised") /\ UNCHANGED lock
    /\ UNCHANGED <<block, maintenance, targetVars, memoryVars, bundleVars>>

\* seed_lanes: one transaction.  When it rolls back nothing was written, and
\* the Run ends with an exception after noting SEED_FAILED.
SeedLanes(r) ==
    /\ stage[r] = "locked"
    /\ \/ /\ rows' = [rows EXCEPT ![r] = {"seed"}]
          /\ GoTo(r, "seeded")
          /\ UNCHANGED <<journal, failed>>
       \/ /\ journal' = [journal EXCEPT ![r] = "SEED_FAILED"]
          /\ failed' = failed \cup {r}
          /\ GoTo(r, "leave-lock")
          /\ UNCHANGED rows
    /\ UNCHANGED <<rootVars, product, facts, traced, recovery, residue, verdict, runFile, sealed>>

\* checkpoint("SEEDED") and the initial record come before the try: an error
\* here leaves the lock at once, without a teardown.
MarkSeeded(r) ==
    /\ stage[r] = "seeded"
    /\ \/ /\ journal' = [journal EXCEPT ![r] = "SEEDED"]
          /\ product' = [product EXCEPT ![r] = "asked"]
          /\ GoTo(r, "observe")
          /\ UNCHANGED failed
       \/ /\ failed' = failed \cup {r}
          /\ GoTo(r, "leave-lock")
          /\ UNCHANGED <<journal, product>>
    /\ UNCHANGED <<rootVars, rows, facts, traced, recovery, residue, verdict, runFile, sealed>>

\* Mutant: an interrupt leaves the lock without the finally.
ObserveUnguarded(r) ==
    /\ stage[r] = "observe"
    /\ \/ \E found \in {"whole", "partial"} :
             facts' = [facts EXCEPT ![r] = found] /\ GoTo(r, "teardown") /\ UNCHANGED failed
       \/ facts' = facts /\ GoTo(r, "leave-lock") /\ failed' = failed \cup {r}
    /\ UNCHANGED <<rootVars, targetVars, traced, recovery, residue, verdict, bundleVars>>

\* _observe: everything read, or stopped by an exception that is kept as a
\* fact, or by an interrupt that passes through the finally.
Observe(r) ==
    /\ stage[r] = "observe"
    /\ \/ facts' = [facts EXCEPT ![r] = "whole"] /\ UNCHANGED failed
       \/ facts' = [facts EXCEPT ![r] = "partial"] /\ failed' \in {failed, failed \cup {r}}
    /\ GoTo(r, "teardown")
    /\ UNCHANGED <<rootVars, targetVars, traced, recovery, residue, verdict, bundleVars>>

\* teardown_lanes, the delete transaction: all owned rows, or none of them.
Teardown(r) ==
    /\ stage[r] = "teardown"
    /\ \/ /\ rows' = [rows EXCEPT ![r] = @ \ Owned(@)]
          /\ traced' = IF "event" \in rows[r] THEN traced \cup {r} ELSE traced
          /\ GoTo(r, "recount")
          /\ UNCHANGED recovery
       \/ /\ recovery' = [recovery EXCEPT ![r] = "FAILED"]
          /\ GoTo(r, "cleaned")
          /\ UNCHANGED <<rows, traced>>
    /\ UNCHANGED <<rootVars, product, facts, residue, failed, verdict, bundleVars>>

\* Mutant: the recount expands the IDs again, after the delete.
RecountFresh(r) ==
    /\ stage[r] = "recount"
    /\ LET counted == Owned(rows[r]) IN
       /\ residue' = [residue EXCEPT ![r] = counted]
       /\ recovery' = [recovery EXCEPT ![r] = IF counted = {} THEN "SUCCEEDED" ELSE "FAILED"]
    /\ GoTo(r, "cleaned")
    /\ UNCHANGED <<rootVars, targetVars, facts, traced, failed, verdict, bundleVars>>

\* Mutant: the adapter's code is kept as the status.
RecountByCode(r) ==
    /\ stage[r] = "recount"
    /\ residue' = [residue EXCEPT ![r] = rows[r]]
    /\ recovery' = [recovery EXCEPT ![r] = IF rows[r] = {} THEN "SUCCEEDED" ELSE "RESIDUE_REMAINS"]
    /\ GoTo(r, "cleaned")
    /\ UNCHANGED <<rootVars, targetVars, facts, traced, failed, verdict, bundleVars>>

\* The recount on a connection of its own, with the IDs the delete expanded;
\* more than RESTORE_DEADLINE_SECONDS, or a recount that raises, is a failure.
Recount(r) ==
    /\ stage[r] = "recount"
    /\ LET counted == IF r \in traced THEN rows[r] ELSE Owned(rows[r]) IN
       \/ /\ residue' = [residue EXCEPT ![r] = counted]
          /\ recovery' = [recovery EXCEPT ![r] = IF counted = {} THEN "SUCCEEDED" ELSE "FAILED"]
       \/ /\ residue' \in {residue, [residue EXCEPT ![r] = counted]}
          /\ recovery' = [recovery EXCEPT ![r] = "FAILED"]
    /\ GoTo(r, "cleaned")
    /\ UNCHANGED <<rootVars, targetVars, facts, traced, failed, verdict, bundleVars>>

\* A second interrupt, inside the finally, leaves the lock with it.
CutCleanup(r) ==
    /\ stage[r] \in {"teardown", "recount"}
    /\ failed' = failed \cup {r}
    /\ GoTo(r, "leave-cut")
    /\ UNCHANGED <<rootVars, targetVars, facts, traced, recovery, residue, verdict, bundleVars>>

\* checkpoint("CLEANUP_FINISHED"), which may raise.
FinishCleanup(r) ==
    /\ stage[r] = "cleaned"
    /\ \/ journal' = [journal EXCEPT ![r] = "CLEANUP_FINISHED"] /\ UNCHANGED failed
       \/ failed' = failed \cup {r} /\ UNCHANGED journal
    /\ GoTo(r, "leave-lock")
    /\ UNCHANGED <<rootVars, targetVars, facts, traced, recovery, residue, verdict, runFile, sealed>>

LeaveLock(r) ==
    /\ stage[r] \in {"leave-lock", "leave-cut"}
    /\ Release
    /\ \/ r \in failed /\ GoTo(r, "raised") /\ Forget(r)
       \/ r \notin failed /\ GoTo(r, "conclude") /\ UNCHANGED memoryVars
    /\ UNCHANGED <<block, maintenance, targetVars, bundleVars>>

\* Records that are missing make their assertions INCONCLUSIVE.
AssertionStatuses(r) ==
    {statuses \in SUBSET Statuses :
        statuses # {} /\ (facts[r] = "partial" => "INCONCLUSIVE" \in statuses)}

\* Mutant: the verdict is the aggregate, whatever the cleanup came to.
ConcludeByFacts(r) ==
    /\ stage[r] = "conclude"
    /\ \E statuses \in AssertionStatuses(r) :
          verdict' = [verdict EXCEPT ![r] = Aggregate(statuses)]
    /\ IF CleanupVerified(r) THEN UNCHANGED block ELSE WriteBlock(r)
    /\ GoTo(r, "write")
    /\ UNCHANGED <<lock, maintenance, targetVars, facts, traced, recovery, residue, failed, bundleVars>>

\* Assertions, verdict and Run record in memory; an unverified cleanup bars
\* the pair before anything of the bundle is written.
Conclude(r) ==
    /\ stage[r] = "conclude"
    /\ \E statuses \in AssertionStatuses(r) :
          verdict' = [verdict EXCEPT ![r] =
              IF CleanupVerified(r) THEN Aggregate(statuses) ELSE "INCONCLUSIVE"]
    /\ IF CleanupVerified(r) THEN UNCHANGED block ELSE WriteBlock(r)
    /\ GoTo(r, "write")
    /\ UNCHANGED <<lock, maintenance, targetVars, facts, traced, recovery, residue, failed, bundleVars>>

\* run.json is the first document of the bundle.
WriteRun(r) ==
    /\ stage[r] = "write"
    /\ runFile' = [runFile EXCEPT ![r] =
          IF CleanupVerified(r) THEN "COMPLETED" ELSE "RESTORE_FAILED"]
    /\ GoTo(r, "seal")
    /\ UNCHANGED <<rootVars, targetVars, memoryVars, journal, sealed>>

\* The other documents, the manifest and verify_bundle, which may disagree.
SealBundle(r) ==
    /\ stage[r] = "seal"
    /\ sealed' = sealed \cup {r}
    /\ \E end \in {"done", "raised"} : GoTo(r, end)
    /\ UNCHANGED <<rootVars, targetVars, memoryVars, journal, runFile>>

\* An error or interrupt outside the lock ends the Run where it is.
Raise(r) ==
    /\ stage[r] \in {"registered", "conclude", "write", "seal"}
    /\ GoTo(r, "raised")
    /\ Forget(r)
    /\ UNCHANGED <<rootVars, targetVars, bundleVars>>

LaneStep(r) ==
    \/ Open(r) \/ Lock(r) \/ SeedLanes(r) \/ MarkSeeded(r)
    \/ Observe(r) \/ Teardown(r) \/ Recount(r) \/ CutCleanup(r) \/ FinishCleanup(r)
    \/ LeaveLock(r) \/ Conclude(r) \/ WriteRun(r) \/ SealBundle(r) \/ Raise(r)

\* The process dies: files and rows stay as they are, nobody breaks the lock.
Crash(r) ==
    /\ stage[r] \notin Ended \cup {"idle"}
    /\ GoTo(r, "crashed")
    /\ Forget(r)
    /\ UNCHANGED <<rootVars, targetVars, bundleVars>>

(***************************************************************************)
(* The product (external).  A consent the Run asked for commits, if at     *)
(* all, while the seeded rows it refers to exist; a worker that has picked *)
(* up the outbox event records it whenever it is done, as                  *)
(* processed_messages refers to no other table.                            *)
(***************************************************************************)
ProductCommits(r) ==
    /\ r \in Answered
    /\ product[r] = "asked" /\ "seed" \in rows[r]
    /\ rows' = [rows EXCEPT ![r] = @ \cup {"event"}]
    /\ product' = [product EXCEPT ![r] = "queued"]
    /\ UNCHANGED <<rootVars, stage, memoryVars, bundleVars>>

WorkerMarks(r) ==
    /\ product[r] = "queued"
    /\ rows' = [rows EXCEPT ![r] = @ \cup {"mark"}]
    /\ product' = [product EXCEPT ![r] = "idle"]
    /\ UNCHANGED <<rootVars, stage, memoryVars, bundleVars>>
=============================================================================
