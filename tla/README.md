# ControlProof in TLA+

ControlProof (the program under `engine/`) tests whether the hiring product WhyYou
keeps its compliance controls when something goes wrong. A *Run* seeds synthetic
applicants into the test target, injects a fault or a change, observes what the
product does, puts the target back, judges what it saw and seals an evidence bundle.
A *retest* repeats a Run after a fix and links its bundle to the earlier one; a web
workbench shows sealed bundles to reviewers.

The code is sequential inside one process, but its correctness is about several
processes: Runs that share a target, an operator who lifts a restore block, product
workers that answer late, a workbench that reads while Runs write, and crashes or
interrupts anywhere. And what a Run claims rests on reads taken one after the other
beside a product that goes on working. This directory models both, checks them with
TLC and proves the core with TLAPS.

Contents: [inventory](#inventory), [modules](#modules-and-how-they-correspond-to-the-code),
[runs](#runs), [bounds](#bounds), [fairness](#fairness), [disagreements](#what-the-documents-say-and-the-code-does-not-do),
[proofs](#what-is-proved), [limits](#what-is-only-checked-and-what-is-not-modelled),
[plan](#plan).

## Inventory

### The run root: lock, block, Run record (engine/lifecycle.py)

*State*: under one run root, `locks/<target>--<subject>.lock` (created with `O_EXCL`),
`blocks/<target>--<subject>.json` (the restore block, naming one run_id),
`blocks/maintenance/<run_id>.json` (cleanup confirmations), `<run_id>/run.json`.
*Operations*: `transition`, `acquire`/`release`, `block`, `blocked`, `confirm_cleanup`,
`RunRepository.save`. *Hard*: the block is read without the lock, written after the
lock is gone and overwritten by a later failure; `confirm_cleanup` reads it again
after the caller's probe; nobody removes the lock of a dead process.
*Correct when*: one live Run at a time is between lock and release; a RESTORE_FAILED
record is never on disk unbarred; run.json only moves along the lifecycle; the block
goes only after a confirmation is stored.

### Executors

| executor | target state it changes | how it undoes it | where it is hard |
| --- | --- | --- | --- |
| H-03 minimal (`runner.py`) | fault marker file, subject rows | `fault.restore` polled in the `finally`, after the lock is left | a second Run injects while the first restores; a late attempt fails after an early one was ok; interrupts |
| H-03 DLQ (`executors/sealed.py`, `h03_dlq.py`, `execution.py`) | marker, rows, queue message | restore and redrive under the lock | the deadline is looked at before the restore answer; exceptions drop the answer; send without delete |
| N-01, N-03 (`executors/spec009.py`) | owned rows of seeded lanes | one delete transaction and a recount | the product and its workers write rows while and after the teardown runs |
| E-01, E-02 (`executors/report_lanes.py`, `e01.py`, `e02.py`) | a transcript segment, report axes, a criteria publication | read-back restores, then teardown of the lanes | restore twice, restore without read-back, unrecorded removals, digest of other positions |
| N-02 (`executors/n02.py`) | consent fault marker, token and receipt files, six lanes, probe overlays | restore, safe-state probe, teardown; an exception handler of its own that cleans up or blocks | the product answers the faulted request after the marker is gone; exceptions and interrupts leave on different ways; retest checks between a failed restore and the block |
| H-01, H-02 (`executors/h01.py`, `h02.py`, `scripts/h01_recover.py`) | owned applicants, one per case | one cleanup and recount in the `finally` | a checkpoint per case; errors before the block; a recovery script that writes the same bundle without a lock |
| E-03 before/after (`executors/e03_*.py`, `adapters/whyyou/queue.py`) | fault marker, queue message, decisions | restore, redrive, wait for the effects | effects read table by table while the worker commits; redeliveries; the marker's TTL; a message that outlives its subject |

Each keeps in memory what it did (injections, journal rows, restore answers) and
judges and writes only after the lock is left. *Correct when*: everything that was
put in place is settled or the pair is barred; a PASS or FAIL stands only on a
restored target; what a journal or record on disk says is true.

### Operator commands

`cleanup-confirm` (`cli.py`) probes the target, then calls `confirm_cleanup`.
`spec009_recover` (`spec009_recovery.py`) deletes what a blocked Spec 009 Run left and
writes the evidence the command asks for. Neither takes the lock.
*Correct when*: a block is lifted only over what was probed, and can be lifted once
the target is clean.

### Evidence bundles and retests (engine/evidence.py, engine/retest.py)

*State*: a directory of files, the writer's register of digests, `manifest.json`.
*Operations*: `write_json`, `append_jsonl`, `link_*`, `seal`; `verify_bundle`, which for
retests also verifies parent bundles (Spec 003/004: the whole line; Spec 002: one
step; Spec 009: none); `prepare_retest` and `assert_parent_unchanged`.
*Hard*: a parent may be damaged, blocked or confirmed between a child's preparation
and its lock. *Correct when*: a bundle verifies exactly while what it rests on is as
it was sealed, and no retest works over what its parent left behind.

### Workbench (engine/web)

Read-only pages over sealed bundles. The only state that can go stale is
`VerifyCache` (`web/readmodel.py`), shared by the server's threads: key, look-up,
verification and store are separate steps. *Correct when*: a result served from the
cache stands on the files as they are.

### Judges

*State*: none; each judge (`judge.py`, `judges/`, `n01.py`, `n03.py`, `h01.py`, `h02.py` with
their `*_actual.py`) is a function of what a Run has read. *Hard*: the reads are taken at
different moments of a target that goes on working, some of them fail, and a source
that could not be read looks like one that has nothing. *Correct when*: a PASS is true
of the target, a FAIL accuses a target that is at fault, and a sound target that
answers is passed.

### Queue and worker of the product

*State*: the source queue and the DLQ with receive counts and visibility, the worker's
durable effects. External; modelled from what `queue.py`, `effects.py` and `fault.py`
rely on. *Correct when*: the instrument never loses or doubles the event it follows.

### Readiness, scenario, models, configuration

Pure functions and validators in front of a Run (`readiness.py`, `scenario.py`, `models.py`,
`config.py`). What the executors rely on is part of their models.

### Access to WhyYou, set-up scripts, shared records

HTTP, browser, SQL, SQS access under `engine/adapters/whyyou`. A call answers ok,
answers not ok, raises or is interrupted; the models branch over these outcomes.
Scripts that start containers and the export of shared records keep no state that
others rely on.

`PROJECT.json` lists every component with its status, and every hazard at its line.

## Modules and how they correspond to the code

```
RunFiles         run states, transition, lock, block, confirmations, control points
 ├ RunRoot    + H-03 target, process memory, bundle directory, cleanup-confirm
 │   ├ MinimalRun   RunOrchestrator.execute
 │   └ DlqRun       execute_profile + H03DlqExecutor._collect
 │        └ FaultRuns (all together) ── FaultRunsProofs
 ├ LaneRun    Spec009Executor.execute, product workers
 │   └ LaneRecovery   recovery script, cleanup-confirm
 │        └ OwnedLanes ── OwnedLanesProofs
 ├ ReportRun  Spec004LaneExecutor.execute
 │   └ ReportJourneys    E01Executor._journey, E02Executor._journey
 │        └ ReportLanes (with cleanup-confirm) ── ReportLanesProofs
 ├ ConsentFault   the N-02 target and its fault adapter
 │   └ ConsentRun    N02Executor.execute
 │        └ ConsentRuns (with cleanup-confirm) ── ConsentRunsProofs
 ├ DecisionRun   H01Executor.execute, H02Executor.execute
 │   └ DecisionRuns (with h01_recover, cleanup-confirm) ── DecisionRunsProofs
 └ EvidenceBundle   writer, seal, verify_bundle
     └ RetestRun    a Run and its retests over bundles
         └ Retests  + cleanup-confirm, accidents
             └ RecordView   + VerifyCache ── RetestsProofs (of both)
ReportQueue      queue, DLQ, worker, fault marker
 └ DeliveryVerdicts   judges of E-03 and H-03 DLQ
     └ DeliveryRun    collectors of E-03 before/after and H-03 DLQ
         └ DeliveryRuns ── DeliveryRunsProofs
Assessment       flaws, outages, what a read may return
 ├ MinimalVerdict    H-03        ├ BoundaryVerdicts  N-02
 ├ PolicyVerdicts    N-01, N-03  ├ ReportVerdicts    E-01, E-02 and their scores
 ├ DecisionVerdicts  H-01        ├ SurfaceVerdicts   H-02
 └ Verdicts (all of them) ── VerdictsProofs
FaultWindow  abstract: what Runs promise about what they put in place
Custody      abstract: what recovery promises about a dead event
Archive      abstract: what sealed bundles promise
```

Conventions. `stage[r]` is the control point of the process of Run `r`; an action is
one step between two places where another process, an exception or a crash can show
a difference, and its name is the name of the code's step. A variable in `rootVars`
or `targetVars` is outside the process and survives a crash; process memory does not
matter after one. Operators called `Mutant:` in their comment are wrong variants of
the definition that follows; no specification uses them, they show that the
properties can fail.

**FaultRuns.** `MinimalRun` keeps the record in memory (`run`) apart from the one on
disk (`runFile`) because the code saves only at some transitions. Its body steps
(`seed-pending-report`, ..., `observe-automatic-decision-window`) carry the step names
of runner.py; `BodyRaises` may take each of them to `leave-lock`. `Settle`,
`RestoreAttempt`, `Conclude`, `RestoreRaises`, `Persist` and `Teardown` are the nested
`finally` blocks at 415-507. `DlqRun` has the collector's own `finally` (`DlqUndo`) and
the deadline check (`DlqOverrun`). `RunRoot` has
`cleanup-confirm` with probe, record and unlink as three steps. `Crash` kills a process anywhere.

**OwnedLanes.** A row is `"seed"` (the Run wrote it), `"event"` (the product wrote it
under an ID found from the seeds) or `"mark"` (a worker's processed_messages row, found
only through the outbox row). `Owned` is what `expand_resources` finds *now*; `traced`
says whether the teardown saw the event and so knows its ID. That is the difference
between the teardown's recount and the later one of `cleanup-confirm`.

**ReportLanes.** `altered[r]` is what really differs in the database, `injections[r]`
what the journey recorded: commits that are not recorded, records that are not
confirmed and restores that happened although they were reported failed make the two
differ, and the properties relate them.

**ConsentRuns.** `ConsentFault` is the target: the marker file, the token that the hook
consumes, the receipt it leaves, the lanes and what the product commits. `pending` holds
requests the product has not handled: it may do so after their timeout, after the
restore, and after the process is gone. `ConsentRun` walks `execute`: a step that can
raise either goes to the `finally` of the fault slice (`leaving = "exception"`), to the
handler that cleans up or blocks, or, for an interrupt, past the handler. `mem` is what
`collect_us3` keeps, apart from the files and from what the product did, so that the
verdict can differ from the truth.

**DecisionRuns.** `at` is the case a Run is at, `journal` the checkpoint file with what each
case showed. `runFile`, `judged` and `sealed` carry the author of each file, as a Run and
`h01_recover` may write the three files of one bundle in turns; `Verifies` is what
`verify_facts` compares. A refused write ends the process with what it knew (`Forget`).

**DeliveryRuns.** One event and the copy that a redrive sends, each in one place
(`outbox`, `ready`, `hidden`, `dlq`, `done`, `dropped`, `deleted`) with its receive count. The
publisher sends the message (`Publish`) and commits the status of the outbox row on its
own (`MarkPublished`), at any time after. The
worker's handling is one transaction or, with a flaw of the product, less or more. A Run
reads the effects in two halves (`ReadPost`, `ReadFinal` with `mem.half`), so that a commit
may come between. `late` says that a deadline of the Run passed while the product was
at work, or the marker outlived its TTL: a verdict after it is about less than the
profile asks.

**Verdicts.** Each topic has a target (`world`) with one flaw or none, an outage of one
source or none, and the Run's reads (`seen`) as steps between the steps of the target. A
read returns the state of that moment or, under its outage, what the adapter makes of a
failure. The judge is an operator over `seen`, written assertion by assertion after the
source; the properties compare its verdict with `world`. In N-02 an attempt has one of four answers:
2xx, 401 or 403, any other status, none; the driven recording begins with an equipment
check, and whatever that gets but a 2xx is the error of the attempt
(`EquipmentCheckFails`). `ReportVerdicts` has weights and
rounding as integers and fractions, exact where the code uses floats.

**Retests.** `disk`, `registered` and `manifest` are a bundle; digests are compared by
comparing contents. `family` is the contract of the profile and selects how deep
`Checked` descends, whether the block is checked inside the lock, and how the
parent's cleanup must be shown (`CleanupResolved`). What a Run does to the target is
one step here; its details are in the modules above. `Accident` alters or adds a file
or loses a manifest. A closer look at two abstractions: a killed process is modelled
inside the lock only, since killed elsewhere it leaves what an exception at the same
place leaves; `Prepare` checks bundle and cleanup in one step, since nothing in
between depends on the order.

**RecordView** adds the workbench's cache to Retests, so that seals, retests and
accidents come between the key, the verification and the store.

**FaultWindow** is the promise five compositions implement (FaultRuns, OwnedLanes,
ReportLanes, ConsentRuns, DecisionRuns): put in place only
while nothing was reported, report clean only when it is gone, report unsafe only
when barred or confirmed, never take a report back, lift the bar only after a
confirmation. **Archive** is the promise of the bundles: closing one over whole
ancestors makes it trusted, touching anything it rests on ends the trust for ever.
**Custody** is the promise of recovery: the event is in the source queue, in the DLQ, or
handled; the dead letter goes only while another copy or the effect exists.

## Runs

| run | question | states |
| --- | --- | --- |
| `fault_runs` | H-03 minimal and DLQ Runs with cleanup-confirm: lock, block, record and marker | 44,927 |
| `owned_lanes` | two Spec 009 Runs, late product rows, recovery script, cleanup-confirm | 246,432 |
| `report_lanes` | two E-01 or two E-02 Runs with cleanup-confirm | 78,986 |
| `consent_runs` | two N-02 Runs, late answers of the product, cleanup-confirm | 313,761 |
| `decision_runs` | two H-01 or H-02 Runs, the recovery script, cleanup-confirm | 424,281 |
| `retests` | three Runs of one contract retesting each other, failures, cleanup and damage | 1,164,452 |
| `record_view` | the cache over two Runs that fail, retest, seal and are damaged | 1,754,072 |
| `delivery_runs` | one Run of each queue profile beside queue and worker, every flaw and outage | 1,606,867 |
| `verdicts` | one Run of each other profile from first read to verdict, every flaw and outage | 443,284 |

Three further runs each find one behaviour that a document excludes
(see [below](#what-the-documents-say-and-the-code-does-not-do)).

What they show, property by property:

* `ImplementsFaultWindow` (five times): a record on disk, or a sealed bundle, that claims
  success stands on a target without the Run's fault, rows or change, and one that says
  RESTORE_FAILED is behind a block or a confirmation, whoever overwrites or lifts blocks
  meanwhile and however late the product answers.
* `TeardownAfterLift`: the minimal Run deletes its subject only after the fault is gone or
  the pair is barred, although it does so without the lock.
* `DiskFollowsLifecycle`: run.json never skips or reverts, whatever is lost in memory.
* `JournalKnowsRows` (Spec 009, H-01/H-02): no crash leaves rows without a journal that
  names them.
* `VerdictNeedsCleanup`, `VerdictNeedsRestore`: a PASS or FAIL in a verified bundle stands on
  a restored target, although restores are retried, overrun and interrupted. For
  N-01/N-03 the one exception is a worker's mark that arrives after the recount.
* `VerifiedMeansEmpty`, `RestoredMeansBack`: "SUCCEEDED" and "RESTORED" are said over the
  database as it is, not over what a write reported.
* `CollectorFailureIsBarred`: an exception out of any N-02 slice, or out of the handler's
  own steps, ends with a clean target or a block.
* `PassIsEarned`: an N-02 PASS has its receipt, exactly the retry's consent and a clean
  target, however late the faulted request was handled.
* `VerifiedBundleHolds`: an H-01 bundle that verifies tells the truth although its Run and
  the recovery script write the same files without a common lock.
* `LockOutlivesCleanup`: the lock of an H-01/H-02 Run is left behind a result of the cleanup,
  unless the cleanup itself was cut short.
* `RunsEnd`, `RecordedFaultIsDealtWith`, `ObservationIsTornDown`, `AppliedIsSettled`,
  `FaultIsWithdrawn` (liveness): every H-03 Run ends, and what a Run put in place is dealt
  with unless its process dies or the clean-up itself is interrupted.
* `RetestFindsParentLifted`: no retest of Spec 002, 003 or 009 changes a target that still
  carries what its parent left, although blocks are overwritten and confirmations
  recorded for whoever the block names by then. Spec 004 asks only that a confirmation
  exists under the parent's run_id (retest.py:655), which may have been stored over
  evidence of another Run when two failed together; the property excludes it.
* `ImplementsArchive`: VERIFIED is lost with the first damaged file of any bundle the
  contract looks at and never regained, in lines of up to three bundles.
* `CacheMatchesFiles`: no interleaving makes the workbench serve VERIFIED over files other
  than those verified. One exception is in the property: a look-up that began before
  the seal and verified after it stores VERIFIED under the unsealed key, which is met
  again if the manifest is lost later.
* `ImplementsCustody`: redrive, redelivery and the worker never lose the event unless the
  product drops it, also when the send or the delete of a redrive fails.
* `CasesAreIsolated`, `NoMessageOutlivesItsSubject`: a decision path starts from the state
  before the previous one, and no message is left in flight when the subject goes.
* `PassIsTrue`, `FailIsProductFault` (two runs): no order of the target's steps and of the
  reads makes the instrument pass a target that has the flaw its profile tests, or
  accuse a sound one. The cases where the code does so are named in the properties and
  listed below.
* `SoundIsPassed`: a sound target that answers every read is passed, unless its worker
  was slower than every deadline.

`IInv` is the inductive invariant of a module's proofs, checked as an invariant first; it
contains the module's `TypeOK`. `IInv` of ReportLanes and `ViewInv` of RecordView are in no
run: TLC finds no error when they are added to `ReportLanes.cfg` and `RecordView.cfg`.
`ProfileInv` of Verdicts quantifies over the naturals, which TLC cannot enumerate, and is
left to the prover.

## Bounds

* Two Runs (`fault_runs`, `owned_lanes`, `report_lanes`, `consent_runs`, `decision_runs`,
  `record_view`): every interference in the code goes through one lock, one block, one
  confirmation per run_id or the shared target, so a disturber and a disturbed suffice;
  the proofs remove the bound. `retests` has three, the smallest line with a grandparent;
  its proofs are for any finite set of Runs. `delivery_runs` and `verdicts` have one: there
  the Run's partner is the product.
* `MaxPolls = 2`: a restore attempt that fails after one that was ok, and the reverse.
* `Retests = {m1}`: the H-03 Run that must carry retest records, the other without.
* `Answered`, `Reporting`: the product answers one of the two Runs, so that the other shows
  the late or missing answer without doubling the space.
* `Disturbed` (N-02), `Varied` (H-01/H-02): one of the two Runs may be interrupted, die or
  meet late requests; the other meets the errors of files and lock that the first causes.
* `Cases = 2`, `Kinds`: a case before and after the one that fails; both executors.
* `MaxHurt = 1`: one accident; `Damage` is the same for each bundle, and trust is lost with
  the first. `Exposed` is the files it may touch: in `retests` the canonical one (and the
  manifest), in `record_view` also a name that no writer writes.
* `MaxMisses = 2`: one stored result and one more that replaces it.
* `MaxReceive = 3`: the product's own redrive policy (`maxReceiveCount`). `Polls = 2`: a poll
  that misses and one that meets the deadline. The proofs are for any of both, under
  `QueueAssumption`. The reads of one poll are taken to be
  closer together than a visibility timeout. The fault marker's TTL may pass at any step
  of a Run, which sets `late`.
* `ReportPolls = 4`, `Consecutive = 3`, `WindowReads = 2`, `StableReads = 2`, `EffectReads = 4`: a
  window that becomes stable, one that is broken by a change and becomes stable again or
  runs out. `ReportChoices`: three reports with ties, weights of zero and below, a missing
  score, a missing citation and the communication axis.
* Symmetry over Runs in `retests` and `record_view`, which treat them alike and check no
  liveness. The other runs have none.
* Writing a document of a bundle is one step with the check before it (`_ensure_mutable`),
  also for the two writers of DecisionRuns.
* Deadlock is not checked: every process ends.

## Fairness

`FairSystemSpec` (FaultRuns, OwnedLanes, ReportLanes, ConsentRuns) asks for weak fairness
of each Run's own steps: a live process keeps executing its next statement. All waits in
the code are bounded (deadlines, poll counts), a held lock raises instead of waiting, so
no stronger assumption is needed. ConsentRuns also asks that the product answers the
requests of the Runs outside `Disturbed`, since an HTTP request there ends with its answer
and not with its timeout. `Verdicts` asks for `WF_vars(Next)`, the schedule of the one process and the
target it waits for. Nothing is asked of crashes, accidents or the operator: a block may
stay for ever. `retests`, `record_view`, `decision_runs` and `delivery_runs` check safety only.

## What the documents say and the code does not do

Three have a run in which TLC finds the behaviour, and a finding in `PROJECT.json` that
quotes the document:

| run | document | behaviour |
| --- | --- | --- |
| `failed_restore_is_barred` | specs/002 SC-009 | a deadline overrun or a collector exception hides a failed restore |
| `cache_matches_verdict` | VerifyCache docstring | a cached VERIFIED survives damage to the parent's bundle |
| `early_start_is_failed` | specs/003 spec.md, table of N-02, A5 | processing requested before the consent passes when it is ordered by the receipts' times alone |

The others are stated at the end of their modules. TLC finds a counterexample to each
when the statement is added to the `.cfg` of the module's run:

| statement (module) | document | behaviour |
| --- | --- | --- |
| `NoFaultUnderBlock` (FaultRuns) | specs/001 FR-020 | the block is read before the lock; a Run that passed the check injects after another's restore failed |
| `OneFaultAtATime` (FaultRuns) | specs/001 plan.md:37 | runner.py leaves the lock before it restores: two faults are in place at once |
| `UncertainRedriveIsBarred` (FaultRuns) | specs/002 data-model.md:244 | a redrive that sent but did not delete is dropped: COMPLETED, no block |
| `ResidueIsGoneWhenConfirmed` (OwnedLanes) | spec009_recovery.py docstring | the second recount cannot find a worker's mark once the outbox row is gone |
| `ConfirmAcceptsRemoved` (ReportLanes) | specs/004 controlproof-cli-v4 | a removed row reads as unsafe: the block can never be confirmed |
| `NoFaultAfterFailedRestore` (ConsentRuns) | specs/003 FR-032 | the N-02 lock is left before the block is written |
| `LostAccessIsNoFail` (DeliveryRuns) | contracts/whyyou-adapter-v2.md:255 | access lost during a Run ends in FAIL |
| `AbsentMessageIsJudged` (DeliveryRuns) | contracts/whyyou-adapter-v2.md:256 | a query that finds no message raises: no verdict |
| `UnfinishedRetryIsNoFail` (DeliveryRuns) | specs/002 spec.md:267 | still retrying at the deadline is FAIL |
| `FirstDeliveryCounts` (DeliveryRuns) | specs/002 spec.md:523 | E03-A5 compares digests that cover the publish status of the outbox row: the publisher's commit between the two reads is FAIL without a repeated handler |
| `LostPathIsNoFail` (Verdicts) | contracts/whyyou-n02-adapter.md:162 | a bypass request without an answer, and an equipment check without one, count as answers of the target: FAIL |
| `UnreadRecordsAreNoPass` (Verdicts) | specs/004 scenario-profile-v4, precedence | two record reads that both failed have equal digests: E-01 passes |
| `ChangedStateIsFailed` (Verdicts) | specs/006 data-model.md:17 | a helper that fails after a committed change makes the case INCONCLUSIVE |

What `PassIsTrue` and `FailIsProductFault` had to leave out, and what else the models show:

* N-03 takes a server error for a refusal (n03.py:141, executors/n03.py:166-186), where
  specs/009 assertions-v9.md:60 asks for the refusal itself.
* H-03: report polls that were lost are recorded as values (runner.py:814), so A2 may FAIL
  a sound product; E-01 and E-02 take one 5xx of the report API for an answer.
* E-03 AFTER: a product whose publisher commits the status of its row between the two reads
  of the effects is accused (`MarkedMeanwhile`; judges/e03.py:264, effects.py:402 and 430).
* N-02: a bypass request without an answer, or answered with a server error, and without
  effects is FAIL (judges/n02.py:264); after the consent a server error, or an equipment
  check that is lost, is FAIL (judges/n02.py:321, protected_processing.py:163); without its start receipts a start is unseen and DENIED passes.
* E-01: a fixture that emits a valid citation in an invalid mode accuses the product.
* H-01: a 5xx to the control actor is INCONCLUSIVE on the final decision path
  (h01.py:171) and FAIL on the batch paths (h01_actual.py:131).
* H-01/H-02: after a failed cleanup, an error of the checkpoint, of the second source scan
  or of `validate_records` ends the Run before its block (specs/006 quickstart.md:18).
* H-02: a human control that the product refuses seals a bundle that `verify_facts` does
  not accept (h02_evidence.py:127), and `execute` raises after the seal.
* `cleanup-confirm` for a block of H-01/H-02 falls to the H-03 branch (cli.py:431) and never
  looks at the rows the Run owns.
* report_lanes.py `report_refused` looks for a string in a tuple of mappings, which is
  always false.

## What is proved

The proofs about several Runs are for any set of them. They use the named assumptions of
the modules (`NoneIsNoRun`, `PollsAssumption`, `DlqRunsAssumption`, `AnsweredAssumption`,
`ReportingAssumption`, `DisturbedAssumption`, `CasesAssumption`, `RunsAreFinite`,
`QueueAssumption`, `ReadsAssumption`, `ReportsAssumption`, `TopicsAssumption`), which TLC evaluates in the passing runs.

`FaultRunsProofs` is about `FaultRuns`, any split into the two profiles, any set of retests
and any number of restore attempts.

* `TypeCorrect`: the types.
* `Invariance`: `IInv`. The safety properties are not inductive: that a COMPLETED record on
  disk has no marker needs that the record in memory was true when it was saved
  (`RecordsAreTrue`), which needs that an ok answer is about a fault injected before and
  gone since (`AnswerIsTrue`), that a Run concludes once (`ConcludesOnce`), and how far
  run.json lags behind memory at each control point (`DiskLag`). That failures stay
  barred needs that the block precedes the record and the confirmation precedes the
  unlink (`FailuresAreBarred`); the exclusion of the lock stands on its own.
  Each step is shown to keep each conjunct it can disturb (`MinimalKeeps`, `DlqKeeps`,
  `CrashKeeps`, `CleanupKeeps`).
* `Exclusion`, `GoodEnds`, `FailuresBarred`: one live Run inside the lock, a good end means
  the marker is gone, a failure is barred or confirmed; from `IInv`.
* `TeardownsAfterLift`, `HolderUnlocks`, `DiskLifecycle`: the action properties.
* `Implementation`: the composition implements FaultWindow; each step maps to `Inject`,
  `Withdraw`, `Report`, `Confirm`, `Lift` or a stutter.
* `PromiseKept`: what every behaviour of FaultWindow keeps (`PromiseHolds`), carried over the
  refinement: reports hold in every state of the composition.

`OwnedLanesProofs` is about `OwnedLanes` and any set of Runs the product may answer. The
invariant is a conjunction over Runs, `RunHolds(r)`: rows come after the journal
(`RowsAreNoted`), a worker's mark is about an event the teardown finds or has traced
(`EventsAreTraced`), SUCCEEDED stays true but for a mark (`ResultHolds`), what is about to
be written is true (`MemoryIsTrue`), so is what is written (`FilesAreTrue`), and a block or a
script that has checked one is about a Run that failed to clean up (`BlockIsOfFailure`).
`EventsAreTraced` is what makes `VerifiedMeansEmpty` provable: the recount after the delete
would miss a mark whose event row is gone, were its ID not traced. A step of `r` keeps
`RunHolds(r)` (`OwnStep`, one lemma per phase); for another Run only the shared files
change, and they change monotonically (`OthersStay`, `SharedFiles`, `BarredStays`).
Theorems: `TypeCorrect`, `Invariance`, `OneObserves`, `JournalsKnow`, `VerdictsNeedCleanup`,
`VerifiedEmpty`, `DeletesOwned`, `Implementation`.

`DecisionRunsProofs` is about `DecisionRuns`, either profile and any number of cases. The
invariant says for each Run that its cases are noted before their rows (`CasesAreNoted`),
that a finished journal means a finished cleanup (`ResultHolds`, `MemoryIsTrue`), and of
each file that it is true of its author (`RunFileIsTrue`, `JudgementIsTrue`); of the script,
that it is at work on a journal that is finished (`ScriptIsLate`). What a cleanup has
finished does not come back (`FinishedStays`): that is why two writers without a common
lock cannot make a bundle that verifies and lies. Theorems: `TypeCorrect`, `Invariance`,
`JournalsKnow`, `BundlesHold`, `LocksOutlive`, `Implementation`.

`ReportLanesProofs` is about `ReportLanes`, either journey and any set of Runs whose report
appears in time. The invariant says of each Run that its rows are there while it changes
them (`RowsStand`), that at every control point at most the change made last is open and
none is when the Run leaves the lock without an interrupt (`ChangesInTurn`), and that
what is about to be written, and what has been, is true of rows and changes
(`OutcomeIsTrue`, `FilesAreTrue`). `VerdictNeedsRestore` needs that nobody concludes over an
open change, which is where the interrupted journeys part from the others, and for that
the second `finally` must be reached with at most one record open. Theorems:
`TypeCorrect`, `Invariance`, `VerdictsNeedRestore`, `RestoredBack`, `Implementation`.

`ConsentRunsProofs` is about `ConsentRuns` and any set of disturbed Runs. Three parts of the
invariant carry the argument. `FaultIsKnown`: a marker is covered by
`fault_stage_started` until a restore has said ok, so the handler passes only over a
target that is clean or barred. `RequestsInTurn`: while the product goes on answering, a
receipt that was read means that the faulted request is handled, and over a state of
zero that it committed nothing, so the one consent read later is the retry's.
`ResultIsTrue`: a PASS in memory or on disk rests on both. `StartsClean` and `LeavesKnown`
say what a Run has not done yet and how it is on its way out. The product's steps keep
all of it for the Run they answer (`ProductHolds`), another Run's steps touch nothing of
it (`Untouched`, `OtherStep`). Theorems: `TypeCorrect`, `Invariance`, `CollectorsBarred`,
`PassEarned`, `Implementation`.

`RetestsProofs` is about `Retests` and `RecordView`, any finite set of Runs (`RunsAreFinite`:
a run root holds finitely many bundles) and any of the contracts. The invariant says
that bundles are written in order and registered once (`WrittenInOrder`), that a parent
was sealed before its child wrote anything, so that a line of ancestors is finite and
free of cycles, and that a bundle verifies exactly as long as nothing on the part of the
line its contract looks at is hurt. `Line` is a recursive function over the number of
steps to go up; that it is the least set closed under parents, as `Archive` asks, is shown
with a least counterexample (`LeastNatural`), which needs no induction theorem. The
lifting of parents needs what each record of a failed cleanup says about the target.
`ViewInv` says of each key that the cache holds or a look-up carries which files it
names and that a result VERIFIED under it was found over them. Theorems: `Invariance`,
`ParentLifted`, `Implementation` (of `Archive`), `ViewInvariance`, `CacheIsRight`.

`DeliveryRunsProofs` is about `DeliveryRuns`, any receive count above one, any number of
polls and any set of outages. (`QueueAssumption`: config.py takes no count but 3; a queue
that gives up at the first failure has no redelivery for an AFTER Run to see, and
`FailIsProductFault` would be false.) The verdict is computed over what was read, and the
properties are about the product; three groups of invariants join them.
`CopiesHold`, `BeforeHolds` and `AfterHolds` say what the places of the message and its copy,
the receipts and the rows have to do with each other: a copy exists only for a dead
letter, and the handler commits once, whichever copy it gets. `ReadsHold`, `CasesHold` and
`ReplayHolds` say that what a Run has read was true and, where the judge rests on it,
still is: reads bound the rows from below, a flaw that was tested has left its trace in
the memory. `CalmHolds` and the four `Clean…` parts say what a Run remembers, stage by
stage, when nothing was lost or late and the product is sound. A PASS then needs the
first two groups (`PassTrue`), a FAIL of a sound product contradicts the third
(`FailJust`). Each action has a lemma on what it does to the memory (`…Does`); a step of
the Run is then reasoned about by its stage (`StepKeeps`, `StepRemembers`, `StepMoves`), a
step of the product by the copy it handles (`ProductDoes`). Theorems: `Invariance`,
`CasesIsolated`, `NoOrphans`, `FailJust`, `PassTrue`, `Implementation` (of `Custody`).

`VerdictsProofs` is about `Verdicts`, all its profiles and any subset of them
(`TopicsAssumption`; H-01 in full and as its first stage). What a Run judges is a profile of its own
from beginning to end (`TopicStays`), so there is one invariant for each, and
`ProfileInv` joins them. The claims themselves speak only of the end and are inductive
for no profile: they need what the memory of the Run says of the target on the way. Each
invariant stands at the end of its profile's module, `ProfileInv` in `Verdicts`, and has
the same parts: the shape of the memory and how much is read at each stage;
what the target holds at each stage, by its flaw; that a value was read as the target
held it, unless the read was lost; that nothing is missing when the target is sound and
answers; and the claim at the end, from the judge's rule (`AggregateRule` and one lemma
per judge).

* N-01 (`NoticeInv`): a screen was read before its consent, so the policy may have changed
  between them; a stored consent is the one of the last commit of its lane.
* N-02 (`BoundaryInv`): what was read of a path stays true of it, since the Run leaves a
  path only when its reads have settled; a sound target does nothing without a consent.
  The reads of a path change at most once, so a path settles within `2 * StableReads - 2`
  reads: with a shorter deadline (`TimeToSettle`) a sound target can be left without a
  verdict.
* N-03 (`StaleInv`): a stale commit is asked for with the policy read first, and what the
  product did to the past or to other lanes is in its marks until they are read again.
* E-01 (`CitationInv`): the segment is gone exactly between removal and restore, and a
  served citation shows the matrix that was stored when it was asked for.
* E-02 (`FreezeInv`): a report is waited for before the next version is published, so it
  was made under its own, and what was read and served of it is what it was at that time.
  A record that recomputes then has the score `NearestScore` of its report, whatever its
  criteria, axes, weights and missing scores (`ReportScore`): the sums behind a weighted
  mean are unfolded one element at a time (`SumUnfolds`, from a least counterexample
  again), `Rounded` is the nearest integer and the even one of two (`RoundsToNearest`), and
  a mean of percentages is one (`SumOfPercentages`). `ReportsAssumption` is what
  `StoredAxisProjection` admits: scores from 0 to 100 or none, with at least one criterion
  (`frozen_input_set`); weights are integers, in whatever unit makes them so.
* H-01 (`DecisionInv`): as long as every case has passed, the decisions of others are at
  most the one the next read is about to show, and the decisions of the human control are
  one for each of its cases done.
* H-02 (`SurfaceInv`): a stage the assistant fills in shows between the two reads of a row,
  unless the Run was cut short, and a decision read once stays.
* H-03 (`MinimalInv`): the memory is a log of rows, and the judge reads it by key and step.
  Of each row the invariant says what a target with this flaw can have shown (`RowsFit`), of
  the log that every step left its rows while all sources answer (`AllAreLogged`). A sound
  target is passed because the reads of the report stand together, so that their last
  `Consecutive` are a stable window (`PollsFit`), and because the receipt is looked for
  under a new attempt each time, so that finding it at last contradicts no earlier row
  (`EffectsFit`). The logs of a step are concatenations, taken apart with `LogGrows`.

Theorems: `PassesAreTrue`, `FailsNameAFault`, `SoundTargetsPass`.

## What is only checked and what is not modelled

Only checked: liveness and ENABLED, which are out of the prover's reach.

Weaker than one would wish, and true of the code:

* `FaultWindow` has one `cleared` for the pair and never takes it back, since the code keeps
  a confirmation for ever. After any confirmation an unsafe report needs no block, so a
  newer block that is overwritten, or unlinked by a confirmation meant for an older one,
  does not break the promise. This holds for all five refinements. `RetestFindsParentLifted`
  covers the case of a retest; the hazards at cli.py:433, report_lanes.py:290 and
  lifecycle.py:163 are covered in part.
* `RecordView` takes the pair (size, mtime) of a file, which is the workbench's key, for its
  content: a change that keeps both is outside `CacheMatchesFiles`.
* In H-03 the stability of `report.api.status`, without which A2 is INCONCLUSIVE, is left out:
  a sound target keeps it.

Left out of the models that exist: readiness (every Run starts READY), contents of
observations and judgements beyond what decides the outcome, an interrupt between the
last transition and the block write of the minimal Run, disk errors of the run root
there, a commit whose answer is lost, a lock file whose creation succeeds and whose
write fails, the contents that `verify_bundle` checks inside files, `append_jsonl`, a
worker's late mark on the applicants of H-01/H-02, which of the planned rows a failed
delete leaves, the rules by which H-02's scan recognises a binding (its answer is one
choice), and the floating point of `e02_scoring`.

Not modelled: readiness and scenario validation (pure choices in front of a Run), the
pages of the workbench, the export of shared records, the scripts that start containers.
`PROJECT.json` names each with its reason.

## Plan

Done: the run root and H-03 Runs; Spec 009; Spec 004; bundles, retests and the cache;
N-02; H-01 and H-02 with their recovery script; queue delivery with E-03; the judges;
the proofs of the five compositions that implement FaultWindow, of Retests and its cache,
of DeliveryRuns, and of the verdicts of all profiles.

1. `BundleContents`: required evidence, cross references, append_jsonl and redaction, with
   `seal` and `verify_bundle` as one relation: what seals verifies.
2. `ReadinessRules`: the priority of blockers against a reference definition.
