---------------------------- MODULE DecisionRun ----------------------------
(***************************************************************************)
(* H01Executor.execute and H02Executor.execute (engine/executors/h01.py,   *)
(* h02.py) with the preparation and the cleanup of H01Live (adapters/       *)
(* whyyou/h01_live.py): one owned applicant per case, all of them deleted   *)
(* together at the end.  What a case showed is its outcome (see             *)
(* DecisionVerdicts and SurfaceVerdicts); a worker's late mark is the       *)
(* subject of LaneRun and left out here.                                    *)
(*                                                                         *)
(* A document is named by the process that wrote it: the Run's own or the   *)
(* recovery script.  run.json is the first document and the judgement the   *)
(* last one.                                                                *)
(***************************************************************************)
EXTENDS RunFiles, Integers

CONSTANTS Kinds,   \* the profiles the Runs of the pair are drawn from
          Cases,   \* bound: the number of cases of a Run
          Varied   \* bound: the Runs that may be disturbed: cases that show anything but
                   \* a pass, exceptions, a crash

ASSUME CasesAssumption ==
    Cases \in Nat \ {0} /\ Kinds \subseteq {"H-01", "H-02"} /\ Varied \subseteq Runs

VARIABLES
    kind,      \* the profile of the pair
    rows,      \* cases whose rows are in the target database
    at,        \* the case the Run is at
    journal,   \* progress/<run_id>.json: its phase, the cases that it names and what
               \* each one showed, "none" before its observation
    recovery,  \* the status in the `recovery` dict
    flawed,    \* Runs with an error that is kept as a fact
    foreign,   \* Runs with a human control that verify_facts will not accept
    failed,    \* an exception is on its way out of the process
    verdict,   \* the Judgement in memory
    runFile,   \* run.json: its author and state
    judged,    \* judgement.json: its author and verdict
    sealed     \* the author of manifest.json, or "nobody"

targetVars == <<kind, rows>>
memoryVars == <<at, recovery, flawed, foreign, failed, verdict>>
bundleVars == <<runFile, judged, sealed>>
decisionVars == <<rootVars, stage, targetVars, memoryVars, journal, bundleVars>>

Statuses == {"PASS", "FAIL", "INCONCLUSIVE"}
NoOutcome == [c \in 1..Cases |-> "none"]
Absent == [author |-> "nobody", says |-> "none"]

\* aggregate: a failure first, then whatever is missing.
Aggregate(outcomes) ==
    CASE "FAIL" \in outcomes -> "FAIL"
      [] "FAIL" \notin outcomes /\ outcomes \subseteq {"PASS"} -> "PASS"
      [] OTHER -> "INCONCLUSIVE"

Outcomes(r) == {journal[r].outcome[c] : c \in 1..Cases}

DecisionInit ==
    /\ RootInit
    /\ kind \in Kinds
    /\ rows = [r \in Runs |-> {}]
    /\ at = [r \in Runs |-> 1]
    /\ journal = [r \in Runs |-> [phase |-> "ABSENT", cases |-> {}, outcome |-> NoOutcome]]
    /\ recovery = [r \in Runs |-> "none"]
    /\ flawed = {} /\ foreign = {} /\ failed = {}
    /\ verdict = [r \in Runs |-> "none"]
    /\ runFile = [r \in Runs |-> Absent]
    /\ judged = [r \in Runs |-> Absent]
    /\ sealed = [r \in Runs |-> "nobody"]

\* What a process that has ended takes with it; `foreign` is a fact of its bundle.
Forget(r) ==
    /\ at' = [at EXCEPT ![r] = 1]
    /\ flawed' = flawed \ {r}
    /\ failed' = failed \ {r}
    /\ recovery' = [recovery EXCEPT ![r] = "none"]
    /\ verdict' = [verdict EXCEPT ![r] = "none"]
    /\ UNCHANGED foreign

-----------------------------------------------------------------------------
(* Before the lock *)

\* The block is looked at once, before the environment is captured.
CheckBlock(r) ==
    /\ stage[r] = "idle"
    /\ GoTo(r, IF Blocked THEN "refused" ELSE "captured")
    /\ UNCHANGED <<rootVars, targetVars, memoryVars, journal, bundleVars>>

\* checkpoint("REGISTERED_BEFORE_WRITES"): H-02 notes its plan, H-01 no row yet.
Register(r) ==
    /\ stage[r] = "captured"
    /\ journal' = [journal EXCEPT ![r] =
          [phase |-> "REGISTERED", cases |-> IF kind = "H-02" THEN 1..Cases ELSE {},
           outcome |-> NoOutcome]]
    /\ GoTo(r, "registered")
    /\ UNCHANGED <<rootVars, targetVars, memoryVars, bundleVars>>

Lock(r) ==
    /\ stage[r] = "registered"
    /\ \/ LockIsFree /\ Acquire(r) /\ GoTo(r, "case")
       \/ ~LockIsFree /\ GoTo(r, "raised") /\ UNCHANGED lock
    /\ UNCHANGED <<block, maintenance, targetVars, memoryVars, journal, bundleVars>>

-----------------------------------------------------------------------------
(* The cases *)

\* Mutant: the journal learns of a case when it has been observed.
StartUnnoted(r) ==
    /\ stage[r] = "case"
    /\ GoTo(r, IF at[r] <= Cases THEN "prepare" ELSE "cleanup")
    /\ UNCHANGED <<rootVars, targetVars, memoryVars, journal, bundleVars>>

\* Mutant: one case more than was planned.
StartOneMore(r) ==
    /\ stage[r] = "case"
    /\ IF at[r] <= Cases + 1
       THEN /\ journal' = [journal EXCEPT ![r].phase = "CASES",
                                          ![r].cases = @ \cup {at[r]}]
            /\ GoTo(r, "prepare")
       ELSE UNCHANGED journal /\ GoTo(r, "cleanup")
    /\ UNCHANGED <<rootVars, targetVars, memoryVars, bundleVars>>

\* checkpoint("CASE_STARTED") of H-01, before anything of the case is written.
StartCase(r) ==
    /\ stage[r] = "case"
    /\ IF at[r] <= Cases
       THEN /\ journal' = [journal EXCEPT ![r].phase = "CASES",
                                          ![r].cases = @ \cup {at[r]}]
            /\ GoTo(r, "prepare")
       ELSE UNCHANGED journal /\ GoTo(r, "cleanup")
    /\ UNCHANGED <<rootVars, targetVars, memoryVars, bundleVars>>

\* prepare: the seed commits or not, and what follows it may fail.  H-01 keeps the
\* error and observes the case all the same, H-02 leaves its try.
Prepare(r) ==
    /\ stage[r] = "prepare"
    /\ \/ /\ rows' = [rows EXCEPT ![r] = @ \cup {at[r]}]
          /\ GoTo(r, "observe")
          /\ UNCHANGED flawed
       \/ /\ r \in Varied
          /\ rows' \in {rows, [rows EXCEPT ![r] = @ \cup {at[r]}]}
          /\ flawed' = flawed \cup {r}
          /\ GoTo(r, IF kind = "H-01" THEN "observe" ELSE "cleanup")
    /\ UNCHANGED <<rootVars, kind, at, recovery, foreign, failed, verdict, journal,
                   bundleVars>>

\* The request and the reads around it, then checkpoint("CASE_OBSERVED").  A human
\* decision of H-02 that the product refused has no outcome verify_facts accepts.
Observe(r) ==
    /\ stage[r] = "observe"
    /\ \E status \in IF r \in Varied THEN Statuses ELSE {"PASS"} :
          /\ journal' = [journal EXCEPT ![r].outcome[at[r]] = status]
          /\ foreign' \in {foreign} \cup
                (IF kind = "H-02" /\ status = "INCONCLUSIVE" THEN {foreign \cup {r}} ELSE {})
    /\ at' = [at EXCEPT ![r] = @ + 1]
    /\ GoTo(r, "case")
    /\ UNCHANGED <<rootVars, targetVars, recovery, flawed, failed, verdict, bundleVars>>

\* Mutant: only what the try expects is followed by the cleanup.
BreakOffUncleaned(r) ==
    /\ r \in Varied /\ stage[r] \in {"case", "prepare", "observe"}
    /\ failed' = failed \cup {r}
    /\ GoTo(r, "leave-lock")
    /\ UNCHANGED <<rootVars, targetVars, at, recovery, flawed, foreign, verdict, journal,
                   bundleVars>>

\* A checkpoint that cannot be written, or an interrupt, passes through the finally.
BreakOff(r) ==
    /\ r \in Varied /\ stage[r] \in {"case", "prepare", "observe"}
    /\ failed' = failed \cup {r}
    /\ GoTo(r, "cleanup")
    /\ UNCHANGED <<rootVars, targetVars, at, recovery, flawed, foreign, verdict, journal,
                   bundleVars>>

-----------------------------------------------------------------------------
(* H01Live.cleanup and what becomes of its result *)

\* One transaction deletes the rows of all cases, or none.
DeleteRows(r) ==
    /\ stage[r] = "cleanup"
    /\ \/ /\ rows' = [rows EXCEPT ![r] = {}]
          /\ GoTo(r, "teardown")
          /\ UNCHANGED recovery
       \/ /\ recovery' = [recovery EXCEPT ![r] = "FAILED"]
          /\ GoTo(r, "cleaned")
          /\ UNCHANGED rows
    /\ UNCHANGED <<rootVars, kind, at, flawed, foreign, failed, verdict, journal,
                   bundleVars>>

\* Each lane's own teardown, then the recount: SUCCEEDED over no row, and within
\* 120 seconds of the start.
Recount(r) ==
    /\ stage[r] = "teardown"
    /\ recovery' \in {[recovery EXCEPT ![r] = IF rows[r] = {} THEN "SUCCEEDED" ELSE "FAILED"],
                      [recovery EXCEPT ![r] = "FAILED"]}
    /\ GoTo(r, "cleaned")
    /\ UNCHANGED <<rootVars, targetVars, at, flawed, foreign, failed, verdict, journal,
                   bundleVars>>

\* An interrupt of the cleanup itself.
CutCleanup(r) ==
    /\ r \in Varied /\ stage[r] \in {"cleanup", "teardown"}
    /\ failed' = failed \cup {r}
    /\ GoTo(r, "leave-cut")
    /\ UNCHANGED <<rootVars, targetVars, at, recovery, flawed, foreign, verdict, journal,
                   bundleVars>>

\* checkpoint("CLEANUP_FINISHED"), which may raise.
FinishCleanup(r) ==
    /\ stage[r] = "cleaned"
    /\ \/ journal' = [journal EXCEPT ![r].phase = "CLEANUP_FINISHED"] /\ UNCHANGED failed
       \/ r \in Varied /\ failed' = failed \cup {r} /\ UNCHANGED journal
    /\ GoTo(r, "leave-lock")
    /\ UNCHANGED <<rootVars, targetVars, at, recovery, flawed, foreign, verdict,
                   bundleVars>>

LeaveLock(r) ==
    /\ stage[r] \in {"leave-lock", "leave-cut"}
    /\ Release
    /\ \/ r \in failed /\ GoTo(r, "raised") /\ Forget(r)
       \/ r \notin failed /\ GoTo(r, "conclude") /\ UNCHANGED memoryVars
    /\ UNCHANGED <<block, maintenance, targetVars, journal, bundleVars>>

-----------------------------------------------------------------------------
(* The bundle *)

\* cleanup_verified: nothing else counts as clean.
CleanupVerified(r) == recovery[r] = "SUCCEEDED"

\* The assertions and the verdict; an unverified cleanup bars the pair before the
\* first document.
Conclude(r) ==
    /\ stage[r] = "conclude"
    /\ verdict' = [verdict EXCEPT ![r] =
          IF CleanupVerified(r)
          THEN Aggregate(Outcomes(r) \cup IF r \in flawed THEN {"INCONCLUSIVE"} ELSE {})
          ELSE "INCONCLUSIVE"]
    /\ IF CleanupVerified(r) THEN UNCHANGED block ELSE WriteBlock(r)
    /\ GoTo(r, "write")
    /\ UNCHANGED <<lock, maintenance, targetVars, at, recovery, flawed, foreign, failed,
                   journal, bundleVars>>

\* A document is refused once somebody has sealed the directory.
Mutable(r) == sealed[r] = "nobody"

WriteRun(r) ==
    /\ stage[r] = "write"
    /\ IF Mutable(r)
       THEN /\ runFile' = [runFile EXCEPT ![r] =
                  [author |-> "run", says |-> IF CleanupVerified(r) THEN "COMPLETED"
                                              ELSE "RESTORE_FAILED"]]
            /\ GoTo(r, "judge")
            /\ UNCHANGED memoryVars
       ELSE UNCHANGED runFile /\ GoTo(r, "raised") /\ Forget(r)
    /\ UNCHANGED <<rootVars, targetVars, journal, judged, sealed>>

WriteJudgement(r) ==
    /\ stage[r] = "judge"
    /\ IF Mutable(r)
       THEN /\ judged' = [judged EXCEPT ![r] = [author |-> "run", says |-> verdict[r]]]
            /\ GoTo(r, "seal")
            /\ UNCHANGED memoryVars
       ELSE UNCHANGED judged /\ GoTo(r, "raised") /\ Forget(r)
    /\ UNCHANGED <<rootVars, targetVars, journal, runFile, sealed>>

\* verify_bundle: every document is the one its author registered, and the facts
\* say what the profile lets them say.
Verifies(r, author) ==
    /\ runFile[r].author = author /\ judged[r].author = author
    /\ r \notin foreign

\* seal, then verify_bundle; a bundle that does not verify stays, sealed.
Seal(r) ==
    /\ stage[r] = "seal"
    /\ sealed' = [sealed EXCEPT ![r] = IF Mutable(r) THEN "run" ELSE @]
    /\ GoTo(r, IF Mutable(r) /\ Verifies(r, "run") THEN "done" ELSE "raised")
    /\ Forget(r)
    /\ UNCHANGED <<rootVars, targetVars, journal, runFile, judged>>

\* An error or an interrupt outside the lock ends the Run where it is: capture of
\* the environment, second source scan of H-02, block, documents.
Raise(r) ==
    /\ r \in Varied
    /\ stage[r] \in {"captured", "registered", "conclude", "write", "judge", "seal"}
    /\ GoTo(r, "raised")
    /\ Forget(r)
    /\ UNCHANGED <<rootVars, targetVars, journal, bundleVars>>

DecisionStep(r) ==
    \/ CheckBlock(r) \/ Register(r) \/ Lock(r) \/ StartCase(r) \/ Prepare(r) \/ Observe(r)
    \/ BreakOff(r) \/ DeleteRows(r) \/ Recount(r) \/ CutCleanup(r) \/ FinishCleanup(r)
    \/ LeaveLock(r) \/ Conclude(r) \/ WriteRun(r) \/ WriteJudgement(r) \/ Seal(r) \/ Raise(r)

Crash(r) ==
    /\ r \in Varied /\ stage[r] \notin Ended \cup {"idle"}
    /\ GoTo(r, "crashed")
    /\ Forget(r)
    /\ UNCHANGED <<rootVars, targetVars, journal, bundleVars>>
=============================================================================
