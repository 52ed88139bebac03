------------------------------ MODULE RetestRun ------------------------------
(***************************************************************************)
(* A Run of a sealed profile and its retests (cli._run, cli._retest,       *)
(* engine/retest.py, the `execute` of executors/sealed.py, n02.py,         *)
(* report_lanes.py and spec009.py) from the parent's check to the end of   *)
(* the command.  What the Run does to the target is one step, whose        *)
(* details the modules of the single profiles have; here it leaves         *)
(* something on the target or not.                                         *)
(***************************************************************************)
EXTENDS EvidenceBundle

VARIABLES
    runState,   \* the state of the Run, PENDING until its outcome is known
    residue,    \* Runs whose changes are still on the target
    proof       \* proof[r]: the Run that the evidence in r's maintenance
                \* record was taken of, or None

retestVars == <<rootVars, stage, bundleVars, runState, residue, proof>>

RetestInit ==
    /\ RootInit
    /\ BundleInit
    /\ runState = [r \in Runs |-> "PENDING"]
    /\ residue = {}
    /\ proof = [r \in Runs |-> None]

CheckedInLock == family \in {"SPEC003", "SPEC004"}

-----------------------------------------------------------------------------
(* prepare_retest *)

NeedsCleanup(p) == runState[p] = "RESTORE_FAILED"

\* Spec 004 asks only that a confirmation exists under the parent's run_id.
ConfirmedAtAll(p) == p \in maintenance

\* Spec 003 compares it with evidence that names the parent.
ConfirmedByEvidence(p) == p \in maintenance /\ proof[p] = p

\* Mutant: Spec 003 takes any confirmation, as Spec 004 does.
AnyConfirmation(p) ==
    IF family \in {"SPEC003", "SPEC004"}
    THEN ~Blocked /\ (NeedsCleanup(p) => ConfirmedAtAll(p))
    ELSE ~NeedsCleanup(p)

\* Both also refuse while the pair is blocked, whatever the parent's state;
\* the others take no parent that needed cleanup.
CleanupResolved(p) ==
    CASE family = "SPEC003" -> ~Blocked /\ (NeedsCleanup(p) => ConfirmedByEvidence(p))
      [] family = "SPEC004" -> ~Blocked /\ (NeedsCleanup(p) => ConfirmedAtAll(p))
      [] OTHER              -> ~NeedsCleanup(p)

Begin(r) ==
    /\ stage[r] = "idle"
    /\ GoTo(r, "prepared")
    /\ UNCHANGED <<rootVars, bundleVars, runState, residue, proof>>

Prepare(r, p) ==
    /\ stage[r] = "idle"
    /\ Verified(p)
    /\ runState[p] \in TerminalRunStates
    /\ CleanupResolved(p)
    /\ origin' = [origin EXCEPT ![r] = p]
    /\ GoTo(r, "prepared")
    /\ UNCHANGED <<rootVars, family, disk, registered, manifest, hurt, runState, residue, proof>>

-----------------------------------------------------------------------------
(* execute *)

\* The block is looked at before the lock, but for Spec 004.
CheckBlock(r) ==
    /\ stage[r] = "prepared"
    /\ GoTo(r, IF Blocked /\ family # "SPEC004" THEN "refused" ELSE "checked")
    /\ UNCHANGED <<rootVars, bundleVars, runState, residue, proof>>

\* Inside the lock the Run starts to change the target, unless Spec 003/004
\* find a block there; then the `with` gives the lock back.
Enter(r) ==
    /\ stage[r] = "checked"
    /\ LockIsFree
    /\ ~(CheckedInLock /\ Blocked)
    /\ Acquire(r)
    /\ residue' = residue \cup {r}
    /\ GoTo(r, "inside")
    /\ UNCHANGED <<block, maintenance, bundleVars, runState, proof>>

TurnedAway(r) ==
    /\ stage[r] = "checked"
    /\ ~LockIsFree \/ (CheckedInLock /\ Blocked)
    /\ GoTo(r, "refused")
    /\ UNCHANGED <<rootVars, bundleVars, runState, residue, proof>>

\* Mutant: a Run whose restore failed is left without an outcome.
LeaveRestoring(r) ==
    /\ stage[r] = "inside"
    /\ \E s \in {"COMPLETED", "RESTORING"} : runState' = [runState EXCEPT ![r] = s]
    /\ residue' = IF runState'[r] = "COMPLETED" THEN residue \ {r} ELSE residue
    /\ Release
    /\ GoTo(r, "left")
    /\ UNCHANGED <<block, maintenance, bundleVars, proof>>

\* The restore is confirmed, or it is not, whatever it did to the target.
Leave(r) ==
    /\ stage[r] = "inside"
    /\ \/ /\ runState' = [runState EXCEPT ![r] = "COMPLETED"]
          /\ residue' = residue \ {r}
       \/ /\ runState' = [runState EXCEPT ![r] = "RESTORE_FAILED"]
          /\ residue' \in {residue, residue \ {r}}
    /\ Release
    /\ GoTo(r, "left")
    /\ UNCHANGED <<block, maintenance, bundleVars, proof>>

\* An exception of the collector passes through the `with`.  Only N-02 writes
\* a block on its way, when its own cleanup was tried and is not confirmed.
BodyRaises(r) ==
    /\ stage[r] = "inside"
    /\ residue' \in {residue, residue \ {r}}
    /\ UNCHANGED block \/ (family = "SPEC003" /\ WriteBlock(r))
    /\ Release
    /\ GoTo(r, "raised")
    /\ UNCHANGED <<maintenance, bundleVars, runState, proof>>

\* Outside the lock: the Run record is built and a failed restore is barred.
Settle(r) ==
    /\ stage[r] = "left"
    /\ IF runState[r] = "RESTORE_FAILED" THEN WriteBlock(r) ELSE UNCHANGED block
    /\ GoTo(r, "writing")
    /\ UNCHANGED <<lock, maintenance, bundleVars, runState, residue, proof>>

\* The deadline (002), the environment capture and the comparison with the
\* prepared records (003, 004) or the assertions (009) can raise before the
\* block is written.
SettleRaises(r) ==
    /\ stage[r] = "left"
    /\ GoTo(r, "raised")
    /\ UNCHANGED <<rootVars, bundleVars, runState, residue, proof>>

Write(r) ==
    /\ stage[r] = "writing"
    /\ WriteFile(r, "run.json")
    /\ GoTo(r, "written")
    /\ UNCHANGED <<rootVars, family, origin, manifest, hurt, runState, residue, proof>>

\* A redaction finding, a failed record comparison or the disk.
WriteRaises(r) ==
    /\ stage[r] \in {"writing", "written"}
    /\ GoTo(r, "raised")
    /\ UNCHANGED <<rootVars, bundleVars, runState, residue, proof>>

Seal(r) ==
    /\ stage[r] = "written"
    /\ WriteManifest(r)
    /\ GoTo(r, "sealed")
    /\ UNCHANGED <<rootVars, family, origin, disk, registered, hurt, runState, residue, proof>>

\* The executor verifies its own bundle, but for Spec 002; then cli._retest
\* verifies the parent again (assert_parent_unchanged).
Conclude(r) ==
    /\ stage[r] = "sealed"
    /\ GoTo(r, IF /\ family # "SPEC002" => Verified(r)
                  /\ origin[r] # None => Verified(origin[r])
               THEN "done" ELSE "raised")
    /\ UNCHANGED <<rootVars, bundleVars, runState, residue, proof>>

\* The process is killed in the lock, and its lock file stays.  Killed outside
\* the lock it leaves what an exception at the same place leaves.
Die(r) ==
    /\ stage[r] = "inside"
    /\ GoTo(r, "crashed")
    /\ UNCHANGED <<rootVars, bundleVars, runState, residue, proof>>

RunStep(r) ==
    \/ Begin(r) \/ CheckBlock(r) \/ Enter(r) \/ TurnedAway(r) \/ Leave(r) \/ BodyRaises(r)
    \/ Settle(r) \/ SettleRaises(r) \/ Write(r) \/ WriteRaises(r) \/ Seal(r)
    \/ Conclude(r) \/ Die(r)
    \/ \E p \in Runs \ {r} : Prepare(r, p)
=============================================================================
