---------------------------- MODULE LaneRecovery ----------------------------
(***************************************************************************)
(* What an operator has against a Spec 009 block: the recovery script      *)
(* (engine/spec009_recovery.py `recover`), which deletes the rows the      *)
(* blocked Run left and writes recovery evidence, and `cleanup-confirm`    *)
(* with that evidence.  Neither takes the lock.                            *)
(***************************************************************************)
EXTENDS LaneRun

VARIABLES
    recovering,  \* the Run whose block and bundle the script has checked
    evidence,    \* Runs for which a recovery evidence file exists
    confirm      \* how far cleanup-confirm is

recoveryVars == <<recovering, evidence, confirm>>

ConfirmSteps == {"idle", "recounted", "recorded"}

RecoveryInit ==
    /\ recovering = None
    /\ evidence = {}
    /\ confirm = "idle"

\* check_block: the block names the Run and its bundle has a run.json.
CheckBlock ==
    /\ recovering = None
    /\ Blocked
    /\ runFile[block] # "ABSENT"
    /\ recovering' = block
    /\ UNCHANGED <<laneVars, evidence, confirm>>

\* The delete transaction from the planned IDs.  The recount after it only
\* sets the status in the evidence, which cleanup-confirm does not read.
RecoverRows ==
    /\ recovering # None
    /\ rows' = [rows EXCEPT ![recovering] = @ \ Owned(@)]
    /\ evidence' = evidence \cup {recovering}
    /\ recovering' = None
    /\ UNCHANGED <<rootVars, stage, product, memoryVars, bundleVars, confirm>>

\* The script fails or is killed: the transaction rolls back.
RecoverRaises ==
    /\ recovering # None
    /\ recovering' = None
    /\ UNCHANGED <<laneVars, evidence, confirm>>

\* The evidence names the blocked Run and `recount`, a scan from the planned
\* IDs, finds no row of it.
ConfirmRecount ==
    /\ confirm = "idle"
    /\ block \in evidence
    /\ Owned(rows[block]) = {}
    /\ confirm' = "recounted"
    /\ UNCHANGED <<laneVars, recovering, evidence>>

\* Mutant: the block goes before its confirmation is stored.
ConfirmUnblocks ==
    /\ confirm = "recounted"
    /\ Blocked
    /\ block' = None
    /\ confirm' = "recorded"
    /\ UNCHANGED <<lock, maintenance, stage, targetVars, memoryVars, bundleVars, recovering, evidence>>

\* confirm_cleanup reads the block again: the record is for the Run it names
\* by now.
ConfirmRecord ==
    /\ confirm = "recounted"
    /\ Blocked
    /\ maintenance' = maintenance \cup {block}
    /\ confirm' = "recorded"
    /\ UNCHANGED <<lock, block, stage, targetVars, memoryVars, bundleVars, recovering, evidence>>

ConfirmUnlink ==
    /\ confirm = "recorded"
    /\ block' = None
    /\ confirm' = "idle"
    /\ UNCHANGED <<lock, maintenance, stage, targetVars, memoryVars, bundleVars, recovering, evidence>>

ConfirmDies ==
    /\ confirm # "idle"
    /\ confirm' = "idle"
    /\ UNCHANGED <<laneVars, recovering, evidence>>

RecoveryStep ==
    \/ CheckBlock \/ RecoverRows \/ RecoverRaises
    \/ ConfirmRecount \/ ConfirmRecord \/ ConfirmUnlink \/ ConfirmDies
=============================================================================
