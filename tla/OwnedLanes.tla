----------------------------- MODULE OwnedLanes -----------------------------
(***************************************************************************)
(* Several Spec 009 Runs of one profile, the product that answers them and *)
(* an operator with the recovery script and cleanup-confirm.               *)
(***************************************************************************)
EXTENDS LaneRecovery

allVars == <<laneVars, recoveryVars>>

SystemInit == LaneInit /\ RecoveryInit

RunStep(r) == LaneStep(r) /\ UNCHANGED recoveryVars

SystemNext ==
    \/ \E r \in Runs : RunStep(r)
    \/ \E r \in Runs : (Crash(r) \/ ProductCommits(r) \/ WorkerMarks(r)) /\ UNCHANGED recoveryVars
    \/ RecoveryStep

SystemSpec == SystemInit /\ [][SystemNext]_allVars

\* A process that is alive keeps executing; the product and the operator owe
\* nothing.
FairSystemSpec == SystemSpec /\ \A r \in Runs : WF_allVars(RunStep(r))

Locked == {"locked", "seeded", "observe", "teardown", "recount", "cleaned",
           "leave-lock", "leave-cut"}

TypeOK ==
    /\ lock \in Runs \cup {None}
    /\ block \in Runs \cup {None}
    /\ maintenance \subseteq Runs
    /\ stage \in [Runs -> Locked \cup Ended \cup
                   {"idle", "registered", "conclude", "write", "seal"}]
    /\ rows \in [Runs -> SUBSET RowKinds]
    /\ product \in [Runs -> {"idle", "asked", "queued"}]
    /\ journal \in [Runs -> {"ABSENT", "REGISTERED", "SEED_FAILED", "SEEDED", "CLEANUP_FINISHED"}]
    /\ facts \in [Runs -> {"none", "partial", "whole"}]
    /\ traced \subseteq Runs
    /\ recovery \in [Runs -> {"none", "SUCCEEDED", "FAILED"}]
    /\ residue \in [Runs -> SUBSET RowKinds]
    /\ failed \subseteq Runs
    /\ verdict \in [Runs -> Statuses \cup {"none"}]
    /\ runFile \in [Runs -> {"ABSENT", "COMPLETED", "RESTORE_FAILED"}]
    /\ sealed \subseteq Runs
    /\ recovering \in Runs \cup {None}
    /\ evidence \subseteq Runs
    /\ confirm \in ConfirmSteps

\* Lanes of two live Runs are never between seed and recount at once, so a
\* recount never meets the rows of another observation in progress.
OneRunObserves ==
    \A r \in Runs : stage[r] \in Locked => lock = r

\* checkpoint before seed: whatever dies and whenever, rows in the target
\* database belong to a Run whose journal is on disk and does not deny them.
JournalKnowsRows ==
    \A r \in Runs : rows[r] # {} => journal[r] \in {"REGISTERED", "SEEDED", "CLEANUP_FINISHED"}

\* verdict_for: a sealed PASS or FAIL comes from a Run whose own rows are gone
\* for good, and a PASS from a whole observation.  A worker's late mark is the
\* only row that may turn up.
VerdictNeedsCleanup ==
    \A r \in sealed :
        /\ verdict[r] \in {"PASS", "FAIL"} => runFile[r] = "COMPLETED" /\ rows[r] \subseteq {"mark"}
        /\ verdict[r] = "PASS" => facts[r] = "whole"

\* Rows are deleted by the Run's own teardown under the lock or, once its
\* record says RESTORE_FAILED, by the recovery script: never under a Run that
\* still has to record what it left.
DeletesAreOwned ==
    [][\A r \in Runs : rows[r] \ rows'[r] # {} =>
          \/ stage[r] = "teardown" /\ lock = r
          \/ runFile[r] = "RESTORE_FAILED"]_allVars

\* teardown_lanes says SUCCEEDED only over a database without any row of the
\* Run, a worker's mark included, although the rows that led to the mark are
\* deleted by then.
VerifiedMeansEmpty ==
    [][\A r \in Runs :
          recovery[r] # "SUCCEEDED" /\ recovery'[r] = "SUCCEEDED" => rows[r] = {}]_allVars

\* The Runs and the operator implement FaultWindow, with the rows found by
\* the planned IDs as what a Run put in place.
FW == INSTANCE FaultWindow
        WITH active  <- {r \in Runs : Owned(rows[r]) # {}},
             barrier <- Blocked,
             cleared <- maintenance # {},
             verdict <- [r \in Runs |->
                 CASE runFile[r] = "COMPLETED"      -> "clean"
                   [] runFile[r] = "RESTORE_FAILED" -> "unsafe"
                   [] OTHER                         -> "open"]

\* COMPLETED is only written over a database without the Run's rows and stays
\* true, RESTORE_FAILED only behind a block or after a confirmation, and the
\* block only goes after a confirmation.
ImplementsFaultWindow == FW!FWSpec

\* "always clean up": an observation that began is torn down, unless the
\* process dies or is interrupted again while it cleans up.
ObservationIsTornDown ==
    \A r \in Runs :
        stage[r] = "observe" ~> recovery[r] # "none" \/ stage[r] \in {"crashed", "leave-cut"}

-----------------------------------------------------------------------------
(* The inductive invariant behind the safety properties *)

\* Rows are those of a journal that was there before them; an event of the
\* product comes after the seed and is noted too.
RowsAreNoted(r) ==
    /\ stage[r] \in {"idle", "registered", "locked"} => rows[r] = {}
    /\ stage[r] = "seeded" => rows[r] = {"seed"}
    /\ stage[r] \in {"registered", "locked", "seeded"} => journal[r] = "REGISTERED"
    /\ stage[r] \in {"idle", "registered", "locked", "seeded"} => product[r] = "idle"
    /\ product[r] # "idle" => journal[r] \in {"SEEDED", "CLEANUP_FINISHED"}

\* A worker can only mark an event that the Run's teardown finds or has found.
EventsAreTraced(r) ==
    LET marking == product[r] = "queued" \/ "mark" \in rows[r] IN
    /\ stage[r] \in {"observe", "teardown"} /\ marking => "event" \in rows[r]
    /\ stage[r] = "recount" => rows[r] \subseteq {"mark"} /\ (marking => r \in traced)

\* A Run that concludes has observed and cleaned up, and what it calls SUCCEEDED
\* stays true but for a late mark.
ResultHolds(r) ==
    /\ stage[r] \in {"cleaned", "conclude", "write", "seal"} => recovery[r] # "none" /\ facts[r] # "none"
    /\ stage[r] \in {"teardown", "recount"} => facts[r] # "none"
    /\ stage[r] = "leave-lock" => r \in failed \/ (recovery[r] # "none" /\ facts[r] # "none")
    /\ stage[r] = "leave-cut" => r \in failed
    /\ recovery[r] # "none" =>
          stage[r] \in {"cleaned", "leave-lock", "conclude", "write", "seal"} \cup Ended
    /\ recovery[r] = "SUCCEEDED" => rows[r] \subseteq {"mark"}

\* What is about to be written is true of the observation and the cleanup.
MemoryIsTrue(r) ==
    stage[r] \in {"write", "seal"} =>
        /\ verdict[r] \in {"PASS", "FAIL"} => CleanupVerified(r)
        /\ verdict[r] = "PASS" => facts[r] = "whole"
        /\ CleanupVerified(r) \/ Barred

\* And so is what has been written.
FilesAreTrue(r) ==
    /\ runFile[r] # "ABSENT" => stage[r] \in {"seal"} \cup Ended
    /\ stage[r] = "seal" => runFile[r] = IF CleanupVerified(r) THEN "COMPLETED" ELSE "RESTORE_FAILED"
    /\ runFile[r] = "COMPLETED" => rows[r] \subseteq {"mark"}
    /\ runFile[r] = "RESTORE_FAILED" => Barred
    /\ r \in sealed =>
          /\ stage[r] \in Ended
          /\ verdict[r] \in {"PASS", "FAIL"} => runFile[r] = "COMPLETED"
          /\ verdict[r] = "PASS" => facts[r] = "whole"

\* A block, and the script that has checked it, are about a Run that failed to
\* clean up.
BlockIsOfFailure(r) ==
    /\ block = r =>
          /\ stage[r] \in {"write", "seal"} \cup Ended
          /\ runFile[r] # "COMPLETED"
          /\ stage[r] = "write" => ~CleanupVerified(r)
    /\ recovering = r => runFile[r] = "RESTORE_FAILED"

RunHolds(r) ==
    /\ RowsAreNoted(r) /\ EventsAreTraced(r) /\ ResultHolds(r)
    /\ MemoryIsTrue(r) /\ FilesAreTrue(r) /\ BlockIsOfFailure(r)

IInv ==
    /\ TypeOK
    /\ OneRunObserves
    /\ JournalKnowsRows
    /\ \A r \in Runs : RunHolds(r)
    /\ confirm = "recorded" => maintenance # {}

-----------------------------------------------------------------------------
(* What the documents say and the code does not do *)

\* `recount`: the same owned-row predicate as the teardown recount.  What that
\* one counted is gone when the cleanup is confirmed.
ResidueIsGoneWhenConfirmed ==
    \A r \in maintenance : residue[r] \cap rows[r] = {}
=============================================================================
