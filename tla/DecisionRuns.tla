---------------------------- MODULE DecisionRuns ----------------------------
(***************************************************************************)
(* Several H-01 or H-02 Runs of one pair, the script that seals the factual *)
(* failure of a Run that died after its cleanup (scripts/h01_recover.py),   *)
(* and cleanup-confirm for the two subject groups, which engine/cli.py      *)
(* treats as H-03 ones.  Neither of the two takes the lock.                 *)
(***************************************************************************)
EXTENDS DecisionRun

VARIABLES
    script,    \* the Run whose bundle the script is after, and how far it is
    confirm    \* how far cleanup-confirm is

allVars == <<decisionVars, script, confirm>>

NoScript == [run |-> None, step |-> "idle"]

SystemInit == DecisionInit /\ script = NoScript /\ confirm = "idle"

-----------------------------------------------------------------------------
(* h01_recover.main *)

Intact == <<rootVars, stage, memoryVars, journal, confirm>>

ScriptAt(step) == script.run # None /\ script.step = step
ScriptGoesTo(step) == script' = [script EXCEPT !.step = step]

\* Mutant: any observed Run is recovered, whatever it showed.
OpenAnyJournal ==
    \E r \in Runs :
        /\ script = NoScript /\ kind = "H-01"
        /\ journal[r].phase = "CLEANUP_FINISHED" /\ journal[r].cases = 1..Cases
        /\ runFile[r] = Absent /\ judged[r] = Absent /\ Mutable(r)
        /\ script' = [run |-> r, step |-> "cleanup"]
        /\ UNCHANGED <<decisionVars, confirm>>

\* A complete journal that ends with the cleanup, a directory without a file, and
\* the observations of a failure.
OpenJournal ==
    \E r \in Runs :
        /\ script = NoScript /\ kind = "H-01"
        /\ journal[r].phase = "CLEANUP_FINISHED" /\ journal[r].cases = 1..Cases
        /\ runFile[r] = Absent /\ judged[r] = Absent /\ Mutable(r)
        /\ Aggregate(Outcomes(r)) = "FAIL"
        /\ script' = [run |-> r, step |-> "cleanup"]
        /\ UNCHANGED <<decisionVars, confirm>>

\* The cleanup again, from the planned IDs: verified, or the script ends.
RecoverRows ==
    /\ ScriptAt("cleanup")
    /\ rows' = [rows EXCEPT ![script.run] = {}]
    /\ ScriptGoesTo("parent")
    /\ UNCHANGED <<Intact, kind, bundleVars>>

\* prepare_retest: the parent is another Run whose bundle verifies.
BindParent ==
    /\ ScriptAt("parent")
    /\ \E p \in Runs \ {script.run} : sealed[p] # "nobody" /\ Verifies(p, sealed[p])
    /\ ScriptGoesTo("run")
    /\ UNCHANGED <<decisionVars, confirm>>

RecoverRun ==
    /\ ScriptAt("run") /\ Mutable(script.run)
    /\ runFile' = [runFile EXCEPT ![script.run] = [author |-> "script", says |-> "COMPLETED"]]
    /\ ScriptGoesTo("judge")
    /\ UNCHANGED <<Intact, targetVars, judged, sealed>>

RecoverJudgement ==
    /\ ScriptAt("judge") /\ Mutable(script.run)
    /\ judged' = [judged EXCEPT ![script.run] = [author |-> "script", says |-> "FAIL"]]
    /\ ScriptGoesTo("seal")
    /\ UNCHANGED <<Intact, targetVars, runFile, sealed>>

\* What verify_bundle says of the result is only printed.
RecoverSeal ==
    /\ ScriptAt("seal") /\ Mutable(script.run)
    /\ sealed' = [sealed EXCEPT ![script.run] = "script"]
    /\ script' = NoScript
    /\ UNCHANGED <<Intact, targetVars, runFile, judged>>

\* A check that fails, a document that is refused, a kill: files stay.
ScriptEnds ==
    /\ script # NoScript
    /\ script' = NoScript
    /\ UNCHANGED <<decisionVars, confirm>>

ScriptStep ==
    \/ OpenJournal \/ RecoverRows \/ BindParent \/ RecoverRun \/ RecoverJudgement \/ RecoverSeal
    \/ ScriptEnds

-----------------------------------------------------------------------------
(* cleanup-confirm *)

\* Mutant: the block goes before its confirmation is stored.
ConfirmUnblocks ==
    /\ confirm = "idle" /\ Blocked
    /\ block' = None
    /\ confirm' = "recorded"
    /\ UNCHANGED <<lock, maintenance, stage, targetVars, memoryVars, journal, bundleVars, script>>

\* The H-03 probe finds no fault marker, as these Runs have none: whatever the
\* evidence file holds, the confirmation is stored.
ConfirmRecord ==
    /\ confirm = "idle" /\ Blocked
    /\ maintenance' = maintenance \cup {block}
    /\ confirm' = "recorded"
    /\ UNCHANGED <<lock, block, stage, targetVars, memoryVars, journal, bundleVars, script>>

ConfirmUnlink ==
    /\ confirm = "recorded"
    /\ block' = None
    /\ confirm' = "idle"
    /\ UNCHANGED <<lock, maintenance, stage, targetVars, memoryVars, journal, bundleVars, script>>

ConfirmDies ==
    /\ confirm = "recorded"
    /\ confirm' = "idle"
    /\ UNCHANGED <<decisionVars, script>>

ConfirmStep == ConfirmRecord \/ ConfirmUnlink \/ ConfirmDies

-----------------------------------------------------------------------------

RunStep(r) == DecisionStep(r) /\ UNCHANGED <<script, confirm>>

SystemNext ==
    \/ \E r \in Runs : RunStep(r)
    \/ \E r \in Runs : Crash(r) /\ UNCHANGED <<script, confirm>>
    \/ ScriptStep
    \/ ConfirmStep

SystemSpec == SystemInit /\ [][SystemNext]_allVars

Locked == {"case", "prepare", "observe", "cleanup", "teardown", "cleaned", "leave-lock",
           "leave-cut"}

Stages == Locked \cup Ended \cup
    {"idle", "captured", "registered", "conclude", "write", "judge", "seal"}

Journals == [phase : {"ABSENT", "REGISTERED", "CASES", "CLEANUP_FINISHED"},
             cases : SUBSET (1..Cases),
             outcome : [1..Cases -> Statuses \cup {"none"}]]

TypeOK ==
    /\ kind \in Kinds
    /\ lock \in Runs \cup {None} /\ block \in Runs \cup {None} /\ maintenance \subseteq Runs
    /\ stage \in [Runs -> Stages]
    /\ rows \in [Runs -> SUBSET (1..Cases)]
    /\ at \in [Runs -> 1..(Cases + 1)]
    /\ journal \in [Runs -> Journals]
    /\ recovery \in [Runs -> {"none", "SUCCEEDED", "FAILED"}]
    /\ flawed \subseteq Runs /\ foreign \subseteq Runs /\ failed \subseteq Runs
    /\ verdict \in [Runs -> Statuses \cup {"none"}]
    /\ runFile \in [Runs -> [author : {"nobody", "run", "script"},
                             says : {"none", "COMPLETED", "RESTORE_FAILED"}]]
    /\ judged \in [Runs -> [author : {"nobody", "run", "script"}, says : Statuses \cup {"none"}]]
    /\ sealed \in [Runs -> {"nobody", "run", "script"}]
    /\ script \in [run : Runs \cup {None},
                   step : {"idle", "cleanup", "parent", "run", "judge", "seal"}]
    /\ confirm \in {"idle", "recorded"}

\* checkpoint before prepare: whatever dies and whenever, the rows of a case are
\* in the database only if the journal on disk names the case, and no two Runs are
\* among their cases at once.
JournalKnowsRows ==
    \A r \in Runs :
        /\ rows[r] \subseteq journal[r].cases
        /\ stage[r] \in Locked => lock = r

\* A bundle that verifies tells the truth, whoever sealed it and whatever the
\* other writer was doing: a verdict other than INCONCLUSIVE stands over a
\* database without the Run's rows, a PASS is the Run's own and of every case,
\* and what the script preserves is the failure that was observed.
VerifiedBundleHolds ==
    \A r \in Runs :
        sealed[r] # "nobody" /\ Verifies(r, sealed[r]) =>
            /\ judged[r].says \in {"PASS", "FAIL"} => /\ rows[r] = {}
                                                     /\ runFile[r].says = "COMPLETED"
            /\ judged[r].says = "PASS" => sealed[r] = "run" /\ Outcomes(r) = {"PASS"}
            /\ sealed[r] = "script" => "FAIL" \in Outcomes(r)

\* The sealed bundles, the block and the confirmations implement FaultWindow, with
\* the owned rows as what a Run put in place.
FW == INSTANCE FaultWindow
        WITH active  <- {r \in Runs : rows[r] # {}},
             barrier <- Blocked,
             cleared <- maintenance # {},
             verdict <- [r \in Runs |->
                 CASE sealed[r] # "nobody" /\ runFile[r].says = "COMPLETED"      -> "clean"
                   [] sealed[r] # "nobody" /\ runFile[r].says = "RESTORE_FAILED" -> "unsafe"
                   [] OTHER -> "open"]

\* COMPLETED is only sealed over a database without the Run's rows, RESTORE_FAILED
\* only behind a block or after a confirmation, and neither is ever revised.
ImplementsFaultWindow == FW!FWSpec

\* "Errors ... still attempt cleanup": whatever ended its cases, a Run gives the
\* lock back only when its cleanup has come to a result, or was itself cut short.
\* The next Run of the pair starts on rows that were deleted or reported.
LockOutlivesCleanup ==
    [][\A r \in Runs : lock = r /\ lock' # r =>
          recovery[r] # "none" \/ stage[r] = "leave-cut"]_allVars

-----------------------------------------------------------------------------
(* The inductive invariant behind the safety properties *)

Finished(r) == journal[r].phase = "CLEANUP_FINISHED"

\* There is no row before the journal is there, and the case the Run is at is
\* in the journal before it is prepared.
CasesAreNoted(r) ==
    /\ stage[r] \in {"idle", "captured"} => rows[r] = {}
    /\ stage[r] \in {"prepare", "observe"} => at[r] \in journal[r].cases
    /\ Finished(r) =>
          stage[r] \in {"leave-lock", "conclude", "write", "judge", "seal"} \cup Ended

\* A cleanup has a result from its end to the end of the process, and SUCCEEDED
\* stays true of the database.
ResultHolds(r) ==
    /\ recovery[r] # "none" <=>
          stage[r] \in {"cleaned", "leave-lock", "conclude", "write", "judge", "seal"}
    /\ CleanupVerified(r) => rows[r] = {}
    /\ stage[r] = "leave-cut" => r \in failed

\* What the Run is about to write is true of its cases and of its cleanup.
MemoryIsTrue(r) ==
    stage[r] \in {"write", "judge", "seal"} =>
        /\ verdict[r] \in {"PASS", "FAIL"} => CleanupVerified(r)
        /\ verdict[r] = "PASS" => Outcomes(r) = {"PASS"}
        /\ CleanupVerified(r) \/ Barred

\* run.json by either author is true of the database or comes behind a block.
RunFileIsTrue(r) ==
    /\ runFile[r].author = "run" => stage[r] \in {"judge", "seal"} \cup Ended
    /\ runFile[r].author = "run" /\ stage[r] \in {"judge", "seal"} =>
          (runFile[r].says = "COMPLETED" <=> CleanupVerified(r))
    /\ runFile[r].author = "script" =>
          Finished(r) /\ "FAIL" \in Outcomes(r) /\ runFile[r].says = "COMPLETED"
    /\ runFile[r].author = "nobody" => runFile[r].says = "none"
    /\ runFile[r].says = "COMPLETED" => rows[r] = {}
    /\ runFile[r].says = "RESTORE_FAILED" => Barred

\* judgement.json agrees with the cases and with the run.json of its author.
JudgementIsTrue(r) ==
    /\ judged[r].author = "run" => stage[r] \in {"seal"} \cup Ended
    /\ judged[r].author = "run" /\ runFile[r].author = "run" =>
          (judged[r].says \in {"PASS", "FAIL"} => runFile[r].says = "COMPLETED")
    /\ judged[r].author = "run" /\ judged[r].says = "PASS" => Outcomes(r) = {"PASS"}
    /\ judged[r].author = "script" => judged[r].says = "FAIL"

RunHolds(r) ==
    CasesAreNoted(r) /\ ResultHolds(r) /\ MemoryIsTrue(r) /\ RunFileIsTrue(r) /\ JudgementIsTrue(r)

\* The script is after a Run that has ended its cases with a failure, and after
\* its own cleanup nothing brings a row back.
ScriptIsLate ==
    script.run # None =>
        /\ Finished(script.run) /\ "FAIL" \in Outcomes(script.run)
        /\ script.step # "cleanup" => rows[script.run] = {}

IInv ==
    /\ TypeOK
    /\ JournalKnowsRows
    /\ \A r \in Runs : RunHolds(r)
    /\ ScriptIsLate
    /\ confirm = "recorded" => maintenance # {}
=============================================================================
