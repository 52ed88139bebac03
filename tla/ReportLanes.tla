----------------------------- MODULE ReportLanes -----------------------------
(***************************************************************************)
(* Several Runs of E-01, or several of E-02, and an operator's             *)
(* cleanup-confirm for their block subject.                                *)
(***************************************************************************)
EXTENDS ReportJourneys

VARIABLE confirm   \* how far cleanup-confirm is

allVars == <<reportVars, confirm>>

ConfirmSteps == {"idle", "probed", "recorded"}

SystemInit == ReportInit /\ confirm = "idle"

-----------------------------------------------------------------------------
(* controlproof cleanup-confirm; it does not take the lock *)

\* target_safe: every injection of the sealed bundle reads back with its
\* digest from before the change; a publication has no row to read.
TargetSafe(r) ==
    \A i \in Recorded(r) : i # "publish" /\ r \in rows /\ i \notin altered[r]

\* _spec004_cleanup_injections: the block names a verified bundle of a
\* RESTORE_FAILED Run.
Confirmable(r) == r \in verified /\ runFile[r] = "RESTORE_FAILED"

ConfirmProbe ==
    /\ confirm = "idle"
    /\ Blocked
    /\ Confirmable(block)
    /\ TargetSafe(block)
    /\ confirm' = "probed"
    /\ UNCHANGED reportVars

\* Mutant: the block goes before its confirmation is stored.
ConfirmUnblocks ==
    /\ confirm = "probed"
    /\ Blocked
    /\ block' = None
    /\ confirm' = "recorded"
    /\ UNCHANGED <<lock, maintenance, stage, pair, targetVars, journeyVars, resultVars>>

\* confirm_cleanup reads the block again: the record is for the Run it names
\* by now.
ConfirmRecord ==
    /\ confirm = "probed"
    /\ Blocked
    /\ maintenance' = maintenance \cup {block}
    /\ confirm' = "recorded"
    /\ UNCHANGED <<lock, block, stage, pair, targetVars, journeyVars, resultVars>>

ConfirmUnlink ==
    /\ confirm = "recorded"
    /\ block' = None
    /\ confirm' = "idle"
    /\ UNCHANGED <<lock, maintenance, stage, pair, targetVars, journeyVars, resultVars>>

ConfirmDies ==
    /\ confirm # "idle"
    /\ confirm' = "idle"
    /\ UNCHANGED reportVars

ConfirmStep == ConfirmProbe \/ ConfirmRecord \/ ConfirmUnlink \/ ConfirmDies

-----------------------------------------------------------------------------
RunStep(r) == (EnvelopeStep(r) \/ CitationStep(r) \/ FreezeStep(r)) /\ UNCHANGED confirm

SystemNext ==
    \/ \E r \in Runs : RunStep(r)
    \/ \E r \in Runs : Crash(r) /\ UNCHANGED confirm
    \/ ConfirmStep

SystemSpec == SystemInit /\ [][SystemNext]_allVars

\* A process that is alive keeps executing; the operator owes nothing.
FairSystemSpec == SystemSpec /\ \A r \in Runs : WF_allVars(RunStep(r))

Locked == {"entered", "citation", "position", "publish", "unwind", "others",
           "leave-lock", "leave-cut"} \cup BodyStages \cup FinallyStages

TypeOK ==
    /\ lock \in Runs \cup {None}
    /\ block \in Runs \cup {None}
    /\ maintenance \subseteq Runs
    /\ stage \in [Runs -> Locked \cup Ended \cup {"idle", "conclude", "write", "seal"}]
    /\ pair \in {"E01", "E02"}
    /\ rows \subseteq Runs
    /\ altered \in [Runs -> SUBSET Kinds]
    /\ injections \in [Runs -> [Kinds -> {"none", "APPLIED", "RESTORED", "RESTORE_FAILED"}]]
    /\ teardown \in [Runs -> {"not run", "ok", "failed"}]
    /\ others \in [Runs -> {"unread", "read", "unchanged", "unknown"}]
    /\ failed \subseteq Runs
    /\ outcome \in [Runs -> {"none", "COMPLETED", "RESTORE_FAILED"}]
    /\ verdict \in [Runs -> Statuses \cup {"none"}]
    /\ runFile \in [Runs -> {"ABSENT", "COMPLETED", "RESTORE_FAILED"}]
    /\ verified \subseteq Runs
    /\ confirm \in ConfirmSteps
    /\ \A r \in Runs : r \notin rows => altered[r] = {}

\* A bundle that verifies leaves no change open, and a verdict of PASS or FAIL
\* only stands on a Run whose changes all came back and whose rows are gone.
VerdictNeedsRestore ==
    \A r \in verified :
        /\ \A i \in Kinds : injections[r][i] # "APPLIED"
        /\ verdict[r] \in {"PASS", "FAIL"} =>
              /\ runFile[r] = "COMPLETED" /\ r \notin rows
              /\ \A i \in Recorded(r) : injections[r][i] = "RESTORED"

\* RESTORED is recorded over a row that is back, or over a publication that
\* went with its position: never on the word of the write alone.
RestoredMeansBack ==
    [][\A r \in Runs : \A i \in Kinds :
          injections[r][i] # "RESTORED" /\ injections'[r][i] = "RESTORED" =>
              /\ i \notin altered'[r]
              /\ i = "publish" => r \notin rows']_allVars

\* The Runs and the operator implement FaultWindow, with the seeded rows,
\* changed or not, as what a Run put in place.
FW == INSTANCE FaultWindow
        WITH active  <- rows,
             barrier <- Blocked,
             cleared <- maintenance # {},
             verdict <- [r \in Runs |->
                 CASE runFile[r] = "COMPLETED"      -> "clean"
                   [] runFile[r] = "RESTORE_FAILED" -> "unsafe"
                   [] OTHER                         -> "open"]

\* COMPLETED is only written over a database without the Run's rows and stays
\* true, RESTORE_FAILED only behind a block or after a confirmation, and the
\* block only goes after a confirmation.
ImplementsFaultWindow == FW!FWSpec

Open(r)    == \E i \in Kinds : injections[r][i] = "APPLIED"
Settled(r) == ~Open(r) /\ Recorded(r) # {}

\* always_run: a change that was recorded as applied is settled before the
\* process gives the journey up, unless it dies or the finally itself is
\* interrupted.
AppliedIsSettled ==
    \A r \in Runs : Open(r) ~> Settled(r) \/ stage[r] \in {"crashed", "leave-cut"}

-----------------------------------------------------------------------------
(* The inductive invariant behind the safety properties *)

NoneOpen(r) == \A i \in Kinds : injections[r][i] # "APPLIED"
AllBack(r)  == \A i \in Recorded(r) : injections[r][i] = "RESTORED"

\* Nothing is changed before it is seeded, nor after a teardown that succeeded.
RowsStand(r) ==
    /\ stage[r] \in {"idle", "entered", "citation", "position"} =>
          r \notin rows /\ teardown[r] = "not run" /\ Recorded(r) = {}
    /\ stage[r] \in BodyStages \cup {"publish"} => r \in rows /\ teardown[r] = "not run"
    /\ teardown[r] = "ok" => r \notin rows

\* The changes of E-01 are made and settled in turn, and neither journey gives
\* the lock back over an open one unless it was cut.
ChangesInTurn(r) ==
    LET open(i) == injections[r][i] = "APPLIED" IN
    /\ stage[r] \in {"removal", "publish"} => NoneOpen(r)
    /\ stage[r] \in BodyStages \cup FinallyStages => ~open("publish")
    /\ stage[r] = "undo-removal" => ~open("probe")
    /\ stage[r] \in {"probe", "undo-probe", "last-probe", "teardown"} => ~open("removal")
    /\ stage[r] \in {"probe", "teardown"} => ~open("probe")
    /\ stage[r] \in {"unwind", "others"} => ~open("removal") /\ ~open("probe")
    /\ stage[r] = "unwind" => (open("publish") => r \in rows)
    /\ stage[r] \in {"leave-lock", "conclude", "write", "seal"} \cup Ended => NoneOpen(r)
    /\ stage[r] = "leave-cut" => r \in failed

\* What is about to be written is true of the journey,
OutcomeIsTrue(r) ==
    /\ stage[r] = "write" <=> outcome[r] # "none"
    /\ outcome[r] = "COMPLETED" => r \notin rows /\ AllBack(r)
    /\ outcome[r] = "RESTORE_FAILED" => Barred /\ verdict[r] \notin {"PASS", "FAIL"}

\* and so is what has been written.
FilesAreTrue(r) ==
    /\ runFile[r] # "ABSENT" => stage[r] \in {"seal"} \cup Ended
    /\ stage[r] = "seal" => runFile[r] # "ABSENT"
    /\ runFile[r] = "COMPLETED" => r \notin rows
    /\ runFile[r] = "RESTORE_FAILED" => Barred
    /\ (stage[r] = "seal" \/ r \in verified) /\ verdict[r] \in {"PASS", "FAIL"} =>
          runFile[r] = "COMPLETED" /\ AllBack(r)
    /\ r \in verified => stage[r] \in Ended

RunHolds(r) == RowsStand(r) /\ ChangesInTurn(r) /\ OutcomeIsTrue(r) /\ FilesAreTrue(r)

IInv ==
    /\ TypeOK
    /\ \A r \in Runs : RunHolds(r)
    /\ confirm = "recorded" => maintenance # {}

-----------------------------------------------------------------------------
(* What a document says and the code does not do *)

\* contracts/controlproof-cli-v4: cleanup-confirm accepts a blocked Run whose
\* rows are restored or removed.
ConfirmAcceptsRemoved ==
    \A r \in verified : block = r /\ r \notin rows => TargetSafe(r)
=============================================================================
