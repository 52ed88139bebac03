------------------------------- MODULE RunRoot -------------------------------
(***************************************************************************)
(* The H-03 and E-03 pair (every executor uses the subject "candidate-01") *)
(* as the Runs on it share it: the files of RunFiles, the WhyYou test      *)
(* target (fault markers and synthetic fixtures), and each Run's process   *)
(* memory and bundle directory.  The operator's cleanup-confirm command    *)
(* reads and writes the same files.                                        *)
(***************************************************************************)
EXTENDS RunFiles

VARIABLES
    marker,       \* Runs whose fault marker file is present at the target
    fixture,      \* Runs whose synthetic subject rows are in the target DB
    run,          \* the Run record in each process's memory
    failed,       \* execution_error is set in the process's memory
    answer,       \* what the last fault.restore of the process came to
    polls,        \* restore attempts the process has made
    runFile,      \* run.json in the bundle directory, or NoFile
    subjects,     \* Runs whose subjects.json names the test subject
    sealed        \* Runs whose manifest.json exists

targetVars  == <<marker, fixture>>
processVars == <<stage, run, failed, answer, polls>>
bundleVars  == <<runFile, subjects, sealed>>
vars        == <<rootVars, targetVars, processVars, bundleVars>>

NoFile == [state |-> "ABSENT", faulted |-> FALSE, manual |-> FALSE]

Init ==
    /\ RootInit
    /\ marker = {}
    /\ fixture = {}
    /\ run = [r \in Runs |-> NewRun]
    /\ failed = [r \in Runs |-> FALSE]
    /\ answer = [r \in Runs |-> "none"]
    /\ polls = [r \in Runs |-> 0]
    /\ runFile = [r \in Runs |-> NoFile]
    /\ subjects = {}
    /\ sealed = {}

\* fault.restore answers ok when the marker is gone and the worker healthy.
RestoreAnswers    == {"none", "ok", "failed"}
AnswerOf(healthy) == IF healthy THEN "ok" ELSE "failed"

(***************************************************************************)
(* The process dies (kill, power loss) at any point: its memory is gone,   *)
(* every file and row it wrote stays as it is.                             *)
(***************************************************************************)
Crash(r) ==
    /\ stage[r] \notin Ended \cup {"idle"}
    /\ GoTo(r, "crashed")
    /\ UNCHANGED <<rootVars, targetVars, run, failed, answer, polls, bundleVars>>

-----------------------------------------------------------------------------
(* `controlproof cleanup-confirm` for the H-03/E-03 subject: the target      *)
(* safety probe of cli._cleanup_confirm, then the two file operations of     *)
(* RestoreBlockStore.confirm_cleanup.  The command takes no lock.            *)

VARIABLE cleanup   \* how far the operator's command is

CleanupStages == {"idle", "probed", "recorded"}

CleanupInit == cleanup = "idle"

\* WhyYouFaultAdapter.target_safe: no fault marker of any Run, worker healthy.
\* When it does not hold the command ends with an error and nothing changed.
TargetSafe == marker = {}

Probe ==
    /\ cleanup = "idle"
    /\ TargetSafe
    /\ cleanup' = "probed"
    /\ UNCHANGED vars

\* Mutant: the block goes before its confirmation is stored.
RecordUnblocks ==
    /\ cleanup = "probed"
    /\ Blocked
    /\ block' = None
    /\ cleanup' = "recorded"
    /\ UNCHANGED <<lock, maintenance, targetVars, processVars, bundleVars>>

\* The block is read and the confirmation is stored under the run_id it names.
Record ==
    /\ cleanup = "probed"
    /\ Blocked
    /\ maintenance' = maintenance \cup {block}
    /\ cleanup' = "recorded"
    /\ UNCHANGED <<lock, block, targetVars, processVars, bundleVars>>

\* FileNotFoundError: no restore block exists.
NothingToConfirm ==
    /\ cleanup = "probed"
    /\ ~Blocked
    /\ cleanup' = "idle"
    /\ UNCHANGED vars

\* path.unlink removes whatever block file is there by now.
Unblock ==
    /\ cleanup = "recorded"
    /\ block' = None
    /\ cleanup' = "idle"
    /\ UNCHANGED <<lock, maintenance, targetVars, processVars, bundleVars>>

CleanupCrash ==
    /\ cleanup # "idle"
    /\ cleanup' = "idle"
    /\ UNCHANGED vars

CleanupStep == Probe \/ Record \/ NothingToConfirm \/ Unblock \/ CleanupCrash
=============================================================================
