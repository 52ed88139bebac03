------------------------------ MODULE RunFiles ------------------------------
(***************************************************************************)
(* What every executor shares (engine/lifecycle.py, engine/models.py): the *)
(* Run state machine, the files of the run root that the executors of one  *)
(* target+subject pair meet at (TargetSubjectLock, RestoreBlockStore), and *)
(* the control point of each Run's process.  Locks and blocks of different *)
(* pairs are different files, so one pair is the unit.                     *)
(***************************************************************************)
CONSTANTS Runs,    \* the Runs started on the pair, one process each
          None     \* "no Run": the file does not exist

ASSUME NoneIsNoRun == None \notin Runs

VARIABLES
    lock,         \* the Run that created the lock file, or None
    block,        \* the run_id inside the restore-block file, or None
    maintenance,  \* Runs with a blocks/maintenance/<run_id>.json record
    stage         \* control point of each Run's process

rootVars == <<lock, block, maintenance>>

RootInit ==
    /\ lock = None
    /\ block = None
    /\ maintenance = {}
    /\ stage = [r \in Runs |-> "idle"]

(***************************************************************************)
(* The lifecycle: the states a Run record can hold, the moves that         *)
(* `transition` accepts and the record it returns.                         *)
(***************************************************************************)
RunStates == {"PENDING", "RUNNING", "RESTORING",
              "COMPLETED", "ABORTED", "RESTORE_FAILED"}

TerminalRunStates == {"COMPLETED", "ABORTED", "RESTORE_FAILED"}

\* The part of a Run record the lifecycle rules read or write.
RunRecords == [state : RunStates, faulted : BOOLEAN, manual : BOOLEAN]

NewRun == [state |-> "PENDING", faulted |-> FALSE, manual |-> FALSE]

Transitions ==
    [s \in RunStates |->
        CASE s = "PENDING"   -> {"RUNNING", "ABORTED"}
          [] s = "RUNNING"   -> {"RESTORING", "ABORTED"}
          [] s = "RESTORING" -> {"COMPLETED", "ABORTED", "RESTORE_FAILED"}
          [] OTHER           -> {}]

\* `transition` raises instead of moving when this is FALSE.
CanMove(run, dest) ==
    /\ dest \in Transitions[run.state]
    /\ ~(run.state = "RUNNING" /\ dest = "ABORTED" /\ run.faulted)

Moved(run, dest) ==
    [run EXCEPT !.state  = dest,
                !.manual = @ \/ dest = "RESTORE_FAILED"]

(***************************************************************************)
(* TargetSubjectLock: exclusive creation, unlinked by the holder's exit.   *)
(* Nothing removes the file of a dead holder.                              *)
(***************************************************************************)
LockIsFree == lock = None
Acquire(r) == lock' = r
Release    == lock' = None

(***************************************************************************)
(* RestoreBlockStore: the block exists or not; writing it replaces the     *)
(* run_id of an older block.                                               *)
(***************************************************************************)
Blocked       == block # None
WriteBlock(r) == block' = r

\* A process moves from one control point to the next.
GoTo(r, s) == stage' = [stage EXCEPT ![r] = s]

\* The control points at which a Run's process no longer exists.
Ended == {"refused", "raised", "done", "crashed"}

\* A later Run is kept out, or somebody has confirmed a cleanup.
Barred == Blocked \/ maintenance # {}
=============================================================================
