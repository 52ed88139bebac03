---------------------------- MODULE ConsentRuns -----------------------------
(***************************************************************************)
(* Several N-02 Runs on one target, the product that may answer a consent  *)
(* request late or never, and an operator's cleanup-confirm for            *)
(* n02-consent-order.                                                      *)
(***************************************************************************)
EXTENDS ConsentRun

VARIABLE confirm   \* how far cleanup-confirm is

allVars == <<consentVars, confirm>>

ConfirmSteps == {"idle", "probed", "recorded"}

SystemInit == ConsentInit /\ confirm = "idle"

-----------------------------------------------------------------------------
(* controlproof cleanup-confirm; it takes no lock *)

\* _n02_cleanup_subject: the block names a verified bundle of a RESTORE_FAILED
\* Run; a block written by the exception handler never has one.
Confirmable(r) == r \in verified /\ runFile[r] = "RESTORE_FAILED"

ConfirmProbe ==
    /\ confirm = "idle"
    /\ Blocked
    /\ Confirmable(block)
    /\ TargetSafe(block)
    /\ confirm' = "probed"
    /\ UNCHANGED consentVars

ConfirmRecord ==
    /\ confirm = "probed"
    /\ Blocked
    /\ maintenance' = maintenance \cup {block}
    /\ confirm' = "recorded"
    /\ UNCHANGED <<lock, block, targetVars, processVars, runFile, verified>>

ConfirmUnlink ==
    /\ confirm = "recorded"
    /\ block' = None
    /\ confirm' = "idle"
    /\ UNCHANGED <<lock, maintenance, targetVars, processVars, runFile, verified>>

ConfirmDies ==
    /\ confirm # "idle"
    /\ confirm' = "idle"
    /\ UNCHANGED consentVars

ConfirmStep == ConfirmProbe \/ ConfirmRecord \/ ConfirmUnlink \/ ConfirmDies

-----------------------------------------------------------------------------
ProductMoves(r) ==
    ProductStep(r) /\ UNCHANGED <<rootVars, processVars, runFile, verified, confirm>>

SystemNext ==
    \/ \E r \in Runs : RunStep(r) /\ UNCHANGED confirm
    \/ \E r \in Runs : Crash(r) /\ UNCHANGED confirm
    \/ \E r \in Runs : ProductMoves(r)
    \/ ConfirmStep

SystemSpec == SystemInit /\ [][SystemNext]_allVars

\* A process that is alive keeps executing, and a request outside Disturbed is
\* answered; the operator owes nothing.
FairSystemSpec ==
    /\ SystemSpec
    /\ \A r \in Runs : WF_allVars(RunStep(r) /\ UNCHANGED confirm)
    /\ \A r \in Runs \ Disturbed : WF_allVars(ProductMoves(r))

Locked == {"entered", "seed", "slices", "apply", "request", "await failed", "read failed",
           "restore", "probe", "undo", "safe", "retry", "await retry", "record", "finally",
           "teardown", "handler", "handler rows", "handler block", "leave"}

TypeOK ==
    /\ lock \in Runs \cup {None} /\ block \in Runs \cup {None} /\ maintenance \subseteq Runs
    /\ stage \in [Runs -> Locked \cup Gone \cup
                      {"idle", "opened", "conclude", "block", "write", "seal"}]
    /\ marker \subseteq Runs /\ token \subseteq Runs /\ receipts \subseteq Runs
    /\ rows \subseteq Runs
    /\ overlays \subseteq Runs
    /\ pending \in [Runs -> SUBSET Requests]
    /\ consents \in [Runs -> SUBSET Requests]
    /\ mem \in [Runs -> [applied : BOOLEAN, replied : BOOLEAN, receipt : BOOLEAN,
                         zero : BOOLEAN, restore : {"none", "ok", "failed"},
                         overlayOk : BOOLEAN, safe : BOOLEAN,
                         durable : {"unread", "one", "other"}]]
    /\ started \subseteq Runs
    /\ leaving \in [Runs -> {"no", "exception", "interrupt"}]
    /\ recovery \in [Runs -> [safe : BOOLEAN, result : Statuses \cup {"none"}]]
    /\ teardown \in [Runs -> {"not run", "ok", "failed", "held"}]
    /\ outcome \in [Runs -> {"none", "COMPLETED", "RESTORE_FAILED"}]
    /\ verdict \in [Runs -> Statuses \cup {"none"}]
    /\ runFile \in [Runs -> {"ABSENT", "COMPLETED", "RESTORE_FAILED"}]
    /\ verified \subseteq Runs
    /\ confirm \in ConfirmSteps
    /\ \A r \in Runs : stage[r] \in Locked <=> lock = r /\ stage[r] \notin Gone

\* What a Run can leave behind at the target.
Residue == marker \cup rows

\* An exception out of a collector, whichever slice or cleanup step it comes
\* from, never drops the obligation silently: the residue is gone or the target
\* is barred when the process is out (`except Exception` of execute).
CollectorFailureIsBarred ==
    \A r \in Residue : stage[r] = "raised" => Barred

\* A PASS is earned: the hook fired for this Run's faulted request, no consent
\* came of that request however late it was handled, exactly the retry was
\* committed, and the fault, its overlays and the lanes are gone.
PassIsEarned ==
    \A r \in verified :
        verdict[r] = "PASS" =>
            /\ r \in receipts /\ consents[r] = {"retry"}
            /\ r \notin Residue /\ r \notin overlays

FW == INSTANCE FaultWindow
        WITH active  <- Residue,
             barrier <- Blocked,
             cleared <- maintenance # {},
             verdict <- [r \in Runs |->
                 CASE runFile[r] = "COMPLETED"      -> "clean"
                   [] runFile[r] = "RESTORE_FAILED" -> "unsafe"
                   [] OTHER                         -> "open"]

\* COMPLETED is written over a target without the Run's marker and lanes and
\* stays true however late the product handles a request, RESTORE_FAILED only
\* behind a block or after a confirmation.
ImplementsFaultWindow == FW!FWSpec

\* FR-030: a fault that was applied is taken away or barred before the process
\* is gone, unless it dies, or the interrupt that ends it keeps the restore
\* from succeeding.
FaultIsWithdrawn ==
    \A r \in Runs :
        r \in marker ~> r \notin marker \/ Barred \/ stage[r] \in {"crashed", "interrupted", "stopped"}

-----------------------------------------------------------------------------
(* The inductive invariant behind the safety properties *)

\* Nothing of a Run is at the target before it puts it there.
StartsClean(r) ==
    LET before == {"idle", "opened", "entered", "seed"} IN
    /\ stage[r] \in before => r \notin rows
    /\ stage[r] \in before \cup {"slices"} => r \notin started
    /\ stage[r] \in before \cup {"slices", "apply"} => r \notin marker /\ mem[r] = NoMem
    /\ stage[r] \in before \cup {"slices", "apply", "request"} =>
          r \notin receipts /\ pending[r] = {} /\ consents[r] = {} /\ ~mem[r].receipt

\* Who leaves the body on no exception and no interrupt has a recovery record.
LeavesKnown(r) ==
    LET handling == {"handler", "handler rows", "handler block"} IN
    /\ leaving[r] # "no" => stage[r] \in handling \cup {"finally", "leave"}
    /\ stage[r] \in handling => leaving[r] = "exception"
    /\ stage[r] \in {"finally", "teardown", "leave", "conclude", "block"} /\ leaving[r] = "no" =>
          recovery[r].result # "none"
    /\ recovery[r] # NoRecovery =>
          stage[r] \in handling \cup {"finally", "teardown", "leave", "conclude", "block"}

\* A marker is covered by fault_stage_started until it is certainly gone, and an
\* exception only passes the handler over a target that is clean or barred.
FaultIsKnown(r) ==
    /\ stage[r] = "apply" \/ (r \in marker /\ stage[r] \in Locked) => r \in started
    /\ mem[r].restore = "ok" \/ recovery[r].safe => r \notin marker
    /\ stage[r] = "handler rows" => r \notin marker
    /\ (stage[r] = "leave" /\ leaving[r] = "exception") \/ stage[r] = "raised" =>
          r \notin Residue \/ Barred
    /\ teardown[r] # "not run" => stage[r] \in {"leave", "conclude", "block"}
    /\ teardown[r] = "ok" => r \notin rows \cup overlays

\* The receipt that was read is of the failed request: what is committed after
\* it, over a state that read zero, is the retry.
RequestsInTurn(r) ==
    /\ stage[r] \in {"await failed", "read failed", "restore", "probe", "undo", "safe", "retry"} =>
          pending[r] \subseteq {"failed"} /\ (r \in receipts => pending[r] = {})
    /\ mem[r].receipt => r \in receipts
    /\ mem[r].receipt /\ mem[r].zero => "failed" \notin pending[r] \cup consents[r]
    /\ mem[r].durable = "one" => \E q \in Requests : consents[r] = {q}
    /\ recovery[r].result = "PASS" => r \in receipts /\ consents[r] = {"retry"}

\* What is about to be written is true, and so is what has been written.
ResultIsTrue(r) ==
    /\ stage[r] \in {"block", "write", "seal"} <=> outcome[r] # "none"
    /\ outcome[r] = "COMPLETED" => r \notin Residue /\ r \notin overlays
    /\ stage[r] \in {"write", "seal"} /\ outcome[r] = "RESTORE_FAILED" => Barred
    /\ verdict[r] = "PASS" =>
          /\ stage[r] \in {"write", "seal"} \cup Gone
          /\ r \in receipts /\ consents[r] = {"retry"}
          /\ r \notin Residue /\ r \notin overlays
    /\ runFile[r] # "ABSENT" => stage[r] \in {"seal"} \cup Gone
    /\ runFile[r] = "COMPLETED" => r \notin Residue
    /\ runFile[r] = "RESTORE_FAILED" => Barred

RunHolds(r) ==
    /\ StartsClean(r) /\ LeavesKnown(r) /\ FaultIsKnown(r)
    /\ RequestsInTurn(r) /\ ResultIsTrue(r)

IInv ==
    /\ TypeOK
    /\ \A r \in Runs : RunHolds(r)
    /\ confirm = "recorded" => maintenance # {}

-----------------------------------------------------------------------------
(* What a document says and the code does not do *)

\* FR-032: after a restore that failed, a later fault Run of the target is kept
\* out until the manual cleanup is confirmed.  The lock is left before the block
\* is written, and the retest checks in between may raise.
NoFaultAfterFailedRestore ==
    [][\A r \in Runs : \A s \in Runs \ {r} :
          r \in marker' \ marker /\ s \in rows /\ maintenance = {}
              => stage[s] \in {"crashed", "interrupted"}]_allVars
=============================================================================
