------------------------------ MODULE Retests ------------------------------
(***************************************************************************)
(* Runs and retests of one sealed profile, the operator's cleanup-confirm  *)
(* and clean-up by hand, and accidents to the files of the run root.       *)
(***************************************************************************)
EXTENDS RetestRun

VARIABLE confirm     \* the operator's command and the Run it probed

retestsVars == <<retestVars, confirm>>

NoConfirm == [at |-> "idle", run |-> None]

RetestsInit == RetestInit /\ confirm = NoConfirm

-----------------------------------------------------------------------------
(* controlproof cleanup-confirm; it does not take the lock *)

\* Spec 003/004 ask for the verified bundle of a RESTORE_FAILED Run.  The
\* probe is read-only: Spec 002 looks for any marker, the others for what the
\* blocked Run left.
Confirmable(r) ==
    CASE family = "SPEC002" -> residue = {}
      [] family = "SPEC009" -> r \notin residue
      [] OTHER -> Verified(r) /\ runState[r] = "RESTORE_FAILED" /\ r \notin residue

ConfirmProbe ==
    /\ confirm.at = "idle"
    /\ Blocked
    /\ Confirmable(block)
    /\ confirm' = [at |-> "probed", run |-> block]
    /\ UNCHANGED retestVars

\* confirm_cleanup reads the block again: the record goes under the run_id it
\* names by now, with the digest of the evidence given for the probed Run.
ConfirmRecord ==
    /\ confirm.at = "probed"
    /\ Blocked
    /\ maintenance' = maintenance \cup {block}
    /\ proof' = [proof EXCEPT ![block] = confirm.run]
    /\ confirm' = [confirm EXCEPT !.at = "recorded"]
    /\ UNCHANGED <<lock, block, stage, bundleVars, runState, residue>>

ConfirmUnlink ==
    /\ confirm.at = "recorded"
    /\ block' = None
    /\ confirm' = NoConfirm
    /\ UNCHANGED <<lock, maintenance, stage, bundleVars, runState, residue, proof>>

\* The command dies, or finds no block to confirm.
ConfirmEnds ==
    /\ confirm.at # "idle"
    /\ confirm' = NoConfirm
    /\ UNCHANGED retestVars

ConfirmStep == ConfirmProbe \/ ConfirmRecord \/ ConfirmUnlink \/ ConfirmEnds

\* The operator cleans up by hand what an ended Run left on the target.
OperatorCleans(r) ==
    /\ r \in residue
    /\ stage[r] \in Ended
    /\ residue' = residue \ {r}
    /\ UNCHANGED <<rootVars, stage, bundleVars, runState, proof, confirm>>

Accident(r) ==
    /\ Damage(r)
    /\ UNCHANGED <<rootVars, stage, runState, residue, proof, confirm>>

-----------------------------------------------------------------------------
RetestsNext ==
    \/ \E r \in Runs : RunStep(r) /\ UNCHANGED confirm
    \/ \E r \in Runs : OperatorCleans(r) \/ Accident(r)
    \/ ConfirmStep

RetestsSpec == RetestsInit /\ [][RetestsNext]_retestsVars

Stages == {"idle", "prepared", "checked", "inside", "left", "writing", "written", "sealed"} \cup Ended

TypeOK ==
    /\ lock \in Runs \cup {None}
    /\ block \in Runs \cup {None}
    /\ maintenance \subseteq Runs
    /\ stage \in [Runs -> Stages]
    /\ family \in Families
    /\ origin \in [Runs -> Runs \cup {None}]
    /\ disk \in [Runs -> [Names -> Contents]]
    /\ registered \in [Runs -> [Names -> {"absent", "written"}]]
    /\ manifest \in [Runs -> {"absent", "sealed"}]
    /\ hurt \subseteq Runs
    /\ runState \in [Runs -> {"PENDING", "COMPLETED", "RESTORE_FAILED"}]
    /\ residue \subseteq Runs
    /\ proof \in [Runs -> Runs \cup {None}]
    /\ confirm \in [at : {"idle", "probed", "recorded"}, run : Runs \cup {None}]

-----------------------------------------------------------------------------
(* What holds of one Run, whatever the others do *)

Unwritten == {"idle", "prepared", "checked", "inside", "left", "writing"}
Closing   == {"sealed", "done", "raised"}

\* Nothing is in the directory before run.json, and a manifest lists it.
WrittenInOrder(r) ==
    /\ stage[r] \in Unwritten =>
         disk[r] = Empty /\ registered[r] = Empty /\ r \notin hurt /\ manifest[r] = "absent"
    /\ stage[r] = "written" => manifest[r] = "absent" /\ registered[r]["run.json"] = "written"
    /\ manifest[r] = "sealed" => stage[r] \in Closing /\ registered[r]["run.json"] = "written"

\* A touched directory differs from what was registered, or has lost the
\* manifest that nobody writes again.
DamageShows(r) ==
    IF r \in hurt
    THEN disk[r] # registered[r] \/ (manifest[r] = "absent" /\ stage[r] \in Closing)
    ELSE disk[r] = registered[r]

\* The outcome comes with the lock's release, and COMPLETED means lifted.
OutcomeHolds(r) ==
    /\ stage[r] \in {"idle", "prepared", "checked", "inside"} => runState[r] = "PENDING"
    /\ runState[r] = "COMPLETED" => r \notin residue

\* A parent has ended, was sealed, and, but for Spec 004, left nothing.
ParentHolds(r) ==
    origin[r] # None =>
        /\ stage[r] # "idle"
        /\ runState[origin[r]] # "PENDING"
        /\ manifest[origin[r]] = "sealed" \/ origin[r] \in hurt
        /\ family # "SPEC004" => origin[r] \notin residue

LeftNothing(r) == runState[r] = "RESTORE_FAILED" /\ r \notin residue

\* Spec 003: evidence of a Run itself was taken when nothing of it was left.
ProofHolds(r) == family = "SPEC003" /\ proof[r] = r => LeftNothing(r)

ConfirmHolds ==
    confirm.at # "idle" =>
        confirm.run \in Runs /\ (family = "SPEC003" => LeftNothing(confirm.run))

\* The inductive invariant.
IInv ==
    /\ TypeOK
    /\ \A r \in Runs : /\ WrittenInOrder(r) /\ DamageShows(r) /\ OutcomeHolds(r)
                       /\ ParentHolds(r) /\ ProofHolds(r)
    /\ ConfirmHolds

-----------------------------------------------------------------------------
\* While a retest changes the target, nothing of the Run it retests is left
\* there.  Spec 004 does not ask whom the confirmation under the parent's run_id
\* is of, and two Runs that fail together can break this.
RetestFindsParentLifted ==
    family # "SPEC004" =>
        \A r \in Runs : stage[r] = "inside" /\ origin[r] # None => origin[r] \notin residue

\* The bundles implement Archive: what verifies is what was sealed whole over
\* whole ancestors and was not touched since, as far as the profile looks.
A == INSTANCE Archive
        WITH Bundles <- Runs, NoBundle <- None,
             reach   <- CASE family \in {"SPEC003", "SPEC004"} -> "line"
                          [] family = "SPEC002" -> "parent"
                          [] OTHER -> "self",
             parent  <- origin,
             closed  <- {r \in Runs : manifest[r] # "absent"},
             spoilt  <- hurt,
             trusted <- {r \in Runs : Verified(r)}

ImplementsArchive == A!ArchiveSpec

=============================================================================
