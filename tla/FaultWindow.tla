----------------------------- MODULE FaultWindow -----------------------------
(***************************************************************************)
(* What ControlProof promises about injected faults, without saying how:   *)
(* a Run may put its fault in place while it has reported nothing; it      *)
(* reports "clean" only when its fault is gone and "unsafe" only when the  *)
(* target is barred or an operator has confirmed its cleanup; a report is  *)
(* final, and the bar is lifted only after a confirmation.                 *)
(***************************************************************************)
CONSTANT Runs

VARIABLES active,    \* Runs whose fault is in place
          barrier,   \* later Runs are refused
          cleared,   \* some cleanup has been confirmed
          verdict    \* what each Run has reported

fwVars == <<active, barrier, cleared, verdict>>

FWTypeOK ==
    /\ active \subseteq Runs
    /\ barrier \in BOOLEAN
    /\ cleared \in BOOLEAN
    /\ verdict \in [Runs -> {"open", "clean", "unsafe"}]

FWInit ==
    /\ active = {}
    /\ barrier = FALSE
    /\ cleared = FALSE
    /\ verdict = [r \in Runs |-> "open"]

Inject(r) ==
    /\ verdict[r] = "open"
    /\ active' = active \cup {r}
    /\ UNCHANGED <<barrier, cleared, verdict>>

\* Take the fault away, bar the target, or both at once.
Withdraw(r) ==
    /\ active' \in {active, active \ {r}}
    /\ barrier' \in BOOLEAN /\ (barrier => barrier')
    /\ UNCHANGED <<cleared, verdict>>

Report(r) ==
    /\ verdict[r] = "open"
    /\ \/ r \notin active /\ verdict' = [verdict EXCEPT ![r] = "clean"]
       \/ /\ barrier \/ cleared
          /\ verdict' = [verdict EXCEPT ![r] = "unsafe"]
    /\ UNCHANGED <<active, barrier, cleared>>

Confirm ==
    /\ barrier
    /\ cleared' = TRUE
    /\ UNCHANGED <<active, barrier, verdict>>

Lift ==
    /\ cleared
    /\ barrier' = FALSE
    /\ UNCHANGED <<active, cleared, verdict>>

FWNext == (\E r \in Runs : Inject(r) \/ Withdraw(r) \/ Report(r)) \/ Confirm \/ Lift

FWSpec == FWInit /\ [][FWNext]_fwVars

\* The promise as a state predicate: reports are true, and stay true.
ReportsHold ==
    \A r \in Runs :
        /\ verdict[r] = "clean" => r \notin active
        /\ verdict[r] = "unsafe" => barrier \/ cleared
=============================================================================
