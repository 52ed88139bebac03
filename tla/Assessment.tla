----------------------------- MODULE Assessment -----------------------------
(***************************************************************************)
(* What the verdict models share.  A profile observes the target in a fixed *)
(* order while the target goes on working, and judges only what it saw:     *)
(* engine/judge.py, engine/n01.py, engine/n03.py and engine/judges/.        *)
(*                                                                         *)
(* flaw   is the one protection the target lacks, or "none".               *)
(* outage is the one thing that goes wrong around the Run, or "none".      *)
(* world  is the state of the target, seen what the Run has recorded.      *)
(***************************************************************************)
EXTENDS Integers, FiniteSets, Sequences, SequencesExt

VARIABLES topic, flaw, outage, stage, world, seen, verdict
vars == <<topic, flaw, outage, stage, world, seen, verdict>>

Verdicts == {"none", "PASS", "FAIL", "INCONCLUSIVE"}

Sound == flaw = "none"
Ended == stage = "end"

\* The target changes between two steps of the Run.
Change(new) ==
    world' = new /\ UNCHANGED <<topic, flaw, outage, stage, seen, verdict>>

\* One step of the Run: what it does to the target, what it records, what is next.
Do(from, new, record, next) ==
    /\ stage = from /\ stage' = next
    /\ world' = new /\ seen' = record
    /\ UNCHANGED <<topic, flaw, outage, verdict>>

Look(from, record, next) == Do(from, world, record, next)

\* A read is answered, unless the outage of the Run is about it.
Reads(what, value, lost) ==
    IF outage = what THEN {value, lost} ELSE {value}

Judge(result) ==
    /\ stage = "judge" /\ stage' = "end" /\ verdict' = result
    /\ UNCHANGED <<topic, flaw, outage, world, seen>>

\* A failure outweighs a missing answer, which outweighs a pass.
Aggregate(statuses) ==
    CASE "FAIL" \in statuses -> "FAIL"
      [] "FAIL" \notin statuses /\ "INCONCLUSIVE" \in statuses -> "INCONCLUSIVE"
      [] OTHER -> "PASS"

Passed(condition) == IF condition THEN "PASS" ELSE "FAIL"
PassedOrUnsure(condition) == IF condition THEN "PASS" ELSE "INCONCLUSIVE"

\* Without the evidence an assertion asks for, it has no outcome.
Needs(evidence, outcome) == IF evidence THEN outcome ELSE "INCONCLUSIVE"

\* A target without a flaw, and every source of it at hand.
Answering == Sound /\ outage = "none"
=============================================================================
