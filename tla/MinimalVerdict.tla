--------------------------- MODULE MinimalVerdict ---------------------------
(***************************************************************************)
(* What the minimal H-03 Run observes and how engine/judge.py decides:     *)
(* RunOrchestrator.execute of engine/runner.py read for its observations,  *)
(* engine/observations.py, and the readers of engine/adapters/whyyou/      *)
(* (state.py, client.py, browser.py).  The lifecycle is in MinimalRun.     *)
(*                                                                         *)
(* seen is the observation log: rows of step, attempt, key and value, where *)
(* the value "absent" was read and "unavailable" is a lost source.          *)
(***************************************************************************)
EXTENDS Assessment

CONSTANTS ReportPolls,   \* reads of the report before the deadline
          Consecutive,   \* equal reads that make a value stable
          WindowReads    \* reads of the automatic-decision window

ASSUME PollsAssumption ==
    /\ ReportPolls \in Nat /\ Consecutive \in 1..ReportPolls
    /\ WindowReads \in Nat \ {0}

MinimalFlaws == {"none", "premature", "hidden", "accepts", "silent", "partial", "automatic"}
MinimalOutages == {"none", "report", "receipt", "state", "restore"}

MinimalWorld ==
    [report |-> "ABSENT", marker |-> FALSE, receipt |-> FALSE, queued |-> FALSE,
     row |-> "unchanged", decisions |-> 0, early |-> FALSE]

MinimalInit ==
    /\ flaw \in MinimalFlaws /\ outage \in MinimalOutages
    /\ stage = "baseline" /\ world = MinimalWorld /\ verdict = "none"
    /\ seen = [rows |-> <<>>, state |-> "RUNNING"]

-----------------------------------------------------------------------------
(* The target *)

\* The reporting worker meets the marker, or completes the report without it.
WorkerHandles ==
    /\ world.queued
    /\ IF world.marker
       THEN Change([world EXCEPT !.receipt = TRUE])
       ELSE Change([world EXCEPT !.report = "PRESENT", !.queued = FALSE])

\* The report appears although its production was stopped.
AppearsEarly ==
    /\ flaw = "premature" /\ world.marker /\ world.receipt
    /\ stage \in {"effect", "report", "console", "decision"}
    /\ world.report = "ABSENT"
    /\ Change([world EXCEPT !.report = "PRESENT", !.early = TRUE])

DecidesAlone ==
    /\ flaw = "automatic" /\ stage \notin {"baseline", "restore", "recovered", "judge", "end"}
    /\ world.decisions = 0
    /\ Change([world EXCEPT !.decisions = 1])

-----------------------------------------------------------------------------
(* The observation log *)

Row(step, attempt, key, value) ==
    [step |-> step, attempt |-> attempt, key |-> key, value |-> value]

\* timeline: where the rows of a key and a step stand in the log.
Timeline(log, step, key) ==
    {i \in DOMAIN log.rows : log.rows[i].key = key /\ log.rows[i].step = step}

LastOf(log, places) ==
    IF places = {} THEN "unavailable"
    ELSE log.rows[CHOOSE i \in places : \A j \in places : j <= i].value

Latest(log, key) == LastOf(log, {i \in DOMAIN log.rows : log.rows[i].key = key})
ValueAt(log, step, key) == LastOf(log, Timeline(log, step, key))

\* conflicting_dimensions: two values of one key in the same step and attempt.
Conflicts(log) ==
    {row.key : row \in {r \in ToSet(log.rows) :
        \E other \in ToSet(log.rows) :
            /\ other.step = r.step /\ other.attempt = r.attempt /\ other.key = r.key
            /\ "unavailable" \notin {r.value, other.value} /\ other.value # r.value}}

\* last_stable_observation: the latest run of equal reads, whatever follows it.
StableValue(log, step, key) ==
    LET places == Timeline(log, step, key)
        Window(first, last) == {i \in places : first <= i /\ i <= last}
        Equal(window) == \A i, j \in window : log.rows[i].value = log.rows[j].value
    IN  LastOf(log, {last \in places : \E first \in places :
                        /\ Cardinality(Window(first, last)) = Consecutive
                        /\ Equal(Window(first, last))})

Missing(log, keys) == \E key \in keys : Latest(log, key) = "unavailable"

-----------------------------------------------------------------------------
(* The Run *)

Attempts(step, key) == Cardinality(Timeline(seen, step, key))

With(rows) == [seen EXCEPT !.rows = @ \o rows]

\* A step that has to succeed did not: the Run goes on to its restore.
Raises == [seen EXCEPT !.state = "ABORTED"]

\* snapshot and _record_state: the five keys of the applicant's row.
StateRows(step, attempt) ==
    <<Row(step, attempt, "row", world.row),
      Row(step, attempt, "decisions", IF world.decisions = 0 THEN "0" ELSE "1"),
      Row(step, attempt, "actor", IF world.decisions = 0 THEN "absent" ELSE "company_user")>>

Snapshot(step, next) ==
    \E answered \in Reads("state", TRUE, FALSE) :
        IF answered THEN Look(step, With(StateRows(step, Attempts(step, "row") + 1)), next)
        ELSE Look(step, Raises, IF step = "baseline" THEN "judge" ELSE "restore")

ApplyMarker ==
    Do("apply", [world EXCEPT !.marker = TRUE], With(<<Row("apply", 1, "marker", "true")>>),
       "trigger")

Trigger == Do("trigger", [world EXCEPT !.queued = TRUE], seen, "effect")

\* _poll_fault_effect: until the receipt is there or the attempts are used up.
PollEffect ==
    LET attempt == Attempts("effect", "effect") + 1
    IN  \E found \in Reads("receipt", world.receipt, FALSE) :
            Look("effect",
                 With(<<Row("effect", attempt, "effect", IF found THEN "true" ELSE "false")>>),
                 IF found \/ attempt = ReportPolls THEN "report" ELSE "effect")

\* _poll_report: every attempt is used, and the last one has to be answered.
PollReport ==
    LET attempt == Attempts("report", "presence") + 1
    IN  \E presence \in Reads("report", world.report, "UNAVAILABLE") :
            IF attempt < ReportPolls
            THEN Look("report", With(<<Row("report", attempt, "presence", presence)>>), "report")
            ELSE IF presence = "UNAVAILABLE" THEN Look("report", Raises, "restore")
            ELSE Look("report", With(<<Row("report", attempt, "presence", presence)>>),
                      "console")

\* capture_review and its classifiers: what the reviewer's page says just now.
Shown == CASE world.report = "PRESENT" -> "ready"
           [] world.report = "ABSENT" /\ flaw = "hidden" -> "queued_only"
           [] OTHER -> "failed"

CaptureConsole ==
    Look("console",
         With(<<Row("console", 1, "ready", IF Shown = "ready" THEN "true" ELSE "false"),
                Row("console", 1, "class", Shown)>>), "decision")

\* attempt_final_decision: the answer, and the reason the target itself gives.
Accepts == world.report = "PRESENT" \/ flaw = "accepts"

AttemptDecision ==
    Do("decision",
       IF Accepts THEN [world EXCEPT !.decisions = 1, !.row = "moved"]
       ELSE IF flaw = "partial" THEN [world EXCEPT !.row = "moved"] ELSE world,
       With(<<Row("decision", 1, "accepted", IF Accepts THEN "true" ELSE "false"),
              Row("decision", 1, "reason",
                  IF Accepts \/ flaw = "silent" THEN "absent" ELSE "REPORT_NOT_AVAILABLE")>>),
       "post")

AutomaticWindow ==
    Snapshot("window", IF Attempts("window", "row") + 1 = WindowReads THEN "restore" ELSE "window")

Restore ==
    \E ok \in Reads("restore", TRUE, FALSE) :
        Do("restore", IF ok THEN [world EXCEPT !.marker = FALSE] ELSE world,
           [seen EXCEPT !.rows = Append(@, Row("restore", 1, "restored",
                                               IF ok THEN "SUCCEEDED" ELSE "FAILED")),
                        !.state = IF ~ok THEN "RESTORE_FAILED"
                                  ELSE IF @ = "RUNNING" THEN "COMPLETED" ELSE @],
           "recovered")

\* The state after the restore is recorded when it can be read.
Recovered ==
    \E answered \in Reads("state", TRUE, FALSE) :
        Look("recovered", IF answered THEN With(StateRows("recovered", 1)) ELSE seen, "judge")

-----------------------------------------------------------------------------
(* judge_h03 *)

FaultMet(log) ==
    Needs(~Missing(log, {"marker", "effect"}),
          PassedOrUnsure(Latest(log, "marker") = "true" /\ Latest(log, "effect") = "true"))

FailureShown(log) ==
    LET presence == StableValue(log, "report", "presence")
    IN  Needs(presence # "unavailable" /\ ~Missing(log, {"ready", "class"}),
              Passed(/\ presence = "ABSENT" /\ Latest(log, "ready") = "false"
                     /\ Latest(log, "class") \in {"failed", "delayed", "failed_or_delayed"}))

DecisionRefused(log) ==
    Needs(~Missing(log, {"accepted", "reason"}),
          Passed(/\ Latest(log, "accepted") = "false"
                 /\ Latest(log, "reason") = "REPORT_NOT_AVAILABLE"))

StateKeys == {"row", "decisions", "actor"}

NothingChanged(log) ==
    Needs(\A key \in StateKeys : "unavailable" \notin
              {ValueAt(log, "baseline", key), ValueAt(log, "post", key)},
          Passed(\A key \in StateKeys : ValueAt(log, "baseline", key) = ValueAt(log, "post", key)))

NoAutomaticDecision(log) ==
    Needs(\A key \in StateKeys : ValueAt(log, "window", key) # "unavailable",
          Passed(\A row \in ToSet(log.rows) :
                    row.step = "window" => /\ row.key = "decisions" => row.value = "0"
                                           /\ row.key = "actor" => row.value = "absent"))

EnvironmentRestored(log) == PassedOrUnsure(Latest(log, "restored") = "SUCCEEDED")

\* The order of the outcomes: safety of the Run, conflicts, failures, gaps.
JudgeH03(log) ==
    LET met == FaultMet(log)
        safe == EnvironmentRestored(log)
        product == {FailureShown(log), DecisionRefused(log), NothingChanged(log),
                    NoAutomaticDecision(log)}
    IN  IF \/ log.state \in {"ABORTED", "RESTORE_FAILED"}
           \/ "INCONCLUSIVE" \in {met, safe} \/ Conflicts(log) # {}
        THEN "INCONCLUSIVE"
        ELSE Aggregate(product)

JudgeMinimal == Judge(JudgeH03(seen))

MinimalStep ==
    \/ Snapshot("baseline", "apply") \/ ApplyMarker \/ Trigger \/ PollEffect
    \/ PollReport \/ CaptureConsole \/ AttemptDecision \/ Snapshot("post", "window")
    \/ AutomaticWindow \/ Restore \/ Recovered \/ JudgeMinimal

MinimalNext ==
    /\ topic = "H-03"
    /\ MinimalStep \/ WorkerHandles \/ AppearsEarly \/ DecidesAlone

\* What a PASS claims: nothing was shown, decided or changed without the report.
MinimalHolds ==
    /\ flaw \notin {"hidden", "accepts", "silent", "partial"}
    /\ world.decisions = 0 /\ ~world.early

-----------------------------------------------------------------------------
(* The inductive invariant of a Run of H-03 *)

MinimalStages == {"baseline", "apply", "trigger", "effect", "report", "console", "decision",
                  "post", "window", "restore", "recovered", "judge", "end"}
Early == {"baseline", "apply", "trigger"}
Late == {"recovered", "judge", "end"}
Attempted == {"post", "window", "restore"} \cup Late
Observed == {"restore"} \cup Late

RowSteps == {"baseline", "apply", "effect", "report", "console", "decision", "post", "window",
             "restore", "recovered"}
RowKeys == {"marker", "effect", "presence", "ready", "class", "accepted", "reason", "row",
            "decisions", "actor", "restored"}
RowValues == {"true", "false", "ABSENT", "PRESENT", "UNAVAILABLE", "ready", "failed",
              "queued_only", "absent", "REPORT_NOT_AVAILABLE", "unchanged", "moved", "0", "1",
              "company_user", "SUCCEEDED", "FAILED"}
RowForms == [step : RowSteps, attempt : Nat, key : RowKeys, value : RowValues]
Logged == ToSet(seen.rows)

\* The Run has not given up a step it needs.
Live == seen.state \in {"RUNNING", "COMPLETED"}

MinimalTargets ==
    [report : {"ABSENT", "PRESENT"}, marker : BOOLEAN, receipt : BOOLEAN, queued : BOOLEAN,
     row : {"unchanged", "moved"}, decisions : {0, 1}, early : BOOLEAN]

MinimalShape ==
    /\ flaw \in MinimalFlaws /\ outage \in MinimalOutages /\ stage \in MinimalStages
    /\ world \in MinimalTargets
    /\ seen \in [rows : Seq(RowForms),
                 state : {"RUNNING", "ABORTED", "RESTORE_FAILED", "COMPLETED"}]
    /\ stage \notin {"restore"} \cup Late => seen.state = "RUNNING"

\* A report that is there before the restore came early.
WorkFits ==
    /\ stage \in Early => ~world.queued /\ world.report = "ABSENT"
    /\ stage = "baseline" => world.row = "unchanged"
    /\ stage \notin Late => (world.report = "PRESENT" => world.early)
    /\ stage \notin {"baseline", "apply"} \cup Late => world.marker
    /\ world.early => flaw = "premature" /\ world.report = "PRESENT"
    /\ stage \in Attempted /\ Live /\ flaw = "partial" => world.row = "moved"
    /\ Sound => world.row = "unchanged" /\ world.decisions = 0

\* What each key says of a sound target.
SoundValues ==
    [marker |-> "true", presence |-> "ABSENT", ready |-> "false", class |-> "failed",
     accepted |-> "false", reason |-> "REPORT_NOT_AVAILABLE", row |-> "unchanged",
     decisions |-> "0", actor |-> "absent", restored |-> "SUCCEEDED"]

\* The reads an outage answers for the target.
Excused(key) ==
    \/ key = "presence" /\ outage = "report"
    \/ key = "restored" /\ outage = "restore"

RowFits(row) ==
    /\ row.value # "unavailable" /\ row.key \in DOMAIN SoundValues \cup {"effect"}
    /\ flaw = "hidden" /\ row.key = "class" => row.value \in {"ready", "queued_only"}
    /\ flaw = "accepts" /\ row.key = "accepted" => row.value = "true"
    /\ flaw = "silent" /\ row.key = "reason" => row.value = "absent"
    /\ row.step = "baseline" /\ row.key = "row" => row.value = "unchanged"
    /\ flaw = "partial" /\ row.step = "post" /\ row.key = "row" => row.value = "moved"
    /\ Sound /\ row.key \in DOMAIN SoundValues /\ ~Excused(row.key) =>
         row.value = SoundValues[row.key]

\* An early report is accepted in the end, and a decision is seen in the window.
RowsFit ==
    /\ \A row \in Logged : RowFits(row)
    /\ stage \notin Attempted => \A row \in Logged : row.key # "accepted"
    /\ stage \in Attempted /\ Live /\ world.early =>
         \A row \in Logged : row.key = "accepted" => row.value = "true"
    /\ stage \in Observed /\ Live /\ world.decisions = 1 =>
         \E row \in Logged : row.step = "window" /\ row.key = "decisions" /\ row.value = "1"

Has(rows, step, key) == \E row \in rows : row.step = step /\ row.key = key
HasState(rows, step) == \A key \in StateKeys : Has(rows, step, key)

\* Every step left its rows when every source answers.
AllAreLogged ==
    /\ seen.state = IF stage \in Late THEN "COMPLETED" ELSE "RUNNING"
    /\ stage # "baseline" => HasState(Logged, "baseline")
    /\ stage \notin {"baseline", "apply"} => Has(Logged, "apply", "marker")
    /\ stage \in {"decision"} \cup Attempted => Has(Logged, "console", "ready") /\ Has(Logged, "console", "class")
    /\ stage \in Attempted => Has(Logged, "decision", "accepted") /\ Has(Logged, "decision", "reason")
    /\ stage \in {"window"} \cup Observed => HasState(Logged, "post")
    /\ stage \in Observed => HasState(Logged, "window")
    /\ stage \in Late => Has(Logged, "restore", "restored")

\* The reads of the report stand together.
Polled(places, first, n) ==
    first \in Nat /\ n \in Nat /\ places = (first + 1)..(first + n)

PollsFit ==
    LET places == Timeline(seen, "report", "presence")
    IN  /\ stage \in Early \cup {"effect"} => places = {}
        /\ stage = "report" => \E first, n \in Nat :
              Polled(places, first, n) /\ n < ReportPolls /\ Len(seen.rows) = first + n
        /\ stage \in {"console", "decision"} \cup Attempted =>
              \E first \in Nat : Polled(places, first, ReportPolls)

\* The receipt is looked for until it is there, each time as another attempt.
EffectsFit ==
    /\ stage \in Early => \A row \in Logged : row.key # "effect"
    /\ stage = "effect" => \A row \in Logged :
         row.key = "effect" => row.value = "false" /\ row.attempt <= Attempts("effect", "effect")
    /\ \A row, other \in Logged :
         row.key = "effect" /\ other.key = "effect" /\ row.attempt = other.attempt =>
             row.value = other.value

MinimalJudged ==
    IF Ended
    THEN /\ verdict = "PASS" => MinimalHolds
         /\ verdict = "FAIL" => ~Sound \/ outage = "report"
         /\ Answering => verdict = "PASS" \/ Latest(seen, "effect") # "true"
    ELSE verdict = "none"

MinimalInv ==
    /\ MinimalShape /\ WorkFits /\ RowsFit /\ MinimalJudged
    /\ Answering => AllAreLogged /\ PollsFit /\ EffectsFit
=============================================================================
