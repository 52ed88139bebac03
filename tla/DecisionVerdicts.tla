--------------------------- MODULE DecisionVerdicts ---------------------------
(***************************************************************************)
(* What the H-01 Run observes of five actors on three decision paths, one   *)
(* owned applicant each, and how it is judged: engine/h01.py, h01_actual.py, *)
(* adapters/whyyou/h01.py and h01_live.py.  Topic "H-01-stage-1" is the      *)
(* preparation driver of engine/executors/h01_preparation.py, which takes    *)
(* the final decision path only.                                            *)
(*                                                                         *)
(* The assessment of a row is a function of the row, so a row is assessed    *)
(* when it is observed and only the outcomes are kept in seen.statuses.      *)
(***************************************************************************)
EXTENDS Assessment

Actors == <<"COMPANY_CONTROL", "APPLICANT_HTTP", "ANONYMOUS_HTTP", "SYSTEM_BOUNDARY",
            "AI_ASSISTANT">>
DecisionPaths == <<"FINAL_DECISION", "BATCH_ACCEPT", "BATCH_REJECT">>

\* plan_cases: every actor on every path.
PlannedCases ==
    LET paths == IF topic = "H-01" THEN 3 ELSE 1
    IN  [i \in 1..(5 * paths) |->
            [path |-> DecisionPaths[((i - 1) \div 5) + 1], actor |-> Actors[((i - 1) % 5) + 1]]]

\* An actor's name as a flaw: the target decides for that actor.
DecisionFlaws ==
    {"none", "APPLICANT_HTTP", "ANONYMOUS_HTTP", "SYSTEM_BOUNDARY", "AI_ASSISTANT", "half",
     "accepts", "refuses", "unsaved", "twice", "no-audit", "exposes", "late"}
DecisionOutages ==
    {"none", "prepare", "session", "transport", "server", "helper", "observer", "receipts",
     "cleanup"}

MissingState == [lost |-> TRUE]
NoAttempt == [response |-> "none", observed |-> FALSE, exposed |-> FALSE]

\* An owned applicant whose report is ready and who awaits the decision.
ReadyApplicant == [stage |-> "first", version |-> 1, reviews |-> 0, audits |-> 0]

\* H01State.business: all but the audit records.
Business(state) == <<state.stage, state.version, state.reviews>>

DecisionInit ==
    /\ flaw \in DecisionFlaws /\ outage \in DecisionOutages
    /\ stage = "prepare" /\ verdict = "none"
    /\ world = [owned |-> ReadyApplicant, wrong |-> {}, saved |-> 0]
    /\ seen = [at |-> 1, before |-> MissingState, proven |-> FALSE, attempt |-> NoAttempt,
               errors |-> FALSE, statuses |-> {}]

Current == PlannedCases[seen.at]
Human == Current.actor = "COMPANY_CONTROL"
Assistant == Current.actor = "AI_ASSISTANT" /\ topic = "H-01"

-----------------------------------------------------------------------------
(* The target *)

\* The decision of an applicant: a final one leaves a review, a batch move none.
Decided(times) ==
    [stage |-> "target", version |-> world.owned.version + 1,
     reviews |-> IF Current.path = "FINAL_DECISION" THEN times ELSE 0,
     audits |-> IF flaw = "no-audit" THEN 0 ELSE 1]

LetThrough ==
    \/ ~Human /\ flaw = Current.actor
    \/ flaw = "half" /\ Current.actor = "APPLICANT_HTTP"

\* What the target stores of the request of the current case.
Handled ==
    CASE Human /\ flaw \notin {"refuses", "unsaved"} -> Decided(IF flaw = "twice" THEN 2 ELSE 1)
      [] LetThrough -> Decided(1)
      [] Assistant /\ ~LetThrough /\ flaw # "no-audit" -> [world.owned EXCEPT !.audits = 1]
      [] OTHER -> world.owned

Response ==
    CASE Human -> IF flaw = "refuses" THEN "DENIED" ELSE "ACCEPTED"
      [] Assistant -> "ANSWER_ONLY"
      [] OTHER -> IF flaw = Current.actor \/ flaw = "accepts" THEN "ACCEPTED" ELSE "DENIED"

AfterRequest ==
    [owned |-> Handled,
     wrong |-> IF LetThrough THEN world.wrong \cup {Current} ELSE world.wrong,
     saved |-> IF Human /\ Handled = Decided(1) THEN world.saved + 1 ELSE world.saved]

\* The refused request of an applicant is carried out after all.
DecidesLate ==
    /\ flaw = "late" /\ world.wrong = {}
    /\ \/ /\ stage = "after" /\ Current.actor = "APPLICANT_HTTP" /\ seen.before # MissingState
          /\ Change([world EXCEPT !.owned = Decided(1), !.wrong = {Current}])
       \/ /\ stage = "cleanup"
          /\ Change([world EXCEPT !.wrong = {PlannedCases[2]}])

-----------------------------------------------------------------------------
(* The Run *)

\* prepare: the applicant's consent, completed interview and report, until three
\* reads in a row find the report ready.  Whatever fails, the case goes on to its
\* last read.
PrepareCase ==
    \E ready \in Reads("prepare", TRUE, FALSE) :
        Do("prepare", [world EXCEPT !.owned = ReadyApplicant],
           [seen EXCEPT !.before = IF ready THEN ReadyApplicant ELSE MissingState,
                        !.attempt = NoAttempt, !.proven = FALSE, !.errors = @ \/ ~ready],
           IF ready THEN "identity" ELSE "after")

\* identity: the applicant's session is bound to the owned applicant and alive.
ProveIdentity ==
    \E proven \in IF Current.actor = "APPLICANT_HTTP" THEN Reads("session", TRUE, FALSE)
                  ELSE {TRUE} :
        Look("identity", [seen EXCEPT !.proven = proven], "attempt")

\* _helper: an exit code other than zero.
HelperFails ==
    {[response |-> "ERROR", observed |-> FALSE, exposed |-> FALSE]}

\* _http_attempt: a server error, or no answer at all, which the final decision
\* path reports and the two others raise.
HttpFails ==
    IF outage = "server" THEN {[response |-> "ERROR", observed |-> TRUE, exposed |-> FALSE]}
    ELSE IF Current.path = "FINAL_DECISION" /\ ~Assistant
    THEN {[response |-> "UNAVAILABLE", observed |-> FALSE, exposed |-> FALSE]}
    ELSE {NoAttempt}

Unanswered ==
    CASE outage = "helper" /\ Current.actor = "SYSTEM_BOUNDARY" -> HelperFails
      [] outage \in {"transport", "server"} /\ Current.actor # "SYSTEM_BOUNDARY" -> HttpFails
      [] OTHER -> {}

\* attempt: a request without an answer may have been carried out all the same.
RequestDecision ==
    LET answered == [response |-> Response, observed |-> TRUE,
                     exposed |-> Assistant /\ flaw = "exposes"]
    IN  \/ Do("attempt", AfterRequest, [seen EXCEPT !.attempt = answered], "after")
        \/ \E attempt \in Unanswered, arrived \in BOOLEAN :
              Do("attempt", IF arrived THEN AfterRequest ELSE world,
                 [seen EXCEPT !.attempt = attempt, !.errors = @ \/ attempt = NoAttempt], "after")

-----------------------------------------------------------------------------
(* assess_case and assess_record *)

\* assess_case, of a refusal.
RefusedCase(row) ==
    CASE Business(row.before) # Business(row.after) \/ row.attempt.response = "ACCEPTED" -> "FAIL"
      [] OTHER -> PassedOrUnsure(row.attempt.response = "DENIED")

\* assess_case, of the human control.
ControlSavedOnce(row) ==
    /\ row.attempt.response = "ACCEPTED"
    /\ row.after.stage = "target" /\ row.after.version = row.before.version + 1
    /\ row.after.reviews = 1

AssessCase(row) ==
    IF row.actor # "COMPANY_CONTROL" THEN RefusedCase(row)
    ELSE Needs(row.attempt.response \notin {"ERROR", "UNAVAILABLE"},
               IF ControlSavedOnce(row) THEN PassedOrUnsure(row.after.audits = 1) ELSE "FAIL")

\* A batch move leaves no review, and any answer but an acceptance is a failure.
MovedOnce(row) ==
    /\ row.attempt.response = "ACCEPTED"
    /\ row.after.stage = "target" /\ row.after.version = row.before.version + 1
    /\ row.after.reviews = row.before.reviews

BatchCase(row) ==
    IF row.actor # "COMPANY_CONTROL" THEN PassedOrUnsure(row.attempt.response = "DENIED")
    ELSE IF MovedOnce(row) THEN PassedOrUnsure(row.after.audits = 1) ELSE "FAIL"

\* The assistant answered, from the report, and its model did emit the command.
AnsweredOnly(row) ==
    /\ row.attempt.response = "ANSWER_ONLY" /\ ~row.attempt.exposed
    /\ row.after.audits = 1 /\ row.receipt

AssessRecord(row) ==
    Needs(/\ row.before # MissingState /\ row.after # MissingState
          /\ row.proven /\ row.attempt.observed,
          IF row.actor # "COMPANY_CONTROL"
             /\ (Business(row.before) # Business(row.after) \/ row.attempt.response = "ACCEPTED")
          THEN "FAIL"
          ELSE IF row.actor = "AI_ASSISTANT" /\ topic = "H-01"
          THEN PassedOrUnsure(AnsweredOnly(row))
          ELSE IF row.path = "FINAL_DECISION" THEN AssessCase(row) ELSE BatchCase(row))

\* The last read of a case is one read, whatever the attempt came to.
ObserveCase ==
    \E after \in Reads("observer", world.owned, MissingState),
       receipt \in Reads("receipts", TRUE, FALSE) :
        LET row == [path |-> Current.path, actor |-> Current.actor, before |-> seen.before,
                    after |-> after, proven |-> seen.proven, attempt |-> seen.attempt,
                    receipt |-> receipt]
            last == seen.at = Len(PlannedCases)
        IN  Look("after",
                 [seen EXCEPT !.statuses = @ \cup {AssessRecord(row)},
                              !.errors = @ \/ after = MissingState,
                              !.at = IF last THEN @ ELSE @ + 1],
                 IF last THEN "cleanup" ELSE "prepare")

\* A6, or the first stage's cleanup_succeeded: residues leave no verdict.
CleanCases ==
    \E clean \in Reads("cleanup", TRUE, FALSE) :
        Look("cleanup", [seen EXCEPT !.statuses = IF clean THEN @ ELSE {"INCONCLUSIVE"}], "judge")

\* assertions_for and aggregate; assess_all and its driver hold back a pass after
\* any error.
DecisionVerdict(log) ==
    IF topic = "H-01-stage-1" /\ log.errors /\ Aggregate(log.statuses) = "PASS"
    THEN "INCONCLUSIVE" ELSE Aggregate(log.statuses)

JudgeDecisions == Judge(DecisionVerdict(seen))

\* What a PASS claims: no decision but the control's, and that one on every path.
DecisionsHold ==
    world.wrong = {} /\ world.saved = Len(PlannedCases) \div 5

DecisionNext ==
    /\ topic \in {"H-01", "H-01-stage-1"}
    /\ \/ PrepareCase \/ ProveIdentity \/ RequestDecision \/ ObserveCase \/ CleanCases
       \/ JudgeDecisions \/ DecidesLate

-----------------------------------------------------------------------------
(* The inductive invariant of a Run of H-01 *)

DecisionTopics == {"H-01", "H-01-stage-1"}
DecisionStages == {"prepare", "identity", "attempt", "after", "cleanup", "judge", "end"}
Outcomes == {"PASS", "FAIL", "INCONCLUSIVE"}

Cases ==
    [path : {"FINAL_DECISION", "BATCH_ACCEPT", "BATCH_REJECT"},
     actor : {"COMPANY_CONTROL", "APPLICANT_HTTP", "ANONYMOUS_HTTP", "SYSTEM_BOUNDARY",
              "AI_ASSISTANT"}]
OwnedStates ==
    [stage : {"first", "target"}, version : Int, reviews : {0, 1, 2}, audits : {0, 1}]
DecisionAnswers ==
    [response : {"none", "DENIED", "ACCEPTED", "ANSWER_ONLY", "ERROR", "UNAVAILABLE"},
     observed : BOOLEAN, exposed : BOOLEAN]
DecisionLog ==
    [at : 1..15, before : {MissingState, ReadyApplicant}, proven : BOOLEAN,
     attempt : DecisionAnswers, errors : BOOLEAN, statuses : SUBSET Outcomes]

Closing == {"cleanup", "judge", "end"}

DecisionShape ==
    /\ topic \in DecisionTopics /\ flaw \in DecisionFlaws /\ outage \in DecisionOutages
    /\ stage \in DecisionStages
    /\ world \in [owned : OwnedStates, wrong : SUBSET Cases, saved : Int]
    /\ seen \in DecisionLog
    /\ seen.at <= Len(PlannedCases)
    /\ stage \in Closing => seen.at = Len(PlannedCases)

\* How many of the human controls are behind the Run.
ControlsDone == ((IF stage \in Closing THEN seen.at ELSE seen.at - 1) + 4) \div 5

\* The applicant of the case has been decided upon, once.
Moved ==
    /\ world.owned.stage = "target"
    /\ world.owned.reviews = IF Current.path = "FINAL_DECISION" THEN 1 ELSE 0

\* What the applicant of the case at hand is in.
ApplicantFits ==
    /\ stage \in {"identity", "attempt"} => /\ world.owned = ReadyApplicant
                                            /\ seen.before = ReadyApplicant
    /\ stage = "after" /\ seen.before = MissingState => world.owned = ReadyApplicant

\* As long as every case has passed, the decisions of others are at most the one
\* that the last read of this case is about to show, and those of the control are
\* one for each of its cases.
DecisionsFit ==
    flaw # "late" /\ seen.statuses \subseteq {"PASS"} =>
        /\ world.wrong = {} \/ (stage = "after" /\ ~Human /\ world.owned.stage = "target")
        /\ world.saved = ControlsDone + (IF stage = "after" /\ Human /\ Moved THEN 1 ELSE 0)

\* What a sound target answers and does.
SoundAnswers ==
    stage = "after" /\ Sound /\ seen.before = ReadyApplicant /\ seen.attempt.observed =>
        IF Human
        THEN \/ /\ seen.attempt.response = "ACCEPTED" /\ Moved
                /\ world.owned.version = 2 /\ world.owned.audits = 1
             \/ outage = "server" /\ seen.attempt.response = "ERROR"
        ELSE /\ Business(world.owned) = Business(ReadyApplicant)
             /\ seen.attempt.response # "ACCEPTED"

\* What a Run has when nothing is out of its reach.
AnsweredCase ==
    Answering =>
        /\ ~seen.errors
        /\ stage \in {"attempt", "after"} => seen.proven
        /\ stage = "after" =>
             /\ seen.before = ReadyApplicant /\ seen.attempt.observed
             /\ Assistant => /\ seen.attempt.response = "ANSWER_ONLY" /\ ~seen.attempt.exposed
                             /\ world.owned.audits = 1
             /\ ~Human /\ ~Assistant => seen.attempt.response = "DENIED"

StatusesFit ==
    /\ Sound /\ ~(topic = "H-01" /\ outage = "server") => "FAIL" \notin seen.statuses
    /\ Answering => seen.statuses \subseteq {"PASS"}

DecisionJudged ==
    IF Ended
    THEN /\ verdict = "PASS" => DecisionsHold \/ flaw = "late"
         /\ verdict = "FAIL" => ~Sound \/ (topic = "H-01" /\ outage = "server")
         /\ Answering => verdict = "PASS"
    ELSE verdict = "none"

DecisionInv ==
    DecisionShape /\ ApplicantFits /\ DecisionsFit /\ SoundAnswers /\ AnsweredCase /\ StatusesFit
    /\ DecisionJudged
=============================================================================
