--------------------------- MODULE BoundaryVerdicts ---------------------------
(***************************************************************************)
(* What the N-02 Run observes of the three protected paths and how it is   *)
(* judged, without the fault lane of ConsentFault: collect_us1, collect_us2, *)
(* _collect_processing and _Stabilizer of engine/executors/n02.py,          *)
(* adapters/whyyou/protected_processing.py and causality.py, and A1 to A5   *)
(* of engine/judges/n02.py.                                                 *)
(*                                                                         *)
(* A lane is a path tried before any consent, or "normal" for the lane that *)
(* consents first.  world.lanes holds what the target did there.            *)
(***************************************************************************)
EXTENDS Assessment

CONSTANTS StableReads,    \* stability_consecutive of the scenario
          EffectReads     \* reads of one lane before the deadline of the Run

ASSUME ReadsAssumption == EffectReads \in Nat /\ StableReads \in 1..EffectReads

Paths == {"document", "recording", "assessment"}
Bypass == <<"document", "recording", "assessment">>
Consented == <<"recording", "assessment", "document">>

BoundaryFlaws ==
    {"none", "opens", "late", "silent", "assesses", "other-policy", "blocks", "no-result", "early"}
BoundaryOutages == {"none", "effects", "receipts", "transport", "server", "worker",
                    "state"}

Untouched == [effects |-> {}, start |-> FALSE, refused |-> FALSE, queued |-> FALSE]

\* The results of a path, and the rows that only carry a request.
BoundaryWorld ==
    [bypass |-> [path \in Paths |-> Untouched], normal |-> [path \in Paths |-> Untouched],
     consent |-> "none", early |-> FALSE]

Lost == [source |-> "UNAVAILABLE"]

BoundaryInit ==
    /\ flaw \in BoundaryFlaws /\ outage \in BoundaryOutages
    /\ stage = "pristine" /\ verdict = "none" /\ world = BoundaryWorld
    /\ seen = [lane |-> "bypass", cases |-> <<>>, answer |-> "none", reads |-> <<>>, count |-> 0,
               state |-> Lost, normal |-> <<>>, clean |-> FALSE]

\* The path of the Run's next attempt.
Path == IF seen.lane = "bypass" THEN Bypass[Len(seen.cases) + 1]
        ELSE Consented[Len(seen.normal) + 1]

Here == world[seen.lane][Path]
Hereafter(row) == [world EXCEPT ![seen.lane][Path] = row]

-----------------------------------------------------------------------------
(* The target *)

Open == seen.lane = "normal" /\ world.consent # "none" /\ flaw # "blocks"

Boundary == stage = "effects"

\* The worker refuses or assesses the event that the Run has inserted.
WorkerAssesses ==
    /\ Boundary /\ Path = "assessment" /\ Here.queued /\ outage # "worker"
    /\ LET row == [Here EXCEPT !.queued = FALSE]
       IN  IF Open \/ flaw = "assesses"
           THEN Change(Hereafter([row EXCEPT !.start = TRUE,
                                  !.effects = IF flaw = "no-result" THEN @
                                              ELSE @ \cup {"result"}]))
           ELSE Change(Hereafter([row EXCEPT !.refused = TRUE]))

\* A path that answered 2xx starts and has a result.
PathProceeds ==
    /\ Boundary /\ Path # "assessment" /\ "request" \in Here.effects
    /\ ~Here.start /\ outage # "worker"
    /\ Change(Hereafter([Here EXCEPT !.start = TRUE,
                         !.effects = IF flaw = "no-result" THEN @ ELSE @ \cup {"result"}]))

\* What a refused attempt may leave behind while the Run still reads.
LeavesEffect ==
    /\ Boundary /\ seen.lane = "bypass" /\ Path = "document" /\ Here = Untouched
    /\ \/ flaw = "late" /\ Change(Hereafter([Here EXCEPT !.effects = {"result"}]))
       \/ flaw = "silent" /\ Change(Hereafter([Here EXCEPT !.start = TRUE]))

\* The processing of the consenting applicant is there before the consent is.
StartsEarly ==
    /\ flaw = "early" /\ stage = "commit" /\ ~world.early
    /\ Change([world EXCEPT !.early = TRUE])

TargetActs == WorkerAssesses \/ PathProceeds \/ LeavesEffect \/ StartsEarly

-----------------------------------------------------------------------------
(* The Run *)

\* The pristine lane is read on all three paths; without it there is no Run.
Pristine ==
    \E answered \in Reads("effects", TRUE, FALSE) :
        Look("pristine", seen, IF answered THEN "attempt" ELSE "end")

Accepting == IF seen.lane = "bypass" THEN flaw = "opens" ELSE Open

\* _attempt_assessment: the event is inserted, its outcome is the worker's.
SubmitAssessment ==
    /\ stage = "attempt" /\ Path = "assessment"
    /\ Do("attempt", Hereafter([Here EXCEPT !.queued = TRUE]),
          [seen EXCEPT !.answer = "SUBMITTED"], "effects")

\* The answer to a request is lost, or a failing server answers in its place;
\* either way the request may have been handled.
Replies(answer) == Reads("transport", answer, "NO_RESPONSE") \cup Reads("server", answer, "ERROR")
Arrivals == Reads("transport", TRUE, FALSE) \cup Reads("server", TRUE, FALSE)

\* attempt: a 2xx after which the Run drives the product flow, a 401 or 403, any
\* other status, or no answer.
AttemptPath ==
    /\ stage = "attempt" /\ Path # "assessment"
    /\ \E answer \in Replies(IF Accepting THEN "ACCEPTED" ELSE "DENIED"), arrived \in Arrivals :
          /\ answer \in {"ACCEPTED", "DENIED"} => arrived
          /\ Do("attempt",
                IF Accepting /\ arrived
                THEN Hereafter([Here EXCEPT !.effects = {"request"}]) ELSE world,
                [seen EXCEPT !.answer = answer], "effects")

\* The driven recording starts with an equipment check: any answer to it but a
\* 2xx, and none as well, is the error of the whole attempt.
EquipmentCheckFails ==
    /\ stage = "attempt" /\ seen.lane = "normal" /\ Path = "recording"
    /\ flaw = "blocks" \/ outage \in {"transport", "server"}
    /\ Look("attempt", [seen EXCEPT !.answer = "ERROR"], "effects")

\* read_effects: the new rows, and the receipts when the observer can be read.
\* The runner's own event and its bookkeeping are no effects of the target.
Projection ==
    {[source |-> "READ", effects |-> Here.effects,
      start |-> Here.start /\ receipts, refused |-> Here.refused /\ receipts] :
         receipts \in Reads("receipts", TRUE, FALSE)}

\* _Stabilizer.read: equal reads in a row, a lost source counts like a value.
Stable(reads, value) ==
    /\ Len(reads) + 1 >= StableReads
    /\ \A i \in (Len(reads) - StableReads + 2)..Len(reads) : reads[i] = value

Case(value) == [path |-> Path, answer |-> seen.answer, effects |-> value]

\* What follows the stable effects of a path.
Collected(value) ==
    LET rest == [seen EXCEPT !.reads = <<>>, !.count = 0, !.answer = "none"]
    IN  IF seen.lane = "bypass"
        THEN Look("effects", [rest EXCEPT !.cases = Append(@, Case(value)),
                              !.lane = IF Len(seen.cases) = 2 THEN "normal" ELSE @],
                  IF Len(seen.cases) = 2 THEN "commit" ELSE "attempt")
        ELSE Look("effects", [rest EXCEPT !.normal = Append(@, Case(value))],
                  IF Len(seen.normal) = 2 THEN "judge" ELSE "attempt")

\* A worker that may still answer gets the receipt wait of the Run.
ReadEffects ==
    /\ stage = "effects"
    /\ \E value \in Projection \cup (IF outage = "effects" THEN {Lost} ELSE {}) :
          IF Stable(seen.reads, value)
          THEN Collected(value)
          ELSE IF seen.count = EffectReads
          THEN Look("effects", seen, "end")     \* the deadline of the Run
          ELSE Look("effects", [seen EXCEPT !.reads = Append(@, value), !.count = @ + 1],
                    "effects")

\* read_policy and commit: the answer may be lost on either side of the storage.
CommitConsent ==
    \E arrived \in Arrivals :
        Do("commit",
           IF arrived
           THEN [world EXCEPT !.consent = IF flaw = "other-policy" THEN "other" ELSE "shown"]
           ELSE world, seen, "state")

\* _durable_consent_matches: only a stored consent opens the three paths.
ConsentState ==
    \E state \in Reads("state", [source |-> world.consent], Lost) :
        Look("state", [seen EXCEPT !.state = state],
             IF state.source = "shown" THEN "attempt" ELSE "judge")

-----------------------------------------------------------------------------
(* judge_n02_bypass and judge_n02_normal_order *)

\* Mutant: the worker's own refusal of the event is not known.
DeniedOnly(case) ==
    Needs(case.effects # Lost,
          Passed(case.effects.effects = {} /\ ~case.effects.start /\ case.answer = "DENIED"))

\* _judge_bypass_case
JudgeBypass(case) ==
    Needs(case.effects # Lost,
          CASE case.effects.effects # {} \/ case.effects.start -> "FAIL"
            [] case.effects.effects = {} /\ ~case.effects.start /\ case.answer = "SUBMITTED" ->
                 PassedOrUnsure(case.effects.refused)
            [] OTHER -> Passed(case.answer = "DENIED"))

\* capture_normal_order: request, start and result of a path, in a chain.
Chained(case) == case.effects.start /\ "result" \in case.effects.effects

\* judge_n02_normal_order: an error of a path weighs as much as a refusal.
JudgeNormalOrder(log) ==
    LET cases == ToSet(log.normal)
        blocked == \E case \in cases : case.answer \in {"DENIED", "ERROR"}
    IN  Needs(log.state # Lost,
              CASE log.state.source # "shown" \/ blocked -> "FAIL"
                [] log.state.source = "shown" /\ ~blocked ->
                     Needs(Lost \notin {case.effects : case \in cases},
                           PassedOrUnsure(\A case \in cases : Chained(case))))

BoundaryAssertions(log) ==
    {JudgeBypass(case) : case \in ToSet(log.cases)} \cup {JudgeNormalOrder(log)}

JudgeBoundary == Judge(Aggregate(BoundaryAssertions(seen)))

BoundaryNext ==
    /\ topic = "N-02"
    /\ \/ Pristine \/ SubmitAssessment \/ AttemptPath \/ EquipmentCheckFails \/ ReadEffects
       \/ CommitConsent \/ ConsentState \/ JudgeBoundary \/ TargetActs

-----------------------------------------------------------------------------
\* What a PASS of N-02 claims: nothing without a consent, everything with it.
BoundaryHolds ==
    /\ \A path \in Paths : world.bypass[path].effects = {} /\ ~world.bypass[path].start
    /\ world.consent = "shown" /\ ~world.early
    /\ \A path \in Paths : "result" \in world.normal[path].effects

-----------------------------------------------------------------------------
(* The inductive invariant of a Run of N-02 *)

BoundaryStages == {"pristine", "attempt", "effects", "commit", "state", "judge", "end"}
Effects == {"request", "result"}
PathRows == [effects : SUBSET Effects, start : BOOLEAN, refused : BOOLEAN, queued : BOOLEAN]
Views == [source : {"READ"}, effects : SUBSET Effects, start : BOOLEAN, refused : BOOLEAN]
PathAnswers == {"none", "ACCEPTED", "DENIED", "ERROR", "NO_RESPONSE", "SUBMITTED"}
PathCases == [path : Paths, answer : PathAnswers, effects : Views \cup {Lost}]
BoundaryWorlds ==
    [bypass : [Paths -> PathRows], normal : [Paths -> PathRows],
     consent : {"none", "shown", "other"}, early : BOOLEAN]
BoundaryLog ==
    [lane : {"bypass", "normal"}, cases : Seq(PathCases), answer : PathAnswers,
     reads : Seq(Views \cup {Lost}), count : Nat,
     state : [source : {"none", "shown", "other", "UNAVAILABLE"}], normal : Seq(PathCases),
     clean : BOOLEAN]

BoundaryShape ==
    /\ flaw \in BoundaryFlaws /\ outage \in BoundaryOutages /\ stage \in BoundaryStages
    /\ world \in BoundaryWorlds /\ seen \in BoundaryLog

\* How far the Run is, by the cases it has recorded.
BoundaryOrder ==
    /\ seen.lane = "bypass" =>
         /\ Len(seen.cases) < 3 /\ Len(seen.normal) = 0
         /\ stage \in {"pristine", "attempt", "effects", "end"} /\ seen.state = Lost
    /\ seen.lane = "normal" => Len(seen.cases) = 3 /\ stage # "pristine"
    /\ stage \in {"commit", "state"} => Len(seen.normal) = 0 /\ seen.state = Lost
    /\ stage \in {"attempt", "effects"} => Len(seen.normal) < 3
    /\ stage \in {"attempt", "effects"} /\ seen.lane = "normal" => seen.state.source = "shown"
    /\ stage = "judge" => seen.lane = "normal"
    /\ stage = "judge" /\ seen.state.source = "shown" => Len(seen.normal) = 3

\* What a read of a row shows.
View(row, receipts) ==
    [source |-> "READ", effects |-> row.effects,
     start |-> row.start /\ receipts, refused |-> row.refused /\ receipts]

ShowsUnder(cut, effects, row) ==
    \/ effects = Lost /\ cut = "effects"
    \/ effects = View(row, TRUE)
    \/ effects = View(row, FALSE) /\ cut = "receipts"

Shows(effects, row) == ShowsUnder(outage, effects, row)

\* What was read of a path stays true of it.
CasesFit ==
    /\ \A i \in 1..Len(seen.cases) : Shows(seen.cases[i].effects, world.bypass[Bypass[i]])
    /\ \A i \in 1..Len(seen.normal) : Shows(seen.normal[i].effects, world.normal[Consented[i]])
    /\ seen.state = Lost \/ seen.state.source = world.consent
    /\ world.early => flaw = "early"
    /\ \A path \in {"document", "recording"} :
         ~world.bypass[path].queued /\ ~world.normal[path].queued

\* A sound target does nothing without a consent, and refuses nothing with it.
SoundFits ==
    Sound /\ outage \notin {"transport", "server"} =>
        /\ \A path \in Paths : world.bypass[path].effects = {} /\ ~world.bypass[path].start
        /\ \A path \in {"document", "recording"} : world.bypass[path] = Untouched
        /\ \A i \in 1..Len(seen.cases) :
             seen.cases[i].answer = IF i = 3 THEN "SUBMITTED" ELSE "DENIED"
        /\ \A i \in 1..Len(seen.normal) : seen.normal[i].answer \notin {"DENIED", "ERROR"}
        /\ stage = "effects" /\ seen.lane = "bypass" =>
             seen.answer = IF Len(seen.cases) = 2 THEN "SUBMITTED" ELSE "DENIED"
        /\ stage = "effects" /\ seen.lane = "normal" => seen.answer \notin {"DENIED", "ERROR"}
        /\ seen.lane = "normal" /\ stage # "commit" => world.consent = "shown"

\* The target has still to answer for the path at hand.
Pending(row) == row.queued \/ ("request" \in row.effects /\ ~row.start)

\* The reads of a path change at most once.
ReadsInTurn ==
    Answering /\ stage = "effects" =>
        \E k \in 0..Len(seen.reads) :
            /\ k < StableReads /\ Len(seen.reads) - k < StableReads
            /\ \A i \in (k + 1)..Len(seen.reads) : seen.reads[i] = View(Here, TRUE)
            /\ Pending(Here) => k = 0

\* The deadline leaves time for a path to settle twice.
TimeToSettle == EffectReads >= 2 * StableReads - 2

SlowWorker ==
    ~Last(seen.cases).effects.refused \/ \E case \in ToSet(seen.normal) : ~Chained(case)

BoundaryAnswered ==
    /\ stage = "effects" => seen.count = Len(seen.reads)
    /\ stage \notin {"effects", "end"} => seen.reads = <<>> /\ seen.count = 0
    /\ Answering /\ seen.lane = "normal" /\ stage \notin {"commit", "state"} =>
         seen.state.source = "shown"

BoundaryJudged ==
    IF Ended
    THEN /\ verdict = "PASS" => BoundaryHolds \/ outage = "receipts" \/ flaw = "early"
         /\ verdict = "FAIL" => ~Sound \/ outage \in {"transport", "server"}
         /\ Answering /\ TimeToSettle => verdict = "PASS" \/ SlowWorker
    ELSE verdict = "none"

BoundaryInv ==
    /\ BoundaryShape /\ BoundaryOrder /\ CasesFit /\ SoundFits /\ ReadsInTurn
    /\ BoundaryAnswered /\ BoundaryJudged
=============================================================================
