---------------------------- MODULE ReportVerdicts ----------------------------
(***************************************************************************)
(* What the E-01 and E-02 Runs observe of reports and how they are judged: *)
(* the journeys of engine/executors/e01.py and e02.py read for what they    *)
(* observe, engine/judges/e01.py and e02.py, and adapters/whyyou/            *)
(* report_records.py, evidence_mutation.py and criteria_versions.py.        *)
(*                                                                         *)
(* A stored record and a served report are read apart.  A record read that *)
(* fails is a record of its own: "UNAVAILABLE", with a digest like another. *)
(***************************************************************************)
EXTENDS Assessment

CONSTANT ReportChoices    \* reports of E-02: a configuration, and criteria with their axes

None == -1    \* a score that was not given

\* What a report is made of.  Scores are percentages; a report without a criterion
\* is none (frozen_input_set).
AxisForms == [name : STRING, score : 0..100 \cup {None}, weight : Int, cited : BOOLEAN]
ReportForms ==
    [separated : BOOLEAN, items : Seq([weight : Int, axes : Seq(AxisForms)]) \ {<<>>}]

ASSUME ReportsAssumption == ReportChoices \subseteq ReportForms

Absent == [source |-> "ABSENT"]
Unavailable == [source |-> "UNAVAILABLE"]

\* read_api: an answer that is no report, or none at all.
Broken == [status |-> 503]
NotRead == [status |-> 0]

Records(value) == Reads("records", value, Unavailable)
ServedReads(value) == {value} \cup (IF outage = "api" THEN {Broken, NotRead} ELSE {})

-----------------------------------------------------------------------------
(* engine/judges/e02_scoring.py: the rule the recomputation of E-02 uses.  *)
(* An entry is a score, or None, with its weight.  A normalized weight is  *)
(* a weight over the total of all weights, which the result keeps.         *)

Positive(n) == IF n > 0 THEN n ELSE 0

\* Weights below zero count nothing; when nothing is left, all count the same.
Weights(entries) ==
    LET counted == [i \in DOMAIN entries |-> Positive(entries[i].weight)]
    IN  IF SumFunction(counted) > 0 THEN counted ELSE [i \in DOMAIN entries |-> 1]

\* round(): to the nearest integer, and halves to the even one.
Rounded(n, d) ==
    LET low == n \div d
        twice == 2 * (n % d)
    IN  IF twice > d \/ (twice = d /\ low % 2 = 1) THEN low + 1 ELSE low

\* The mean over the entries at the places given, and what it was made of.
Mean(entries, places) ==
    LET weights == Weights(entries)
        d == SumFunctionOnSet(weights, places)
        n == SumFunction([i \in places |-> weights[i] * entries[i].score])
    IN  [score |-> IF d > 0 THEN Rounded(n, d) ELSE None, numerator |-> n, denominator |-> d,
         total |-> SumFunction(weights)]

\* aggregate: what has no score is excluded, whatever its weight.
AggregateOf(entries) == Mean(entries, {i \in DOMAIN entries : entries[i].score # None})

\* criterion_aggregate: the newer configuration keeps communication apart.
CriterionAggregate(axes, separated) ==
    AggregateOf(RestrictValues(axes, LAMBDA axis : ~(separated /\ axis.name = "communication")))

\* report_aggregate: a criterion without a score is an entry without one.
ReportAggregate(items, separated) ==
    AggregateOf([i \in DOMAIN items |->
        [score |-> CriterionAggregate(items[i].axes, separated).score,
         weight |-> items[i].weight]])

-----------------------------------------------------------------------------
(* E-01: a matrix of citations, and a segment that is removed *)

CitationFlaws ==
    {"none", "stores", "scores", "silent", "drops", "leaks", "hides", "spreads", "crashes",
     "rephrases", "stays", "rewrites"}
CitationOutages == {"none", "late", "emissions", "fixture", "api", "records", "confirm",
                    "restore"}

InvalidModes == {"EMPTY", "NONEXISTENT", "OTHER_APPLICANT", "OTHER_CRITERION"}
Modes == InvalidModes \cup {"VALID"}

\* intended_quoted_ids, and what the fixture really emits.
Intended(mode) == CASE mode = "VALID" -> "own" [] mode = "EMPTY" -> "empty" [] OTHER -> "foreign"
Emitted(mode) == IF outage = "fixture" /\ mode = "NONEXISTENT" THEN "own" ELSE Intended(mode)

Emptied == [scored |-> FALSE, quoted |-> "empty", reason |-> TRUE]

\* The worker's check of a citation, before the axes are stored.
Graded(mode) ==
    LET quoted == Emitted(mode)
        kept == [scored |-> TRUE, quoted |-> quoted, reason |-> TRUE]
    IN  CASE quoted = "own" -> IF flaw = "drops" THEN Emptied ELSE kept
          [] quoted = "foreign" -> IF flaw = "stores" THEN kept
                                   ELSE [Emptied EXCEPT !.reason = flaw # "silent"]
          [] quoted = "empty" -> IF flaw = "scores" THEN kept ELSE Emptied

NoMatrix == [mode \in {} |-> Emptied]

CitationWorld ==
    [matrix |-> NoMatrix, reference |-> 0, segment |-> TRUE, record |-> 0, broken |-> FALSE]

CitationInit ==
    /\ flaw \in CitationFlaws /\ outage \in CitationOutages
    /\ stage = "reference" /\ verdict = "none" /\ world = CitationWorld
    /\ seen = [before |-> Unavailable, after |-> Unavailable, matrix |-> "none",
               emitted |-> FALSE, removal |-> "none", confirmed |-> FALSE,
               preRecord |-> Absent, postRecord |-> Absent, pre |-> NotRead, post |-> NotRead,
               back |-> NotRead]

\* The worker grades the matrix; it may touch the reference applicant's report.
GradesMatrix ==
    /\ stage = "matrix" /\ world.matrix = NoMatrix /\ outage # "late"
    /\ Change([world EXCEPT !.matrix = [mode \in Modes |-> Graded(mode)],
                            !.reference = IF flaw = "leaks" THEN 1 ELSE @])

Stored(digest) == [source |-> "PRESENT", digest |-> digest]

\* What the company API serves of the removal lane: its cited item, and another.
Served ==
    CASE ~world.segment /\ flaw = "crashes" -> Broken
      [] ~world.segment /\ flaw = "hides" -> [status |-> 200, cited |-> "scored", other |-> "same"]
      [] ~world.segment /\ flaw = "rephrases" ->
           [status |-> 200, cited |-> "changed", other |-> "same"]
      [] ~world.segment /\ flaw = "spreads" ->
           [status |-> 200, cited |-> "unsupported", other |-> "changed"]
      [] world.segment /\ world.broken ->
           [status |-> 200, cited |-> "unsupported", other |-> "same"]
      [] world.segment /\ ~world.broken -> [status |-> 200, cited |-> "scored", other |-> "same"]
      [] OTHER -> [status |-> 200, cited |-> "unsupported", other |-> "same"]

\* _citation: the reference report is waited for, and its evidence is quoted next.
ReadReference ==
    \E record \in Records(Stored(world.reference)) :
        Look("reference", [seen EXCEPT !.before = record],
             IF record = Unavailable THEN "baseline" ELSE "matrix")

\* wait_for_report and read_emissions; a matrix that is late has no items.
ReadMatrix ==
    \E matrix \in Reads("records", IF world.matrix = NoMatrix THEN "missing" ELSE "graded",
                        "missing"),
       emitted \in Reads("emissions", TRUE, FALSE) :
        /\ world.matrix # NoMatrix \/ outage = "late"
        /\ Look("matrix", [seen EXCEPT !.matrix = matrix, !.emitted = emitted], "baseline")

\* Without a report on its lane nothing is removed.
SkipRemoval ==
    outage = "late" /\ Look("baseline", seen, "recapture")

CaptureBaseline ==
    /\ stage = "baseline" /\ outage # "late"
    /\ \E record \in Records(Stored(world.record)), read \in ServedReads(Served) :
          Look("baseline", [seen EXCEPT !.preRecord = record, !.pre = read], "remove")

\* remove_segment: the absence is read back on another connection.
RemoveSegment ==
    \E confirmed \in Reads("confirm", TRUE, FALSE) :
        Do("remove",
           [world EXCEPT !.segment = FALSE, !.record = IF flaw = "rewrites" THEN 1 ELSE @],
           [seen EXCEPT !.removal = "APPLIED", !.confirmed = confirmed], "removed")

ReadRemoved ==
    /\ stage = "removed"
    /\ \E read \in ServedReads(Served) : Look("removed", [seen EXCEPT !.post = read], "restore")

RestoreSegment ==
    \E ok \in Reads("restore", TRUE, FALSE) :
        Do("restore",
           IF ok THEN [world EXCEPT !.segment = TRUE, !.broken = flaw = "stays"] ELSE world,
           [seen EXCEPT !.removal = IF ok THEN "RESTORED" ELSE "RESTORE_FAILED"],
           "restored")

VerifyRestored ==
    /\ stage = "restored"
    /\ \E record \in Records(Stored(world.record)), read \in ServedReads(Served) :
          Look("restored", [seen EXCEPT !.postRecord = record, !.back = read], "recapture")

Recapture ==
    \E record \in Records(Stored(world.reference)) :
        Look("recapture", [seen EXCEPT !.after = record], "judge")

\* build_citation_cases: what became of a mode.
Outcome(mode) ==
    LET item == world.matrix[mode]
    IN  IF mode = "VALID"
        THEN IF item.scored /\ item.quoted = "own" THEN "STORED_VALID" ELSE "EMPTIED"
        ELSE IF item.scored \/ item.quoted = "foreign" THEN "STORED_INVALID" ELSE "EMPTIED"

\* _receipt_problem and the problem of reading the receipts at all.
Proven(log, mode) == log.emitted /\ Emitted(mode) = Intended(mode)

ReferenceRead(log) == Unavailable \notin {log.before, log.after}

\* E01-A1
InvalidEmptied(log) ==
    IF \/ /\ log.matrix = "graded"
          /\ \E mode \in InvalidModes :
                Outcome(mode) = "STORED_INVALID" \/ ~world.matrix[mode].reason
       \/ log.matrix # "none" /\ ReferenceRead(log) /\ log.before # log.after
    THEN "FAIL"
    ELSE PassedOrUnsure(/\ log.matrix = "graded" /\ ReferenceRead(log)
                        /\ \A mode \in InvalidModes : Proven(log, mode))

\* E01-A2
ValidStored(log) ==
    IF log.matrix # "graded" THEN "INCONCLUSIVE"
    ELSE IF Outcome("VALID") # "STORED_VALID" THEN "FAIL"
    ELSE PassedOrUnsure(Proven(log, "VALID"))

\* E01-A3
RemovalShown(log) ==
    Needs(log.confirmed /\ log.pre.status = 200 /\ log.post # NotRead,
          CASE log.post = Broken -> "FAIL"
            [] log.post.status = 200 ->
                 IF log.post.cited = log.pre.cited \/ log.post.other # log.pre.other
                 THEN "FAIL" ELSE PassedOrUnsure(log.post.cited = "unsupported"))

\* E01-A4: the records are compared by digest, read or not.
ReportIsBack(log) ==
    Needs(log.removal = "RESTORED" /\ NotRead \notin {log.pre, log.back},
          Passed(log.pre = log.back /\ log.preRecord = log.postRecord))

\* judge_spec004_run puts a failed restore before every assertion.
CitationVerdict(log) ==
    Needs(log.removal # "RESTORE_FAILED",
          Aggregate({InvalidEmptied(log), ValidStored(log), RemovalShown(log),
                     ReportIsBack(log)}))

JudgeCitation == Judge(CitationVerdict(seen))

CitationNext ==
    /\ topic = "E-01"
    /\ \/ GradesMatrix \/ ReadReference \/ ReadMatrix \/ CaptureBaseline \/ SkipRemoval
       \/ RemoveSegment \/ ReadRemoved \/ RestoreSegment \/ VerifyRestored \/ Recapture \/ JudgeCitation

-----------------------------------------------------------------------------
(* E-02: a report is made, the criteria change, another is made *)

FreezeFlaws ==
    {"none", "rewrites", "binds-old", "loses-inputs", "truncates", "serves-stale", "averages-all"}
FreezeOutages == {"none", "late", "api", "records", "publish"}

\* The average of every item; a served item drops an axis that has a score but no citation.
Readable(axes) == RestrictValues(axes, LAMBDA axis : axis.score = None \/ axis.cited)

Averages(report, all) ==
    [i \in DOMAIN report.items |->
        LET axes == report.items[i].axes
        IN  CriterionAggregate(IF all THEN axes ELSE Readable(axes), report.separated).score]

NoInputs == [score |-> None, numerator |-> 0, denominator |-> 0, total |-> 0]

\* The report as the target stores it, with the version it was made under.
Report(version, report) ==
    LET made == ReportAggregate(report.items, report.separated)
        overall == IF flaw = "truncates" /\ made.denominator > 0
                   THEN made.numerator \div made.denominator ELSE made.score
    IN  [source |-> "PRESENT", version |-> version, report |-> report,
         inputs |-> IF flaw = "loses-inputs" THEN NoInputs ELSE made, overall |-> overall]

ServedReport(record) ==
    [status |-> 200,
     overall |-> IF flaw = "serves-stale" THEN record.overall + 1 ELSE record.overall,
     breakdown |-> record.inputs,
     averages |-> Averages(record.report, flaw = "averages-all")]

FreezeInit ==
    /\ flaw \in FreezeFlaws /\ outage \in FreezeOutages
    /\ stage = "v1" /\ verdict = "none"
    /\ \E report \in ReportChoices :
          world = [published |-> 0, report |-> report, first |-> Absent, second |-> Absent,
                   asked |-> "none"]
    /\ seen = [v1 |-> 0, v2 |-> 0, preRecord |-> Absent, postRecord |-> Absent,
               second |-> Absent, pre |-> NotRead, post |-> NotRead, secondRead |-> NotRead]

\* The worker makes the report of an applicant, under the latest version.
MakesReport ==
    /\ world.asked # "none" /\ outage # "late"
    /\ LET version == IF flaw = "binds-old" THEN 1 ELSE world.published
       IN  Change([world EXCEPT ![world.asked] = Report(version, world.report), !.asked = "none"])

\* request_report: the applicant whose report is asked for under a version.
Asked(version) == IF version = 1 THEN "first" ELSE "second"

\* create_version, publish_version and latest_published; the weights are new, and
\* a version that cannot be published stops the journey.
Publish(from, version, field, next) ==
    \E done \in Reads("publish", TRUE, FALSE) :
        IF done
        THEN Do(from,
                [world EXCEPT !.published = version,
                     !.first = IF flaw = "rewrites" /\ @ # Absent THEN Report(version, @.report)
                               ELSE @,
                     !.asked = Asked(version)],
                [seen EXCEPT ![field] = version], next)
        ELSE Look(from, seen, "judge")

\* wait_for_report and stable_records; the deadline may pass without a report.
Wait(from, lane, field, next) ==
    /\ stage = from /\ (world[lane] # Absent \/ outage = "late")
    /\ \E record \in Records(world[lane]) : Look(from, [seen EXCEPT ![field] = record], next)

\* read_api
Serve(from, lane, field, next) ==
    /\ stage = from
    /\ \E read \in ServedReads(IF world[lane] = Absent THEN Broken ELSE ServedReport(world[lane])) :
          Look(from, [seen EXCEPT ![field] = read], next)

\* frozen_input_set
Frozen(record, version) ==
    record.source = "PRESENT" /\ record.version = version /\ record.inputs # NoInputs

\* E02-A1
FirstFrozen(log) ==
    Needs(log.v1 = 1 /\ log.preRecord.source = "PRESENT", Passed(Frozen(log.preRecord, 1)))

BothPresent(log) == log.preRecord.source = "PRESENT" /\ log.postRecord.source = "PRESENT"

\* E02-A2: the record and the served report, before and after.
FirstUnchanged(log) ==
    Needs(/\ log.v2 = 2 /\ log.second.source = "PRESENT" /\ log.second.version = 2
          /\ BothPresent(log) /\ NotRead \notin {log.pre, log.post},
          Passed(log.preRecord = log.postRecord /\ log.pre = log.post))

\* recompute: the stored and the served values against the rule.
Recomputes(record, read) ==
    LET computed == ReportAggregate(record.report.items, record.report.separated)
    IN  /\ {record.overall, read.overall} = {computed.score}
        /\ {record.inputs, read.breakdown} = {computed}
        /\ read.averages = Averages(record.report, FALSE)

Recomputable(record, read) == record.source = "PRESENT" /\ read.status = 200

\* E02-A3
ScoresRecompute(log) ==
    Needs(Recomputable(log.postRecord, log.post) /\ Recomputable(log.second, log.secondRead),
          Passed(/\ Recomputes(log.postRecord, log.post)
                 /\ Recomputes(log.second, log.secondRead)))

JudgeFreeze ==
    Judge(Aggregate({FirstFrozen(seen), FirstUnchanged(seen), ScoresRecompute(seen)}))

FreezeNext ==
    /\ topic = "E-02"
    /\ \/ MakesReport \/ Publish("v1", 1, "v1", "first") \/ Publish("v2", 2, "v2", "second")
       \/ Wait("first", "first", "preRecord", "first-read")
       \/ Serve("first-read", "first", "pre", "v2")
       \/ Wait("second", "second", "second", "second-read")
       \/ Serve("second-read", "second", "secondRead", "post")
       \/ Wait("post", "first", "postRecord", "post-read")
       \/ Serve("post-read", "first", "post", "judge")
       \/ JudgeFreeze

-----------------------------------------------------------------------------
(* The inductive invariant of a Run of E-01 *)

AllGraded == [mode \in Modes |-> Graded(mode)]
Intact == [status |-> 200, cited |-> "scored", other |-> "same"]
Citings == [status : {200}, cited : {"scored", "changed", "unsupported"}, other : {"same", "changed"}]
Servings == Citings \cup {Broken, NotRead}
Digests == {Absent, Unavailable, Stored(0), Stored(1)}

CitationStages == {"reference", "matrix", "baseline", "remove", "removed", "restore", "restored",
                   "recapture", "judge", "end"}

CitationRank == [name \in CitationStages |->
    CASE name = "reference" -> 1 [] name = "matrix" -> 2 [] name = "baseline" -> 3
      [] name = "remove" -> 4 [] name = "removed" -> 5 [] name = "restore" -> 6
      [] name = "restored" -> 7 [] name = "recapture" -> 8 [] name = "judge" -> 9
      [] name = "end" -> 10]

From(name) == CitationRank[stage] >= CitationRank[name]

CitationLog == [before : Digests, after : Digests, matrix : {"none", "missing", "graded"},
                emitted : BOOLEAN, removal : {"none", "APPLIED", "RESTORED", "RESTORE_FAILED"},
                confirmed : BOOLEAN, preRecord : Digests, postRecord : Digests,
                pre : Servings, post : Servings, back : Servings]

CitationTargets == [matrix : {NoMatrix, AllGraded}, reference : {0, 1}, segment : BOOLEAN,
                    record : {0, 1}, broken : BOOLEAN]

CitationShape ==
    /\ flaw \in CitationFlaws /\ outage \in CitationOutages /\ stage \in CitationStages
    /\ world \in CitationTargets /\ seen \in CitationLog

\* The digest of the removal lane once its segment was removed.
Rewritten == IF flaw = "rewrites" THEN 1 ELSE 0

\* The target: only the grading touches the reference, only the removal the record.
LanesFit ==
    /\ world.reference = (IF flaw = "leaks" /\ world.matrix # NoMatrix THEN 1 ELSE 0)
    /\ ~From("matrix") => world.matrix = NoMatrix
    /\ ~From("removed") => world.segment /\ world.record = 0 /\ ~world.broken
    /\ stage \in {"removed", "restore"} => ~world.segment
    /\ stage \in {"removed", "restore", "restored"} => world.record = Rewritten
    /\ stage = "restored" /\ seen.removal = "RESTORED" =>
         world.segment /\ world.broken = (flaw = "stays")

\* What is served of the removal lane without its segment, and with it again.
WithoutSegment ==
    CASE flaw = "crashes" -> Broken
      [] flaw = "hides" -> Intact
      [] flaw = "rephrases" -> [Intact EXCEPT !.cited = "changed"]
      [] flaw = "spreads" -> [status |-> 200, cited |-> "unsupported", other |-> "changed"]
      [] OTHER -> [Intact EXCEPT !.cited = "unsupported"]

SegmentBack == IF flaw = "stays" THEN [Intact EXCEPT !.cited = "unsupported"] ELSE Intact

\* A read that is answered, unless the outage is about what is served.
Answered(read, value) == read = value \/ (outage = "api" /\ read = Broken)

\* What was read is what the target held then.
CitationFits ==
    /\ seen.before \in {Unavailable, Stored(0)}
    /\ seen.after \in {Unavailable, Stored(world.reference)}
    /\ ~From("judge") => seen.after = Unavailable
    /\ seen.matrix = "graded" => world.matrix # NoMatrix
    /\ seen.preRecord \in {Absent, Unavailable, Stored(0)}
    /\ seen.postRecord \in {Absent, Unavailable, Stored(Rewritten)}
    /\ outage # "records" => Unavailable \notin {seen.preRecord, seen.postRecord}
    /\ ~From("remove") => seen.preRecord = Absent
    /\ ~From("recapture") => seen.postRecord = Absent /\ seen.back = NotRead
    /\ ~From("restored") => seen.removal # "RESTORED"
    /\ seen.removal = "RESTORED" /\ From("recapture") => Absent \notin {seen.preRecord, seen.postRecord}
    /\ stage \in {"remove", "removed", "restore", "restored"} => Absent # seen.preRecord
    /\ seen.pre \in {NotRead, Broken, Intact}
    /\ seen.post # NotRead => Answered(seen.post, WithoutSegment)
    /\ seen.removal = "RESTORED" /\ seen.back # NotRead => Answered(seen.back, SegmentBack)
    /\ outage # "api" => seen.pre # Broken

\* What has been read when nothing is lost.
CitationReads ==
    Answering =>
    /\ From("matrix") => seen.before # Unavailable
    /\ From("baseline") => seen.matrix = "graded" /\ seen.emitted
    /\ From("remove") => seen.pre = Intact
    /\ From("removed") => seen.confirmed
    /\ From("restore") => seen.post # NotRead
    /\ From("restored") => seen.removal = "RESTORED"
    /\ From("recapture") => seen.back # NotRead
    /\ From("judge") => seen.after # Unavailable

CitationJudged ==
    /\ ~Ended => verdict = "none"
    /\ verdict = "PASS" => Sound \/ outage = "records"
    /\ verdict = "FAIL" => ~Sound \/ outage \in {"fixture", "api", "records"}
    /\ Ended /\ Answering => verdict = "PASS"

CitationInv == CitationShape /\ LanesFit /\ CitationFits /\ CitationReads /\ CitationJudged

-----------------------------------------------------------------------------
\* What counts of an entry of a mean: those that have a score, by their weights, or
\* all alike if no weight is positive.
Given(items) == {i \in DOMAIN items : items[i].score # None}
WeightOf(items, i) ==
    IF \A j \in DOMAIN items : items[j].weight <= 0 THEN 1
    ELSE IF items[i].weight < 0 THEN 0 ELSE items[i].weight

\* How far a score is from a mean of n over d, and the scores that are nearest.
Off(n, d, k) == IF k * d > n THEN k * d - n ELSE n - k * d
Nearest(n, d) == {k \in 0..100 : \A other \in 0..100 : Off(n, d, k) <= Off(n, d, other)}

\* The integer nearest to a weighted mean, and the even one of two.
NearestMean(items) ==
    LET d == SumFunction([i \in Given(items) |-> WeightOf(items, i)])
        n == SumFunction([i \in Given(items) |-> WeightOf(items, i) * items[i].score])
    IN  IF d = 0 THEN None
        ELSE CHOOSE k \in Nearest(n, d) : Cardinality(Nearest(n, d)) = 1 \/ k % 2 = 0

NearestScore(report) ==
    NearestMean([i \in DOMAIN report.items |->
        [score |-> NearestMean(RestrictValues(report.items[i].axes, LAMBDA axis :
                       ~(report.separated /\ axis.name = "communication"))),
         weight |-> report.items[i].weight]])

\* What a PASS of E-02 claims: each report was scored by the rule of its version,
\* and the first one kept its score when the second version came.
FreezeHolds ==
    /\ Sound \/ flaw \in {"averages-all", "truncates"}
    /\ {world.first.overall, world.second.overall} = {NearestScore(world.report)}
    /\ world.first.version = 1 /\ world.second.version = 2

-----------------------------------------------------------------------------
(* The inductive invariant of a Run of E-02 *)

FreezeStages == {"v1", "first", "first-read", "v2", "second", "second-read", "post",
                 "post-read", "judge", "end"}

\* The reports of a target: the first, what the second version makes of it, the second.
FirstReport == Report(1, world.report)
FirstAfter == Report(IF flaw = "rewrites" THEN 2 ELSE 1, world.report)
SecondReport == Report(IF flaw = "binds-old" THEN 1 ELSE 2, world.report)
FirstServed == ServedReport(FirstReport)
AfterServed == ServedReport(FirstAfter)
SecondServed == ServedReport(SecondReport)

FreezeShape ==
    /\ flaw \in FreezeFlaws /\ outage \in FreezeOutages /\ stage \in FreezeStages
    /\ world.report \in ReportForms
    /\ world = [published |-> world.published, report |-> world.report, first |-> world.first,
                second |-> world.second, asked |-> world.asked]
    /\ seen = [v1 |-> seen.v1, v2 |-> seen.v2, preRecord |-> seen.preRecord,
               postRecord |-> seen.postRecord, second |-> seen.second, pre |-> seen.pre,
               post |-> seen.post, secondRead |-> seen.secondRead]

\* A report is waited for before the next version, so it is made under its own.
ReportsFit ==
    /\ outage = "late" => world.first = Absent /\ world.second = Absent
    /\ outage # "late" =>
         /\ stage = "v1" => world.published = 0 /\ world.asked = "none" /\ world.first = Absent
         /\ stage = "first" =>
              /\ world.published = 1
              /\ \/ world.asked = "first" /\ world.first = Absent
                 \/ world.asked = "none" /\ world.first = FirstReport
         /\ stage \in {"first-read", "v2"} => world.asked = "none" /\ world.first = FirstReport
         /\ stage \in {"v1", "first", "first-read", "v2"} => world.second = Absent
         /\ stage = "second" =>
              /\ world.published = 2 /\ world.first = FirstAfter
              /\ \/ world.asked = "second" /\ world.second = Absent
                 \/ world.asked = "none" /\ world.second = SecondReport
         /\ stage \in {"second-read", "post", "post-read"} =>
              world.asked = "none" /\ world.first = FirstAfter /\ world.second = SecondReport
         /\ stage \in {"judge", "end"} =>
              /\ world.asked = "none"
              /\ seen.v2 = 2 => world.first = FirstAfter /\ world.second = SecondReport

\* A record was read as it is stored, and served as it is computed from it.
RecordFits(read, record) ==
    read \in {Absent, Unavailable} \/ (read = record /\ outage # "late")
ReadFits(read, served) ==
    \/ read = NotRead \/ read = served
    \/ read = Broken /\ outage \in {"late", "api"}

RecordsFit ==
    /\ seen.v1 \in {0, 1} /\ seen.v2 \in {0, 2}
    /\ stage \in {"v1", "first", "first-read", "v2"} => seen.v2 = 0
    /\ RecordFits(seen.preRecord, FirstReport) /\ RecordFits(seen.postRecord, FirstAfter)
    /\ RecordFits(seen.second, SecondReport)
    /\ ReadFits(seen.pre, FirstServed) /\ ReadFits(seen.post, AfterServed)
    /\ ReadFits(seen.secondRead, SecondServed)

\* Nothing is missing when every source answers.
AllAreRead ==
    Answering =>
        /\ stage # "v1" => seen.v1 = 1
        /\ stage \notin {"v1", "first"} => seen.preRecord = FirstReport
        /\ stage \notin {"v1", "first", "first-read"} => seen.pre = FirstServed
        /\ stage \notin {"v1", "first", "first-read", "v2"} => seen.v2 = 2
        /\ stage \in {"second-read", "post", "post-read", "judge", "end"} =>
             seen.second = SecondReport
        /\ stage \in {"post", "post-read", "judge", "end"} => seen.secondRead = SecondServed
        /\ stage \in {"post-read", "judge", "end"} => seen.postRecord = FirstAfter
        /\ stage \in {"judge", "end"} => seen.post = AfterServed

FreezeJudged ==
    IF Ended
    THEN /\ verdict = "PASS" => FreezeHolds
         /\ verdict = "FAIL" => ~Sound \/ outage = "api"
         /\ Answering => verdict = "PASS"
    ELSE verdict = "none"

FreezeInv == FreezeShape /\ ReportsFit /\ RecordsFit /\ AllAreRead /\ FreezeJudged
=============================================================================
