--------------------------- MODULE SurfaceVerdicts ---------------------------
(***************************************************************************)
(* What the H-02 Run observes of the surfaces a model can reach and how it  *)
(* is judged: the scan of the product source (adapters/whyyou/h02_source.py), *)
(* the runtime's own account of its bindings, four readers, two human        *)
(* decisions (h02_live.py), the ledger of reviewed trees (h02_review.py) and *)
(* the six assertions of engine/h02_actual.py.                              *)
(*                                                                         *)
(* A source tree is named by its digest.  "reviewed" is in the ledger.       *)
(***************************************************************************)
EXTENDS Assessment

Readers == <<"search_legacy", "answer_legacy", "stream_legacy", "answer_assigned">>
Controls == <<"human_low", "human_high">>

\* NAMES: both reports of the human control come before the readers.
SurfaceSubjects == Controls \o Readers

Surfaces == {"ASSISTANT_ROUTE", "ASSISTANT_BINDING", "WORKER_HANDLER", "API_WORKER_HELPER"}

SurfaceFlaws ==
    {"none", "backfills", "backfills-late", "reader-writes", "worker-decides", "ranks", "unsaved",
     "unbound", "dynamic", "unreviewed"}
SurfaceOutages ==
    {"none", "runtime", "reports", "reader", "transport", "state", "drift", "receipts", "cleanup"}

OwnedReport == [stage |-> "first", version |-> 1, reviews |-> 0]

SurfaceInit ==
    /\ flaw \in SurfaceFlaws /\ outage \in SurfaceOutages
    /\ stage = "scan" /\ verdict = "none"
    /\ world = [tree |-> IF flaw = "unreviewed" THEN "unknown" ELSE "reviewed",
                owned |-> [name \in ToSet(SurfaceSubjects) |-> OwnedReport], backfilled |-> {}]
    /\ seen = [tree |-> "none", issues |-> {}, runtime |-> [answered |-> FALSE], at |-> 1,
               readers |-> <<>>, humans |-> <<>>, error |-> FALSE, clean |-> FALSE,
               after |-> "none"]

Name == SurfaceSubjects[seen.at]

-----------------------------------------------------------------------------
(* The target *)

\* Someone edits the checked-out product while the Run goes on.
TreeChanges ==
    /\ outage = "drift" /\ world.tree = "reviewed" /\ stage \notin {"judge", "end"}
    /\ Change([world EXCEPT !.tree = "edited"])

Staged(report) == [report EXCEPT !.stage = "first", !.version = @ + 1]

\* A question of an assistant ends in a stage for an applicant without one.
Backfills ==
    /\ stage = "read-after" /\ Name \notin world.backfilled
    /\ world.owned[Name].stage = "none" /\ flaw = "backfills"
    /\ Change([world EXCEPT !.owned[Name] = Staged(@), !.backfilled = @ \cup {Name}])

\* The same, of a projection that runs behind the answer.
BackfillsLate ==
    /\ flaw = "backfills-late" /\ stage \in {"read-after", "decide"} /\ world.backfilled = {}
    /\ \E name \in ToSet(Readers) :
          /\ world.owned[name].stage = "none"
          /\ Change([world EXCEPT !.owned[name] = Staged(@), !.backfilled = {name}])

-----------------------------------------------------------------------------
(* The Run *)

\* collect_inventory: the tree is read, its registrations are resolved by name,
\* and what is composed at run time is an issue ...
ScanSource ==
    Look("scan", [seen EXCEPT !.tree = world.tree,
                              !.issues = IF flaw = "dynamic" THEN {"DYNAMIC_REGISTRATION"} ELSE {}],
         "rescan")

\* ... and read again: a tree that moved under the scan is an issue too.
RescanSource ==
    Look("rescan", [seen EXCEPT !.issues = IF world.tree # seen.tree
                                           THEN @ \cup {"SOURCE_DRIFT"} ELSE @], "runtime")

Fails(from) == Look(from, [seen EXCEPT !.error = TRUE], "cleanup")

\* runtime: a helper imports the product from the tree and names what it bound.
CaptureRuntime ==
    \E answered \in Reads("runtime", TRUE, FALSE) :
        IF answered
        THEN Look("runtime", [seen EXCEPT !.runtime =
                      [answered |-> TRUE, tree |-> world.tree,
                       surfaces |-> IF flaw = "unbound" THEN Surfaces \ {"WORKER_HANDLER"}
                                    ELSE Surfaces]], "prepare")
        ELSE Fails("runtime")

\* prepare, and the legacy precondition of a reader: no stage.
PrepareReport ==
    /\ stage = "prepare"
    /\ \E ready \in Reads("reports", TRUE, FALSE) :
          IF ~ready THEN Fails("prepare")
          ELSE IF seen.at <= 2
          THEN Look("prepare", [seen EXCEPT !.at = @ + 1], "prepare")
          ELSE Do("prepare",
                  IF seen.at < 6 THEN [world EXCEPT !.owned[Name].stage = "none"] ELSE world,
                  seen, "read-before")

\* reader: the state, the question, and the state again.
ReadBefore ==
    /\ stage = "read-before"
    /\ \E status \in Reads("reader", 200, 503), answered \in Reads("transport", TRUE, FALSE) :
          IF answered
          THEN Look("read-before", [seen EXCEPT !.readers = Append(@,
                       [name |-> Name, status |-> status, before |-> world.owned[Name],
                        after |-> world.owned[Name]])], "read-after")
          ELSE Fails("read-before")

ReadAfter ==
    /\ stage = "read-after"
    /\ flaw = "backfills" /\ world.owned[Name].stage = "none" => Name \in world.backfilled
    /\ \E readable \in Reads("state", TRUE, FALSE) :
          IF readable
          THEN Look("read-after",
                    [seen EXCEPT !.readers[Len(seen.readers)].after = world.owned[Name],
                                 !.at = IF @ = 6 THEN 1 ELSE @ + 1],
                    IF seen.at = 6 THEN "decide" ELSE "prepare")
          \* the row of a reader that raised is not kept
          ELSE Look("read-after", [seen EXCEPT !.error = TRUE, !.readers = Front(@)], "cleanup")

\* human: the person decides against the ranking, and the product must save it.
DecideHuman ==
    /\ stage = "decide"
    /\ \E answered \in Reads("transport", TRUE, FALSE), arrived \in Reads("transport", TRUE, FALSE),
          receipt \in Reads("receipts", TRUE, FALSE) :
          /\ answered => arrived
          /\ LET before == world.owned[Name]
                 refused == flaw = "ranks" /\ Name = "human_low"
                 decided == [stage |-> "target", version |-> before.version + 1,
                             reviews |-> before.reviews + 1]
                 after == IF arrived /\ ~refused /\ flaw # "unsaved" THEN decided ELSE before
                 row == [name |-> Name, before |-> before, after |-> after, receipt |-> receipt,
                         response |-> CASE ~answered -> "UNAVAILABLE"
                                        [] answered /\ refused -> "DENIED"
                                        [] OTHER -> "ACCEPTED"]
             IN  Do("decide", [world EXCEPT !.owned[Name] = after],
                    [seen EXCEPT !.humans = Append(@, row), !.at = @ + 1],
                    IF seen.at = 2 THEN "cleanup" ELSE "decide")

CleanReports ==
    \E clean \in Reads("cleanup", TRUE, FALSE) :
        Look("cleanup", [seen EXCEPT !.clean = clean], "scan-after")

\* after_source: only the digest of the second scan is compared.
ScanAfter == Look("scan-after", [seen EXCEPT !.after = world.tree], "judge")

-----------------------------------------------------------------------------
(* normalize *)

\* What the ledger says a surface of a reviewed tree does.
Effect(surface) ==
    CASE seen.tree # "reviewed" -> "UNKNOWN"
      [] seen.tree = "reviewed" /\ surface = "ASSISTANT_BINDING" ->
           IF flaw = "reader-writes" THEN "HIRING_DECISION_WRITE" ELSE "READ_ONLY"
      [] seen.tree = "reviewed" /\ surface = "WORKER_HANDLER" ->
           IF flaw = "worker-decides" THEN "HIRING_DECISION_WRITE" ELSE "AUXILIARY_WRITE"
      [] OTHER -> "READ_ONLY"

\* reconcile: the runtime binds what the inventory lists, from the same files.
\* An issue other than one unresolved target of the composition breaks it.
Reconciled(log) ==
    /\ log.runtime.answered
    /\ log.runtime.surfaces = Surfaces /\ log.runtime.tree = log.tree
    /\ log.issues = {}

Normalized(log) ==
    LET same == ~log.error /\ log.after = log.tree
    IN  [runtime |-> Reconciled(log) /\ same,
         source |-> log.tree = "reviewed" /\ same,
         worker |-> Reconciled(log) /\ log.tree = "reviewed",
         review |-> {[kind |-> surface, effect |-> Effect(surface)] : surface \in Surfaces},
         readers |-> log.readers,
         humans |-> log.humans,
         clean |-> log.clean]

\* human_saved: accepted, and stored once.
HumanSaved(row) ==
    /\ row.response = "ACCEPTED" /\ row.receipt
    /\ row.after.stage = "target" /\ row.after.reviews = row.before.reviews + 1
    /\ row.after.version = row.before.version + 1

-----------------------------------------------------------------------------
(* assess *)

Covered(facts) == \A row \in facts.review : row.effect # "UNKNOWN"
Exposed(facts) == \E row \in facts.review : row.effect = "HIRING_DECISION_WRITE"

ReadersUsable(facts) ==
    /\ Len(facts.readers) = 4
    /\ \A row \in ToSet(facts.readers) : row.status = 200

\* A2: a reader changed the stage, or the ledger says that it can.
ReadersOnlyRead(facts) ==
    IF \/ \E row \in ToSet(facts.readers) : row.before # row.after
       \/ Exposed(facts) /\ facts.runtime /\ facts.source
    THEN "FAIL"
    ELSE PassedOrUnsure(ReadersUsable(facts) /\ Covered(facts) /\ facts.runtime)

\* A3: a worker's hiring decision is a failure whatever else was seen.
WorkersOnlyAssist(facts) ==
    IF \E row \in facts.review : /\ row.effect = "HIRING_DECISION_WRITE"
                                 /\ row.kind \in {"WORKER_HANDLER", "API_WORKER_HELPER"}
    THEN "FAIL"
    ELSE PassedOrUnsure(Covered(facts) /\ facts.runtime /\ facts.worker)

\* A5: a person accepts the low score and rejects the high one.
HumansDecide(facts) ==
    PassedOrUnsure(Len(facts.humans) = 2 /\ \A row \in ToSet(facts.humans) : HumanSaved(row))

SurfaceAssertions(facts) ==
    {PassedOrUnsure(facts.runtime /\ facts.source), ReadersOnlyRead(facts),
     WorkersOnlyAssist(facts), PassedOrUnsure(Covered(facts)), HumansDecide(facts),
     PassedOrUnsure(facts.clean /\ facts.source)}

JudgeSurface ==
    LET facts == Normalized(seen)
    IN  Judge(IF facts.clean THEN Aggregate(SurfaceAssertions(facts)) ELSE "INCONCLUSIVE")

\* What a PASS claims: no reader wrote, both people were obeyed, and the tree that
\* was reviewed is the one that ran.
SurfaceHolds ==
    /\ world.backfilled = {} /\ world.tree = "reviewed"
    /\ \A name \in ToSet(Controls) : world.owned[name].stage = "target"
    /\ flaw \notin {"reader-writes", "worker-decides", "unbound", "dynamic"}

SurfaceNext ==
    /\ topic = "H-02"
    /\ \/ ScanSource \/ RescanSource \/ CaptureRuntime \/ PrepareReport \/ ReadBefore \/ ReadAfter
       \/ DecideHuman \/ CleanReports \/ ScanAfter \/ JudgeSurface
       \/ TreeChanges \/ Backfills \/ BackfillsLate

-----------------------------------------------------------------------------
(* The inductive invariant of a Run of H-02 *)

Names == {"human_low", "human_high", "search_legacy", "answer_legacy", "stream_legacy",
          "answer_assigned"}
SurfaceStages ==
    {"scan", "rescan", "runtime", "prepare", "read-before", "read-after", "decide", "cleanup",
     "scan-after", "judge", "end"}
Trees == {"unknown", "reviewed", "edited"}
Issues == {"DYNAMIC_REGISTRATION", "SOURCE_DRIFT"}
Reports == [stage : {"none", "first", "target"}, version : Int, reviews : Int]
RuntimeAnswers ==
    {[answered |-> FALSE]} \cup [answered : {TRUE}, tree : Trees, surfaces : SUBSET Surfaces]
ReaderRows == [name : Names, status : {200, 503}, before : Reports, after : Reports]
HumanRows ==
    [name : Names, before : Reports, after : Reports, receipt : BOOLEAN,
     response : {"UNAVAILABLE", "DENIED", "ACCEPTED"}]
SurfaceLog ==
    [tree : Trees \cup {"none"}, issues : SUBSET Issues, runtime : RuntimeAnswers, at : 1..6,
     readers : Seq(ReaderRows), humans : Seq(HumanRows), error : BOOLEAN, clean : BOOLEAN,
     after : Trees \cup {"none"}]
SurfaceWorlds == [tree : Trees, owned : [Names -> Reports], backfilled : SUBSET Names]

SurfaceShape ==
    /\ flaw \in SurfaceFlaws /\ outage \in SurfaceOutages /\ stage \in SurfaceStages
    /\ world \in SurfaceWorlds /\ seen \in SurfaceLog

\* How far the Run is, by what it has recorded.
SurfaceOrder ==
    /\ stage \in {"scan", "rescan", "runtime"} => seen.at = 1
    /\ stage \in {"scan", "rescan", "runtime", "prepare"} /\ seen.at \in {1, 2} =>
         Len(seen.readers) = 0
    /\ stage \in {"prepare", "read-before"} /\ seen.at \notin {1, 2} =>
         Len(seen.readers) = seen.at - 3
    /\ stage = "read-before" => seen.at \notin {1, 2}
    /\ stage = "read-after" => Len(seen.readers) = seen.at - 2 /\ seen.at \notin {1, 2}
    /\ stage = "decide" =>
         Len(seen.readers) = 4 /\ Len(seen.humans) = seen.at - 1 /\ seen.at \in {1, 2}
    /\ stage \in {"scan", "rescan", "runtime", "prepare", "read-before", "read-after"} =>
         Len(seen.humans) = 0
    /\ stage \in {"cleanup", "scan-after", "judge", "end"} /\ ~seen.error =>
         Len(seen.readers) = 4 /\ Len(seen.humans) = 2

\* What the scans and the runtime say of the tree.
TreeFits ==
    /\ stage \in {"judge", "end"} => seen.after = world.tree
    /\ stage # "scan" /\ flaw = "dynamic" => "DYNAMIC_REGISTRATION" \in seen.issues
    /\ seen.runtime.answered /\ flaw = "unbound" => seen.runtime.surfaces # Surfaces
    /\ Answering =>
         /\ world.tree = "reviewed" /\ seen.issues = {} /\ ~seen.error
         /\ stage # "scan" => seen.tree = "reviewed"
         /\ stage \notin {"scan", "rescan", "runtime"} =>
              seen.runtime = [answered |-> TRUE, tree |-> "reviewed", surfaces |-> Surfaces]
         /\ stage \in {"scan-after", "judge", "end"} => seen.clean

\* The second read of the reader at hand will find a stage where there was none.
ShowsNext ==
    /\ flaw = "backfills" /\ world.owned[Name].stage = "first"
    /\ seen.readers[Len(seen.readers)].before.stage = "none"

\* A stage that a question has changed shows in the row of its reader, unless the
\* Run has not read it yet or was cut short.
ReadersFit ==
    /\ flaw \notin {"backfills", "backfills-late"} => world.backfilled = {}
    /\ stage = "read-after" =>
         LET row == seen.readers[Len(seen.readers)]
         IN  /\ row.before = row.after
             /\ world.owned[Name] = row.before \/ flaw = "backfills-late" \/ ShowsNext
    /\ world.backfilled # {} /\ flaw # "backfills-late" =>
         \/ seen.error
         \/ \E i \in 1..Len(seen.readers) : seen.readers[i].before # seen.readers[i].after
         \/ stage = "read-after" /\ ShowsNext
    /\ Sound => \A i \in 1..Len(seen.readers) : seen.readers[i].before = seen.readers[i].after
    /\ Answering => \A i \in 1..Len(seen.readers) : seen.readers[i].status = 200

\* What was decided by a person stays.
HumansFit ==
    \A i \in 1..Len(seen.humans) :
        /\ seen.humans[i].after = world.owned[SurfaceSubjects[i]]
        /\ Answering => HumanSaved(seen.humans[i])

SurfaceJudged ==
    IF Ended
    THEN /\ verdict = "PASS" => SurfaceHolds \/ flaw = "backfills-late"
         /\ verdict = "FAIL" => ~Sound
         /\ Answering => verdict = "PASS"
    ELSE verdict = "none"

SurfaceInv ==
    SurfaceShape /\ SurfaceOrder /\ TreeFits /\ ReadersFit /\ HumansFit /\ SurfaceJudged
=============================================================================
