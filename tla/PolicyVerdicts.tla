--------------------------- MODULE PolicyVerdicts ---------------------------
(***************************************************************************)
(* What the N-01 and N-03 Runs observe of consent policies and how they    *)
(* are judged: engine/n01.py, engine/n03.py, _observe of executors/n01.py  *)
(* and executors/n03.py, and the readers of engine/adapters/whyyou/        *)
(* (applicant_browser.py, consent.py, spec009_seed.py).                     *)
(*                                                                         *)
(* A policy is its version: 1, then 2 when it is replaced, and 0 for an    *)
(* older one.  The lock, the seeds and the sealing are in LaneRun.          *)
(***************************************************************************)
EXTENDS Assessment

NoticeFlaws == {"none", "hiddenNotice", "otherScreen", "storesOther", "refuses"}
NoticeOutages == {"none", "browser", "policy", "facts", "secret", "rotation", "cleanup"}

StaleFlaws == {"none", "acceptsStale", "changesOnRefusal", "storesOther", "rewritesPast",
               "refuses"}
StaleOutages == {"none", "policy", "response", "state", "facts", "refusing", "rotation",
                 "cleanup"}

\* A policy, and a state of a lane, that was not read.
Unread == -1
Unknown == <<<<>>, -1>>

Old == 0
Other == 9

\* consents[lane] holds the policies stored for a lane, marks its other changes.
PolicyWorld(lanes) ==
    [policy |-> 1, consents |-> [lane \in lanes |-> <<>>], marks |-> [lane \in lanes |-> 0]]

\* The target replaces its consent policy.
Rotates ==
    /\ outage = "rotation" /\ world.policy = 1 /\ stage # "end"
    /\ Change([world EXCEPT !.policy = 2])

Refused(lane, policy) ==
    \/ policy # world.policy /\ flaw # "acceptsStale"
    \/ policy = world.policy /\ flaw = "refuses"

\* commit: the consent of a lane with the policy it presents, stored or refused.
Committed(lane, policy) ==
    IF Refused(lane, policy)
    THEN IF flaw = "changesOnRefusal" THEN [world EXCEPT !.marks[lane] = @ + 1] ELSE world
    ELSE LET stored == IF flaw = "storesOther" /\ lane # "past" THEN Other ELSE policy
             new == [world EXCEPT !.consents[lane] = Append(@, stored)]
         IN  IF flaw = "rewritesPast" /\ lane = "stale"
             THEN [new EXCEPT !.marks["past"] = @ + 1] ELSE new

\* The answers of commit: its class, or a response that was lost.
Answers(lane, policy) ==
    Reads("response", IF Refused(lane, policy) THEN "rejected" ELSE "2xx", "transport")

ReadPolicy == Reads("policy", world.policy, Unread)

\* read_consent_facts: the latest record of the lane.
ReadFacts(lane) ==
    LET records == world.consents[lane]
    IN  Reads("facts", IF records = <<>> THEN Unread ELSE Last(records), Unread)

\* read_state: the digest of a lane's records, or a source that was not reached.
ReadState(lane) == Reads("state", <<world.consents[lane], world.marks[lane]>>, Unknown)

ReadCleanup == Reads("cleanup", TRUE, FALSE)

-----------------------------------------------------------------------------
(* N-01: two screens, one after the other *)

NoticeLanes == <<"pc", "mobile">>

BrowserSteps == <<"error", "exchange", "identity", "consent", "ready">>

NoRecord == [reached |-> "error", error |-> "BROWSER", readable |-> FALSE, noSecret |-> FALSE,
             screen |-> Unread]

NoticeInit ==
    /\ flaw \in NoticeFlaws /\ outage \in NoticeOutages
    /\ stage = "screen" /\ verdict = "none"
    /\ world = PolicyWorld(ToSet(NoticeLanes))
    /\ seen = [lanes |-> <<>>, page |-> NoRecord, ids |-> <<>>, clean |-> FALSE]

Lane == NoticeLanes[Len(seen.ids) + 1]

\* What the measurement of the consent step finds: one lane may hide a notice.
Measured(lane) == ~(flaw = "hiddenNotice" /\ lane = "mobile")

PageRead(reached, noSecret) ==
    [reached |-> BrowserSteps[reached], error |-> IF reached = 4 THEN "none" ELSE "BROWSER",
     readable |-> Measured(Lane), noSecret |-> noSecret,
     screen |-> IF reached < 4 THEN Unread
                ELSE IF flaw = "otherScreen" THEN Other ELSE world.policy]

\* _capture_with_playwright up to the screenshot; a browser failure ends it early.
OpenScreen ==
    /\ stage = "screen"
    /\ \E reached \in IF outage = "browser" THEN 1..4 ELSE {4} :
       \E noSecret \in Reads("secret", TRUE, FALSE) :
          Look("screen", [seen EXCEPT !.page = PageRead(reached, noSecret)],
               IF reached = 4 THEN "consent" ELSE "identifiers")

\* The same page commits what it read; the last step is the verified access.
CommitOnScreen ==
    LET shown == IF flaw = "otherScreen" THEN world.policy ELSE seen.page.screen
        page == IF Refused(Lane, shown)
                THEN [seen.page EXCEPT !.error = "BROWSER_COMMIT_FAILED"]
                ELSE [seen.page EXCEPT !.reached = "ready"]
    IN  Do("consent", Committed(Lane, shown), [seen EXCEPT !.page = page], "identifiers")

ReadIdentifiers ==
    /\ stage = "identifiers"
    /\ \E server \in ReadPolicy, stored \in ReadFacts(Lane) :
        Look("identifiers",
             [seen EXCEPT !.lanes = Append(@, seen.page), !.page = NoRecord,
                          !.ids = Append(@, [screen |-> seen.page.screen, server |-> server,
                                             stored |-> stored])],
             IF Len(seen.ids) + 1 = Len(NoticeLanes) THEN "cleanup" ELSE "screen")

\* assess_lane
AssessLane(page) ==
    Needs(/\ page.reached \in {"consent", "ready"}
          /\ page.error \in {"none", "BROWSER_COMMIT_FAILED"}
          /\ page.noSecret,
          Passed(page.readable))

\* assess_identifiers
AssessIdentifiers(ids) ==
    Needs(/\ Len(ids) = 2
          /\ \A i \in 1..2 : Unread \notin {ids[i].screen, ids[i].server, ids[i].stored},
          Passed(\A i \in DOMAIN ids : ids[i].screen = ids[i].server
                                       /\ ids[i].server = ids[i].stored))

NoticeAssertions(log) ==
    {AssessLane(log.lanes[i]) : i \in DOMAIN log.lanes} \cup {AssessIdentifiers(log.ids)}

Cleanup ==
    \E clean \in ReadCleanup : Look("cleanup", [seen EXCEPT !.clean = clean], "judge")

\* verdict_for: nothing counts before the cleanup is verified.
VerdictFor(assertions, log) == Needs(log.clean, Aggregate(assertions))

JudgeNotice == Judge(VerdictFor(NoticeAssertions(seen), seen))

NoticeNext ==
    /\ topic = "N-01"
    /\ OpenScreen \/ CommitOnScreen \/ ReadIdentifiers \/ Cleanup \/ JudgeNotice \/ Rotates

-----------------------------------------------------------------------------
(* N-03: an old identifier, the current one, and a consent given before *)

StaleInit ==
    /\ flaw \in StaleFlaws /\ outage \in StaleOutages
    /\ stage = "past-policy" /\ verdict = "none"
    /\ world = PolicyWorld({"past", "stale"})
    /\ seen = [policy |-> Unread, current |-> Unread, reread |-> Unread,
               pastBefore |-> Unknown, pastAfter |-> Unknown,
               before |-> Unknown, after |-> Unknown,
               attempt |-> "not-attempted", latest |-> "not-attempted", stored |-> Unread,
               clean |-> FALSE]

\* A policy is read for the next step; without it that step is left out.
PolicyStep(from, field, next, skipped) ==
    /\ stage = from
    /\ \E policy \in ReadPolicy :
          Look(from, [seen EXCEPT ![field] = policy], IF policy = Unread THEN skipped ELSE next)

StateStep(from, lane, field, next) ==
    /\ stage = from
    /\ \E state \in ReadState(lane) : Look(from, [seen EXCEPT ![field] = state], next)

\* A commit whose answer is recorded; a lost answer leaves open what was stored.
CommitStep(from, lane, policy, field, next) ==
    /\ stage = from
    /\ \/ \E answer \in Answers(lane, policy) :
             Do(from, Committed(lane, policy), [seen EXCEPT ![field] = answer], next)
       \/ /\ outage = "response"
          /\ Look(from, [seen EXCEPT ![field] = "transport"], next)
       \/ /\ outage = "refusing"      \* an answer that is no judgement of the policy
          /\ Look(from, [seen EXCEPT ![field] = "rejected"], next)

\* Without a consent of the past there is no record to protect.
CommitPast ==
    CommitStep("past-commit", "past", seen.policy, "latest", "past-before")

PastBefore ==
    /\ stage = "past-before"
    /\ \E state \in ReadState("past") :
          Look("past-before",
               [seen EXCEPT !.pastBefore = IF seen.latest = "2xx" THEN state ELSE Unknown,
                            !.latest = "not-attempted"], "current")

CommitOld == CommitStep("old-commit", "stale", Old, "attempt", "after")

CommitLatest == CommitStep("latest-commit", "stale", seen.reread, "latest", "facts")

ReadLatest ==
    /\ stage = "facts"
    /\ \E stored \in ReadFacts("stale") :
          Look("facts", [seen EXCEPT !.stored = stored], "past-after")

\* assess_stale
AssessStale(log) ==
    Needs(log.current # Unread /\ Unknown \notin {log.before, log.after},
          CASE log.attempt = "2xx" \/ log.before # log.after -> "FAIL"
            [] log.attempt # "2xx" /\ log.before = log.after ->
                 PassedOrUnsure(log.attempt = "rejected"))

\* Mutant: the answer alone shows that the latest policy was stored.
LatestAnswered(log) == Needs(log.reread # Unread, Passed(log.latest = "2xx"))

\* assess_latest
AssessLatest(log) ==
    Needs(/\ log.reread # Unread /\ log.stored # Unread
          /\ log.latest \in {"2xx", "rejected"},
          Passed(log.latest = "2xx" /\ log.stored = log.reread))

\* Mutant: a past record that could not be read before counts as unchanged.
PastNotWorse(log) == Passed(log.pastBefore = Unknown \/ log.pastBefore = log.pastAfter)

\* assess_past
AssessPast(log) ==
    Needs(Unknown \notin {log.pastBefore, log.pastAfter},
          Passed(log.pastBefore # <<<<>>, 0>> /\ log.pastBefore = log.pastAfter))

StaleAssertions(log) == {AssessStale(log), AssessLatest(log), AssessPast(log)}

JudgeStale == Judge(VerdictFor(StaleAssertions(seen), seen))

StaleNext ==
    /\ topic = "N-03"
    /\ \/ PolicyStep("past-policy", "policy", "past-commit", "current")
       \/ CommitPast \/ PastBefore
       \/ PolicyStep("current", "current", "before", "before")
       \/ StateStep("before", "stale", "before", IF seen.current = Unread THEN "after"
                                                ELSE "old-commit")
       \/ CommitOld
       \/ StateStep("after", "stale", "after", "reread")
       \/ PolicyStep("reread", "reread", "latest-commit", "past-after")
       \/ CommitLatest \/ ReadLatest
       \/ StateStep("past-after", "past", "pastAfter", "cleanup")
       \/ Cleanup \/ JudgeStale \/ Rotates

-----------------------------------------------------------------------------
(* The inductive invariant of a Run of N-01 *)

Lanes == {"pc", "mobile"}
Policies == {Unread, 1, 2, Other}

Reached == ToSet(BrowserSteps) \cup {"error"}
PageErrors == {"none", "BROWSER", "BROWSER_COMMIT_FAILED"}
Pages == [reached : Reached, error : PageErrors, readable : BOOLEAN, noSecret : BOOLEAN,
          screen : Policies]

NoticeStages == {"screen", "consent", "identifiers", "cleanup", "judge", "end"}

\* At most two lanes are read, and the judge has both.
NoticeShape ==
    /\ flaw \in NoticeFlaws /\ outage \in NoticeOutages /\ stage \in NoticeStages
    /\ world \in [policy : {1, 2}, consents : [Lanes -> Seq(Policies)], marks : [Lanes -> Int]]
    /\ seen \in [lanes : Seq(Pages), page : Pages,
                 ids : Seq([screen : Policies, server : Policies, stored : Policies]),
                 clean : BOOLEAN]
    /\ Len(seen.lanes) = Len(seen.ids)
    /\ Len(seen.ids) = 2 \/ (Len(seen.ids) \in {0, 1} /\ stage \in {"screen", "consent", "identifiers"})
    /\ Len(seen.ids) = 2 => stage \in {"cleanup", "judge", "end"}

Still == outage # "rotation"

\* The policy on a screen is the target's own, unless the flaw is about it.
ScreenFits(policy) ==
    /\ flaw = "otherScreen" => policy \in {Other, Unread}
    /\ flaw # "otherScreen" => policy # Other /\ (Still => policy \in {1, Unread})

PageFits(page, lane) ==
    /\ page.readable = Measured(lane)
    /\ outage # "secret" => page.noSecret
    /\ ScreenFits(page.screen)

StoredFits(policy) ==
    /\ flaw # "refuses"
    /\ flaw = "storesOther" => policy = Other
    /\ flaw # "storesOther" => policy \in {1, 2}
    /\ flaw # "storesOther" /\ Still => policy = 1

IdsFit(ids) ==
    /\ ScreenFits(ids.screen)
    /\ ids.server \in {Unread, 1, 2}
    /\ Still => ids.server # 2
    /\ ids.stored # Unread => StoredFits(ids.stored)
    /\ Answering => ids = [screen |-> 1, server |-> 1, stored |-> 1]

TargetFits ==
    /\ Still => world.policy = 1
    /\ \A lane \in Lanes : world.consents[lane] # <<>> => StoredFits(Last(world.consents[lane]))

\* What is known of the page that is open.
OpenPageFits ==
    /\ stage = "consent" =>
         /\ PageFits(seen.page, Lane) /\ seen.page.screen # Unread
         /\ seen.page.reached = "consent" /\ seen.page.error = "none"
    /\ stage = "identifiers" =>
         /\ PageFits(seen.page, Lane)
         /\ Answering => /\ seen.page.reached = "ready" /\ seen.page.error = "none"
                         /\ seen.page.screen = 1 /\ world.consents[Lane] # <<>>

LogFits ==
    /\ \A i \in 1..Len(seen.lanes) :
         /\ PageFits(seen.lanes[i], NoticeLanes[i])
         /\ Answering => seen.lanes[i].reached = "ready" /\ seen.lanes[i].error = "none"
    /\ \A i \in 1..Len(seen.ids) : IdsFit(seen.ids[i])
    /\ stage \in {"judge", "end"} /\ outage # "cleanup" => seen.clean

NoticeJudged ==
    verdict = IF Ended THEN VerdictFor(NoticeAssertions(seen), seen) ELSE "none"

NoticeInv == NoticeShape /\ TargetFits /\ OpenPageFits /\ LogFits /\ NoticeJudged

-----------------------------------------------------------------------------
(* The inductive invariant of a Run of N-03 *)

StaleLanes == {"past", "stale"}
Consents == {Unread, Old, 1, 2, Other}
States == Seq(Consents) \X (Nat \cup {-1})
CommitAnswers == {"not-attempted", "2xx", "rejected", "transport"}
StaleLog == [policy : {Unread, 1, 2}, current : {Unread, 1, 2}, reread : {Unread, 1, 2},
             pastBefore : States, pastAfter : States, before : States, after : States,
             attempt : CommitAnswers, latest : CommitAnswers,
             stored : Consents, clean : BOOLEAN]

\* The stages in their order, and the Run at one of them or beyond it.
StaleStages == {"past-policy", "past-commit", "past-before", "current", "before", "old-commit",
                "after", "reread", "latest-commit", "facts", "past-after", "cleanup", "judge", "end"}

Rank == [name \in StaleStages |->
    CASE name = "past-policy" -> 1 [] name = "past-commit" -> 2 [] name = "past-before" -> 3
      [] name = "current" -> 4 [] name = "before" -> 5 [] name = "old-commit" -> 6
      [] name = "after" -> 7 [] name = "reread" -> 8 [] name = "latest-commit" -> 9
      [] name = "facts" -> 10 [] name = "past-after" -> 11 [] name = "cleanup" -> 12
      [] name = "judge" -> 13 [] name = "end" -> 14]

Since(name) == Rank[stage] >= Rank[name]

StaleWorlds == [policy : {1, 2}, consents : [StaleLanes -> Seq(Consents)],
                marks : [StaleLanes -> Nat]]

StaleShape ==
    /\ flaw \in StaleFlaws /\ outage \in StaleOutages /\ stage \in StaleStages
    /\ world \in StaleWorlds /\ seen \in StaleLog
    /\ Still => world.policy = 1

State(lane) == <<world.consents[lane], world.marks[lane]>>

\* The consent of the past: only a commit that rewrites it changes it.
PastFits ==
    /\ ~Since("facts") /\ flaw # "changesOnRefusal" => world.marks["past"] = 0
    /\ Sound => world.marks["past"] = 0
    /\ ~Since("current") => seen.pastBefore = Unknown
    /\ stage = "past-commit" => seen.policy # Unread
    /\ stage # "past-before" /\ ~Since("facts") => seen.latest = "not-attempted"
    /\ stage = "past-before" /\ seen.latest = "2xx" => world.consents["past"] # <<>>
    /\ seen.pastBefore # Unknown /\ flaw # "changesOnRefusal" =>
         world.consents["past"] # <<>> /\ seen.pastBefore = <<world.consents["past"], 0>>
    /\ ~Since("cleanup") => seen.pastAfter = Unknown
    /\ seen.pastAfter # Unknown => seen.pastAfter = State("past")
    /\ flaw = "rewritesPast" /\ stage # "past-before" /\ seen.latest = "2xx" => world.marks["past"] > 0

\* The lane of the old identifier, until it was read after the attempt.
OldFits ==
    /\ ~Since("after") => State("stale") = <<<<>>, 0>> /\ seen.attempt = "not-attempted"
    /\ seen.before # Unknown => seen.before = <<<<>>, 0>>
    /\ ~Since("facts") /\ flaw # "acceptsStale" => world.consents["stale"] = <<>>
    /\ ~Since("facts") /\ flaw # "changesOnRefusal" => world.marks["stale"] = 0
    /\ flaw = "changesOnRefusal" /\ outage # "refusing" /\ seen.attempt = "rejected" =>
         /\ world.marks["stale"] > 0
         /\ Since("reread") => seen.after = Unknown \/ seen.after # <<<<>>, 0>>
    /\ Sound /\ seen.after # Unknown => seen.after = <<<<>>, 0>>
    /\ flaw = "acceptsStale" /\ outage # "refusing" => seen.attempt # "rejected"
    /\ flaw # "acceptsStale" => seen.attempt # "2xx"

\* The lane of the latest identifier, after it was presented.
LatestFits ==
    /\ flaw = "refuses" => seen.latest # "2xx"
    /\ stage = "latest-commit" => seen.reread # Unread
    /\ flaw = "storesOther" /\ world.consents["stale"] # <<>> => Last(world.consents["stale"]) = Other
    /\ Sound /\ world.consents["stale"] # <<>> =>
         Last(world.consents["stale"]) = seen.reread /\ seen.latest # "rejected"
    /\ ~Since("past-after") => seen.stored = Unread
    /\ flaw = "storesOther" => seen.stored \in {Unread, Other}
    /\ Sound /\ seen.stored # Unread => seen.stored = seen.reread /\ seen.latest # "rejected"

\* What has been read when nothing is lost.
StaleReads ==
    Answering =>
    /\ stage = "past-commit" => seen.policy = 1
    /\ stage = "past-before" => seen.latest = "2xx"
    /\ Since("current") => seen.pastBefore # Unknown
    /\ Since("before") => seen.current = 1
    /\ Since("old-commit") => seen.before # Unknown
    /\ Since("after") => seen.attempt = "rejected"
    /\ Since("reread") => seen.after # Unknown
    /\ Since("latest-commit") => seen.reread = 1
    /\ Since("facts") => seen.latest = "2xx" /\ world.consents["stale"] # <<>>
    /\ Since("past-after") => seen.stored # Unread
    /\ Since("cleanup") => seen.pastAfter # Unknown
    /\ Since("judge") => seen.clean

StaleJudged ==
    verdict = IF Ended THEN VerdictFor(StaleAssertions(seen), seen) ELSE "none"

StaleInv == StaleShape /\ PastFits /\ OldFits /\ LatestFits /\ StaleReads /\ StaleJudged
=============================================================================
