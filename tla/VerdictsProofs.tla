--------------------------- MODULE VerdictsProofs ---------------------------
(***************************************************************************)
(* Proofs about Verdicts, profile by profile: for each one an invariant     *)
(* that says how what the Run has recorded stands to the target, and from   *)
(* it what a verdict says of the target.                                    *)
(***************************************************************************)
EXTENDS Verdicts, TLAPS, SequenceTheorems, FiniteSetTheorems, WellFoundedInduction

-----------------------------------------------------------------------------
(* The order of outcomes, and sequences that grow at their end *)

LEMMA AggregateRule ==
    ASSUME NEW statuses
    PROVE  /\ Aggregate(statuses) = "FAIL" <=> "FAIL" \in statuses
           /\ Aggregate(statuses) = "PASS" <=> statuses \cap {"FAIL", "INCONCLUSIVE"} = {}
<1>1. CASE "FAIL" \in statuses
  BY <1>1 DEF Aggregate
<1>2. CASE "FAIL" \notin statuses /\ "INCONCLUSIVE" \in statuses
  BY <1>2 DEF Aggregate
<1>3. CASE "FAIL" \notin statuses /\ "INCONCLUSIVE" \notin statuses
  BY <1>3 DEF Aggregate
<1> QED BY <1>1, <1>2, <1>3

LEMMA Grown ==
    ASSUME NEW S, NEW s \in Seq(S), NEW e \in S
    PROVE  /\ Append(s, e) \in Seq(S) /\ Append(s, e) # <<>>
           /\ Len(Append(s, e)) = Len(s) + 1
           /\ Last(Append(s, e)) = e
           /\ \A i \in 1..Len(s) : Append(s, e)[i] = s[i]
           /\ Append(s, e)[Len(s) + 1] = e
  BY DEF Last

-----------------------------------------------------------------------------
(* N-01: two screens *)

LEMMA TwoLanes ==
    /\ ToSet(NoticeLanes) = Lanes
    /\ Len(NoticeLanes) = 2 /\ NoticeLanes[1] = "pc" /\ NoticeLanes[2] = "mobile"
<1>1. Len(NoticeLanes) = 2 /\ NoticeLanes[1] = "pc" /\ NoticeLanes[2] = "mobile"
  BY DEF NoticeLanes
<1>2. DOMAIN NoticeLanes = {1, 2}
  BY DEF NoticeLanes
<1> QED BY <1>1, <1>2 DEF ToSet, Lanes

\* What the shape says of the lane that the Run is at.
LEMMA LaneAt ==
    ASSUME NoticeShape, stage \in {"screen", "consent", "identifiers"}
    PROVE  /\ Len(seen.ids) \in {0, 1}
           /\ Lane = NoticeLanes[Len(seen.ids) + 1] /\ Lane \in Lanes
<1>1. Len(seen.ids) \in {0, 1}
  BY DEF NoticeShape
<1> DEFINE n == Len(seen.ids)
<1>2. Lane = NoticeLanes[n + 1]
  BY DEF Lane
<1> HIDE DEF n
<1>3. n = 0 => Lane = "pc"
  BY <1>2, TwoLanes
<1>4. n = 1 => Lane = "mobile"
  BY <1>2, TwoLanes
<1> QED BY <1>1, <1>2, <1>3, <1>4 DEF Lanes, n

LEMMA NoticeStarts == Init /\ topic = "N-01" => NoticeInv
<1> SUFFICES ASSUME Init, topic = "N-01" PROVE NoticeInv
  OBVIOUS
<1>1. NoticeInit
  BY DEF Init
<1>2. <<>> \in Seq(Policies)
  OBVIOUS
<1>3. world = [policy |-> 1, consents |-> [lane \in Lanes |-> <<>>], marks |-> [lane \in Lanes |-> 0]]
  BY <1>1, TwoLanes DEF NoticeInit, PolicyWorld
<1>4. /\ seen = [lanes |-> <<>>, page |-> NoRecord, ids |-> <<>>, clean |-> FALSE]
      /\ stage = "screen" /\ verdict = "none"
  BY <1>1 DEF NoticeInit
<1>5. NoRecord \in Pages
  BY DEF NoRecord, Policies, Pages, Reached, PageErrors
<1>6. world \in [policy : {1, 2}, consents : [Lanes -> Seq(Policies)], marks : [Lanes -> Int]]
  BY <1>2, <1>3
<1>7. NoticeShape
  BY <1>1, <1>4, <1>5, <1>6 DEF NoticeShape, NoticeInit, NoticeStages
<1>8. TargetFits
  BY <1>3 DEF TargetFits
<1>9. OpenPageFits /\ LogFits /\ NoticeJudged
  BY <1>4 DEF OpenPageFits, LogFits, NoticeJudged, Ended
<1> QED BY <1>7, <1>8, <1>9 DEF NoticeInv

\* A step of the Run that leaves the target and the log as they are.
LEMMA LogStays ==
    ASSUME NoticeInv, NoticeShape', UNCHANGED <<flaw, outage, verdict>>,
           seen'.lanes = seen.lanes, seen'.ids = seen.ids,
           stage \in {"screen", "consent"}, stage' \in {"consent", "identifiers"}
    PROVE  LogFits' /\ NoticeJudged'
<1>1. LogFits'
  BY DEF NoticeInv, LogFits, PageFits, ScreenFits, StoredFits, IdsFit, Still, Answering, Sound,
         Measured
<1>2. NoticeJudged'
  BY DEF NoticeInv, NoticeJudged, Ended
<1> QED BY <1>1, <1>2

LEMMA OpenScreenKeeps ==
    ASSUME NoticeInv, OpenScreen PROVE NoticeInv' /\ topic' = topic
<1>0. PICK k \in IF outage = "browser" THEN 1..4 ELSE {4} :
        \E noSecret \in Reads("secret", TRUE, FALSE) :
          Look("screen", [seen EXCEPT !.page = PageRead(k, noSecret)],
               IF k = 4 THEN "consent" ELSE "identifiers")
  BY DEF OpenScreen
<1>1. PICK noSecret \in Reads("secret", TRUE, FALSE) :
        Look("screen", [seen EXCEPT !.page = PageRead(k, noSecret)],
             IF k = 4 THEN "consent" ELSE "identifiers")
  BY <1>0
<1> DEFINE p == PageRead(k, noSecret)
<1>2. /\ stage = "screen" /\ stage' = (IF k = 4 THEN "consent" ELSE "identifiers")
      /\ world' = world /\ UNCHANGED <<topic, flaw, outage, verdict>>
      /\ seen' = [seen EXCEPT !.page = p]
  BY <1>1 DEF Look, Do
<1>3. noSecret \in BOOLEAN /\ (outage # "secret" => noSecret)
  BY DEF Reads
<1>4. /\ BrowserSteps[k] \in Reached /\ k \in 1..4
      /\ outage # "browser" => k = 4
      /\ k = 4 => BrowserSteps[k] = "consent"
  <2>1. DOMAIN BrowserSteps = 1..5 /\ BrowserSteps[4] = "consent"
    BY DEF BrowserSteps
  <2> QED BY <2>1 DEF Reached, ToSet
<1>5. /\ p.readable = Measured(Lane) /\ p.noSecret = noSecret /\ p.reached = BrowserSteps[k]
      /\ p.error = (IF k = 4 THEN "none" ELSE "BROWSER")
      /\ p.screen = (IF k < 4 THEN Unread
                     ELSE IF flaw = "otherScreen" THEN Other ELSE world.policy)
  BY DEF PageRead
<1>6. p \in Pages
  BY <1>3, <1>4 DEF NoticeInv, NoticeShape, Policies, Measured, Pages, PageErrors, PageRead
<1>7. PageFits(p, Lane)
  <2>1. ScreenFits(p.screen)
    <3>1. world.policy \in {1, 2} /\ (Still => world.policy = 1)
      BY DEF NoticeInv, NoticeShape, TargetFits
    <3> QED BY <1>5, <3>1 DEF ScreenFits, Other, Unread
  <2> QED BY <1>3, <1>5, <2>1 DEF PageFits
<1> HIDE DEF p
<1>8. /\ seen'.lanes = seen.lanes /\ seen'.ids = seen.ids /\ seen'.clean = seen.clean
      /\ seen'.page = p
  BY <1>2 DEF NoticeInv, NoticeShape
<1>9. NoticeShape'
  BY <1>2, <1>6, <1>8 DEF NoticeInv, NoticeShape, NoticeStages
<1>10. Lane' = Lane
  BY <1>8 DEF Lane
<1>11. TargetFits'
  BY <1>2 DEF NoticeInv, TargetFits, StoredFits, Still
<1>12. OpenPageFits'
  <2>1. PageFits(seen.page, Lane)'
    BY <1>2, <1>7, <1>8, <1>10 DEF PageFits, ScreenFits, Still, Measured
  <2>2. CASE k = 4
    BY <1>2, <1>4, <1>5, <1>8, <2>1, <2>2 DEF OpenPageFits, NoticeInv, NoticeShape, Unread,
       Other
  <2>3. CASE k # 4
    BY <1>2, <1>4, <1>8, <2>1, <2>3 DEF OpenPageFits, Answering
  <2> QED BY <2>2, <2>3
<1>13. LogFits' /\ NoticeJudged'
  BY <1>2, <1>8, <1>9, LogStays
<1> QED BY <1>2, <1>9, <1>11, <1>12, <1>13 DEF NoticeInv

\* A policy that the target stores, and where it is the last one of its lane.
LEMMA Commits ==
    ASSUME NoticeInv, NEW lane \in Lanes, NEW policy \in {1, 2, Other},
           flaw = "otherScreen" => policy = world.policy,
           flaw # "otherScreen" /\ Still => policy = 1, flaw # "otherScreen" => policy # Other,
           world' = Committed(lane, policy), UNCHANGED <<flaw, outage>>
    PROVE  /\ world' \in [policy : {1, 2}, consents : [Lanes -> Seq(Policies)], marks : [Lanes -> Int]]
           /\ TargetFits'
           /\ Answering => world'.consents[lane] # <<>> /\ ~Refused(lane, policy)
<1> DEFINE stored == IF flaw = "storesOther" /\ lane # "past" THEN Other ELSE policy
           new == [world EXCEPT !.consents[lane] = Append(@, stored)]
<1>1. /\ flaw \in NoticeFlaws
      /\ world \in [policy : {1, 2}, consents : [Lanes -> Seq(Policies)], marks : [Lanes -> Int]]
      /\ lane # "past"
  BY DEF NoticeInv, NoticeShape, Lanes
<1>2. stored \in Policies /\ (~Refused(lane, policy) => StoredFits(stored))
  BY <1>1 DEF Policies, StoredFits, Refused, NoticeInv, TargetFits, NoticeFlaws
<1>3. IF Refused(lane, policy) THEN world' = world ELSE world' = new
  BY <1>1 DEF Committed, NoticeFlaws
<1> HIDE DEF stored
<1> DEFINE longer == Append(world.consents[lane], stored)
<1>9. longer \in Seq(Policies) /\ longer # <<>> /\ Last(longer) = stored
  BY <1>1, <1>2, Grown
<1> HIDE DEF longer
<1>4. /\ new.policy = world.policy /\ new.marks = world.marks
      /\ new.consents = [world.consents EXCEPT ![lane] = longer]
      /\ new \in [policy : {1, 2}, consents : [Lanes -> Seq(Policies)], marks : [Lanes -> Int]]
  BY <1>1, <1>9 DEF longer
<1> HIDE DEF new
<1>5. /\ new.consents[lane] # <<>> /\ Last(new.consents[lane]) = stored
      /\ \A other \in Lanes \ {lane} : new.consents[other] = world.consents[other]
  BY <1>1, <1>4, <1>9
<1>6. TargetFits'
  <2>1. Still' = Still /\ world'.policy = world.policy
    BY <1>3, <1>4 DEF Still
  <2>2. ASSUME NEW other \in Lanes, world'.consents[other] # <<>>
        PROVE  StoredFits(Last(world'.consents[other]))
    <3>1. CASE other = lane /\ ~Refused(lane, policy)
      BY <1>2, <1>3, <1>5, <3>1
    <3>2. CASE other # lane \/ Refused(lane, policy)
      BY <1>3, <1>5, <2>2, <3>2 DEF NoticeInv, TargetFits
    <3> QED BY <3>1, <3>2
  <2>3. (Still => world.policy = 1)'
    BY <2>1 DEF NoticeInv, TargetFits
  <2>4. (\A other \in Lanes : world.consents[other] # <<>> => StoredFits(Last(world.consents[other])))'
    BY <2>2 DEF StoredFits, Still
  <2> QED BY <2>3, <2>4 DEF TargetFits
<1>7. Answering => ~Refused(lane, policy)
  BY DEF Answering, Sound, Refused, NoticeInv, TargetFits, Still
<1> QED BY <1>1, <1>3, <1>4, <1>5, <1>6, <1>7

LEMMA CommitOnScreenKeeps ==
    ASSUME NoticeInv, CommitOnScreen PROVE NoticeInv' /\ topic' = topic
<1> DEFINE shown == IF flaw = "otherScreen" THEN world.policy ELSE seen.page.screen
           page == IF Refused(Lane, shown)
                   THEN [seen.page EXCEPT !.error = "BROWSER_COMMIT_FAILED"]
                   ELSE [seen.page EXCEPT !.reached = "ready"]
<1>1. /\ stage = "consent" /\ stage' = "identifiers"
      /\ world' = Committed(Lane, shown) /\ UNCHANGED <<topic, flaw, outage, verdict>>
      /\ seen' = [seen EXCEPT !.page = page]
  BY DEF CommitOnScreen, Do
<1>2. /\ PageFits(seen.page, Lane) /\ seen.page.screen # Unread
      /\ seen.page.reached = "consent" /\ seen.page.error = "none"
      /\ seen.page \in Pages /\ world.policy \in {1, 2}
  BY <1>1 DEF NoticeInv, OpenPageFits, NoticeShape
<1>3. /\ shown \in {1, 2, Other} /\ (flaw = "otherScreen" => shown = world.policy)
      /\ (flaw # "otherScreen" /\ Still => shown = 1) /\ (flaw # "otherScreen" => shown # Other)
  <2>1. seen.page.screen \in {1, 2, Other}
    BY <1>2 DEF Pages, Policies
  <2>2. flaw # "otherScreen" => seen.page.screen # Other
    BY <1>2 DEF PageFits, ScreenFits
  <2>3. flaw # "otherScreen" /\ Still => seen.page.screen = 1
    BY <1>2 DEF PageFits, ScreenFits
  <2> QED BY <1>2, <2>1, <2>2, <2>3
<1>4. Lane \in Lanes /\ Len(seen.ids) \in {0, 1}
  BY <1>1, LaneAt DEF NoticeInv
<1>5. /\ TargetFits' /\ (Answering => world'.consents[Lane] # <<>> /\ ~Refused(Lane, shown))
      /\ world' \in [policy : {1, 2}, consents : [Lanes -> Seq(Policies)], marks : [Lanes -> Int]]
  BY <1>1, <1>3, <1>4, Commits
<1> HIDE DEF shown
<1>6. /\ page \in Pages /\ page.readable = seen.page.readable
      /\ page.noSecret = seen.page.noSecret /\ page.screen = seen.page.screen
      /\ Answering => page.reached = "ready" /\ page.error = "none"
  <2>1. "ready" \in Reached /\ "BROWSER_COMMIT_FAILED" \in PageErrors
    <3>1. DOMAIN BrowserSteps = 1..5 /\ BrowserSteps[5] = "ready"
      BY DEF BrowserSteps
    <3> QED BY <3>1 DEF Reached, ToSet, PageErrors
  <2>2. CASE Refused(Lane, shown)
    BY <1>2, <1>5, <2>1, <2>2 DEF Pages
  <2>3. CASE ~Refused(Lane, shown)
    BY <1>2, <1>5, <2>1, <2>3 DEF Pages
  <2> QED BY <2>2, <2>3
<1> HIDE DEF page
<1>7. /\ seen'.lanes = seen.lanes /\ seen'.ids = seen.ids /\ seen'.clean = seen.clean
      /\ seen'.page = page
  BY <1>1 DEF NoticeInv, NoticeShape
<1>8. NoticeShape'
  BY <1>1, <1>4, <1>5, <1>6, <1>7 DEF NoticeInv, NoticeShape, NoticeStages
<1>9. Lane' = Lane
  BY <1>7 DEF Lane
<1>10. OpenPageFits'
  <2>1. PageFits(seen.page, Lane)'
    BY <1>1, <1>2, <1>6, <1>7, <1>9 DEF PageFits, ScreenFits, Still, Measured
  <2>2. Answering' => Answering /\ page.screen = 1
    BY <1>1, <1>2, <1>6 DEF Answering, Sound, PageFits, ScreenFits, Still
  <2> QED BY <1>1, <1>5, <1>6, <1>7, <1>9, <2>1, <2>2 DEF OpenPageFits
<1>11. LogFits' /\ NoticeJudged'
  BY <1>1, <1>7, <1>8, LogStays
<1> QED BY <1>1, <1>5, <1>8, <1>10, <1>11 DEF NoticeInv

LEMMA ReadIdentifiersKeeps ==
    ASSUME NoticeInv, ReadIdentifiers PROVE NoticeInv' /\ topic' = topic
<1>1. PICK server \in ReadPolicy, stored \in ReadFacts(Lane) :
        Look("identifiers",
             [seen EXCEPT !.lanes = Append(@, seen.page), !.page = NoRecord,
                          !.ids = Append(@, [screen |-> seen.page.screen, server |-> server,
                                             stored |-> stored])],
             IF Len(seen.ids) + 1 = Len(NoticeLanes) THEN "cleanup" ELSE "screen")
  BY DEF ReadIdentifiers
<1> DEFINE row == [screen |-> seen.page.screen, server |-> server, stored |-> stored]
           lanes == Append(seen.lanes, seen.page)
           ids == Append(seen.ids, row)
           n == Len(seen.ids)
<1>2. /\ stage = "identifiers" /\ world' = world /\ UNCHANGED <<topic, flaw, outage, verdict>>
      /\ stage' = (IF n + 1 = 2 THEN "cleanup" ELSE "screen")
      /\ seen' = [seen EXCEPT !.lanes = lanes, !.page = NoRecord, !.ids = ids]
  BY <1>1, TwoLanes DEF Look, Do
<1>3. /\ n \in {0, 1} /\ Len(seen.lanes) = n /\ Lane = NoticeLanes[n + 1] /\ Lane \in Lanes
      /\ seen.lanes \in Seq(Pages) /\ seen.page \in Pages
      /\ seen.ids \in Seq([screen : Policies, server : Policies, stored : Policies])
      /\ world.policy \in {1, 2} /\ world.consents[Lane] \in Seq(Policies)
  BY <1>2, LaneAt DEF NoticeInv, NoticeShape
<1>4. /\ PageFits(seen.page, Lane)
      /\ Answering => /\ seen.page.reached = "ready" /\ seen.page.error = "none"
                      /\ seen.page.screen = 1 /\ world.consents[Lane] # <<>>
  BY <1>2 DEF NoticeInv, OpenPageFits
<1>5. /\ server \in {Unread, 1, 2} /\ (Still => server # 2)
      /\ Answering => server = 1
  BY <1>3 DEF ReadPolicy, Reads, NoticeInv, TargetFits, Unread, Answering, Still
<1>6. /\ stored \in Policies /\ (stored # Unread => StoredFits(stored))
      /\ Answering => stored = 1
  <2>1. CASE world.consents[Lane] = <<>>
    BY <1>4, <2>1 DEF ReadFacts, Reads, Policies
  <2>2. CASE world.consents[Lane] # <<>>
    <3>1. StoredFits(Last(world.consents[Lane])) /\ stored \in {Last(world.consents[Lane]), Unread}
      BY <1>3, <2>2 DEF NoticeInv, TargetFits, ReadFacts, Reads
    <3>2. Answering => stored = Last(world.consents[Lane])
      BY <2>2 DEF ReadFacts, Reads, Answering
    <3> QED BY <3>1, <3>2 DEF StoredFits, Policies, Answering, Sound, Still
  <2> QED BY <2>1, <2>2
<1>7. row \in [screen : Policies, server : Policies, stored : Policies]
  BY <1>3, <1>5, <1>6 DEF Policies, Pages
<1>8. IdsFit(row)
  BY <1>4, <1>5, <1>6 DEF IdsFit, PageFits
<1> HIDE DEF row
<1>9. /\ lanes \in Seq(Pages) /\ Len(lanes) = n + 1 /\ lanes[n + 1] = seen.page
      /\ \A i \in 1..n : lanes[i] = seen.lanes[i]
  BY <1>3, Grown
<1>10. /\ ids \in Seq([screen : Policies, server : Policies, stored : Policies])
       /\ Len(ids) = n + 1 /\ ids[n + 1] = row
       /\ \A i \in 1..n : ids[i] = seen.ids[i]
  BY <1>3, <1>7, Grown
<1> HIDE DEF lanes, ids
<1>11. /\ seen'.lanes = lanes /\ seen'.ids = ids /\ seen'.clean = seen.clean
       /\ seen'.page = NoRecord /\ NoRecord \in Pages
  BY <1>2 DEF NoticeInv, NoticeShape, NoRecord, Pages, Reached, PageErrors, Policies
<1>12. NoticeShape'
  <2>1. seen' \in [lanes : Seq(Pages), page : Pages,
                   ids : Seq([screen : Policies, server : Policies, stored : Policies]),
                   clean : BOOLEAN]
    BY <1>2, <1>9, <1>10, <1>11 DEF NoticeInv, NoticeShape
  <2>2. Len(seen'.ids) = n + 1 /\ Len(seen'.lanes) = n + 1
    BY <1>9, <1>10, <1>11
  <2>3. n \in {0, 1}
    BY <1>3
  <2>4. UNCHANGED <<flaw, outage, world>> /\ stage' = (IF n + 1 = 2 THEN "cleanup" ELSE "screen")
    BY <1>2
  <2> HIDE DEF n
  <2> QED BY <2>1, <2>2, <2>3, <2>4 DEF NoticeInv, NoticeShape, NoticeStages
<1>13. LogFits'
  <2>1. \A i \in 1..n : /\ PageFits(seen.lanes[i], NoticeLanes[i]) /\ IdsFit(seen.ids[i])
                        /\ Answering => seen.lanes[i].reached = "ready" /\ seen.lanes[i].error = "none"
    BY <1>3 DEF NoticeInv, LogFits
  <2>2. \A i \in 1..(n + 1) :
           /\ PageFits(lanes[i], NoticeLanes[i]) /\ IdsFit(ids[i])
           /\ Answering => lanes[i].reached = "ready" /\ lanes[i].error = "none"
    <3> TAKE i \in 1..(n + 1)
    <3>1. CASE i \in 1..n
      BY <1>9, <1>10, <2>1, <3>1
    <3>2. CASE i = n + 1
      BY <1>3, <1>4, <1>8, <1>9, <1>10, <3>2
    <3> QED BY <1>3, <3>1, <3>2
  <2>3. /\ UNCHANGED <<flaw, outage>> /\ Len(seen'.lanes) = n + 1 /\ Len(seen'.ids) = n + 1
        /\ seen'.lanes = lanes /\ seen'.ids = ids /\ stage' \notin {"judge", "end"}
    BY <1>2, <1>9, <1>10, <1>11
  <2> HIDE DEF n
  <2> QED
    BY <2>2, <2>3 DEF LogFits, PageFits, ScreenFits, StoredFits, IdsFit, Still, Answering,
       Sound, Measured
<1>14. TargetFits' /\ OpenPageFits' /\ NoticeJudged'
  BY <1>2 DEF NoticeInv, TargetFits, StoredFits, Still, OpenPageFits, NoticeJudged, Ended
<1> QED BY <1>2, <1>12, <1>13, <1>14 DEF NoticeInv

LEMMA NoticeEnds ==
    ASSUME NoticeInv, topic = "N-01", [Cleanup \/ JudgeNotice \/ Rotates]_vars
    PROVE  NoticeInv' /\ topic' = topic
<1>1. CASE Cleanup
  <2>1. PICK clean \in ReadCleanup : Look("cleanup", [seen EXCEPT !.clean = clean], "judge")
    BY <1>1 DEF Cleanup
  <2>2. /\ stage = "cleanup" /\ stage' = "judge" /\ UNCHANGED <<topic, flaw, outage, world, verdict>>
        /\ seen' = [seen EXCEPT !.clean = clean]
        /\ clean \in BOOLEAN /\ (outage # "cleanup" => clean)
    BY <2>1 DEF Look, Do, ReadCleanup, Reads
  <2> USE <2>2 DEF NoticeInv
  <2>3. /\ seen'.lanes = seen.lanes /\ seen'.ids = seen.ids /\ seen'.clean = clean
        /\ seen'.page = seen.page
    BY DEF NoticeShape
  <2>4. NoticeShape'
    BY <2>3 DEF NoticeShape, NoticeStages
  <2>5. LogFits'
    BY <2>3 DEF LogFits, PageFits, ScreenFits, StoredFits, IdsFit, Still, Answering, Sound,
       Measured
  <2>6. TargetFits' /\ OpenPageFits' /\ NoticeJudged'
    BY DEF TargetFits, StoredFits, Still, OpenPageFits, NoticeJudged, Ended
  <2> QED BY <2>2, <2>4, <2>5, <2>6 DEF NoticeInv
<1>2. CASE JudgeNotice
  <2>1. /\ stage = "judge" /\ stage' = "end" /\ UNCHANGED <<topic, flaw, outage, world, seen>>
        /\ verdict' = VerdictFor(NoticeAssertions(seen), seen)
    BY <1>2 DEF JudgeNotice, Judge
  <2> USE <2>1 DEF NoticeInv
  <2>2. NoticeShape'
    BY DEF NoticeShape, NoticeStages
  <2>3. LogFits'
    BY DEF LogFits, PageFits, ScreenFits, StoredFits, IdsFit, Still, Answering, Sound, Measured
  <2>4. TargetFits' /\ OpenPageFits'
    BY DEF TargetFits, StoredFits, Still, OpenPageFits
  <2>5. NoticeJudged'
    BY <2>1 DEF NoticeJudged, Ended
  <2> QED BY <2>1, <2>2, <2>3, <2>4, <2>5 DEF NoticeInv
<1>3. CASE Rotates
  <2>1. /\ outage = "rotation" /\ UNCHANGED <<topic, flaw, outage, stage, seen, verdict>>
        /\ world' = [world EXCEPT !.policy = 2]
    BY <1>3 DEF Rotates, Change
  <2> USE <2>1 DEF NoticeInv
  <2>2. world'.policy = 2 /\ world'.consents = world.consents /\ world'.marks = world.marks
    BY DEF NoticeShape
  <2>3. NoticeShape'
    BY DEF NoticeShape, NoticeStages
  <2>4. LogFits'
    BY DEF LogFits, PageFits, ScreenFits, StoredFits, IdsFit, Still, Answering, Sound, Measured
  <2>5. TargetFits'
    BY <2>2 DEF TargetFits, StoredFits, Still
  <2>6. OpenPageFits' /\ NoticeJudged'
    BY <2>2 DEF OpenPageFits, PageFits, ScreenFits, Still, Answering, Sound, Measured, Lane,
       NoticeJudged, Ended
  <2> QED BY <2>1, <2>3, <2>4, <2>5, <2>6 DEF NoticeInv
<1>4. CASE UNCHANGED vars
  BY <1>4 DEF vars, NoticeInv, NoticeShape, TargetFits, StoredFits, Still, OpenPageFits,
     PageFits,
              ScreenFits, LogFits, IdsFit, Answering, Sound, Measured, Lane, NoticeJudged, Ended
<1> QED BY <1>1, <1>2, <1>3, <1>4

-----------------------------------------------------------------------------
(* A Run stays with its profile *)

LEMMA MinimalFrame == MinimalNext => topic' = topic
<1> USE DEF Change, Look, Do, Judge
<1>1. WorkerHandles \/ AppearsEarly \/ DecidesAlone => topic' = topic
  BY DEF WorkerHandles, AppearsEarly, DecidesAlone
<1>2. ASSUME NEW step, NEW next, Snapshot(step, next) PROVE topic' = topic
  BY <1>2 DEF Snapshot
<1>3. ApplyMarker \/ Trigger \/ CaptureConsole \/ AttemptDecision \/ JudgeMinimal
        => topic' = topic
  BY DEF ApplyMarker, Trigger, CaptureConsole, AttemptDecision, JudgeMinimal
<1>4. PollEffect \/ PollReport \/ Restore \/ Recovered => topic' = topic
  BY DEF PollEffect, PollReport, Restore, Recovered
<1> QED BY <1>1, <1>2, <1>3, <1>4 DEF MinimalNext, MinimalStep, AutomaticWindow

LEMMA PolicyFrame == NoticeNext \/ StaleNext => topic' = topic
<1> USE DEF Change, Look, Do, Judge
<1>1. OpenScreen \/ CommitOnScreen \/ ReadIdentifiers \/ Cleanup \/ JudgeNotice \/ Rotates
        => topic' = topic
  BY DEF OpenScreen, CommitOnScreen, ReadIdentifiers, Cleanup, JudgeNotice, Rotates
<1>2. ASSUME NEW from, NEW field, NEW next, NEW skipped, PolicyStep(from, field, next, skipped)
      PROVE  topic' = topic
  BY <1>2 DEF PolicyStep
<1>3. ASSUME NEW from, NEW lane, NEW field, NEW next, StateStep(from, lane, field, next)
      PROVE  topic' = topic
  BY <1>3 DEF StateStep
<1>4. ASSUME NEW from, NEW lane, NEW policy, NEW field, NEW next,
             CommitStep(from, lane, policy, field, next)
      PROVE  topic' = topic
  BY <1>4 DEF CommitStep
<1>5. PastBefore \/ ReadLatest \/ JudgeStale => topic' = topic
  BY DEF PastBefore, ReadLatest, JudgeStale
<1> QED
  BY <1>1, <1>2, <1>3, <1>4, <1>5 DEF NoticeNext, StaleNext, CommitPast, CommitOld, CommitLatest

LEMMA BoundaryFrame == BoundaryNext => topic' = topic
<1> USE DEF Change, Look, Do, Judge
<1>1. TargetActs => topic' = topic
  BY DEF TargetActs, WorkerAssesses, PathProceeds, LeavesEffect, StartsEarly
<1>2. Pristine \/ SubmitAssessment \/ AttemptPath \/ EquipmentCheckFails \/ CommitConsent
        \/ ConsentState \/ JudgeBoundary => topic' = topic
  BY DEF Pristine, SubmitAssessment, AttemptPath, EquipmentCheckFails, CommitConsent, ConsentState,
     JudgeBoundary
<1>3. ReadEffects => topic' = topic
  BY DEF ReadEffects, Collected
<1> QED BY <1>1, <1>2, <1>3 DEF BoundaryNext

LEMMA ReportFrame == CitationNext \/ FreezeNext => topic' = topic
<1> USE DEF Change, Look, Do, Judge
<1>1. GradesMatrix \/ ReadReference \/ ReadMatrix \/ CaptureBaseline \/ SkipRemoval \/ RemoveSegment
        => topic' = topic
  BY DEF GradesMatrix, ReadReference, ReadMatrix, CaptureBaseline, SkipRemoval, RemoveSegment
<1>2. ReadRemoved \/ RestoreSegment \/ VerifyRestored \/ Recapture \/ JudgeCitation => topic' = topic
  BY DEF ReadRemoved, RestoreSegment, VerifyRestored, Recapture, JudgeCitation
<1>3. MakesReport \/ JudgeFreeze => topic' = topic
  BY DEF MakesReport, JudgeFreeze
<1>4. ASSUME NEW from, NEW version, NEW field, NEW next, Publish(from, version, field, next)
      PROVE  topic' = topic
  BY <1>4 DEF Publish
<1>5. ASSUME NEW from, NEW lane, NEW field, NEW next,
             Wait(from, lane, field, next) \/ Serve(from, lane, field, next)
      PROVE  topic' = topic
  BY <1>5 DEF Wait, Serve
<1> QED BY <1>1, <1>2, <1>3, <1>4, <1>5 DEF CitationNext, FreezeNext

LEMMA DecisionFrame == DecisionNext => topic' = topic
<1> USE DEF Change, Look, Do, Judge
<1>1. DecidesLate => topic' = topic
  BY DEF DecidesLate
<1>2. PrepareCase \/ ProveIdentity \/ CleanCases \/ JudgeDecisions => topic' = topic
  BY DEF PrepareCase, ProveIdentity, CleanCases, JudgeDecisions
<1>3. RequestDecision => topic' = topic
  BY DEF RequestDecision
<1>4. ObserveCase => topic' = topic
  BY DEF ObserveCase
<1> QED BY <1>1, <1>2, <1>3, <1>4 DEF DecisionNext

LEMMA SurfaceFrame == SurfaceNext => topic' = topic
<1> USE DEF Change, Look, Do, Judge, Fails
<1>1. TreeChanges \/ Backfills \/ BackfillsLate => topic' = topic
  BY DEF TreeChanges, Backfills, BackfillsLate
<1>2. ScanSource \/ RescanSource \/ CaptureRuntime \/ PrepareReport \/ ReadBefore \/ ReadAfter
        => topic' = topic
  BY DEF ScanSource, RescanSource, CaptureRuntime, PrepareReport, ReadBefore, ReadAfter
<1>3. DecideHuman \/ CleanReports \/ ScanAfter \/ JudgeSurface => topic' = topic
  BY DEF DecideHuman, CleanReports, ScanAfter, JudgeSurface
<1> QED BY <1>1, <1>2, <1>3 DEF SurfaceNext

LEMMA TopicStays == [Next]_vars => topic' = topic
  BY MinimalFrame, PolicyFrame, BoundaryFrame, ReportFrame, DecisionFrame, SurfaceFrame
     DEF Next, vars

-----------------------------------------------------------------------------
(* What the verdict of N-01 says *)

LEMMA NoticeStep ==
    (topic = "N-01" => NoticeInv) /\ [Next]_vars => (topic = "N-01" => NoticeInv)'
<1> SUFFICES ASSUME topic = "N-01", NoticeInv, [Next]_vars PROVE NoticeInv'
  BY TopicStays
<1>1. [NoticeNext]_vars
  BY DEF Next, MinimalNext, BoundaryNext, StaleNext, CitationNext, FreezeNext, DecisionNext,
         SurfaceNext
<1> QED
  BY <1>1, OpenScreenKeeps, CommitOnScreenKeeps, ReadIdentifiersKeeps, NoticeEnds DEF NoticeNext

\* What the pages and the identifiers come to.
LEMMA NoticeReads ==
    ASSUME NoticeInv, stage \in {"judge", "end"}
    PROVE  /\ Len(seen.lanes) = 2 /\ Len(seen.ids) = 2 /\ 1 \in 1..2 /\ 2 \in 1..2
           /\ NoticeAssertions(seen) = {AssessLane(seen.lanes[1]), AssessLane(seen.lanes[2]),
                                        AssessIdentifiers(seen.ids)}
           /\ \A i \in 1..2 : PageFits(seen.lanes[i], NoticeLanes[i]) /\ IdsFit(seen.ids[i])
<1>1. Len(seen.lanes) = 2 /\ Len(seen.ids) = 2 /\ seen.lanes \in Seq(Pages)
  BY DEF NoticeInv, NoticeShape
<1>2. DOMAIN seen.lanes = {1, 2}
  BY <1>1
<1>3. NoticeAssertions(seen) = {AssessLane(seen.lanes[1]), AssessLane(seen.lanes[2]),
                                AssessIdentifiers(seen.ids)}
  BY <1>2 DEF NoticeAssertions
<1> QED BY <1>1, <1>3 DEF NoticeInv, LogFits

\* The outcome of one screen.
LEMMA LaneMeans ==
    ASSUME NEW page \in Pages, NEW lane, PageFits(page, lane)
    PROVE  /\ AssessLane(page) = "PASS" => Measured(lane)
           /\ AssessLane(page) = "FAIL" => ~Measured(lane)
           /\ AssessLane(page) \in {"PASS", "FAIL", "INCONCLUSIVE"}
           /\ /\ Measured(lane) /\ outage # "secret"
              /\ page.reached = "ready" /\ page.error = "none"
              => AssessLane(page) = "PASS"
<1>1. /\ page.readable \in BOOLEAN /\ page.noSecret \in BOOLEAN /\ page.readable = Measured(lane)
      /\ outage # "secret" => page.noSecret
  BY DEF Pages, PageFits
<1>2. Measured(lane) \in BOOLEAN
  BY DEF Measured
<1>3. CASE page.readable
  BY <1>1, <1>3 DEF AssessLane, Needs, Passed
<1>4. CASE ~page.readable
  BY <1>1, <1>4 DEF AssessLane, Needs, Passed
<1> QED BY <1>1, <1>3, <1>4

LEMMA NoticeMeans ==
    ASSUME NoticeInv
    PROVE  /\ verdict = "PASS" => Sound
           /\ verdict = "FAIL" => ~Sound \/ outage = "rotation"
           /\ Ended /\ Answering => verdict = "PASS"
<1> DEFINE assertions == NoticeAssertions(seen)
<1>1. verdict # "none" => Ended
  BY DEF NoticeInv, NoticeJudged
<1> SUFFICES ASSUME Ended
    PROVE  /\ verdict = "PASS" => Sound
           /\ verdict = "FAIL" => ~Sound \/ outage = "rotation"
           /\ Answering => verdict = "PASS"
  BY <1>1
<1>2. verdict = VerdictFor(assertions, seen)
  BY DEF NoticeInv, NoticeJudged
<1>3. /\ verdict = "PASS" => seen.clean /\ assertions \cap {"FAIL", "INCONCLUSIVE"} = {}
      /\ verdict = "FAIL" => "FAIL" \in assertions
      /\ seen.clean /\ assertions \cap {"FAIL", "INCONCLUSIVE"} = {} => verdict = "PASS"
  <2> HIDE DEF assertions
  <2> QED BY <1>2, AggregateRule DEF VerdictFor, Needs
<1>4. assertions = {AssessLane(seen.lanes[1]), AssessLane(seen.lanes[2]), AssessIdentifiers(seen.ids)}
  BY NoticeReads DEF Ended
<1> HIDE DEF assertions
<1>5. \A i \in 1..2 : PageFits(seen.lanes[i], NoticeLanes[i]) /\ IdsFit(seen.ids[i])
  BY NoticeReads DEF Ended
<1>6. /\ Len(seen.lanes) = 2 /\ Len(seen.ids) = 2 /\ DOMAIN seen.ids = 1..2
      /\ seen.ids \in Seq([screen : Policies, server : Policies, stored : Policies])
  BY NoticeReads DEF Ended, NoticeInv, NoticeShape
<1>7. /\ flaw \in NoticeFlaws /\ outage \in NoticeOutages
      /\ seen.lanes[1] \in Pages /\ seen.lanes[2] \in Pages
  BY <1>6 DEF NoticeInv, NoticeShape
<1>8. ASSUME verdict = "PASS" PROVE Sound
  <2>1. AssessLane(seen.lanes[2]) \notin {"FAIL", "INCONCLUSIVE"}
        /\ AssessIdentifiers(seen.ids) \notin {"FAIL", "INCONCLUSIVE"}
    BY <1>3, <1>4, <1>8
  <2>2. flaw # "hiddenNotice"
    <3>1. Measured("mobile")
      BY <1>5, <1>7, <2>1, TwoLanes, LaneMeans
    <3> QED BY <3>1 DEF Measured
  <2>3. /\ Unread \notin {seen.ids[1].screen, seen.ids[1].server, seen.ids[1].stored}
        /\ seen.ids[1].screen = seen.ids[1].server /\ seen.ids[1].server = seen.ids[1].stored
    BY <1>6, <2>1 DEF AssessIdentifiers, Needs, Passed
  <2>4. flaw \notin {"otherScreen", "refuses", "storesOther"}
    BY <1>5, <2>3 DEF IdsFit, ScreenFits, StoredFits, Unread, Other
  <2> QED BY <1>7, <2>2, <2>4 DEF NoticeFlaws, Sound
<1>9. ASSUME verdict = "FAIL", Sound, outage # "rotation" PROVE FALSE
  <2>1. AssessLane(seen.lanes[1]) # "FAIL" /\ AssessLane(seen.lanes[2]) # "FAIL"
    <3>1. Measured(NoticeLanes[1]) /\ Measured(NoticeLanes[2])
      BY <1>9 DEF Measured, Sound
    <3> QED BY <1>5, <1>7, <3>1, LaneMeans
  <2>2. AssessIdentifiers(seen.ids) # "FAIL"
    <3>1. \A i \in 1..2 : Unread \notin {seen.ids[i].screen, seen.ids[i].server, seen.ids[i].stored}
                          => seen.ids[i].screen = 1 /\ seen.ids[i].server = 1 /\ seen.ids[i].stored = 1
      BY <1>5, <1>9 DEF IdsFit, ScreenFits, StoredFits, Unread, Sound, Still
    <3> QED BY <1>6, <3>1 DEF AssessIdentifiers, Needs, Passed
  <2> QED BY <1>3, <1>4, <1>9, <2>1, <2>2
<1>10. ASSUME Answering PROVE verdict = "PASS"
  <2>1. seen.clean
    BY <1>10 DEF Answering, NoticeInv, LogFits, Ended
  <2>2. AssessLane(seen.lanes[1]) = "PASS" /\ AssessLane(seen.lanes[2]) = "PASS"
    <3>1. \A i \in 1..2 : seen.lanes[i].reached = "ready" /\ seen.lanes[i].error = "none"
      BY <1>6, <1>10 DEF NoticeInv, LogFits
    <3> QED
      <4>1. Measured(NoticeLanes[1]) /\ Measured(NoticeLanes[2]) /\ outage # "secret"
        BY <1>10 DEF Measured, Sound, Answering
      <4> QED BY <1>5, <1>7, <3>1, <4>1, LaneMeans
  <2>3. AssessIdentifiers(seen.ids) = "PASS"
    BY <1>5, <1>6, <1>10 DEF IdsFit, AssessIdentifiers, Needs, Passed, Unread
  <2> QED BY <1>3, <1>4, <2>1, <2>2, <2>3
<1> QED BY <1>8, <1>9, <1>10

-----------------------------------------------------------------------------
(* N-03: an old identifier, the current one, and a consent given before *)

LEMMA Ranks ==
    /\ Rank["past-policy"] = 1 /\ Rank["past-commit"] = 2 /\ Rank["past-before"] = 3
    /\ Rank["current"] = 4 /\ Rank["before"] = 5 /\ Rank["old-commit"] = 6 /\ Rank["after"] = 7
    /\ Rank["reread"] = 8 /\ Rank["latest-commit"] = 9 /\ Rank["facts"] = 10
    /\ Rank["past-after"] = 11 /\ Rank["cleanup"] = 12 /\ Rank["judge"] = 13 /\ Rank["end"] = 14
  BY DEF Rank, StaleStages

LEMMA StaleStarts == Init /\ topic = "N-03" => StaleInv
<1> SUFFICES ASSUME Init, topic = "N-03" PROVE StaleInv
  OBVIOUS
<1>1. StaleInit
  BY DEF Init
<1>2. ToSet(<<"past", "stale">>) = StaleLanes /\ <<>> \in Seq(Consents)
  BY DEF ToSet, StaleLanes
<1>3. world = [policy |-> 1, consents |-> [lane \in StaleLanes |-> <<>>],
               marks |-> [lane \in StaleLanes |-> 0]]
  BY <1>1 DEF StaleInit, PolicyWorld, StaleLanes
<1>4. /\ seen.policy = Unread /\ seen.pastBefore = Unknown /\ seen.pastAfter = Unknown
      /\ seen.before = Unknown /\ seen.after = Unknown /\ seen.attempt = "not-attempted"
      /\ seen.latest = "not-attempted" /\ seen.stored = Unread
      /\ stage = "past-policy" /\ verdict = "none"
  BY <1>1 DEF StaleInit
<1>5. Unknown \in States
  <2>1. -1 \in Nat \cup {-1}
    OBVIOUS
  <2> QED BY <1>2, <2>1 DEF Unknown, States
<1>6. StaleShape
  <2>1. seen \in StaleLog
    BY <1>1, <1>5 DEF StaleInit, StaleLog, CommitAnswers, Consents
  <2>2. world \in StaleWorlds
    BY <1>2, <1>3 DEF StaleWorlds
  <2>3. world.policy = 1
    BY <1>3
  <2> QED BY <1>1, <2>1, <2>2, <2>3 DEF StaleInit, StaleShape, StaleStages
<1> USE Ranks DEF Since
<1> USE <1>3, <1>4 DEF StaleLanes
<1>7. PastFits
  BY DEF PastFits
<1>8. OldFits
  BY DEF OldFits, State
<1>9. LatestFits
  BY DEF LatestFits
<1>10. StaleReads /\ StaleJudged
  BY <1>4 DEF StaleReads, StaleJudged, Ended
<1> QED BY <1>6, <1>7, <1>8, <1>9, <1>10 DEF StaleInv

LEMMA UnknownState == Unknown \in States
<1>1. <<>> \in Seq(Consents) /\ -1 \in Nat \cup {-1}
  OBVIOUS
<1> QED BY <1>1 DEF Unknown, States

\* A read of the Run leaves the target as it is.
LEMMA PolicyReads ==
    ASSUME StaleInv, NEW policy \in ReadPolicy
    PROVE  policy \in {Unread, 1, 2} /\ (Answering => policy = 1)
  BY DEF StaleInv, StaleShape, StaleWorlds, ReadPolicy, Reads, Answering, Still

LEMMA StateReads ==
    ASSUME StaleInv, NEW lane \in StaleLanes, NEW state \in ReadState(lane)
    PROVE  /\ state \in {State(lane), Unknown} /\ (Answering => state = State(lane))
           /\ state \in States /\ State(lane) # Unknown
<1>1. State(lane) \in States /\ world.marks[lane] \in Nat
  BY DEF StaleInv, StaleShape, StaleWorlds, State, States
<1>2. State(lane) # Unknown
  BY <1>1 DEF State, Unknown
<1> QED BY <1>1, <1>2, UnknownState DEF ReadState, Reads, State, Answering

LEMMA PastPolicyKeeps ==
    ASSUME StaleInv, PolicyStep("past-policy", "policy", "past-commit", "current") PROVE StaleInv'
<1>1. PICK policy \in ReadPolicy :
        Look("past-policy", [seen EXCEPT !["policy"] = policy],
             IF policy = Unread THEN "current" ELSE "past-commit")
  BY DEF PolicyStep
<1>2. /\ stage = "past-policy" /\ stage' = (IF policy = Unread THEN "current" ELSE "past-commit")
      /\ UNCHANGED <<topic, flaw, outage, world, verdict>> /\ seen' = [seen EXCEPT !.policy = policy]
  BY <1>1 DEF Look, Do
<1>3. policy \in {Unread, 1, 2} /\ (Answering => policy = 1)
  BY PolicyReads
<1>4. /\ seen'.policy = policy /\ seen'.current = seen.current /\ seen'.reread = seen.reread
      /\ seen'.pastBefore = seen.pastBefore /\ seen'.pastAfter = seen.pastAfter
      /\ seen'.before = seen.before /\ seen'.after = seen.after /\ seen'.attempt = seen.attempt
      /\ seen'.latest = seen.latest /\ seen'.stored = seen.stored /\ seen'.clean = seen.clean /\ seen' \in StaleLog
  BY <1>2, <1>3 DEF StaleInv, StaleShape, StaleLog
<1> USE <1>2, <1>3, <1>4, Ranks DEF Since, StaleInv
<1>5. StaleShape'
  BY DEF StaleShape, StaleStages, Still
<1>6. PastFits'
  BY DEF PastFits, Sound, State
<1>7. OldFits'
  BY DEF OldFits, Sound, State
<1>8. LatestFits'
  BY DEF OldFits, LatestFits, Sound
<1>9. StaleReads'
  BY DEF StaleReads, Answering, Sound, Unread
<1>10. StaleJudged'
  BY DEF StaleJudged, Ended
<1> QED BY <1>5, <1>6, <1>7, <1>8, <1>9, <1>10 DEF StaleInv

LEMMA CurrentKeeps ==
    ASSUME StaleInv, PolicyStep("current", "current", "before", "before") PROVE StaleInv'
<1>1. PICK policy \in ReadPolicy :
        Look("current", [seen EXCEPT !["current"] = policy],
             IF policy = Unread THEN "before" ELSE "before")
  BY DEF PolicyStep
<1>2. /\ stage = "current" /\ stage' = (IF policy = Unread THEN "before" ELSE "before")
      /\ UNCHANGED <<topic, flaw, outage, world, verdict>> /\ seen' = [seen EXCEPT !.current = policy]
  BY <1>1 DEF Look, Do
<1>3. policy \in {Unread, 1, 2} /\ (Answering => policy = 1)
  BY PolicyReads
<1>4. /\ seen'.policy = seen.policy /\ seen'.current = policy /\ seen'.reread = seen.reread
      /\ seen'.pastBefore = seen.pastBefore /\ seen'.pastAfter = seen.pastAfter
      /\ seen'.before = seen.before /\ seen'.after = seen.after /\ seen'.attempt = seen.attempt
      /\ seen'.latest = seen.latest /\ seen'.stored = seen.stored /\ seen'.clean = seen.clean /\ seen' \in StaleLog
  BY <1>2, <1>3 DEF StaleInv, StaleShape, StaleLog
<1> USE <1>2, <1>3, <1>4, Ranks DEF Since, StaleInv
<1>5. StaleShape'
  BY DEF StaleShape, StaleStages, Still
<1>6. PastFits'
  BY DEF PastFits, Sound, State
<1>7. OldFits'
  BY DEF OldFits, Sound, State
<1>8. LatestFits'
  BY DEF OldFits, LatestFits, Sound
<1>9. StaleReads'
  BY DEF StaleReads, Answering, Sound, Unread
<1>10. StaleJudged'
  BY DEF StaleJudged, Ended
<1> QED BY <1>5, <1>6, <1>7, <1>8, <1>9, <1>10 DEF StaleInv

LEMMA RereadKeeps ==
    ASSUME StaleInv, PolicyStep("reread", "reread", "latest-commit", "past-after") PROVE StaleInv'
<1>1. PICK policy \in ReadPolicy :
        Look("reread", [seen EXCEPT !["reread"] = policy],
             IF policy = Unread THEN "past-after" ELSE "latest-commit")
  BY DEF PolicyStep
<1>2. /\ stage = "reread" /\ stage' = (IF policy = Unread THEN "past-after" ELSE "latest-commit")
      /\ UNCHANGED <<topic, flaw, outage, world, verdict>> /\ seen' = [seen EXCEPT !.reread = policy]
  BY <1>1 DEF Look, Do
<1>3. policy \in {Unread, 1, 2} /\ (Answering => policy = 1)
  BY PolicyReads
<1>4. /\ seen'.policy = seen.policy /\ seen'.current = seen.current /\ seen'.reread = policy
      /\ seen'.pastBefore = seen.pastBefore /\ seen'.pastAfter = seen.pastAfter
      /\ seen'.before = seen.before /\ seen'.after = seen.after /\ seen'.attempt = seen.attempt
      /\ seen'.latest = seen.latest /\ seen'.stored = seen.stored /\ seen'.clean = seen.clean /\ seen' \in StaleLog
  BY <1>2, <1>3 DEF StaleInv, StaleShape, StaleLog
<1> USE <1>2, <1>3, <1>4, Ranks DEF Since, StaleInv
<1>5. StaleShape'
  BY DEF StaleShape, StaleStages, Still
<1>6. PastFits'
  BY DEF PastFits, Sound, State
<1>7. OldFits'
  BY DEF OldFits, Sound, State
<1>8. LatestFits'
  BY DEF OldFits, LatestFits, Sound
<1>9. StaleReads'
  BY DEF StaleReads, Answering, Sound, Unread
<1>10. StaleJudged'
  BY DEF StaleJudged, Ended
<1> QED BY <1>5, <1>6, <1>7, <1>8, <1>9, <1>10 DEF StaleInv

LEMMA BeforeKeeps ==
    ASSUME StaleInv, StateStep("before", "stale", "before", IF seen.current = Unread THEN "after" ELSE "old-commit")
    PROVE  StaleInv'
<1>1. PICK state \in ReadState("stale") :
        Look("before", [seen EXCEPT !["before"] = state],
             IF seen.current = Unread THEN "after" ELSE "old-commit")
  BY DEF StateStep
<1>2. /\ stage = "before" /\ stage' = (IF seen.current = Unread THEN "after" ELSE "old-commit")
      /\ UNCHANGED <<topic, flaw, outage, world, verdict>> /\ seen' = [seen EXCEPT !.before = state]
  BY <1>1 DEF Look, Do
<1>3. /\ state \in {State("stale"), Unknown} /\ (Answering => state = State("stale"))
      /\ state \in States /\ State("stale") # Unknown
  BY StateReads DEF StaleLanes
<1>4. /\ seen'.policy = seen.policy /\ seen'.current = seen.current
      /\ seen'.reread = seen.reread /\ seen'.pastBefore = seen.pastBefore
      /\ seen'.pastAfter = seen.pastAfter /\ seen'.before = state /\ seen'.after = seen.after
      /\ seen'.attempt = seen.attempt /\ seen'.latest = seen.latest
      /\ seen'.stored = seen.stored /\ seen'.clean = seen.clean /\ seen' \in StaleLog
  BY <1>2, <1>3 DEF StaleInv, StaleShape, StaleLog
<1> USE <1>2, <1>3, <1>4, Ranks DEF Since, StaleInv
<1>5. StaleShape'
  BY DEF StaleShape, StaleStages, Still
<1>6. PastFits'
  BY DEF PastFits, Sound, State
<1>7. OldFits'
  BY DEF OldFits, Sound, State
<1>8. LatestFits'
  BY DEF OldFits, LatestFits, Sound
<1>9. StaleReads'
  BY DEF StaleReads, Answering, Sound, Unread
<1>10. StaleJudged'
  BY DEF StaleJudged, Ended
<1> QED BY <1>5, <1>6, <1>7, <1>8, <1>9, <1>10 DEF StaleInv

LEMMA AfterKeeps ==
    ASSUME StaleInv, StateStep("after", "stale", "after", "reread")
    PROVE  StaleInv'
<1>1. PICK state \in ReadState("stale") :
        Look("after", [seen EXCEPT !["after"] = state],
             "reread")
  BY DEF StateStep
<1>2. /\ stage = "after" /\ stage' = ("reread")
      /\ UNCHANGED <<topic, flaw, outage, world, verdict>> /\ seen' = [seen EXCEPT !.after = state]
  BY <1>1 DEF Look, Do
<1>3. /\ state \in {State("stale"), Unknown} /\ (Answering => state = State("stale"))
      /\ state \in States /\ State("stale") # Unknown
  BY StateReads DEF StaleLanes
<1>4. /\ seen'.policy = seen.policy /\ seen'.current = seen.current
      /\ seen'.reread = seen.reread /\ seen'.pastBefore = seen.pastBefore
      /\ seen'.pastAfter = seen.pastAfter /\ seen'.before = seen.before /\ seen'.after = state
      /\ seen'.attempt = seen.attempt /\ seen'.latest = seen.latest
      /\ seen'.stored = seen.stored /\ seen'.clean = seen.clean /\ seen' \in StaleLog
  BY <1>2, <1>3 DEF StaleInv, StaleShape, StaleLog
<1> USE <1>2, <1>3, <1>4, Ranks DEF Since, StaleInv
<1>5. StaleShape'
  BY DEF StaleShape, StaleStages, Still
<1>6. PastFits'
  BY DEF PastFits, Sound, State
<1>7. OldFits'
  BY DEF OldFits, Sound, State
<1>8. LatestFits'
  BY DEF OldFits, LatestFits, Sound
<1>9. StaleReads'
  BY DEF StaleReads, Answering, Sound, Unread
<1>10. StaleJudged'
  BY DEF StaleJudged, Ended
<1> QED BY <1>5, <1>6, <1>7, <1>8, <1>9, <1>10 DEF StaleInv

LEMMA PastAfterKeeps ==
    ASSUME StaleInv, StateStep("past-after", "past", "pastAfter", "cleanup")
    PROVE  StaleInv'
<1>1. PICK state \in ReadState("past") :
        Look("past-after", [seen EXCEPT !["pastAfter"] = state],
             "cleanup")
  BY DEF StateStep
<1>2. /\ stage = "past-after" /\ stage' = ("cleanup")
      /\ UNCHANGED <<topic, flaw, outage, world, verdict>> /\ seen' = [seen EXCEPT !.pastAfter = state]
  BY <1>1 DEF Look, Do
<1>3. /\ state \in {State("past"), Unknown} /\ (Answering => state = State("past"))
      /\ state \in States /\ State("past") # Unknown
  BY StateReads DEF StaleLanes
<1>4. /\ seen'.policy = seen.policy /\ seen'.current = seen.current
      /\ seen'.reread = seen.reread /\ seen'.pastBefore = seen.pastBefore
      /\ seen'.pastAfter = state /\ seen'.before = seen.before /\ seen'.after = seen.after
      /\ seen'.attempt = seen.attempt /\ seen'.latest = seen.latest
      /\ seen'.stored = seen.stored /\ seen'.clean = seen.clean /\ seen' \in StaleLog
  BY <1>2, <1>3 DEF StaleInv, StaleShape, StaleLog
<1> USE <1>2, <1>3, <1>4, Ranks DEF Since, StaleInv
<1>5. StaleShape'
  BY DEF StaleShape, StaleStages, Still
<1>6. PastFits'
  BY DEF PastFits, Sound, State
<1>7. OldFits'
  BY DEF OldFits, Sound, State
<1>8. LatestFits'
  BY DEF OldFits, LatestFits, Sound
<1>9. StaleReads'
  BY DEF StaleReads, Answering, Sound, Unread
<1>10. StaleJudged'
  BY DEF StaleJudged, Ended
<1> QED BY <1>5, <1>6, <1>7, <1>8, <1>9, <1>10 DEF StaleInv

\* What a consent that is presented does to the target, and how it is answered.
Presented(lane, policy, answer, target) ==
    LET other == IF lane = "past" THEN "stale" ELSE "past"
        stored == IF flaw = "storesOther" /\ lane # "past" THEN Other ELSE policy
        rewrites == flaw = "rewritesPast" /\ lane = "stale" /\ ~Refused(lane, policy)
    IN  /\ target \in StaleWorlds /\ target.policy = world.policy
        /\ target.consents[other] = world.consents[other]
        /\ \/ /\ Refused(lane, policy) /\ answer \in {"rejected", "transport"}
              /\ outage # "response" => answer = "rejected"
              /\ target.consents[lane] = world.consents[lane]
              /\ target.marks[other] = world.marks[other]
              /\ target.marks[lane] = IF flaw = "changesOnRefusal" THEN world.marks[lane] + 1
                                      ELSE world.marks[lane]
           \/ /\ ~Refused(lane, policy) /\ answer \in {"2xx", "transport"}
              /\ outage # "response" => answer = "2xx"
              /\ target.consents[lane] # <<>> /\ Last(target.consents[lane]) = stored
              /\ target.marks[lane] = world.marks[lane]
              /\ target.marks[other] = IF rewrites THEN world.marks[other] + 1 ELSE world.marks[other]
           \/ /\ outage = "response" /\ answer = "transport" /\ target = world
           \/ /\ outage = "refusing" /\ answer = "rejected" /\ target = world

LEMMA CommitDoes ==
    ASSUME StaleInv, NEW lane \in StaleLanes, NEW policy \in {Old, 1, 2}, NEW answer,
           \/ answer \in Answers(lane, policy) /\ world' = Committed(lane, policy)
           \/ outage = "response" /\ answer = "transport" /\ world' = world
           \/ outage = "refusing" /\ answer = "rejected" /\ world' = world
    PROVE  answer \in CommitAnswers /\ Presented(lane, policy, answer, world')
<1> DEFINE other == IF lane = "past" THEN "stale" ELSE "past"
           stored == IF flaw = "storesOther" /\ lane # "past" THEN Other ELSE policy
           longer == Append(world.consents[lane], stored)
           new == [world EXCEPT !.consents[lane] = longer]
<1>1. /\ world \in StaleWorlds /\ other \in StaleLanes /\ other # lane
      /\ world.consents[lane] \in Seq(Consents) /\ world.marks[lane] \in Nat /\ world.marks[other] \in Nat
  BY DEF StaleInv, StaleShape, StaleWorlds, StaleLanes
<1>2. longer \in Seq(Consents) /\ longer # <<>> /\ Last(longer) = stored
  <2>1. stored \in Consents
    BY DEF Consents, Old
  <2> HIDE DEF stored
  <2> QED BY <1>1, <2>1, Grown
<1> HIDE DEF longer
<1>3. /\ new \in StaleWorlds /\ new.policy = world.policy /\ new.marks = world.marks
      /\ new.consents[lane] = longer /\ new.consents[other] = world.consents[other]
  BY <1>1, <1>2 DEF StaleWorlds
<1>4. CASE answer \in Answers(lane, policy) /\ world' = Committed(lane, policy)
  <2>1. /\ answer \in CommitAnswers
        /\ answer \in {IF Refused(lane, policy) THEN "rejected" ELSE "2xx", "transport"}
        /\ outage # "response" => answer = IF Refused(lane, policy) THEN "rejected" ELSE "2xx"
    BY <1>4 DEF Answers, Reads, CommitAnswers
  <2>2. world' = Committed(lane, policy)
    BY <1>4
  <2>3. CASE Refused(lane, policy)
    <3>1. CASE flaw = "changesOnRefusal"
      <4>1. world' = [world EXCEPT !.marks[lane] = @ + 1]
        BY <2>2, <2>3, <3>1 DEF Committed
      <4> DEFINE more == world.marks[lane] + 1
      <4>2. more \in Nat /\ world' = [world EXCEPT !.marks[lane] = more]
        BY <1>1, <4>1
      <4> HIDE DEF more
      <4>3. /\ world' \in StaleWorlds /\ world'.policy = world.policy
            /\ world'.consents = world.consents /\ world'.marks[lane] = more
            /\ world'.marks[other] = world.marks[other]
        BY <1>1, <4>2 DEF StaleWorlds
      <4> QED BY <2>1, <2>3, <3>1, <4>3 DEF Presented, more
    <3>2. CASE flaw # "changesOnRefusal"
      <4>1. world' = world
        BY <2>2, <2>3, <3>2 DEF Committed
      <4> QED BY <1>1, <2>1, <2>3, <3>2, <4>1 DEF Presented
    <3> QED BY <2>1, <3>1, <3>2
  <2>4. CASE ~Refused(lane, policy)
    <3>1. CASE flaw = "rewritesPast" /\ lane = "stale"
      <4>1. world' = [new EXCEPT !.marks["past"] = @ + 1]
        BY <2>2, <2>4, <3>1 DEF Committed, longer
      <4> DEFINE more == new.marks["past"] + 1
      <4> HIDE DEF new, stored
      <4>4. more \in Nat /\ world' = [new EXCEPT !.marks["past"] = more]
        BY <1>3, <4>1 DEF StaleWorlds, StaleLanes
      <4> HIDE DEF more
      <4>5. /\ world' \in StaleWorlds /\ world'.policy = new.policy
            /\ world'.consents = new.consents /\ world'.marks["past"] = more
            /\ world'.marks["stale"] = new.marks["stale"]
        BY <1>3, <4>4 DEF StaleWorlds, StaleLanes
      <4>2. /\ world' \in StaleWorlds /\ world'.policy = new.policy
            /\ world'.consents = new.consents /\ world'.marks["past"] = new.marks["past"] + 1
            /\ world'.marks["stale"] = new.marks["stale"]
        BY <4>5 DEF more
      <4>3. /\ world'.consents[lane] # <<>> /\ Last(world'.consents[lane]) = stored
            /\ world'.consents[other] = world.consents[other]
            /\ world'.marks[lane] = world.marks[lane] /\ world'.marks[other] = world.marks[other] + 1
        BY <1>2, <1>3, <3>1, <4>2
      <4> QED BY <1>3, <2>1, <2>4, <3>1, <4>2, <4>3 DEF Presented, stored
    <3>2. CASE ~(flaw = "rewritesPast" /\ lane = "stale")
      <4>1. world' = new
        BY <2>2, <2>4, <3>2 DEF Committed, longer
      <4> HIDE DEF new
      <4> QED BY <1>2, <1>3, <2>1, <2>4, <3>2, <4>1 DEF Presented
    <3> QED BY <2>1, <3>1, <3>2
  <2> QED BY <2>3, <2>4
<1>5. CASE /\ world' = world
           /\ \/ outage = "response" /\ answer = "transport"
              \/ outage = "refusing" /\ answer = "rejected"
  BY <1>1, <1>5 DEF Presented, CommitAnswers
<1> QED BY <1>4, <1>5

LEMMA CommitPastKeeps ==
    ASSUME StaleInv, CommitPast PROVE StaleInv'
<1>1. /\ stage = "past-commit" /\ stage' = "past-before" /\ UNCHANGED <<topic, flaw, outage, verdict>>
      /\ \E answer : /\ seen' = [seen EXCEPT !.latest = answer]
                      /\ \/ answer \in Answers("past", seen.policy) /\ world' = Committed("past", seen.policy)
                         \/ outage = "response" /\ answer = "transport" /\ world' = world
                         \/ outage = "refusing" /\ answer = "rejected" /\ world' = world
  BY DEF CommitPast, CommitStep, Look, Do
<1>2. /\ seen.policy \in {Old, 1, 2} /\ world \in StaleWorlds /\ Old # world.policy
      /\ world.marks["past"] \in Nat /\ world.marks["stale"] \in Nat
  BY <1>1 DEF StaleInv, StaleShape, StaleLog, StaleWorlds, StaleLanes, PastFits, LatestFits, Old
<1>3. PICK answer \in CommitAnswers :
        seen' = [seen EXCEPT !.latest = answer] /\ Presented("past", seen.policy, answer, world')
  BY <1>1, <1>2, CommitDoes DEF StaleLanes
<1>4. /\ seen'.policy = seen.policy /\ seen'.current = seen.current
      /\ seen'.reread = seen.reread /\ seen'.pastBefore = seen.pastBefore
      /\ seen'.pastAfter = seen.pastAfter /\ seen'.before = seen.before
      /\ seen'.after = seen.after /\ seen'.attempt = seen.attempt /\ seen'.latest = answer
      /\ seen'.stored = seen.stored /\ seen'.clean = seen.clean /\ seen' \in StaleLog
  BY <1>2, <1>3 DEF StaleInv, StaleShape, StaleLog
<1>5. /\ world' \in StaleWorlds /\ world'.policy = world.policy
      /\ world'.consents["stale"] = world.consents["stale"]
      /\ world'.marks["stale"] = world.marks["stale"]
      /\ flaw # "changesOnRefusal" => world'.marks["past"] = world.marks["past"]
      /\ answer = "2xx" => world'.consents["past"] # <<>> /\ flaw # "refuses"
  BY <1>2, <1>3 DEF Presented, Refused
<1>12. Answering => answer = "2xx"
  BY <1>1, <1>3 DEF Presented, Refused, Answering, Sound, StaleInv, StaleShape, StaleReads,
     Still
<1> USE Ranks DEF Since
<1> USE <1>1, <1>2, <1>4, <1>5 DEF StaleInv
<1>6. StaleShape'
  BY SMTT(30) DEF StaleShape, StaleStages, Still
<1>7. PastFits'
  BY SMTT(30) DEF PastFits, Sound, State
<1>8. OldFits'
  BY SMTT(30) DEF OldFits, Sound, State
<1>9. LatestFits'
  <2>1. seen.stored = Unread /\ (flaw # "acceptsStale" => world.consents["stale"] = <<>>)
    BY <1>1 DEF StaleInv, OldFits, LatestFits
  <2> QED BY <1>1, <1>4, <1>5, <2>1 DEF StaleInv, LatestFits, Sound
<1>10. StaleReads'
  BY <1>1, <1>2, <1>4, <1>5, <1>12 DEF StaleInv, StaleReads, Answering, Sound, Unread
<1>11. StaleJudged'
  BY <1>1 DEF StaleInv, StaleJudged, Ended
<1> QED BY <1>6, <1>7, <1>8, <1>9, <1>10, <1>11 DEF StaleInv

LEMMA CommitOldKeeps ==
    ASSUME StaleInv, CommitOld PROVE StaleInv'
<1>1. /\ stage = "old-commit" /\ stage' = "after" /\ UNCHANGED <<topic, flaw, outage, verdict>>
      /\ \E answer : /\ seen' = [seen EXCEPT !.attempt = answer]
                      /\ \/ answer \in Answers("stale", Old) /\ world' = Committed("stale", Old)
                         \/ outage = "response" /\ answer = "transport" /\ world' = world
                         \/ outage = "refusing" /\ answer = "rejected" /\ world' = world
  BY DEF CommitOld, CommitStep, Look, Do
<1>2. /\ Old \in {Old, 1, 2} /\ world \in StaleWorlds /\ Old # world.policy
      /\ world.marks["past"] \in Nat /\ world.marks["stale"] \in Nat
  BY <1>1 DEF StaleInv, StaleShape, StaleLog, StaleWorlds, StaleLanes, PastFits, LatestFits, Old
<1>3. PICK answer \in CommitAnswers :
        seen' = [seen EXCEPT !.attempt = answer] /\ Presented("stale", Old, answer, world')
  BY <1>1, <1>2, CommitDoes DEF StaleLanes
<1>4. /\ seen'.policy = seen.policy /\ seen'.current = seen.current
      /\ seen'.reread = seen.reread /\ seen'.pastBefore = seen.pastBefore
      /\ seen'.pastAfter = seen.pastAfter /\ seen'.before = seen.before
      /\ seen'.after = seen.after /\ seen'.attempt = answer /\ seen'.latest = seen.latest
      /\ seen'.stored = seen.stored /\ seen'.clean = seen.clean /\ seen' \in StaleLog
  BY <1>2, <1>3 DEF StaleInv, StaleShape, StaleLog
<1>5. /\ world' \in StaleWorlds /\ world'.policy = world.policy
      /\ world'.consents["past"] = world.consents["past"]
      /\ world'.marks["past"] = world.marks["past"]
      /\ flaw # "acceptsStale" => world'.consents["stale"] = world.consents["stale"] /\ answer # "2xx"
      /\ flaw # "changesOnRefusal" => world'.marks["stale"] = world.marks["stale"]
      /\ flaw = "changesOnRefusal" /\ outage # "refusing" /\ answer = "rejected"
           => world'.marks["stale"] > 0
      /\ flaw = "acceptsStale" /\ outage # "refusing" => answer # "rejected"
  BY <1>2, <1>3 DEF Presented, Refused
<1>12. Answering => answer = "rejected"
  BY <1>2, <1>3 DEF Presented, Refused, Answering, Sound
<1> USE Ranks DEF Since
<1> USE <1>1, <1>2, <1>4, <1>5 DEF StaleInv
<1>6. StaleShape'
  BY SMTT(30) DEF StaleShape, StaleStages, Still
<1>7. PastFits'
  BY SMTT(30) DEF PastFits, Sound, State
<1>8. OldFits'
  BY SMTT(30) DEF OldFits, Sound, State
<1>9. LatestFits'
  BY SMTT(30) DEF OldFits, LatestFits, Sound
<1>10. StaleReads'
  <2> SUFFICES ASSUME Answering PROVE StaleReads'
    BY <1>1 DEF StaleReads, Answering, Sound
  <2> QED BY <1>1, <1>4, <1>12 DEF StaleInv, StaleReads
<1>11. StaleJudged'
  BY <1>1 DEF StaleInv, StaleJudged, Ended
<1> QED BY <1>6, <1>7, <1>8, <1>9, <1>10, <1>11 DEF StaleInv

LEMMA CommitLatestKeeps ==
    ASSUME StaleInv, CommitLatest PROVE StaleInv'
<1>1. /\ stage = "latest-commit" /\ stage' = "facts" /\ UNCHANGED <<topic, flaw, outage, verdict>>
      /\ \E answer : /\ seen' = [seen EXCEPT !.latest = answer]
                      /\ \/ answer \in Answers("stale", seen.reread) /\ world' = Committed("stale", seen.reread)
                         \/ outage = "response" /\ answer = "transport" /\ world' = world
                         \/ outage = "refusing" /\ answer = "rejected" /\ world' = world
  BY DEF CommitLatest, CommitStep, Look, Do
<1>2. /\ seen.reread \in {Old, 1, 2} /\ world \in StaleWorlds /\ Old # world.policy
      /\ world.marks["past"] \in Nat /\ world.marks["stale"] \in Nat
  BY <1>1 DEF StaleInv, StaleShape, StaleLog, StaleWorlds, StaleLanes, PastFits, LatestFits, Old
<1>3. PICK answer \in CommitAnswers :
        seen' = [seen EXCEPT !.latest = answer] /\ Presented("stale", seen.reread, answer, world')
  BY <1>1, <1>2, CommitDoes DEF StaleLanes
<1>4. /\ seen'.policy = seen.policy /\ seen'.current = seen.current
      /\ seen'.reread = seen.reread /\ seen'.pastBefore = seen.pastBefore
      /\ seen'.pastAfter = seen.pastAfter /\ seen'.before = seen.before
      /\ seen'.after = seen.after /\ seen'.attempt = seen.attempt /\ seen'.latest = answer
      /\ seen'.stored = seen.stored /\ seen'.clean = seen.clean /\ seen' \in StaleLog
  BY <1>2, <1>3 DEF StaleInv, StaleShape, StaleLog
<1>5. /\ world' \in StaleWorlds /\ world'.policy = world.policy
      /\ world'.consents["past"] = world.consents["past"]
      /\ flaw # "rewritesPast" => world'.marks["past"] = world.marks["past"]
      /\ flaw = "rewritesPast" /\ answer = "2xx" => world'.marks["past"] > 0
      /\ flaw = "refuses" => answer # "2xx"
      /\ world.marks["stale"] > 0 => world'.marks["stale"] > 0
      /\ \/ world'.consents["stale"] = world.consents["stale"]
         \/ /\ answer # "rejected" /\ world'.consents["stale"] # <<>>
            /\ Last(world'.consents["stale"]) = IF flaw = "storesOther" THEN Other ELSE seen.reread
  BY <1>2, <1>3, SMTT(30) DEF Presented, Refused
<1>12. Answering => answer = "2xx" /\ world'.consents["stale"] # <<>>
  <2>1. stage = "latest-commit" /\ Rank["latest-commit"] = 9
    BY <1>1, Ranks
  <2>2. Answering => seen.reread = 1 /\ world.policy = 1
    BY <2>1 DEF StaleInv, StaleReads, StaleShape, Since, Answering, Still
  <2> QED BY <1>3, <2>2 DEF Presented, Refused, Answering, Sound
<1> USE Ranks DEF Since
<1>6. StaleShape'
  BY <1>1, <1>2, <1>4, <1>5, SMTT(30) DEF StaleInv, StaleShape, StaleStages, Still
<1>7. PastFits'
  BY <1>1, <1>2, <1>4, <1>5, SMTT(30) DEF StaleInv, PastFits, Sound, State
<1>8. OldFits'
  <2>1. flaw = "changesOnRefusal" /\ outage # "refusing" /\ seen.attempt = "rejected"
          => world.marks["stale"] > 0
    BY DEF StaleInv, OldFits
  <2>2. Since("after")' /\ Since("facts")'
    BY <1>1
  <2> QED BY <1>1, <1>4, <1>5, <2>1, <2>2 DEF StaleInv, OldFits, Sound
<1>9. LatestFits'
  BY <1>1, <1>2, <1>4, <1>5, SMTT(30) DEF StaleInv, OldFits, LatestFits, Sound
<1>10. StaleReads'
  BY <1>1, <1>2, <1>4, <1>5, <1>12 DEF StaleInv, StaleReads, Answering, Sound, Unread
<1>11. StaleJudged'
  BY <1>1 DEF StaleInv, StaleJudged, Ended
<1> QED BY <1>6, <1>7, <1>8, <1>9, <1>10, <1>11 DEF StaleInv

LEMMA PastBeforeKeeps ==
    ASSUME StaleInv, PastBefore PROVE StaleInv'
<1>1. PICK state \in ReadState("past") :
        Look("past-before",
             [seen EXCEPT !.pastBefore = IF seen.latest = "2xx" THEN state ELSE Unknown,
                          !.latest = "not-attempted"], "current")
  BY DEF PastBefore
<1> DEFINE kept == IF seen.latest = "2xx" THEN state ELSE Unknown
<1>2. /\ stage = "past-before" /\ stage' = "current"
      /\ UNCHANGED <<topic, flaw, outage, world, verdict>>
      /\ seen' = [seen EXCEPT !.pastBefore = kept, !.latest = "not-attempted"]
  BY <1>1 DEF Look, Do
<1>3. /\ state \in {State("past"), Unknown} /\ (Answering => state = State("past"))
      /\ state \in States /\ Unknown \in States /\ State("past") # Unknown
  BY StateReads, UnknownState DEF StaleLanes
<1>11. /\ kept \in {state, Unknown} /\ kept \in States /\ (seen.latest # "2xx" => kept = Unknown)
       /\ seen.latest = "2xx" => kept = state
  BY <1>3
<1> HIDE DEF kept
<1>4. /\ seen'.policy = seen.policy /\ seen'.current = seen.current
      /\ seen'.reread = seen.reread /\ seen'.pastBefore = kept
      /\ seen'.pastAfter = seen.pastAfter /\ seen'.before = seen.before
      /\ seen'.after = seen.after /\ seen'.attempt = seen.attempt
      /\ seen'.latest = "not-attempted" /\ seen'.stored = seen.stored
      /\ seen'.clean = seen.clean /\ seen' \in StaleLog
  BY <1>2, <1>11 DEF StaleInv, StaleShape, StaleLog, CommitAnswers
<1>12. flaw # "changesOnRefusal" => world.marks["past"] = 0
  BY <1>2, Ranks DEF StaleInv, PastFits, Since
<1> USE Ranks DEF Since
<1> USE <1>2, <1>3, <1>4, <1>11, <1>12 DEF StaleInv
<1>5. StaleShape'
  BY DEF StaleShape, StaleStages, Still
<1>6. PastFits'
  BY DEF PastFits, Sound, State
<1>7. OldFits'
  BY DEF OldFits, Sound, State
<1>8. LatestFits'
  BY DEF OldFits, LatestFits, Sound
<1>9. StaleReads'
  BY DEF StaleReads, Answering, Sound, Unread
<1>10. StaleJudged'
  BY <1>2 DEF StaleInv, StaleJudged, Ended
<1> QED BY <1>5, <1>6, <1>7, <1>8, <1>9, <1>10 DEF StaleInv

LEMMA ReadLatestKeeps ==
    ASSUME StaleInv, ReadLatest PROVE StaleInv'
<1>1. PICK stored \in ReadFacts("stale") :
        Look("facts", [seen EXCEPT !.stored = stored], "past-after")
  BY DEF ReadLatest
<1>2. /\ stage = "facts" /\ stage' = "past-after"
      /\ UNCHANGED <<topic, flaw, outage, world, verdict>> /\ seen' = [seen EXCEPT !.stored = stored]
  BY <1>1 DEF Look, Do
<1>3. /\ stored \in Consents
      /\ stored # Unread => /\ world.consents["stale"] # <<>>
                            /\ stored = Last(world.consents["stale"])
      /\ Answering => stored # Unread
  <2>1. world.consents["stale"] \in Seq(Consents)
    BY DEF StaleInv, StaleShape, StaleWorlds, StaleLanes
  <2>2. CASE world.consents["stale"] = <<>>
    <3>1. ~Answering
      BY <1>2, <2>2, Ranks DEF StaleInv, StaleReads, Since
    <3> QED BY <2>2, <3>1 DEF ReadFacts, Reads, Consents
  <2>3. CASE world.consents["stale"] # <<>>
    <3>1. Last(world.consents["stale"]) \in Consents
      BY <2>1, <2>3 DEF Last
    <3>2. Answering => Last(world.consents["stale"]) # Unread
      BY <1>2, <2>3, Ranks DEF StaleInv, LatestFits, StaleReads, Since, Answering, Unread
    <3> QED BY <2>3, <3>1, <3>2 DEF ReadFacts, Reads, Consents, Answering
  <2> QED BY <2>2, <2>3
<1>4. /\ seen'.policy = seen.policy /\ seen'.current = seen.current
      /\ seen'.reread = seen.reread /\ seen'.pastBefore = seen.pastBefore
      /\ seen'.pastAfter = seen.pastAfter /\ seen'.before = seen.before
      /\ seen'.after = seen.after /\ seen'.attempt = seen.attempt /\ seen'.latest = seen.latest
      /\ seen'.stored = stored /\ seen'.clean = seen.clean /\ seen' \in StaleLog
  BY <1>2, <1>3 DEF StaleInv, StaleShape, StaleLog
<1> USE <1>2, <1>3, <1>4, Ranks DEF Since, StaleInv
<1>5. StaleShape'
  BY DEF StaleShape, StaleStages, Still
<1>6. PastFits'
  BY DEF PastFits, Sound, State
<1>7. OldFits'
  BY DEF OldFits, Sound, State
<1>8. LatestFits'
  BY DEF OldFits, LatestFits, Sound
<1>9. StaleReads'
  BY DEF StaleReads, Answering, Sound, Unread
<1>10. StaleJudged'
  BY DEF StaleJudged, Ended
<1> QED BY <1>5, <1>6, <1>7, <1>8, <1>9, <1>10 DEF StaleInv

LEMMA StaleCleanupKeeps ==
    ASSUME StaleInv, Cleanup PROVE StaleInv'
<1>1. PICK clean \in ReadCleanup : Look("cleanup", [seen EXCEPT !.clean = clean], "judge")
  BY DEF Cleanup
<1>2. /\ stage = "cleanup" /\ stage' = "judge"
      /\ UNCHANGED <<topic, flaw, outage, world, verdict>> /\ seen' = [seen EXCEPT !.clean = clean]
  BY <1>1 DEF Look, Do
<1>3. clean \in BOOLEAN /\ (Answering => clean)
  BY DEF ReadCleanup, Reads, Answering
<1>4. /\ seen'.policy = seen.policy /\ seen'.current = seen.current
      /\ seen'.reread = seen.reread /\ seen'.pastBefore = seen.pastBefore
      /\ seen'.pastAfter = seen.pastAfter /\ seen'.before = seen.before
      /\ seen'.after = seen.after /\ seen'.attempt = seen.attempt /\ seen'.latest = seen.latest
      /\ seen'.stored = seen.stored /\ seen'.clean = clean /\ seen' \in StaleLog
  BY <1>2, <1>3 DEF StaleInv, StaleShape, StaleLog
<1> USE <1>2, <1>3, <1>4, Ranks DEF Since, StaleInv
<1>5. StaleShape'
  BY DEF StaleShape, StaleStages, Still
<1>6. PastFits'
  BY DEF PastFits, Sound, State
<1>7. OldFits'
  BY DEF OldFits, Sound, State
<1>8. LatestFits'
  BY DEF OldFits, LatestFits, Sound
<1>9. StaleReads'
  BY DEF StaleReads, Answering, Sound, Unread
<1>10. StaleJudged'
  BY DEF StaleJudged, Ended
<1> QED BY <1>5, <1>6, <1>7, <1>8, <1>9, <1>10 DEF StaleInv

LEMMA JudgeStaleKeeps ==
    ASSUME StaleInv, JudgeStale PROVE StaleInv'
<1>2. /\ stage = "judge" /\ stage' = "end" /\ UNCHANGED <<topic, flaw, outage, world, seen>>
      /\ verdict' = VerdictFor(StaleAssertions(seen), seen)
  BY DEF JudgeStale, Judge
<1> USE Ranks DEF Since
<1>3. StaleShape'
  BY <1>2 DEF StaleInv, StaleShape, StaleStages, Still
<1> USE <1>2 DEF StaleInv, Sound
<1>4. PastFits'
  BY DEF PastFits, State
<1>5. OldFits'
  BY DEF OldFits, State
<1>6. LatestFits'
  BY DEF OldFits, LatestFits
<1>7. StaleReads'
  BY DEF StaleReads, Answering, Unread
<1>8. StaleJudged'
  BY <1>2 DEF StaleJudged, Ended
<1> QED BY <1>3, <1>4, <1>5, <1>6, <1>7, <1>8 DEF StaleInv

LEMMA StaleRotates ==
    ASSUME StaleInv, Rotates PROVE StaleInv'
<1>1. /\ outage = "rotation" /\ UNCHANGED <<topic, flaw, outage, stage, seen, verdict>>
      /\ world' = [world EXCEPT !.policy = 2]
  BY DEF Rotates, Change
<1>2. /\ world' \in StaleWorlds /\ world'.consents = world.consents /\ world'.marks = world.marks
  BY <1>1 DEF StaleInv, StaleShape, StaleWorlds
<1> USE Ranks DEF Since
<1> USE <1>1, <1>2 DEF StaleInv
<1>3. StaleShape'
  BY DEF StaleShape, StaleStages, Still
<1>4. PastFits'
  BY DEF PastFits, Sound, State
<1>5. OldFits'
  BY DEF OldFits, Sound, State
<1>6. LatestFits'
  BY DEF OldFits, LatestFits, Sound
<1>7. StaleReads'
  BY DEF StaleReads, Answering, Sound, Unread
<1>8. StaleJudged'
  BY <1>1 DEF StaleInv, StaleJudged, Ended
<1> QED BY <1>3, <1>4, <1>5, <1>6, <1>7, <1>8 DEF StaleInv

LEMMA StaleStands ==
    ASSUME StaleInv, UNCHANGED vars PROVE StaleInv'
<1>1. UNCHANGED <<topic, flaw, outage, stage, world, seen, verdict>>
  BY DEF vars
<1> USE Ranks DEF Since
<1> USE <1>1 DEF StaleInv
<1>2. StaleShape'
  BY DEF StaleShape, StaleStages, Still
<1>3. PastFits'
  BY DEF PastFits, Sound, State
<1>4. OldFits'
  BY DEF OldFits, Sound, State
<1>5. LatestFits'
  BY DEF OldFits, LatestFits, Sound
<1>6. StaleReads'
  BY DEF StaleReads, Answering, Sound, Unread
<1>7. StaleJudged'
  BY DEF StaleJudged, Ended
<1> QED BY <1>2, <1>3, <1>4, <1>5, <1>6, <1>7 DEF StaleInv

LEMMA StaleStep ==
    (topic = "N-03" => StaleInv) /\ [Next]_vars => (topic = "N-03" => StaleInv)'
<1> SUFFICES ASSUME topic = "N-03", StaleInv, [Next]_vars PROVE StaleInv'
  BY TopicStays
<1>1. StaleNext \/ UNCHANGED vars
  BY DEF Next, MinimalNext, NoticeNext, BoundaryNext, CitationNext, FreezeNext, DecisionNext,
         SurfaceNext
<1> QED
  BY <1>1, PastPolicyKeeps, CommitPastKeeps, PastBeforeKeeps, CurrentKeeps, BeforeKeeps,
     CommitOldKeeps,
     AfterKeeps, RereadKeeps, CommitLatestKeeps, ReadLatestKeeps, PastAfterKeeps, StaleCleanupKeeps,
     JudgeStaleKeeps, StaleRotates, StaleStands DEF StaleNext

-----------------------------------------------------------------------------
(* What the verdict of N-03 says *)

\* What each of the three assertions comes to.
LEMMA StaleOutcomes ==
    ASSUME NEW log
    PROVE  /\ AssessStale(log) = "PASS" <=>
                /\ log.current # Unread /\ log.before # Unknown /\ log.after # Unknown
                /\ log.attempt = "rejected" /\ log.before = log.after
           /\ AssessStale(log) = "FAIL" =>
                /\ log.before # Unknown /\ log.after # Unknown
                /\ log.attempt = "2xx" \/ log.before # log.after
           /\ AssessLatest(log) = "PASS" <=>
                /\ log.reread # Unread /\ log.stored # Unread
                /\ log.latest = "2xx" /\ log.stored = log.reread
           /\ AssessLatest(log) = "FAIL" =>
                /\ log.stored # Unread
                /\ log.latest = "rejected" \/ log.stored # log.reread
           /\ AssessPast(log) = "PASS" <=>
                /\ log.pastBefore # Unknown /\ log.pastAfter # Unknown
                /\ log.pastBefore # <<<<>>, 0>> /\ log.pastBefore = log.pastAfter
           /\ AssessPast(log) = "FAIL" =>
                /\ log.pastBefore # Unknown /\ log.pastAfter # Unknown
                /\ log.pastBefore = <<<<>>, 0>> \/ log.pastBefore # log.pastAfter
<1>1. "PASS" # "FAIL" /\ "PASS" # "INCONCLUSIVE" /\ "FAIL" # "INCONCLUSIVE"
  OBVIOUS
<1>2. /\ AssessStale(log) = "PASS" <=>
           /\ log.current # Unread /\ log.before # Unknown /\ log.after # Unknown
           /\ log.attempt = "rejected" /\ log.before = log.after
      /\ AssessStale(log) = "FAIL" =>
           /\ log.before # Unknown /\ log.after # Unknown
           /\ log.attempt = "2xx" \/ log.before # log.after
  <2>1. CASE log.attempt = "2xx" \/ log.before # log.after
    BY <2>1 DEF AssessStale, Needs, PassedOrUnsure
  <2>2. CASE ~(log.attempt = "2xx" \/ log.before # log.after)
    BY <2>2 DEF AssessStale, Needs, PassedOrUnsure
  <2> QED BY <2>1, <2>2
<1>3. /\ AssessLatest(log) = "PASS" <=>
           /\ log.reread # Unread /\ log.stored # Unread
           /\ log.latest = "2xx" /\ log.stored = log.reread
      /\ AssessLatest(log) = "FAIL" =>
           /\ log.stored # Unread
           /\ log.latest = "rejected" \/ log.stored # log.reread
  BY DEF AssessLatest, Needs, Passed
<1>4. /\ AssessPast(log) = "PASS" <=>
           /\ log.pastBefore # Unknown /\ log.pastAfter # Unknown
           /\ log.pastBefore # <<<<>>, 0>> /\ log.pastBefore = log.pastAfter
      /\ AssessPast(log) = "FAIL" =>
           /\ log.pastBefore # Unknown /\ log.pastAfter # Unknown
           /\ log.pastBefore = <<<<>>, 0>> \/ log.pastBefore # log.pastAfter
  BY DEF AssessPast, Needs, Passed
<1> QED BY <1>2, <1>3, <1>4

LEMMA StaleMeans ==
    ASSUME StaleInv
    PROVE  /\ verdict = "PASS" => Sound \/ outage = "refusing"
           /\ verdict = "FAIL" => ~Sound
           /\ Ended /\ Answering => verdict = "PASS"
<1> DEFINE assertions == StaleAssertions(seen)
<1>1. verdict # "none" => Ended
  BY DEF StaleInv, StaleJudged
<1> SUFFICES ASSUME Ended
    PROVE  /\ verdict = "PASS" => Sound \/ outage = "refusing"
           /\ verdict = "FAIL" => ~Sound
           /\ Answering => verdict = "PASS"
  BY <1>1
<1>2. verdict = VerdictFor(assertions, seen)
  BY DEF StaleInv, StaleJudged
<1>3. /\ verdict = "PASS" => assertions \cap {"FAIL", "INCONCLUSIVE"} = {}
      /\ verdict = "FAIL" => "FAIL" \in assertions
      /\ seen.clean /\ assertions \cap {"FAIL", "INCONCLUSIVE"} = {} => verdict = "PASS"
  <2> HIDE DEF assertions
  <2> QED BY <1>2, AggregateRule DEF VerdictFor, Needs
<1>4. assertions = {AssessStale(seen), AssessLatest(seen), AssessPast(seen)}
  BY DEF StaleAssertions
<1> HIDE DEF assertions
<1>5. /\ AssessStale(seen) \in {"PASS", "FAIL", "INCONCLUSIVE"}
      /\ AssessLatest(seen) \in {"PASS", "FAIL", "INCONCLUSIVE"}
      /\ AssessPast(seen) \in {"PASS", "FAIL", "INCONCLUSIVE"}
  <2>1. AssessStale(seen) \in {"PASS", "FAIL", "INCONCLUSIVE"}
    <3>1. CASE seen.attempt = "2xx" \/ seen.before # seen.after
      BY <3>1 DEF AssessStale, Needs, PassedOrUnsure
    <3>2. CASE ~(seen.attempt = "2xx" \/ seen.before # seen.after)
      BY <3>2 DEF AssessStale, Needs, PassedOrUnsure
    <3> QED BY <3>1, <3>2
  <2> QED BY <2>1 DEF AssessLatest, AssessPast, Needs, Passed
<1>6. stage = "end" /\ Rank[stage] = 14
  BY Ranks DEF Ended
<1>7. ASSUME verdict = "PASS", outage # "refusing" PROVE Sound
  <2>1. AssessStale(seen) = "PASS" /\ AssessLatest(seen) = "PASS" /\ AssessPast(seen) = "PASS"
    BY <1>3, <1>4, <1>5, <1>7
  <2>2. /\ seen.before # Unknown /\ seen.after # Unknown
        /\ seen.attempt = "rejected" /\ seen.before = seen.after
        /\ seen.stored # Unread /\ seen.latest = "2xx" /\ seen.stored = seen.reread
        /\ seen.pastBefore # Unknown /\ seen.pastAfter # Unknown /\ seen.pastBefore = seen.pastAfter
    BY <2>1, StaleOutcomes
  <2>3. flaw # "acceptsStale"
    BY <1>7, <2>2 DEF StaleInv, OldFits
  <2>4. flaw # "changesOnRefusal"
    BY <1>6, <1>7, <2>2, Ranks DEF StaleInv, OldFits, Since
  <2>5. flaw # "storesOther"
    BY <2>2 DEF StaleInv, StaleShape, StaleLog, LatestFits, Other, Unread
  <2>6. flaw # "rewritesPast"
    <3>1. world.marks["past"] \in Nat
      BY DEF StaleInv, StaleShape, StaleWorlds, StaleLanes
    <3> QED BY <1>6, <2>2, <3>1 DEF StaleInv, PastFits, State
  <2>7. flaw # "refuses"
    BY <2>2 DEF StaleInv, LatestFits
  <2> QED BY <2>3, <2>4, <2>5, <2>6, <2>7 DEF StaleInv, StaleShape, StaleFlaws, Sound
<1>8. ASSUME verdict = "FAIL", Sound PROVE FALSE
  <2>1. AssessStale(seen) # "FAIL"
    BY <1>8, StaleOutcomes DEF StaleInv, OldFits, Sound
  <2>2. AssessLatest(seen) # "FAIL"
    BY <1>8, StaleOutcomes DEF StaleInv, LatestFits, Sound
  <2>3. AssessPast(seen) # "FAIL"
    <3>1. /\ seen.pastBefore # Unknown =>
               world.consents["past"] # <<>> /\ seen.pastBefore = <<world.consents["past"], 0>>
          /\ seen.pastAfter # Unknown => seen.pastAfter = <<world.consents["past"], 0>>
      BY <1>8 DEF StaleInv, PastFits, Sound, State
    <3> QED BY <3>1, StaleOutcomes
  <2> QED BY <1>3, <1>4, <1>8, <2>1, <2>2, <2>3
<1>9. ASSUME Answering PROVE verdict = "PASS"
  <2>1. /\ seen.pastBefore # Unknown /\ seen.current = 1 /\ seen.before # Unknown
        /\ seen.attempt = "rejected" /\ seen.after # Unknown /\ seen.reread = 1
        /\ seen.latest = "2xx" /\ seen.stored # Unread /\ seen.pastAfter # Unknown /\ seen.clean
    BY <1>6, <1>9, Ranks DEF StaleInv, StaleReads, Since
  <2>2. AssessStale(seen) = "PASS"
    BY <1>9, <2>1, StaleOutcomes DEF StaleInv, OldFits, Sound, Answering, Unread
  <2>3. AssessLatest(seen) = "PASS"
    BY <1>9, <2>1, StaleOutcomes DEF StaleInv, LatestFits, Sound, Answering, Unread
  <2>4. AssessPast(seen) = "PASS"
    <3>1. /\ world.consents["past"] # <<>> /\ seen.pastBefore = <<world.consents["past"], 0>>
          /\ seen.pastAfter = <<world.consents["past"], 0>>
      BY <1>9, <2>1 DEF StaleInv, PastFits, Sound, State, Answering
    <3> DEFINE given == world.consents["past"]
    <3>2. <<given, 0>>[1] = given /\ <<<<>>, 0>>[1] = <<>>
      OBVIOUS
    <3>3. <<given, 0>> # <<<<>>, 0>>
      BY <3>1, <3>2
    <3> HIDE DEF given
    <3>4. seen.pastBefore = <<given, 0>> /\ seen.pastBefore = seen.pastAfter
      BY <3>1 DEF given
    <3> QED BY <2>1, <3>3, <3>4, StaleOutcomes
  <2> QED BY <1>3, <1>4, <2>1, <2>2, <2>3, <2>4
<1> QED BY <1>7, <1>8, <1>9

-----------------------------------------------------------------------------
(* E-01: a matrix of citations, and a segment that is removed *)

LEMMA CitationRanks ==
    /\ CitationRank["reference"] = 1 /\ CitationRank["matrix"] = 2 /\ CitationRank["baseline"] = 3
    /\ CitationRank["remove"] = 4 /\ CitationRank["removed"] = 5 /\ CitationRank["restore"] = 6
    /\ CitationRank["restored"] = 7 /\ CitationRank["recapture"] = 8
    /\ CitationRank["judge"] = 9 /\ CitationRank["end"] = 10
  BY DEF CitationRank, CitationStages

LEMMA RecordsDiffer ==
    /\ Stored(0) # Stored(1) /\ Unavailable # Absent /\ Broken # NotRead /\ Intact # Broken
    /\ Intact # NotRead
    /\ \A digest \in {0, 1} : Stored(digest) \notin {Unavailable, Absent}
    /\ NoMatrix # AllGraded
<1>1. /\ Stored(0).digest = 0 /\ Stored(1).digest = 1
      /\ \A digest \in {0, 1} : Stored(digest).source = "PRESENT"
      /\ Unavailable.source = "UNAVAILABLE" /\ Absent.source = "ABSENT"
  BY DEF Stored, Unavailable, Absent
<1>2. Broken.status = 503 /\ NotRead.status = 0 /\ Intact.status = 200
  BY DEF Broken, NotRead, Intact
<1>3. DOMAIN NoMatrix = {} /\ DOMAIN AllGraded = Modes /\ "VALID" \in Modes
  BY DEF NoMatrix, AllGraded, Modes
<1> QED BY <1>1, <1>2, <1>3

LEMMA GradedStays ==
    ASSUME UNCHANGED <<flaw, outage>> PROVE AllGraded' = AllGraded
  BY DEF AllGraded, Graded, Emitted, Intended, Emptied

LEMMA CitationStarts == Init /\ topic = "E-01" => CitationInv
<1> SUFFICES ASSUME Init, topic = "E-01" PROVE CitationInv
  OBVIOUS
<1>1. CitationInit
  BY DEF Init
<1>2. /\ flaw \in CitationFlaws /\ outage \in CitationOutages /\ stage = "reference"
      /\ verdict = "none"
      /\ world.matrix = NoMatrix /\ world.reference = 0 /\ world.segment
      /\ world.record = 0 /\ ~world.broken
      /\ seen.before = Unavailable /\ seen.after = Unavailable /\ seen.matrix = "none"
      /\ seen.removal = "none" /\ ~seen.confirmed /\ seen.preRecord = Absent
      /\ seen.postRecord = Absent /\ seen.pre = NotRead /\ seen.post = NotRead
      /\ seen.back = NotRead
  BY <1>1 DEF CitationInit, CitationWorld
<1> USE CitationRanks DEF From
<1>3. CitationShape
  <2>1. world \in CitationTargets
    BY <1>1 DEF CitationInit, CitationWorld, CitationTargets
  <2>2. seen \in CitationLog
    BY <1>1 DEF CitationInit, CitationLog, Digests, Servings
  <2> QED BY <1>2, <2>1, <2>2 DEF CitationShape, CitationStages
<1>4. LanesFit
  BY <1>2 DEF LanesFit
<1>5. CitationFits
  BY <1>2, RecordsDiffer DEF CitationFits, Answered
<1>6. CitationReads /\ CitationJudged
  BY <1>2 DEF CitationReads, CitationJudged, Ended
<1> QED BY <1>3, <1>4, <1>5, <1>6 DEF CitationInv

\* A record that is read, and an answer of the company API.
LEMMA RecordReads ==
    ASSUME NEW value, NEW record \in Records(value)
    PROVE  record \in {value, Unavailable} /\ (outage # "records" => record = value)
  BY DEF Records, Reads

LEMMA ServedReadings ==
    ASSUME NEW value, NEW read \in ServedReads(value)
    PROVE  /\ read = value \/ (outage = "api" /\ read \in {Broken, NotRead})
           /\ Answering => read = value
  BY DEF ServedReads, Answering

\* What is served of the removal lane, in each part of the journey.
LEMMA ServedViews ==
    ASSUME CitationInv
    PROVE  /\ stage = "baseline" => Served = Intact
           /\ stage = "removed" => Served = WithoutSegment
           /\ stage = "restored" /\ seen.removal = "RESTORED" => Served = SegmentBack
           /\ Served \in Servings /\ {Intact, WithoutSegment, SegmentBack} \subseteq Servings
<1>1. world.segment \in BOOLEAN /\ world.broken \in BOOLEAN
  BY DEF CitationInv, CitationShape, CitationTargets
<1>2. /\ [Intact EXCEPT !.cited = "changed"] = [status |-> 200, cited |-> "changed", other |-> "same"]
      /\ [Intact EXCEPT !.cited = "unsupported"]
           = [status |-> 200, cited |-> "unsupported", other |-> "same"]
  BY DEF Intact
<1>3. /\ world.segment /\ ~world.broken => Served = Intact
      /\ world.segment /\ world.broken => Served = [Intact EXCEPT !.cited = "unsupported"]
      /\ ~world.segment => Served = WithoutSegment
  <2>1. CASE world.segment
    BY <1>1, <1>2, <2>1 DEF Served, Intact
  <2>2. CASE ~world.segment
    BY <1>2, <2>2 DEF Served, WithoutSegment, Intact
  <2> QED BY <2>1, <2>2
<1>4. {Intact, WithoutSegment, SegmentBack} \subseteq Servings
  BY <1>2 DEF Servings, Citings, WithoutSegment, SegmentBack, Intact
<1> USE DEF CitationInv, LanesFit
<1>5. stage = "baseline" => world.segment /\ ~world.broken
  BY CitationRanks DEF From
<1>6. stage = "removed" => ~world.segment
  OBVIOUS
<1>7. stage = "restored" /\ seen.removal = "RESTORED" =>
        world.segment /\ (world.broken <=> flaw = "stays")
  BY <1>1
<1>8. Served \in {Intact, [Intact EXCEPT !.cited = "unsupported"], WithoutSegment}
  BY <1>1, <1>3
<1>9. Served \in Servings
  <2>1. /\ Intact \in Servings /\ WithoutSegment \in Servings
        /\ [Intact EXCEPT !.cited = "unsupported"] \in Servings
    BY <1>2, <1>4 DEF Servings, Citings
  <2> QED BY <1>8, <2>1
<1> QED BY <1>3, <1>4, <1>5, <1>6, <1>7, <1>9 DEF SegmentBack

LEMMA GradesMatrixKeeps ==
    ASSUME CitationInv, GradesMatrix PROVE CitationInv'
<1>1. /\ stage = "matrix" /\ world.matrix = NoMatrix /\ outage # "late"
      /\ UNCHANGED <<topic, flaw, outage, stage, seen, verdict>>
      /\ world' = [world EXCEPT !.matrix = AllGraded,
                               !.reference = IF flaw = "leaks" THEN 1 ELSE @]
  BY DEF GradesMatrix, Change, AllGraded
<1>2. /\ stage = "matrix" /\ stage' = "matrix"
      /\ UNCHANGED <<topic, flaw, outage, verdict>>
      /\ seen' = seen
      /\ world' = [world EXCEPT !.matrix = AllGraded,
                               !.reference = IF flaw = "leaks" THEN 1 ELSE @]
      /\ world.matrix = NoMatrix
  BY <1>1 DEF Look, Do
<1>3. /\ seen'.before = seen.before /\ seen'.after = seen.after /\ seen'.matrix = seen.matrix
      /\ seen'.emitted = seen.emitted /\ seen'.removal = seen.removal /\ seen'.confirmed = seen.confirmed
      /\ seen'.preRecord = seen.preRecord /\ seen'.postRecord = seen.postRecord /\ seen'.pre = seen.pre
      /\ seen'.post = seen.post /\ seen'.back = seen.back
      /\ world'.matrix = AllGraded /\ world'.segment = world.segment
      /\ world'.reference = (IF flaw = "leaks" THEN 1 ELSE world.reference)
      /\ world'.record = world.record /\ world'.broken = world.broken
  BY <1>2 DEF CitationInv, CitationShape, CitationLog, CitationTargets
<1>4. seen' \in CitationLog
  BY <1>2 DEF CitationInv, CitationShape
<1>5. world' \in CitationTargets /\ CitationTargets' = CitationTargets
  <2>1. world' \in CitationTargets
    BY <1>2, <1>3 DEF CitationInv, CitationShape, CitationTargets
  <2> QED BY <1>2, <2>1, GradedStays DEF CitationTargets
<1> USE CitationRanks DEF From
<1> USE <1>2, <1>3, <1>4, <1>5 DEF CitationInv
<1>6. CitationShape'
  BY DEF CitationShape, CitationStages
<1>7. LanesFit'
  BY RecordsDiffer DEF LanesFit, Rewritten
<1>8. CitationFits'
  BY RecordsDiffer DEF CitationShape, CitationTargets, CitationLog, CitationFits, LanesFit,
     Rewritten, Answered, WithoutSegment, SegmentBack
<1>9. CitationReads'
  BY DEF CitationReads, Answering, Sound
<1>10. CitationJudged'
  BY DEF CitationJudged, Ended, Answering, Sound
<1> QED BY <1>6, <1>7, <1>8, <1>9, <1>10 DEF CitationInv

LEMMA ReadReferenceKeeps ==
    ASSUME CitationInv, ReadReference PROVE CitationInv'
<1>1. PICK record \in Records(Stored(world.reference)) :
        Look("reference", [seen EXCEPT !.before = record],
             IF record = Unavailable THEN "baseline" ELSE "matrix")
  BY DEF ReadReference
<1>2. /\ stage = "reference" /\ stage' = (IF record = Unavailable THEN "baseline" ELSE "matrix")
      /\ UNCHANGED <<topic, flaw, outage, world, verdict>>
      /\ seen' = [seen EXCEPT !.before = record]
  BY <1>1 DEF Look, Do
<1>3. /\ record \in {Stored(0), Unavailable} /\ record \in Digests
      /\ Answering => record # Unavailable
  <2>1. world.reference = 0
    BY <1>2, CitationRanks DEF CitationInv, LanesFit, From
  <2> QED BY <2>1, RecordReads, RecordsDiffer DEF Digests, Answering
<1>4. /\ seen'.before = record /\ seen'.after = seen.after /\ seen'.matrix = seen.matrix
      /\ seen'.emitted = seen.emitted /\ seen'.removal = seen.removal /\ seen'.confirmed = seen.confirmed
      /\ seen'.preRecord = seen.preRecord /\ seen'.postRecord = seen.postRecord /\ seen'.pre = seen.pre
      /\ seen'.post = seen.post /\ seen'.back = seen.back
  BY <1>2, <1>3 DEF CitationInv, CitationShape, CitationLog, CitationTargets
<1>5. seen' \in CitationLog
  BY <1>2, <1>3, <1>4 DEF CitationInv, CitationShape, CitationLog, Digests, Servings
<1>6. world' \in CitationTargets /\ CitationTargets' = CitationTargets
  <2>1. world' \in CitationTargets
    BY <1>2 DEF CitationInv, CitationShape
  <2> QED BY <1>2, <2>1, GradedStays DEF CitationTargets
<1> USE <1>2, <1>3, <1>4, <1>5, <1>6, CitationRanks DEF From, CitationInv
<1>7. CitationShape'
  BY DEF CitationShape, CitationStages
<1>8. LanesFit'
  BY RecordsDiffer DEF LanesFit, Rewritten
<1>9. CitationFits'
  BY RecordsDiffer DEF CitationShape, CitationTargets, CitationLog, CitationFits, LanesFit,
     Rewritten, Answered, WithoutSegment, SegmentBack
<1>10. CitationReads'
  BY DEF CitationReads, Answering, Sound
<1>11. CitationJudged'
  BY DEF CitationJudged, Ended, Answering, Sound
<1> QED BY <1>7, <1>8, <1>9, <1>10, <1>11 DEF CitationInv

LEMMA ReadMatrixKeeps ==
    ASSUME CitationInv, ReadMatrix PROVE CitationInv'
<1>1. PICK matrix \in Reads("records", IF world.matrix = NoMatrix THEN "missing" ELSE "graded", "missing") :
        \E emitted \in Reads("emissions", TRUE, FALSE) :
          /\ world.matrix # NoMatrix \/ outage = "late"
          /\ Look("matrix", [seen EXCEPT !.matrix = matrix, !.emitted = emitted], "baseline")
  BY DEF ReadMatrix
<1>20. PICK emitted \in Reads("emissions", TRUE, FALSE) :
          /\ world.matrix # NoMatrix \/ outage = "late"
          /\ Look("matrix", [seen EXCEPT !.matrix = matrix, !.emitted = emitted], "baseline")
  BY <1>1
<1>2. /\ stage = "matrix" /\ stage' = "baseline"
      /\ UNCHANGED <<topic, flaw, outage, world, verdict>>
      /\ seen' = [seen EXCEPT !.matrix = matrix, !.emitted = emitted]
  BY <1>20 DEF Look, Do
<1>3. /\ matrix \in {"missing", "graded"} /\ (matrix = "graded" => world.matrix # NoMatrix)
      /\ emitted \in BOOLEAN
      /\ Answering => matrix = "graded" /\ emitted
  BY <1>20 DEF Reads, Answering
<1>4. /\ seen'.before = seen.before /\ seen'.after = seen.after /\ seen'.matrix = matrix
      /\ seen'.emitted = emitted /\ seen'.removal = seen.removal /\ seen'.confirmed = seen.confirmed
      /\ seen'.preRecord = seen.preRecord /\ seen'.postRecord = seen.postRecord /\ seen'.pre = seen.pre
      /\ seen'.post = seen.post /\ seen'.back = seen.back
  BY <1>2, <1>3 DEF CitationInv, CitationShape, CitationLog, CitationTargets
<1>5. seen' \in CitationLog
  BY <1>2, <1>3, <1>4 DEF CitationInv, CitationShape, CitationLog, Digests, Servings
<1>6. world' \in CitationTargets /\ CitationTargets' = CitationTargets
  <2>1. world' \in CitationTargets
    BY <1>2 DEF CitationInv, CitationShape
  <2> QED BY <1>2, <2>1, GradedStays DEF CitationTargets
<1> USE <1>2, <1>3, <1>4, <1>5, <1>6, CitationRanks DEF From, CitationInv
<1>7. CitationShape'
  BY DEF CitationShape, CitationStages
<1>8. LanesFit'
  BY RecordsDiffer DEF LanesFit, Rewritten
<1>9. CitationFits'
  BY RecordsDiffer DEF CitationShape, CitationTargets, CitationLog, CitationFits, LanesFit,
     Rewritten, Answered, WithoutSegment, SegmentBack
<1>10. CitationReads'
  BY DEF CitationReads, Answering, Sound
<1>11. CitationJudged'
  BY DEF CitationJudged, Ended, Answering, Sound
<1> QED BY <1>7, <1>8, <1>9, <1>10, <1>11 DEF CitationInv

LEMMA SkipRemovalKeeps ==
    ASSUME CitationInv, SkipRemoval PROVE CitationInv'
<1>1. outage = "late" /\ Look("baseline", seen, "recapture")
  BY DEF SkipRemoval
<1>2. /\ stage = "baseline" /\ stage' = "recapture"
      /\ UNCHANGED <<topic, flaw, outage, world, verdict>>
      /\ seen' = seen
      /\ outage = "late"
  BY <1>1 DEF Look, Do
<1>3. /\ seen'.before = seen.before /\ seen'.after = seen.after /\ seen'.matrix = seen.matrix
      /\ seen'.emitted = seen.emitted /\ seen'.removal = seen.removal /\ seen'.confirmed = seen.confirmed
      /\ seen'.preRecord = seen.preRecord /\ seen'.postRecord = seen.postRecord /\ seen'.pre = seen.pre
      /\ seen'.post = seen.post /\ seen'.back = seen.back
  BY <1>2 DEF CitationInv, CitationShape, CitationLog, CitationTargets
<1>4. seen' \in CitationLog
  BY <1>2 DEF CitationInv, CitationShape
<1>5. world' \in CitationTargets /\ CitationTargets' = CitationTargets
  <2>1. world' \in CitationTargets
    BY <1>2 DEF CitationInv, CitationShape
  <2> QED BY <1>2, <2>1, GradedStays DEF CitationTargets
<1> USE CitationRanks DEF From
<1> USE <1>2, <1>3, <1>4, <1>5 DEF CitationInv
<1>6. CitationShape'
  BY DEF CitationShape, CitationStages
<1>7. LanesFit'
  BY RecordsDiffer DEF LanesFit, Rewritten
<1>8. CitationFits'
  BY RecordsDiffer DEF CitationShape, CitationTargets, CitationLog, CitationFits, LanesFit,
     Rewritten, Answered, WithoutSegment, SegmentBack
<1>9. CitationReads'
  BY DEF CitationReads, Answering, Sound
<1>10. CitationJudged'
  BY DEF CitationJudged, Ended, Answering, Sound
<1> QED BY <1>6, <1>7, <1>8, <1>9, <1>10 DEF CitationInv

LEMMA CaptureBaselineKeeps ==
    ASSUME CitationInv, CaptureBaseline PROVE CitationInv'
<1>1. PICK record \in Records(Stored(world.record)) : \E read \in ServedReads(Served) :
        Look("baseline", [seen EXCEPT !.preRecord = record, !.pre = read], "remove")
  BY DEF CaptureBaseline
<1>20. PICK read \in ServedReads(Served) :
        Look("baseline", [seen EXCEPT !.preRecord = record, !.pre = read], "remove")
  BY <1>1
<1>2. /\ stage = "baseline" /\ stage' = "remove"
      /\ UNCHANGED <<topic, flaw, outage, world, verdict>>
      /\ seen' = [seen EXCEPT !.preRecord = record, !.pre = read]
  BY <1>20 DEF Look, Do
<1>3. /\ record \in {Stored(0), Unavailable} /\ record \in Digests
      /\ outage # "records" => record = Stored(0)
      /\ read \in Servings /\ read \in {Intact, Broken, NotRead} /\ (outage # "api" => read = Intact)
      /\ Answering => read = Intact
  <2>1. world.record = 0 /\ Served = Intact
    BY <1>2, CitationRanks, ServedViews DEF CitationInv, LanesFit, From
  <2>2. read = Intact \/ (outage = "api" /\ read \in {Broken, NotRead})
    BY <2>1, ServedReadings
  <2> QED BY <2>1, <2>2, RecordReads, ServedViews DEF Digests, Answering, Servings
<1>4. /\ seen'.before = seen.before /\ seen'.after = seen.after /\ seen'.matrix = seen.matrix
      /\ seen'.emitted = seen.emitted /\ seen'.removal = seen.removal /\ seen'.confirmed = seen.confirmed
      /\ seen'.preRecord = record /\ seen'.postRecord = seen.postRecord /\ seen'.pre = read
      /\ seen'.post = seen.post /\ seen'.back = seen.back
  BY <1>2, <1>3 DEF CitationInv, CitationShape, CitationLog, CitationTargets
<1>5. seen' \in CitationLog
  BY <1>2, <1>3, <1>4 DEF CitationInv, CitationShape, CitationLog, Digests, Servings
<1>6. world' \in CitationTargets /\ CitationTargets' = CitationTargets
  <2>1. world' \in CitationTargets
    BY <1>2 DEF CitationInv, CitationShape
  <2> QED BY <1>2, <2>1, GradedStays DEF CitationTargets
<1> USE <1>2, <1>3, <1>4, <1>5, <1>6, CitationRanks DEF From, CitationInv
<1>7. CitationShape'
  BY DEF CitationShape, CitationStages
<1>8. LanesFit'
  BY RecordsDiffer DEF LanesFit, Rewritten
<1>9. CitationFits'
  BY RecordsDiffer DEF CitationShape, CitationTargets, CitationLog, CitationFits, LanesFit,
     Rewritten, Answered, WithoutSegment, SegmentBack
<1>10. CitationReads'
  BY DEF CitationReads, Answering, Sound
<1>11. CitationJudged'
  BY DEF CitationJudged, Ended, Answering, Sound
<1> QED BY <1>7, <1>8, <1>9, <1>10, <1>11 DEF CitationInv

LEMMA RemoveSegmentKeeps ==
    ASSUME CitationInv, RemoveSegment PROVE CitationInv'
<1>1. PICK confirmed \in Reads("confirm", TRUE, FALSE) :
        Do("remove",
           [world EXCEPT !.segment = FALSE, !.record = IF flaw = "rewrites" THEN 1 ELSE @],
           [seen EXCEPT !.removal = "APPLIED", !.confirmed = confirmed], "removed")
  BY DEF RemoveSegment
<1>2. /\ stage = "remove" /\ stage' = "removed"
      /\ UNCHANGED <<topic, flaw, outage, verdict>>
      /\ seen' = [seen EXCEPT !.removal = "APPLIED", !.confirmed = confirmed]
      /\ world' = [world EXCEPT !.segment = FALSE, !.record = IF flaw = "rewrites" THEN 1 ELSE @]
  BY <1>1 DEF Look, Do
<1>3. confirmed \in BOOLEAN /\ (Answering => confirmed)
  BY DEF Reads, Answering
<1>4. /\ seen'.before = seen.before /\ seen'.after = seen.after /\ seen'.matrix = seen.matrix
      /\ seen'.emitted = seen.emitted /\ seen'.removal = "APPLIED" /\ seen'.confirmed = confirmed
      /\ seen'.preRecord = seen.preRecord /\ seen'.postRecord = seen.postRecord /\ seen'.pre = seen.pre
      /\ seen'.post = seen.post /\ seen'.back = seen.back
      /\ world'.matrix = world.matrix /\ world'.reference = world.reference /\ world'.segment = FALSE
      /\ world'.record = (IF flaw = "rewrites" THEN 1 ELSE world.record) /\ world'.broken = world.broken
  BY <1>2, <1>3 DEF CitationInv, CitationShape, CitationLog, CitationTargets
<1>5. seen' \in CitationLog
  BY <1>2, <1>3, <1>4 DEF CitationInv, CitationShape, CitationLog, Digests, Servings
<1>6. world' \in CitationTargets /\ CitationTargets' = CitationTargets
  <2>1. world' \in CitationTargets
    BY <1>2, <1>3, <1>4 DEF CitationInv, CitationShape, CitationTargets
  <2> QED BY <1>2, <2>1, GradedStays DEF CitationTargets
<1> USE <1>2, <1>3, <1>4, <1>5, <1>6, CitationRanks DEF From, CitationInv
<1>7. CitationShape'
  BY DEF CitationShape, CitationStages
<1>8. LanesFit'
  BY RecordsDiffer DEF LanesFit, Rewritten
<1>9. CitationFits'
  BY RecordsDiffer DEF CitationShape, CitationTargets, CitationLog, CitationFits, LanesFit,
     Rewritten, Answered, WithoutSegment, SegmentBack
<1>10. CitationReads'
  BY DEF CitationReads, Answering, Sound
<1>11. CitationJudged'
  BY DEF CitationJudged, Ended, Answering, Sound
<1> QED BY <1>7, <1>8, <1>9, <1>10, <1>11 DEF CitationInv

LEMMA ReadRemovedKeeps ==
    ASSUME CitationInv, ReadRemoved PROVE CitationInv'
<1>1. PICK read \in ServedReads(Served) : Look("removed", [seen EXCEPT !.post = read], "restore")
  BY DEF ReadRemoved
<1>2. /\ stage = "removed" /\ stage' = "restore"
      /\ UNCHANGED <<topic, flaw, outage, world, verdict>>
      /\ seen' = [seen EXCEPT !.post = read]
  BY <1>1 DEF Look, Do
<1>3. /\ read \in Servings /\ (read # NotRead => Answered(read, WithoutSegment))
      /\ Answering => read # NotRead
  <2>1. Served = WithoutSegment /\ WithoutSegment \in Servings
    BY <1>2, ServedViews
  <2>2. read = WithoutSegment \/ (outage = "api" /\ read \in {Broken, NotRead})
    BY <2>1, ServedReadings
  <2>3. Answering => WithoutSegment # NotRead
    BY RecordsDiffer DEF WithoutSegment, Answering, Sound, Intact, NotRead
  <2> QED BY <2>1, <2>2, <2>3 DEF Answered, Servings, Answering
<1>4. /\ seen'.before = seen.before /\ seen'.after = seen.after /\ seen'.matrix = seen.matrix
      /\ seen'.emitted = seen.emitted /\ seen'.removal = seen.removal /\ seen'.confirmed = seen.confirmed
      /\ seen'.preRecord = seen.preRecord /\ seen'.postRecord = seen.postRecord /\ seen'.pre = seen.pre
      /\ seen'.post = read /\ seen'.back = seen.back
  BY <1>2, <1>3 DEF CitationInv, CitationShape, CitationLog, CitationTargets
<1>5. seen' \in CitationLog
  BY <1>2, <1>3, <1>4 DEF CitationInv, CitationShape, CitationLog, Digests, Servings
<1>6. world' \in CitationTargets /\ CitationTargets' = CitationTargets
  <2>1. world' \in CitationTargets
    BY <1>2 DEF CitationInv, CitationShape
  <2> QED BY <1>2, <2>1, GradedStays DEF CitationTargets
<1> USE <1>2, <1>3, <1>4, <1>5, <1>6, CitationRanks DEF From, CitationInv
<1>7. CitationShape'
  BY DEF CitationShape, CitationStages
<1>8. LanesFit'
  BY RecordsDiffer DEF LanesFit, Rewritten
<1>9. CitationFits'
  BY RecordsDiffer DEF CitationShape, CitationTargets, CitationLog, CitationFits, LanesFit,
     Rewritten, Answered, WithoutSegment, SegmentBack
<1>10. CitationReads'
  BY DEF CitationReads, Answering, Sound
<1>11. CitationJudged'
  BY DEF CitationJudged, Ended, Answering, Sound
<1> QED BY <1>7, <1>8, <1>9, <1>10, <1>11 DEF CitationInv

LEMMA RestoreSegmentKeeps ==
    ASSUME CitationInv, RestoreSegment PROVE CitationInv'
<1>1. PICK ok \in Reads("restore", TRUE, FALSE) :
        Do("restore",
           IF ok THEN [world EXCEPT !.segment = TRUE, !.broken = flaw = "stays"] ELSE world,
           [seen EXCEPT !.removal = IF ok THEN "RESTORED" ELSE "RESTORE_FAILED"],
           "restored")
  BY DEF RestoreSegment
<1>2. /\ stage = "restore" /\ stage' = "restored"
      /\ UNCHANGED <<topic, flaw, outage, verdict>>
      /\ seen' = [seen EXCEPT !.removal = IF ok THEN "RESTORED" ELSE "RESTORE_FAILED"]
      /\ world' = IF ok THEN [world EXCEPT !.segment = TRUE, !.broken = flaw = "stays"] ELSE world
  BY <1>1 DEF Look, Do
<1>3. ok \in BOOLEAN /\ (Answering => ok)
  BY DEF Reads, Answering
<1>4. /\ seen'.before = seen.before /\ seen'.after = seen.after /\ seen'.matrix = seen.matrix
      /\ seen'.emitted = seen.emitted /\ seen'.confirmed = seen.confirmed
      /\ seen'.removal = (IF ok THEN "RESTORED" ELSE "RESTORE_FAILED")
      /\ seen'.preRecord = seen.preRecord /\ seen'.postRecord = seen.postRecord /\ seen'.pre = seen.pre
      /\ seen'.post = seen.post /\ seen'.back = seen.back
      /\ world'.matrix = world.matrix /\ world'.reference = world.reference
      /\ world'.segment = (IF ok THEN TRUE ELSE world.segment)
      /\ world'.record = world.record /\ world'.broken = (IF ok THEN flaw = "stays" ELSE world.broken)
  BY <1>2, <1>3 DEF CitationInv, CitationShape, CitationLog, CitationTargets
<1>5. seen' \in CitationLog
  BY <1>2, <1>3, <1>4 DEF CitationInv, CitationShape, CitationLog, Digests, Servings
<1>6. world' \in CitationTargets /\ CitationTargets' = CitationTargets
  <2>1. world' \in CitationTargets
    BY <1>2, <1>3, <1>4 DEF CitationInv, CitationShape, CitationTargets
  <2> QED BY <1>2, <2>1, GradedStays DEF CitationTargets
<1> USE <1>2, <1>3, <1>4, <1>5, <1>6, CitationRanks DEF From, CitationInv
<1>7. CitationShape'
  BY DEF CitationShape, CitationStages
<1>8. LanesFit'
  BY RecordsDiffer DEF LanesFit, Rewritten
<1>9. CitationFits'
  BY RecordsDiffer DEF CitationShape, CitationTargets, CitationLog, CitationFits, LanesFit,
     Rewritten, Answered, WithoutSegment, SegmentBack
<1>10. CitationReads'
  BY DEF CitationReads, Answering, Sound
<1>11. CitationJudged'
  BY DEF CitationJudged, Ended, Answering, Sound
<1> QED BY <1>7, <1>8, <1>9, <1>10, <1>11 DEF CitationInv

LEMMA VerifyRestoredKeeps ==
    ASSUME CitationInv, VerifyRestored PROVE CitationInv'
<1>1. PICK record \in Records(Stored(world.record)) : \E read \in ServedReads(Served) :
        Look("restored", [seen EXCEPT !.postRecord = record, !.back = read], "recapture")
  BY DEF VerifyRestored
<1>20. PICK read \in ServedReads(Served) :
        Look("restored", [seen EXCEPT !.postRecord = record, !.back = read], "recapture")
  BY <1>1
<1>2. /\ stage = "restored" /\ stage' = "recapture"
      /\ UNCHANGED <<topic, flaw, outage, world, verdict>>
      /\ seen' = [seen EXCEPT !.postRecord = record, !.back = read]
  BY <1>20 DEF Look, Do
<1>3. /\ record \in {Stored(Rewritten), Unavailable} /\ record \in Digests /\ record # Absent
      /\ outage # "records" => record = Stored(Rewritten)
      /\ read \in Servings
      /\ seen.removal = "RESTORED" /\ read # NotRead => Answered(read, SegmentBack)
      /\ Answering => read # NotRead
  <2>1. world.record = Rewritten /\ Rewritten \in {0, 1}
    BY <1>2 DEF CitationInv, LanesFit, Rewritten
  <2>2. read = Served \/ (outage = "api" /\ read \in {Broken, NotRead})
    BY ServedReadings
  <2>3. seen.removal = "RESTORED" => Served = SegmentBack
    BY <1>2, ServedViews
  <2>4. Answering => seen.removal = "RESTORED" /\ SegmentBack = Intact
    BY <1>2, CitationRanks DEF CitationInv, CitationReads, From, SegmentBack, Answering, Sound
  <2>5. read \in Servings
    BY <2>2, ServedViews DEF Servings
  <2>6. record \in {Stored(Rewritten), Unavailable} /\ (outage # "records" => record = Stored(Rewritten))
    BY <2>1, RecordReads
  <2>7. record \in Digests /\ record # Absent
    BY <2>1, <2>6, RecordsDiffer DEF Digests
  <2> QED BY <2>2, <2>3, <2>4, <2>5, <2>6, <2>7, RecordsDiffer DEF Answered, Answering
<1>4. /\ seen'.before = seen.before /\ seen'.after = seen.after /\ seen'.matrix = seen.matrix
      /\ seen'.emitted = seen.emitted /\ seen'.removal = seen.removal /\ seen'.confirmed = seen.confirmed
      /\ seen'.preRecord = seen.preRecord /\ seen'.postRecord = record /\ seen'.pre = seen.pre
      /\ seen'.post = seen.post /\ seen'.back = read
  BY <1>2, <1>3 DEF CitationInv, CitationShape, CitationLog, CitationTargets
<1>5. seen' \in CitationLog
  BY <1>2, <1>3, <1>4 DEF CitationInv, CitationShape, CitationLog, Digests, Servings
<1>6. world' \in CitationTargets /\ CitationTargets' = CitationTargets
  <2>1. world' \in CitationTargets
    BY <1>2 DEF CitationInv, CitationShape
  <2> QED BY <1>2, <2>1, GradedStays DEF CitationTargets
<1> USE <1>2, <1>3, <1>4, <1>5, <1>6, CitationRanks DEF From, CitationInv
<1>7. CitationShape'
  BY DEF CitationShape, CitationStages
<1>8. LanesFit'
  BY RecordsDiffer DEF LanesFit, Rewritten
<1>9. CitationFits'
  BY RecordsDiffer DEF CitationShape, CitationTargets, CitationLog, CitationFits, LanesFit,
     Rewritten, Answered, WithoutSegment, SegmentBack
<1>10. CitationReads'
  BY DEF CitationReads, Answering, Sound
<1>11. CitationJudged'
  BY DEF CitationJudged, Ended, Answering, Sound
<1> QED BY <1>7, <1>8, <1>9, <1>10, <1>11 DEF CitationInv

LEMMA RecaptureKeeps ==
    ASSUME CitationInv, Recapture PROVE CitationInv'
<1>1. PICK record \in Records(Stored(world.reference)) :
        Look("recapture", [seen EXCEPT !.after = record], "judge")
  BY DEF Recapture
<1>2. /\ stage = "recapture" /\ stage' = "judge"
      /\ UNCHANGED <<topic, flaw, outage, world, verdict>>
      /\ seen' = [seen EXCEPT !.after = record]
  BY <1>1 DEF Look, Do
<1>3. /\ record \in {Stored(world.reference), Unavailable} /\ record \in Digests
      /\ Answering => record # Unavailable
  <2>1. world.reference \in {0, 1}
    BY DEF CitationInv, CitationShape, CitationTargets
  <2> QED BY <2>1, RecordReads, RecordsDiffer DEF Digests, Answering
<1>4. /\ seen'.before = seen.before /\ seen'.after = record /\ seen'.matrix = seen.matrix
      /\ seen'.emitted = seen.emitted /\ seen'.removal = seen.removal /\ seen'.confirmed = seen.confirmed
      /\ seen'.preRecord = seen.preRecord /\ seen'.postRecord = seen.postRecord /\ seen'.pre = seen.pre
      /\ seen'.post = seen.post /\ seen'.back = seen.back
  BY <1>2, <1>3 DEF CitationInv, CitationShape, CitationLog, CitationTargets
<1>5. seen' \in CitationLog
  BY <1>2, <1>3, <1>4 DEF CitationInv, CitationShape, CitationLog, Digests, Servings
<1>6. world' \in CitationTargets /\ CitationTargets' = CitationTargets
  <2>1. world' \in CitationTargets
    BY <1>2 DEF CitationInv, CitationShape
  <2> QED BY <1>2, <2>1, GradedStays DEF CitationTargets
<1> USE <1>2, <1>3, <1>4, <1>5, <1>6, CitationRanks DEF From, CitationInv
<1>7. CitationShape'
  BY DEF CitationShape, CitationStages
<1>8. LanesFit'
  BY RecordsDiffer DEF LanesFit, Rewritten
<1>9. CitationFits'
  BY RecordsDiffer DEF CitationShape, CitationTargets, CitationLog, CitationFits, LanesFit,
     Rewritten, Answered, WithoutSegment, SegmentBack
<1>10. CitationReads'
  BY DEF CitationReads, Answering, Sound
<1>11. CitationJudged'
  BY DEF CitationJudged, Ended, Answering, Sound
<1> QED BY <1>7, <1>8, <1>9, <1>10, <1>11 DEF CitationInv

\* What the worker leaves of each mode, when the fixture emitted what it was to.
LEMMA GradesShow ==
    ASSUME CitationInv, world.matrix # NoMatrix
    PROVE  /\ Outcome("VALID") = "STORED_VALID" <=> flaw # "drops"
           /\ \A mode \in InvalidModes :
                Emitted(mode) = Intended(mode) =>
                  (Outcome(mode) = "STORED_INVALID" \/ ~world.matrix[mode].reason
                     <=> flaw \in (IF mode = "EMPTY" THEN {"scores"} ELSE {"stores", "silent"}))
           /\ \A mode \in Modes : Emitted(mode) = Intended(mode)
                                    \/ (outage = "fixture" /\ mode = "NONEXISTENT")
           /\ outage = "fixture" => Emitted("NONEXISTENT") # Intended("NONEXISTENT")
<1>1. \A mode \in Modes : world.matrix[mode] = Graded(mode)
  BY DEF CitationInv, CitationShape, CitationTargets, AllGraded
<1>2. Outcome("VALID") = "STORED_VALID" <=> flaw # "drops"
  <2>1. Emitted("VALID") = "own" /\ "VALID" \in Modes
    BY DEF Emitted, Intended, Modes
  <2>2. Graded("VALID") = IF flaw = "drops" THEN Emptied
                          ELSE [scored |-> TRUE, quoted |-> "own", reason |-> TRUE]
    BY <2>1 DEF Graded
  <2>3. CASE flaw = "drops"
    BY <1>1, <2>1, <2>2, <2>3 DEF Outcome, Emptied
  <2>4. CASE flaw # "drops"
    <3>1. world.matrix["VALID"].scored /\ world.matrix["VALID"].quoted = "own"
      BY <1>1, <2>1, <2>2, <2>4
    <3> QED BY <2>4, <3>1 DEF Outcome
  <2> QED BY <2>3, <2>4
<1>3. ASSUME NEW mode \in InvalidModes, Emitted(mode) = Intended(mode)
      PROVE  Outcome(mode) = "STORED_INVALID" \/ ~world.matrix[mode].reason
               <=> flaw \in (IF mode = "EMPTY" THEN {"scores"} ELSE {"stores", "silent"})
  <2>1. world.matrix[mode] = Graded(mode) /\ mode # "VALID"
    BY <1>1 DEF Modes, InvalidModes
  <2>2. CASE mode = "EMPTY"
    <3>1. Emitted(mode) = "empty"
      BY <1>3, <2>2 DEF Intended
    <3>2. Graded(mode) = IF flaw = "scores" THEN [scored |-> TRUE, quoted |-> "empty", reason |-> TRUE]
                         ELSE Emptied
      BY <3>1 DEF Graded
    <3>3. CASE flaw = "scores"
      <4>1. world.matrix[mode].scored
        BY <2>1, <3>2, <3>3
      <4> QED BY <2>1, <2>2, <3>3, <4>1 DEF Outcome
    <3>4. CASE flaw # "scores"
      BY <2>1, <2>2, <3>2, <3>4 DEF Outcome, Emptied
    <3> QED BY <3>3, <3>4
  <2>3. CASE mode # "EMPTY"
    <3>1. Emitted(mode) = "foreign"
      BY <1>3, <2>1, <2>3 DEF Intended
    <3>2. Graded(mode) = IF flaw = "stores" THEN [scored |-> TRUE, quoted |-> "foreign", reason |-> TRUE]
                         ELSE [Emptied EXCEPT !.reason = flaw # "silent"]
      BY <3>1 DEF Graded
    <3>3. CASE flaw = "stores"
      <4>1. world.matrix[mode].scored
        BY <2>1, <3>2, <3>3
      <4> QED BY <2>1, <2>3, <3>3, <4>1 DEF Outcome
    <3>4. CASE flaw # "stores"
      <4>1. /\ world.matrix[mode].scored = FALSE /\ world.matrix[mode].quoted = "empty"
            /\ world.matrix[mode].reason = (flaw # "silent")
        BY <2>1, <3>2, <3>4 DEF Emptied
      <4>2. Outcome(mode) = "EMPTIED"
        BY <2>1, <4>1 DEF Outcome
      <4>3. world.matrix[mode].reason <=> flaw # "silent"
        BY <4>1
      <4> QED BY <2>3, <3>4, <4>2, <4>3
    <3> QED BY <3>3, <3>4
  <2> QED BY <2>2, <2>3
<1>4. \A mode \in Modes : Emitted(mode) = Intended(mode) \/ (outage = "fixture" /\ mode = "NONEXISTENT")
  BY DEF Emitted
<1>5. outage = "fixture" => Emitted("NONEXISTENT") # Intended("NONEXISTENT")
  BY DEF Emitted, Intended
<1> QED BY <1>2, <1>3, <1>4, <1>5

\* The four assertions, and the verdict they come to.
LEMMA CitationRule ==
    ASSUME NEW log \in CitationLog
    PROVE  /\ CitationVerdict(log) = "PASS" =>
                InvalidEmptied(log) = "PASS" /\ ValidStored(log) = "PASS"
                /\ RemovalShown(log) = "PASS" /\ ReportIsBack(log) = "PASS"
           /\ CitationVerdict(log) = "FAIL" =>
                \/ InvalidEmptied(log) = "FAIL" \/ ValidStored(log) = "FAIL"
                \/ RemovalShown(log) = "FAIL" \/ ReportIsBack(log) = "FAIL"
           /\ /\ log.removal # "RESTORE_FAILED"
              /\ InvalidEmptied(log) = "PASS" /\ ValidStored(log) = "PASS"
              /\ RemovalShown(log) = "PASS" /\ ReportIsBack(log) = "PASS"
              => CitationVerdict(log) = "PASS"
<1> DEFINE statuses == {InvalidEmptied(log), ValidStored(log), RemovalShown(log), ReportIsBack(log)}
<1>1. CitationVerdict(log) = IF log.removal # "RESTORE_FAILED" THEN Aggregate(statuses)
                             ELSE "INCONCLUSIVE"
  BY DEF CitationVerdict, Needs
<1>2. /\ InvalidEmptied(log) \in {"PASS", "FAIL", "INCONCLUSIVE"}
      /\ ValidStored(log) \in {"PASS", "FAIL", "INCONCLUSIVE"}
      /\ ReportIsBack(log) \in {"PASS", "FAIL", "INCONCLUSIVE"}
  BY DEF InvalidEmptied, ValidStored, ReportIsBack, Needs, Passed, PassedOrUnsure
<1>3. RemovalShown(log) \in {"PASS", "FAIL", "INCONCLUSIVE"}
  <2>1. CASE log.post = Broken
    BY <2>1 DEF RemovalShown, Needs, PassedOrUnsure, Broken
  <2>2. CASE log.post = NotRead
    BY <2>2 DEF RemovalShown, Needs
  <2>3. CASE log.post \in Citings
    <3>1. log.post.status = 200 /\ log.post # Broken
      BY <2>3 DEF Citings, Broken
    <3>2. CASE log.post.cited = log.pre.cited \/ log.post.other # log.pre.other
      BY <3>1, <3>2 DEF RemovalShown, Needs, PassedOrUnsure
    <3>3. CASE ~(log.post.cited = log.pre.cited \/ log.post.other # log.pre.other)
      BY <3>1, <3>3 DEF RemovalShown, Needs, PassedOrUnsure
    <3> QED BY <3>2, <3>3
  <2> QED BY <2>1, <2>2, <2>3 DEF CitationLog, Servings
<1>4. \A status \in statuses : status \in {"PASS", "FAIL", "INCONCLUSIVE"}
  BY <1>2, <1>3
<1>5. CASE CitationVerdict(log) = "PASS"
  <2>1. statuses \cap {"FAIL", "INCONCLUSIVE"} = {}
    BY <1>1, <1>5, AggregateRule
  <2> QED BY <1>4, <1>5, <2>1
<1>6. CASE CitationVerdict(log) = "FAIL"
  <2>1. "FAIL" \in statuses
    BY <1>1, <1>6, AggregateRule
  <2> QED BY <1>6, <2>1
<1>7. CASE /\ log.removal # "RESTORE_FAILED"
           /\ InvalidEmptied(log) = "PASS" /\ ValidStored(log) = "PASS"
           /\ RemovalShown(log) = "PASS" /\ ReportIsBack(log) = "PASS"
  <2>1. statuses \cap {"FAIL", "INCONCLUSIVE"} = {}
    BY <1>7
  <2> HIDE DEF statuses
  <2> QED BY <1>1, <1>7, <2>1, AggregateRule
<1> HIDE DEF statuses
<1> QED BY <1>5, <1>6, <1>7

LEMMA JudgeCitationKeeps ==
    ASSUME CitationInv, JudgeCitation PROVE CitationInv'
<1>1. /\ stage = "judge" /\ stage' = "end" /\ UNCHANGED <<topic, flaw, outage, world, seen>>
      /\ verdict' = CitationVerdict(seen)
  BY DEF JudgeCitation, Judge
<1>2. seen \in CitationLog /\ flaw \in CitationFlaws /\ outage \in CitationOutages
      /\ world \in CitationTargets
  BY DEF CitationInv, CitationShape
<1>3. From("judge") /\ From("recapture") /\ From("restored") /\ From("restore") /\ From("removed")
      /\ From("remove") /\ From("baseline") /\ From("matrix")
  BY <1>1, CitationRanks DEF From
<1>4. ASSUME CitationVerdict(seen) = "PASS", outage # "records" PROVE Sound
  <2>1. /\ InvalidEmptied(seen) = "PASS" /\ ValidStored(seen) = "PASS"
        /\ RemovalShown(seen) = "PASS" /\ ReportIsBack(seen) = "PASS"
    BY <1>2, <1>4, CitationRule
  <2>2. /\ seen.matrix = "graded" /\ ReferenceRead(seen) /\ seen.before = seen.after
        /\ \A mode \in InvalidModes : /\ Proven(seen, mode)
                                      /\ ~(Outcome(mode) = "STORED_INVALID" \/ ~world.matrix[mode].reason)
    BY <2>1 DEF InvalidEmptied, PassedOrUnsure
  <2>3. world.matrix # NoMatrix
    BY <2>2 DEF CitationInv, CitationFits
  <2>4. flaw \notin {"scores", "stores", "silent"}
    <3>1. "EMPTY" \in InvalidModes /\ "OTHER_APPLICANT" \in InvalidModes
      BY DEF InvalidModes
    <3> QED BY <2>2, <2>3, <3>1, GradesShow DEF Proven
  <2>5. flaw # "drops"
    BY <2>1, <2>3, GradesShow DEF ValidStored
  <2>6. flaw # "leaks"
    <3>1. flaw = "leaks" => world.reference = 1
      BY <2>3 DEF CitationInv, LanesFit
    <3> QED BY <2>2, <3>1, RecordsDiffer DEF CitationInv, CitationFits, ReferenceRead
  <2>7. /\ seen.pre = Intact /\ seen.post # NotRead /\ seen.post # Broken
        /\ seen.post.cited = "unsupported" /\ seen.post.other = "same"
    <3>1. seen.confirmed /\ seen.pre.status = 200 /\ seen.post # NotRead
      BY <2>1 DEF RemovalShown, Needs
    <3>2. seen.pre = Intact
      BY <3>1 DEF CitationInv, CitationFits, NotRead, Broken
    <3>3. seen.post # Broken
      BY <2>1, <3>1 DEF RemovalShown, Needs, Broken
    <3>4. seen.post.status = 200
      BY <1>2, <3>1, <3>3 DEF CitationLog, Servings, Citings
    <3>5. ~(seen.post.cited = seen.pre.cited \/ seen.post.other # seen.pre.other)
      BY <2>1, <3>1, <3>3, <3>4 DEF RemovalShown, Needs
    <3>6. seen.post.cited = "unsupported"
      BY <2>1, <3>1, <3>3, <3>4, <3>5 DEF RemovalShown, Needs, PassedOrUnsure
    <3> QED BY <3>1, <3>2, <3>3, <3>5, <3>6 DEF Intact
  <2>8. flaw \notin {"crashes", "hides", "rephrases", "spreads"}
    <3>1. seen.post = WithoutSegment
      BY <2>7 DEF CitationInv, CitationFits, Answered
    <3> QED BY <2>7, <3>1 DEF WithoutSegment, Intact
  <2>9. /\ seen.removal = "RESTORED" /\ seen.back # NotRead /\ seen.pre = seen.back
        /\ seen.preRecord = seen.postRecord
    BY <2>1 DEF ReportIsBack, Needs, Passed
  <2>10. flaw # "stays"
    <3>1. seen.back = SegmentBack
      BY <2>7, <2>9, RecordsDiffer DEF CitationInv, CitationFits, Answered
    <3> QED BY <2>7, <2>9, <3>1 DEF SegmentBack, Intact
  <2>11. flaw # "rewrites"
    <3>1. seen.preRecord = Stored(0) /\ seen.postRecord = Stored(Rewritten)
      BY <1>3, <1>4, <2>9 DEF CitationInv, CitationFits
    <3> QED BY <2>9, <3>1, RecordsDiffer DEF Rewritten
  <2> QED BY <1>2, <2>4, <2>5, <2>6, <2>8, <2>10, <2>11 DEF CitationFlaws, Sound
<1>5. ASSUME CitationVerdict(seen) = "FAIL", Sound, outage \notin {"fixture", "api", "records"}
      PROVE  FALSE
  <2>1. InvalidEmptied(seen) # "FAIL"
    <3>1. seen.matrix = "graded" =>
            \A mode \in InvalidModes :
              ~(Outcome(mode) = "STORED_INVALID" \/ ~world.matrix[mode].reason)
      BY <1>5, GradesShow DEF CitationInv, CitationFits, Sound, Modes
    <3>2. ReferenceRead(seen) => seen.before = seen.after
      <4>1. world.reference = 0
        BY <1>5 DEF CitationInv, LanesFit, Sound
      <4> QED BY <4>1 DEF CitationInv, CitationFits, ReferenceRead
    <3> QED BY <3>1, <3>2 DEF InvalidEmptied, PassedOrUnsure
  <2>2. ValidStored(seen) # "FAIL"
    BY <1>5, GradesShow DEF ValidStored, PassedOrUnsure, CitationInv, CitationFits, Sound
  <2>3. RemovalShown(seen) # "FAIL"
    <3>1. seen.post # NotRead => seen.post = [status |-> 200, cited |-> "unsupported", other |-> "same"]
      BY <1>5 DEF CitationInv, CitationFits, Answered, WithoutSegment, Intact, Sound
    <3>2. seen.pre \in {NotRead, Intact}
      BY <1>5 DEF CitationInv, CitationFits
    <3>3. CASE seen.post = NotRead \/ seen.pre = NotRead \/ ~seen.confirmed
      BY <3>3 DEF RemovalShown, Needs, NotRead
    <3>4. CASE seen.post # NotRead /\ seen.pre # NotRead /\ seen.confirmed
      <4>1. /\ seen.post # Broken /\ seen.post.status = 200 /\ seen.post.cited = "unsupported"
            /\ ~(seen.post.cited = seen.pre.cited \/ seen.post.other # seen.pre.other)
        BY <3>1, <3>2, <3>4 DEF Intact, Broken
      <4> QED BY <4>1 DEF RemovalShown, Needs, PassedOrUnsure
    <3> QED BY <3>3, <3>4
  <2>4. ReportIsBack(seen) # "FAIL"
    <3>1. seen.removal = "RESTORED" => seen.preRecord = seen.postRecord
      BY <1>3, <1>5 DEF CitationInv, CitationFits, Rewritten, Sound
    <3>2. seen.removal = "RESTORED" /\ NotRead \notin {seen.pre, seen.back} => seen.pre = seen.back
      BY <1>5 DEF CitationInv, CitationFits, Answered, SegmentBack, Sound
    <3> QED BY <3>1, <3>2 DEF ReportIsBack, Needs, Passed
  <2> QED BY <1>2, <1>5, <2>1, <2>2, <2>3, <2>4, CitationRule
<1>6. ASSUME Answering PROVE CitationVerdict(seen) = "PASS"
  <2>1. /\ seen.before # Unavailable /\ seen.matrix = "graded" /\ seen.emitted
        /\ seen.pre = Intact /\ seen.confirmed /\ seen.post # NotRead
        /\ seen.removal = "RESTORED" /\ seen.back # NotRead /\ seen.after # Unavailable
    BY <1>3, <1>6 DEF CitationInv, CitationReads
  <2>2. world.matrix # NoMatrix /\ Sound /\ outage = "none"
    BY <1>6, <2>1 DEF CitationInv, CitationFits, Answering
  <2>3. InvalidEmptied(seen) = "PASS"
    <3>1. ReferenceRead(seen) /\ seen.before = seen.after
      <4>1. world.reference = 0
        BY <2>2 DEF CitationInv, LanesFit, Sound
      <4> QED BY <2>1, <4>1 DEF CitationInv, CitationFits, ReferenceRead
    <3>2. \A mode \in InvalidModes :
            /\ Proven(seen, mode)
            /\ ~(Outcome(mode) = "STORED_INVALID" \/ ~world.matrix[mode].reason)
      BY <2>1, <2>2, GradesShow DEF Proven, Sound, Modes
    <3> QED BY <2>1, <3>1, <3>2 DEF InvalidEmptied, PassedOrUnsure
  <2>4. ValidStored(seen) = "PASS"
    BY <2>1, <2>2, GradesShow DEF ValidStored, Proven, PassedOrUnsure, Sound, Modes
  <2>5. RemovalShown(seen) = "PASS"
    <3>1. seen.post = [status |-> 200, cited |-> "unsupported", other |-> "same"]
      BY <2>1, <2>2 DEF CitationInv, CitationFits, Answered, WithoutSegment, Intact, Sound
    <3>2. /\ seen.post # Broken /\ seen.post.status = 200 /\ seen.post.cited = "unsupported"
          /\ ~(seen.post.cited = seen.pre.cited \/ seen.post.other # seen.pre.other)
          /\ seen.pre.status = 200
      BY <2>1, <3>1 DEF Intact, Broken
    <3> QED BY <2>1, <3>2 DEF RemovalShown, Needs, PassedOrUnsure
  <2>6. ReportIsBack(seen) = "PASS"
    <3>1. seen.preRecord = seen.postRecord
      BY <1>3, <2>1, <2>2 DEF CitationInv, CitationFits, Rewritten, Sound
    <3>2. seen.pre = seen.back /\ seen.pre # NotRead
      BY <2>1, <2>2, RecordsDiffer DEF CitationInv, CitationFits, Answered, SegmentBack, Sound
    <3> QED BY <2>1, <3>1, <3>2 DEF ReportIsBack, Needs, Passed
  <2> QED BY <1>2, <2>1, <2>3, <2>4, <2>5, <2>6, CitationRule
<1> USE CitationRanks DEF From
<1>7. CitationShape'
  <2>1. CitationTargets' = CitationTargets
    BY <1>1, GradedStays DEF CitationTargets
  <2> QED BY <1>1, <1>2, <2>1 DEF CitationShape, CitationStages
<1> USE <1>1 DEF CitationInv
<1>8. LanesFit'
  BY DEF LanesFit, Rewritten
<1>9. CitationFits'
  BY DEF CitationFits, Rewritten, Answered, WithoutSegment, SegmentBack
<1>10. CitationReads'
  BY DEF CitationReads, Answering, Sound
<1>11. CitationJudged'
  BY <1>1, <1>4, <1>5, <1>6 DEF CitationJudged, Ended, Answering, Sound
<1> QED BY <1>7, <1>8, <1>9, <1>10, <1>11 DEF CitationInv

LEMMA CitationStands ==
    ASSUME CitationInv, UNCHANGED vars PROVE CitationInv'
<1>1. UNCHANGED <<topic, flaw, outage, stage, world, seen, verdict>>
  BY DEF vars
<1>2. CitationShape'
  <2>1. CitationTargets' = CitationTargets
    BY <1>1, GradedStays DEF CitationTargets
  <2> QED BY <1>1, <2>1 DEF CitationInv, CitationShape
<1> USE <1>1 DEF CitationInv
<1>3. LanesFit'
  BY DEF LanesFit, Rewritten, From
<1>4. CitationFits'
  BY DEF CitationFits, Rewritten, Answered, WithoutSegment, SegmentBack, From
<1>5. CitationReads'
  BY DEF CitationReads, Answering, Sound, From
<1>6. CitationJudged'
  BY DEF CitationJudged, Ended, Answering, Sound
<1> QED BY <1>2, <1>3, <1>4, <1>5, <1>6 DEF CitationInv

LEMMA CitationStep ==
    (topic = "E-01" => CitationInv) /\ [Next]_vars => (topic = "E-01" => CitationInv)'
<1> SUFFICES ASSUME topic = "E-01", CitationInv, [Next]_vars PROVE CitationInv'
  BY TopicStays
<1>1. CitationNext \/ UNCHANGED vars
  BY DEF Next, MinimalNext, NoticeNext, BoundaryNext, StaleNext, FreezeNext, DecisionNext,
         SurfaceNext
<1> QED
  BY <1>1, GradesMatrixKeeps, ReadReferenceKeeps, ReadMatrixKeeps, CaptureBaselineKeeps,
     SkipRemovalKeeps,
     RemoveSegmentKeeps, ReadRemovedKeeps, RestoreSegmentKeeps, VerifyRestoredKeeps, RecaptureKeeps,
     JudgeCitationKeeps, CitationStands DEF CitationNext

-----------------------------------------------------------------------------
(* H-01: five actors on three decision paths *)

LEMMA PlannedRow ==
    ASSUME topic \in DecisionTopics, NEW i \in 1..Len(PlannedCases)
    PROVE  /\ Len(PlannedCases) = IF topic = "H-01" THEN 15 ELSE 5
           /\ PlannedCases[i] \in Cases
           /\ PlannedCases[i].actor = "COMPANY_CONTROL" <=> (i - 1) % 5 = 0
           /\ topic = "H-01-stage-1" => PlannedCases[i].path = "FINAL_DECISION"
<1> DEFINE n == IF topic = "H-01" THEN 15 ELSE 5
           RowAt(k) == [path |-> DecisionPaths[((k - 1) \div 5) + 1], actor |-> Actors[((k - 1) % 5) + 1]]
<1>1. PlannedCases = [k \in 1..n |-> RowAt(k)]
  BY DEF PlannedCases, DecisionTopics
<1> HIDE DEF RowAt
<1>2. Len(PlannedCases) = n
  BY <1>1
<1>3. PlannedCases[i] = RowAt(i)
  BY <1>1, <1>2
<1>4. /\ (i - 1) \div 5 \in {0, 1, 2} /\ (i - 1) % 5 \in {0, 1, 2, 3, 4}
      /\ topic = "H-01-stage-1" => (i - 1) \div 5 = 0
  BY <1>2
<1>5. /\ DecisionPaths[1] = "FINAL_DECISION" /\ DecisionPaths[2] = "BATCH_ACCEPT"
      /\ DecisionPaths[3] = "BATCH_REJECT"
  BY DEF DecisionPaths
<1>6. /\ Actors[1] = "COMPANY_CONTROL" /\ Actors[2] = "APPLICANT_HTTP"
      /\ Actors[3] = "ANONYMOUS_HTTP" /\ Actors[4] = "SYSTEM_BOUNDARY" /\ Actors[5] = "AI_ASSISTANT"
  BY DEF Actors
<1> DEFINE a == (i - 1) % 5
           p == (i - 1) \div 5
<1>7. a \in {0, 1, 2, 3, 4} /\ p \in {0, 1, 2} /\ (topic = "H-01-stage-1" => p = 0)
  BY <1>4
<1>8. RowAt(i) = [path |-> DecisionPaths[p + 1], actor |-> Actors[a + 1]]
  BY DEF RowAt
<1> HIDE DEF a, p
<1>9. /\ RowAt(i).path = DecisionPaths[p + 1] /\ RowAt(i).actor = Actors[a + 1]
      /\ RowAt(i) = [path |-> RowAt(i).path, actor |-> RowAt(i).actor]
  BY <1>8
<1>10. /\ DecisionPaths[p + 1] \in {"FINAL_DECISION", "BATCH_ACCEPT", "BATCH_REJECT"}
       /\ topic = "H-01-stage-1" => DecisionPaths[p + 1] = "FINAL_DECISION"
  BY <1>5, <1>7
<1>11. /\ Actors[a + 1] \in {"COMPANY_CONTROL", "APPLICANT_HTTP", "ANONYMOUS_HTTP", "SYSTEM_BOUNDARY",
                             "AI_ASSISTANT"}
       /\ Actors[a + 1] = "COMPANY_CONTROL" <=> a = 0
  BY <1>6, <1>7
<1> QED BY <1>2, <1>3, <1>9, <1>10, <1>11 DEF a, Cases

LEMMA CurrentRow ==
    ASSUME DecisionShape
    PROVE  /\ Current \in Cases
           /\ Human <=> (seen.at - 1) % 5 = 0
           /\ topic = "H-01-stage-1" => Current.path = "FINAL_DECISION"
           /\ Assistant => ~Human
           /\ seen.at \in 1..Len(PlannedCases)
           /\ Len(PlannedCases) = IF topic = "H-01" THEN 15 ELSE 5
<1>1. seen.at \in 1..Len(PlannedCases) /\ topic \in DecisionTopics
  BY PlannedRow DEF DecisionShape, DecisionLog
<1>2. Current = PlannedCases[seen.at]
  BY DEF Current
<1> QED BY <1>1, <1>2, PlannedRow DEF Human, Assistant

LEMMA NothingMissing ==
    /\ MissingState # ReadyApplicant /\ MissingState \notin OwnedStates
    /\ ReadyApplicant \in OwnedStates
    /\ ReadyApplicant.stage = "first" /\ ReadyApplicant.version = 1
    /\ ReadyApplicant.reviews = 0 /\ ReadyApplicant.audits = 0
<1>1. DOMAIN MissingState = {"lost"}
  BY DEF MissingState
<1>2. \A state \in OwnedStates : "stage" \in DOMAIN state
  BY DEF OwnedStates
<1>3. ReadyApplicant \in OwnedStates
  BY DEF ReadyApplicant, OwnedStates
<1>4. MissingState \notin OwnedStates
  BY <1>1, <1>2
<1> QED BY <1>3, <1>4 DEF ReadyApplicant

LEMMA DecisionStarts == Init /\ topic \in DecisionTopics => DecisionInv
<1> SUFFICES ASSUME Init, topic \in DecisionTopics PROVE DecisionInv
  OBVIOUS
<1>1. /\ flaw \in DecisionFlaws /\ outage \in DecisionOutages
      /\ stage = "prepare" /\ verdict = "none"
      /\ world = [owned |-> ReadyApplicant, wrong |-> {}, saved |-> 0]
      /\ seen = [at |-> 1, before |-> MissingState, proven |-> FALSE, attempt |-> NoAttempt,
                 errors |-> FALSE, statuses |-> {}]
  BY DEF Init, DecisionInit, DecisionTopics
<1>2. NoAttempt \in DecisionAnswers
  BY DEF NoAttempt, DecisionAnswers
<1>3. Len(PlannedCases) = IF topic = "H-01" THEN 15 ELSE 5
  <2>1. PlannedCases = [k \in 1..(IF topic = "H-01" THEN 15 ELSE 5) |->
                          [path |-> DecisionPaths[((k - 1) \div 5) + 1],
                           actor |-> Actors[((k - 1) % 5) + 1]]]
    BY DEF PlannedCases
  <2> QED BY <2>1
<1>4. DecisionShape
  BY <1>1, <1>2, <1>3, NothingMissing DEF DecisionShape, DecisionStages, DecisionLog, Closing
<1>5. ControlsDone = 0
  BY <1>1 DEF ControlsDone, Closing
<1> QED
  BY <1>1, <1>4, <1>5 DEF DecisionInv, ApplicantFits, DecisionsFit, SoundAnswers, AnsweredCase,
     StatusesFit, DecisionJudged, Ended

\* What does not change as long as the Run is at the same case.
LEMMA SameCase ==
    ASSUME UNCHANGED topic, seen'.at = seen.at
    PROVE  /\ Current' = Current /\ Human' = Human /\ Assistant' = Assistant
           /\ PlannedCases' = PlannedCases
  BY DEF Current, Human, Assistant, PlannedCases

LEMMA SameDone ==
    ASSUME seen'.at = seen.at, stage \notin Closing, stage' \notin Closing
    PROVE  ControlsDone' = ControlsDone
  BY DEF ControlsDone

LEMMA DoneIsCount == ASSUME DecisionInv PROVE ControlsDone \in Int
<1>1. seen.at \in Int
  BY DEF DecisionInv, DecisionShape, DecisionLog
<1> QED BY <1>1 DEF ControlsDone

LEMMA PrepareCaseKeeps ==
    ASSUME DecisionInv, PrepareCase PROVE DecisionInv'
<1>1. PICK ready \in Reads("prepare", TRUE, FALSE) :
        Do("prepare", [world EXCEPT !.owned = ReadyApplicant],
           [seen EXCEPT !.before = IF ready THEN ReadyApplicant ELSE MissingState,
                        !.attempt = NoAttempt, !.proven = FALSE, !.errors = @ \/ ~ready],
           IF ready THEN "identity" ELSE "after")
  BY DEF PrepareCase
<1>2. ready \in BOOLEAN /\ (outage = "none" => ready)
  BY DEF Reads
<1>3. /\ stage = "prepare" /\ stage' = (IF ready THEN "identity" ELSE "after")
      /\ UNCHANGED <<topic, flaw, outage, verdict>>
      /\ world' = [world EXCEPT !.owned = ReadyApplicant]
      /\ seen' = [seen EXCEPT !.before = IF ready THEN ReadyApplicant ELSE MissingState,
                              !.attempt = NoAttempt, !.proven = FALSE, !.errors = @ \/ ~ready]
  BY <1>1 DEF Do
<1>4. /\ world \in [owned : OwnedStates, wrong : SUBSET Cases, saved : Int] /\ seen \in DecisionLog
      /\ seen.errors \in BOOLEAN
  BY DEF DecisionInv, DecisionShape, DecisionLog
<1>5. /\ world'.owned = ReadyApplicant /\ world'.wrong = world.wrong /\ world'.saved = world.saved
      /\ world' \in [owned : OwnedStates, wrong : SUBSET Cases, saved : Int]
  BY <1>3, <1>4, NothingMissing
<1>6. NoAttempt \in DecisionAnswers /\ ~NoAttempt.observed
  BY DEF NoAttempt, DecisionAnswers
<1>7. /\ seen'.at = seen.at /\ seen'.before = (IF ready THEN ReadyApplicant ELSE MissingState)
      /\ seen'.errors = (seen.errors \/ ~ready) /\ seen'.statuses = seen.statuses
      /\ seen'.attempt = NoAttempt
      /\ seen' \in DecisionLog
  BY <1>2, <1>3, <1>4, <1>6 DEF DecisionLog
<1> USE <1>3, <1>7
<1>8. /\ PlannedCases' = PlannedCases /\ Human' = Human /\ Current' = Current
      /\ ControlsDone' = ControlsDone
  BY SameCase, SameDone DEF Closing
<1>9. DecisionShape'
  BY <1>5, <1>8 DEF DecisionInv, DecisionShape, DecisionStages, Closing
<1>10. ApplicantFits' /\ SoundAnswers'
  BY <1>2, <1>5, <1>6, NothingMissing DEF ApplicantFits, SoundAnswers
<1>11. DecisionsFit'
  BY <1>5, <1>8, NothingMissing DEF DecisionInv, DecisionsFit, Moved
<1>12. AnsweredCase'
  BY <1>2 DEF DecisionInv, AnsweredCase, Answering, Sound
<1>13. StatusesFit' /\ DecisionJudged'
  BY <1>2 DEF DecisionInv, StatusesFit, DecisionJudged, Ended, Answering, Sound
<1> QED BY <1>9, <1>10, <1>11, <1>12, <1>13 DEF DecisionInv

LEMMA ProveIdentityKeeps ==
    ASSUME DecisionInv, ProveIdentity PROVE DecisionInv'
<1>1. PICK proven \in IF Current.actor = "APPLICANT_HTTP" THEN Reads("session", TRUE, FALSE)
                      ELSE {TRUE} :
        Look("identity", [seen EXCEPT !.proven = proven], "attempt")
  BY DEF ProveIdentity
<1>2. proven \in BOOLEAN /\ (outage = "none" => proven)
  BY DEF Reads
<1>3. /\ stage = "identity" /\ stage' = "attempt" /\ UNCHANGED <<topic, flaw, outage, verdict>>
      /\ world' = world /\ seen' = [seen EXCEPT !.proven = proven]
  BY <1>1 DEF Look, Do
<1>4. seen \in DecisionLog
  BY DEF DecisionInv, DecisionShape
<1>5. /\ seen'.at = seen.at /\ seen'.before = seen.before /\ seen'.proven = proven
      /\ seen'.errors = seen.errors /\ seen'.statuses = seen.statuses /\ seen' \in DecisionLog
  BY <1>2, <1>3, <1>4 DEF DecisionLog
<1>6. PlannedCases' = PlannedCases /\ ControlsDone' = ControlsDone
  BY <1>3, <1>5, SameCase, SameDone DEF Closing
<1> USE <1>3, <1>5 DEF DecisionInv
<1>7. DecisionShape'
  BY <1>6 DEF DecisionShape, DecisionStages, Closing
<1>8. ApplicantFits' /\ SoundAnswers'
  BY DEF ApplicantFits, SoundAnswers
<1>9. DecisionsFit'
  BY <1>6 DEF DecisionsFit
<1>10. AnsweredCase' /\ StatusesFit' /\ DecisionJudged'
  BY <1>2 DEF AnsweredCase, StatusesFit, DecisionJudged, Ended, Answering, Sound
<1> QED BY <1>7, <1>8, <1>9, <1>10 DEF DecisionInv

\* What a target does with a request, seen from the outside.
LEMMA HandledMeans ==
    ASSUME DecisionShape, world.owned = ReadyApplicant
    PROVE  /\ Handled \in OwnedStates
           /\ ~Human /\ LetThrough => Handled.stage = "target"
           /\ ~LetThrough /\ ~Human => Business(Handled) = Business(ReadyApplicant)
           /\ Human => (Handled = Decided(1)
                          <=> /\ Handled.stage = "target"
                              /\ Handled.reviews = IF Current.path = "FINAL_DECISION" THEN 1 ELSE 0)
           /\ Human /\ Sound => Handled = Decided(1) /\ Handled.version = 2 /\ Handled.audits = 1
           /\ Assistant /\ Sound => Handled.audits = 1
           /\ LetThrough => ~Human /\ ~Sound
<1>1. /\ world.owned.stage = "first" /\ world.owned.version = 1
      /\ world.owned.reviews = 0 /\ world.owned.audits = 0 /\ world.owned \in OwnedStates
  BY NothingMissing
<1>2. Current \in Cases /\ (Assistant => ~Human) /\ flaw \in DecisionFlaws
  BY CurrentRow DEF DecisionShape
<1>3. LetThrough => ~Human /\ ~Sound
  BY <1>2 DEF LetThrough, Human, Sound, Cases
<1>4. ASSUME NEW times \in {1, 2}
      PROVE  /\ Decided(times) \in OwnedStates /\ Decided(times).stage = "target"
             /\ Decided(times).version = 2
             /\ Decided(times).reviews = (IF Current.path = "FINAL_DECISION" THEN times ELSE 0)
             /\ Decided(times).audits = (IF flaw = "no-audit" THEN 0 ELSE 1)
             /\ Decided(times) = [stage |-> "target", version |-> 2,
                     reviews |-> IF Current.path = "FINAL_DECISION" THEN times ELSE 0,
                     audits |-> IF flaw = "no-audit" THEN 0 ELSE 1]
  BY <1>1 DEF Decided, OwnedStates
<1>5. CASE Human /\ flaw \notin {"refuses", "unsaved"}
  <2>1. Handled = Decided(IF flaw = "twice" THEN 2 ELSE 1)
    BY <1>2, <1>3, <1>5 DEF Handled
  <2>2. CASE flaw = "twice"
    <3>1. Handled = Decided(2)
      BY <2>1, <2>2
    <3> QED BY <1>3, <1>4, <1>5, <2>2, <3>1, <1>2 DEF Sound
  <2>3. CASE flaw # "twice"
    <3>1. Handled = Decided(1)
      BY <2>1, <2>3
    <3> QED BY <1>3, <1>4, <1>5, <2>3, <3>1, <1>2 DEF Sound
  <2> QED BY <2>2, <2>3
<1>6. CASE Human /\ flaw \in {"refuses", "unsaved"}
  <2>1. Handled = world.owned
    BY <1>2, <1>3, <1>6 DEF Handled
  <2> QED BY <1>1, <1>2, <1>3, <1>4, <1>6, <2>1 DEF Sound
<1>7. CASE ~Human /\ LetThrough
  <2>1. Handled = Decided(1)
    BY <1>7 DEF Handled
  <2> QED BY <1>3, <1>4, <1>7, <2>1
<1>8. CASE ~Human /\ ~LetThrough
  <2>1. Handled = (IF Assistant /\ flaw # "no-audit" THEN [world.owned EXCEPT !.audits = 1]
                   ELSE world.owned)
    BY <1>8 DEF Handled
  <2>2. /\ Handled \in OwnedStates /\ Handled.stage = "first" /\ Handled.version = 1
        /\ Handled.reviews = 0
        /\ Assistant /\ flaw # "no-audit" => Handled.audits = 1
    BY <1>1, <2>1 DEF OwnedStates
  <2>3. Business(Handled) = Business(ReadyApplicant)
    BY <2>2, NothingMissing DEF Business
  <2> QED BY <1>8, <2>2, <2>3, <1>2 DEF Sound
<1> QED BY <1>5, <1>6, <1>7, <1>8

\* The answers to a request, and the request that none came to.
LEMMA AttemptMeans ==
    ASSUME DecisionInv, RequestDecision
    PROVE  \E attempt \in DecisionAnswers, arrived \in BOOLEAN :
             /\ stage = "attempt" /\ stage' = "after" /\ UNCHANGED <<topic, flaw, outage, verdict>>
             /\ world' = IF arrived THEN AfterRequest ELSE world
             /\ seen' = [seen EXCEPT !.attempt = attempt, !.errors = @ \/ attempt = NoAttempt]
             /\ \/ /\ arrived /\ attempt.response = Response /\ attempt.observed
                   /\ attempt.exposed = (Assistant /\ flaw = "exposes") /\ attempt # NoAttempt
                \/ /\ outage \in {"helper", "transport", "server"} /\ attempt.response # "ACCEPTED"
                   /\ attempt.observed => outage = "server" /\ attempt.response = "ERROR"
<1> DEFINE answered == [response |-> Response, observed |-> TRUE,
                        exposed |-> Assistant /\ flaw = "exposes"]
<1>1. \/ Do("attempt", AfterRequest, [seen EXCEPT !.attempt = answered], "after")
      \/ \E attempt \in Unanswered, arrived \in BOOLEAN :
            Do("attempt", IF arrived THEN AfterRequest ELSE world,
               [seen EXCEPT !.attempt = attempt, !.errors = @ \/ attempt = NoAttempt], "after")
  BY DEF RequestDecision
<1>2. seen \in DecisionLog /\ seen.errors \in BOOLEAN
  BY DEF DecisionInv, DecisionShape, DecisionLog
<1>3. Response \in {"DENIED", "ACCEPTED", "ANSWER_ONLY"}
  BY DEF Response
<1> HIDE DEF Response
<1>4. CASE Do("attempt", AfterRequest, [seen EXCEPT !.attempt = answered], "after")
  <2>1. answered \in DecisionAnswers /\ answered # NoAttempt
    BY <1>3 DEF DecisionAnswers, NoAttempt
  <2>2. /\ answered.response = Response /\ answered.observed
        /\ answered.exposed = (Assistant /\ flaw = "exposes")
    OBVIOUS
  <2> HIDE DEF answered
  <2>3. [seen EXCEPT !.attempt = answered]
          = [seen EXCEPT !.attempt = answered, !.errors = @ \/ answered = NoAttempt]
    BY <1>2, <2>1 DEF DecisionLog
  <2> QED BY <1>4, <2>1, <2>2, <2>3 DEF Do
<1>5. CASE \E attempt \in Unanswered, arrived \in BOOLEAN :
             Do("attempt", IF arrived THEN AfterRequest ELSE world,
                [seen EXCEPT !.attempt = attempt, !.errors = @ \/ attempt = NoAttempt], "after")
  <2>1. PICK attempt \in Unanswered :
          \E arrived \in BOOLEAN :
            Do("attempt", IF arrived THEN AfterRequest ELSE world,
               [seen EXCEPT !.attempt = attempt, !.errors = @ \/ attempt = NoAttempt], "after")
    BY <1>5
  <2>2. PICK arrived \in BOOLEAN :
          Do("attempt", IF arrived THEN AfterRequest ELSE world,
             [seen EXCEPT !.attempt = attempt, !.errors = @ \/ attempt = NoAttempt], "after")
    BY <2>1
  <2>3. /\ outage \in {"helper", "transport", "server"}
        /\ attempt \in HelperFails \cup HttpFails
        /\ attempt \in HttpFails \/ outage = "helper"
    <3>1. \/ outage = "helper" /\ Current.actor = "SYSTEM_BOUNDARY"
          \/ outage \in {"transport", "server"} /\ Current.actor # "SYSTEM_BOUNDARY"
      BY DEF Unanswered
    <3> QED BY <3>1 DEF Unanswered
  <2>4. attempt \in DecisionAnswers /\ attempt.response # "ACCEPTED"
    <3>1. attempt \in {[response |-> "ERROR", observed |-> FALSE, exposed |-> FALSE],
                       [response |-> "ERROR", observed |-> TRUE, exposed |-> FALSE],
                       [response |-> "UNAVAILABLE", observed |-> FALSE, exposed |-> FALSE],
                       [response |-> "none", observed |-> FALSE, exposed |-> FALSE]}
      BY <2>3 DEF HelperFails, HttpFails, NoAttempt
    <3>2. attempt.response # "ACCEPTED"
      BY <3>1
    <3>3. /\ [response |-> "ERROR", observed |-> FALSE, exposed |-> FALSE] \in DecisionAnswers
          /\ [response |-> "ERROR", observed |-> TRUE, exposed |-> FALSE] \in DecisionAnswers
          /\ [response |-> "UNAVAILABLE", observed |-> FALSE, exposed |-> FALSE] \in DecisionAnswers
          /\ [response |-> "none", observed |-> FALSE, exposed |-> FALSE] \in DecisionAnswers
      BY DEF DecisionAnswers
    <3> QED BY <3>1, <3>2, <3>3
  <2>5. attempt.observed => outage = "server" /\ attempt.response = "ERROR"
    BY <2>3 DEF HelperFails, HttpFails, NoAttempt
  <2> QED BY <2>2, <2>3, <2>4, <2>5 DEF Do
<1> QED BY <1>1, <1>4, <1>5

LEMMA RequestDecisionKeeps ==
    ASSUME DecisionInv, RequestDecision PROVE DecisionInv'
<1>1. PICK attempt \in DecisionAnswers :
        \E arrived \in BOOLEAN :
             /\ stage = "attempt" /\ stage' = "after" /\ UNCHANGED <<topic, flaw, outage, verdict>>
             /\ world' = IF arrived THEN AfterRequest ELSE world
             /\ seen' = [seen EXCEPT !.attempt = attempt, !.errors = @ \/ attempt = NoAttempt]
             /\ \/ /\ arrived /\ attempt.response = Response /\ attempt.observed
                   /\ attempt.exposed = (Assistant /\ flaw = "exposes") /\ attempt # NoAttempt
                \/ /\ outage \in {"helper", "transport", "server"} /\ attempt.response # "ACCEPTED"
                   /\ attempt.observed => outage = "server" /\ attempt.response = "ERROR"
  BY AttemptMeans
<1>2. PICK arrived \in BOOLEAN :
             /\ stage = "attempt" /\ stage' = "after" /\ UNCHANGED <<topic, flaw, outage, verdict>>
             /\ world' = IF arrived THEN AfterRequest ELSE world
             /\ seen' = [seen EXCEPT !.attempt = attempt, !.errors = @ \/ attempt = NoAttempt]
             /\ \/ /\ arrived /\ attempt.response = Response /\ attempt.observed
                   /\ attempt.exposed = (Assistant /\ flaw = "exposes") /\ attempt # NoAttempt
                \/ /\ outage \in {"helper", "transport", "server"} /\ attempt.response # "ACCEPTED"
                   /\ attempt.observed => outage = "server" /\ attempt.response = "ERROR"
  BY <1>1
<1>3. /\ world \in [owned : OwnedStates, wrong : SUBSET Cases, saved : Int] /\ seen \in DecisionLog
      /\ seen.errors \in BOOLEAN /\ flaw \in DecisionFlaws /\ topic \in DecisionTopics
      /\ world.owned = ReadyApplicant /\ seen.before = ReadyApplicant
      /\ world.owned.stage = "first" /\ world.saved \in Int
  BY <1>2, NothingMissing DEF DecisionInv, DecisionShape, DecisionLog, ApplicantFits
<1>4. Current \in Cases /\ (Assistant => ~Human)
  BY CurrentRow DEF DecisionInv
<1>5. /\ Handled \in OwnedStates
      /\ ~Human /\ LetThrough => Handled.stage = "target"
      /\ ~LetThrough /\ ~Human => Business(Handled) = Business(ReadyApplicant)
      /\ Human => (Handled = Decided(1)
                     <=> /\ Handled.stage = "target"
                         /\ Handled.reviews = IF Current.path = "FINAL_DECISION" THEN 1 ELSE 0)
      /\ Human /\ Sound => Handled = Decided(1) /\ Handled.version = 2 /\ Handled.audits = 1
      /\ Assistant /\ Sound => Handled.audits = 1
      /\ LetThrough => ~Human /\ ~Sound
  BY <1>3, HandledMeans DEF DecisionInv
<1>6. /\ world'.owned = (IF arrived THEN Handled ELSE ReadyApplicant)
      /\ world'.wrong = (IF arrived /\ LetThrough THEN world.wrong \cup {Current} ELSE world.wrong)
      /\ world'.saved = (IF arrived /\ Human /\ Handled = Decided(1) THEN world.saved + 1
                         ELSE world.saved)
      /\ world' \in [owned : OwnedStates, wrong : SUBSET Cases, saved : Int]
  BY <1>2, <1>3, <1>4, <1>5 DEF AfterRequest
<1>7. /\ seen'.at = seen.at /\ seen'.before = ReadyApplicant /\ seen'.proven = seen.proven
      /\ seen'.errors = (seen.errors \/ attempt = NoAttempt) /\ seen'.statuses = seen.statuses
      /\ seen'.attempt = attempt /\ seen' \in DecisionLog
  BY <1>2, <1>3 DEF DecisionLog
<1>8. /\ PlannedCases' = PlannedCases /\ Human' = Human /\ Current' = Current
      /\ Assistant' = Assistant /\ ControlsDone' = ControlsDone
  BY <1>2, <1>7, SameCase, SameDone DEF Closing
<1>9. Human => (Moved' <=> arrived /\ Handled = Decided(1))
  BY <1>3, <1>5, <1>6, <1>8 DEF Moved
<1>10. DecisionShape'
  BY <1>2, <1>6, <1>7, <1>8 DEF DecisionInv, DecisionShape, DecisionStages, Closing
<1>11. ApplicantFits'
  BY <1>2, <1>7, NothingMissing DEF ApplicantFits
<1>12. DecisionsFit'
  <2> SUFFICES ASSUME flaw # "late", seen.statuses \subseteq {"PASS"}
      PROVE  /\ world'.wrong = {} \/ (~Human /\ world'.owned.stage = "target")
             /\ world'.saved = ControlsDone + (IF Human /\ Moved' THEN 1 ELSE 0)
    BY <1>2, <1>7, <1>8 DEF DecisionsFit
  <2>1. world.wrong = {} /\ world.saved = ControlsDone
    BY <1>2, DoneIsCount DEF DecisionInv, DecisionsFit
  <2> QED BY <1>3, <1>5, <1>6, <1>9, <2>1
<1>13. SoundAnswers'
  <2> SUFFICES ASSUME Sound, attempt.observed
      PROVE  IF Human
             THEN \/ /\ attempt.response = "ACCEPTED" /\ Moved'
                     /\ world'.owned.version = 2 /\ world'.owned.audits = 1
                  \/ outage = "server" /\ attempt.response = "ERROR"
             ELSE /\ Business(world'.owned) = Business(ReadyApplicant)
                  /\ attempt.response # "ACCEPTED"
    BY <1>2, <1>7, <1>8 DEF SoundAnswers, Sound, Business
  <2>1. CASE Human
    <3>1. Response = "ACCEPTED"
      BY <1>4, <2>1 DEF Sound, Response
    <3>2. arrived => /\ Moved' /\ world'.owned.version = 2 /\ world'.owned.audits = 1
      BY <1>5, <1>6, <1>9, <2>1
    <3> QED BY <1>2, <2>1, <3>1, <3>2
  <2>2. CASE ~Human
    <3>1. Business(world'.owned) = Business(ReadyApplicant)
      BY <1>5, <1>6, <2>2
    <3>2. Response # "ACCEPTED"
      <4>1. flaw # Current.actor /\ flaw # "accepts"
        BY <1>4 DEF Sound, Cases
      <4> QED BY <2>2, <4>1 DEF Response
    <3> QED BY <1>2, <2>2, <3>1, <3>2
  <2> QED BY <2>1, <2>2
<1>14. AnsweredCase'
  <2> SUFFICES ASSUME Answering
      PROVE  /\ ~(seen.errors \/ attempt = NoAttempt) /\ seen.proven /\ attempt.observed
             /\ Assistant => /\ attempt.response = "ANSWER_ONLY" /\ ~attempt.exposed
                             /\ world'.owned.audits = 1
             /\ ~Human /\ ~Assistant => attempt.response = "DENIED"
    BY <1>2, <1>7, <1>8 DEF AnsweredCase, Answering, Sound
  <2>1. ~seen.errors /\ seen.proven
    BY <1>2 DEF DecisionInv, AnsweredCase
  <2>2. /\ arrived /\ attempt.response = Response /\ attempt.observed
        /\ attempt.exposed = (Assistant /\ flaw = "exposes") /\ attempt # NoAttempt
    BY <1>2 DEF Answering
  <2>3. flaw # Current.actor /\ flaw # "accepts" /\ flaw # "exposes" /\ flaw # "refuses"
    BY <1>4 DEF Answering, Sound, Cases
  <2>4. /\ Assistant => Response = "ANSWER_ONLY"
        /\ ~Human /\ ~Assistant => Response = "DENIED"
    BY <1>4, <2>3 DEF Response
  <2>5. Assistant => world'.owned.audits = 1
    BY <1>5, <1>6, <2>2 DEF Answering
  <2> QED BY <2>1, <2>2, <2>3, <2>4, <2>5
<1>15. StatusesFit' /\ DecisionJudged'
  BY <1>2, <1>7 DEF DecisionInv, StatusesFit, DecisionJudged, Ended, Answering, Sound
<1> QED BY <1>10, <1>11, <1>12, <1>13, <1>14, <1>15 DEF DecisionInv

CaseRow(after, receipt) ==
    [path |-> Current.path, actor |-> Current.actor, before |-> seen.before, after |-> after,
     proven |-> seen.proven, attempt |-> seen.attempt, receipt |-> receipt]

\* What the outcome of a case says of its applicant, when the last read gives the
\* state of that moment or nothing.
LEMMA CaseJudged ==
    ASSUME DecisionInv, stage = "after", NEW after \in {world.owned, MissingState},
           NEW receipt \in BOOLEAN
    PROVE  /\ AssessRecord(CaseRow(after, receipt)) \in Outcomes
           /\ AssessRecord(CaseRow(after, receipt)) = "PASS" =>
                IF Human THEN Moved ELSE world.owned.stage # "target"
           /\ Sound /\ ~(topic = "H-01" /\ outage = "server") =>
                AssessRecord(CaseRow(after, receipt)) # "FAIL"
           /\ Answering /\ after = world.owned /\ receipt =>
                AssessRecord(CaseRow(after, receipt)) = "PASS"
<1> DEFINE row == CaseRow(after, receipt)
           evidence == /\ row.before # MissingState /\ row.after # MissingState
                       /\ row.proven /\ row.attempt.observed
<1>1. /\ row.path = Current.path /\ row.actor = Current.actor /\ row.before = seen.before
      /\ row.after = after /\ row.proven = seen.proven /\ row.attempt = seen.attempt
      /\ row.receipt = receipt
  BY DEF CaseRow
<1> HIDE DEF row
<1>2. /\ Current \in Cases /\ (Human <=> row.actor = "COMPANY_CONTROL")
      /\ Assistant <=> row.actor = "AI_ASSISTANT" /\ topic = "H-01"
      /\ topic = "H-01-stage-1" => row.path = "FINAL_DECISION"
      /\ topic \in DecisionTopics
  BY <1>1, CurrentRow DEF Human, Assistant, DecisionInv, DecisionShape
<1>3. /\ world.owned \in OwnedStates /\ seen.before \in {MissingState, ReadyApplicant}
      /\ seen.attempt \in DecisionAnswers /\ seen.proven \in BOOLEAN
  BY DEF DecisionInv, DecisionShape, DecisionLog
<1>4. CASE ~evidence
  <2>1. AssessRecord(row) = "INCONCLUSIVE"
    BY <1>4 DEF AssessRecord, Needs
  <2>2. ~(Answering /\ after = world.owned)
    BY <1>1, <1>3, <1>4, NothingMissing DEF DecisionInv, AnsweredCase
  <2> QED BY <2>1, <2>2 DEF Outcomes, row
<1>5. CASE evidence
  <2>1. /\ row.after = world.owned /\ row.before = ReadyApplicant /\ seen.attempt.observed
        /\ after = world.owned
    BY <1>1, <1>3, <1>5
  <2> DEFINE denied == Business(row.before) # Business(row.after) \/ row.attempt.response = "ACCEPTED"
  <2>2. Sound => IF Human
                 THEN \/ /\ row.attempt.response = "ACCEPTED" /\ Moved
                         /\ world.owned.version = 2 /\ world.owned.audits = 1
                      \/ outage = "server" /\ row.attempt.response = "ERROR"
                 ELSE ~denied
    BY <1>1, <2>1 DEF DecisionInv, SoundAnswers
  <2>3. Answering =>
             /\ Assistant => /\ row.attempt.response = "ANSWER_ONLY" /\ ~row.attempt.exposed
                             /\ world.owned.audits = 1
             /\ ~Human /\ ~Assistant => row.attempt.response = "DENIED"
    BY <1>1 DEF DecisionInv, AnsweredCase
  <2>4. Business(row.before) = Business(row.after) => world.owned.stage # "target"
    BY <2>1, NothingMissing DEF Business
  <2>5. CASE Human
    <3>1. row.actor = "COMPANY_CONTROL" /\ row.actor # "AI_ASSISTANT"
      BY <1>2, <2>5
    <3>2. AssessRecord(row) = IF row.path = "FINAL_DECISION" THEN AssessCase(row) ELSE BatchCase(row)
      BY <1>5, <3>1 DEF AssessRecord, Needs
    <3>3. CASE row.path = "FINAL_DECISION"
      <4>1. AssessRecord(row) = Needs(row.attempt.response \notin {"ERROR", "UNAVAILABLE"},
               IF ControlSavedOnce(row) THEN PassedOrUnsure(row.after.audits = 1) ELSE "FAIL")
        BY <3>1, <3>2, <3>3 DEF AssessCase
      <4>2. ControlSavedOnce(row) <=>
              /\ row.attempt.response = "ACCEPTED" /\ world.owned.stage = "target"
              /\ world.owned.version = 2 /\ world.owned.reviews = 1
        BY <2>1, NothingMissing DEF ControlSavedOnce
      <4>3. Moved <=> world.owned.stage = "target" /\ world.owned.reviews = 1
        BY <1>1, <3>3 DEF Moved
      <4> QED
        BY <2>1, <2>2, <2>5, <4>1, <4>2, <4>3 DEF Needs, PassedOrUnsure, Outcomes, row,
           Answering
    <3>4. CASE row.path # "FINAL_DECISION"
      <4>1. AssessRecord(row) = IF MovedOnce(row) THEN PassedOrUnsure(row.after.audits = 1) ELSE "FAIL"
        BY <3>1, <3>2, <3>4 DEF BatchCase
      <4>2. MovedOnce(row) <=>
              /\ row.attempt.response = "ACCEPTED" /\ world.owned.stage = "target"
              /\ world.owned.version = 2 /\ world.owned.reviews = 0
        BY <2>1, NothingMissing DEF MovedOnce
      <4>3. Moved <=> world.owned.stage = "target" /\ world.owned.reviews = 0
        BY <1>1, <3>4 DEF Moved
      <4>4. topic = "H-01"
        BY <1>2, <3>4 DEF DecisionTopics
      <4> QED
        BY <2>1, <2>2, <2>5, <4>1, <4>2, <4>3, <4>4 DEF PassedOrUnsure, Outcomes, row, Answering
    <3> QED BY <3>3, <3>4
  <2>6. CASE ~Human
    <3>1. row.actor # "COMPANY_CONTROL"
      BY <1>2, <2>6
    <3>2. CASE denied
      <4>1. AssessRecord(row) = "FAIL"
        BY <1>5, <3>1, <3>2 DEF AssessRecord, Needs
      <4> QED BY <2>2, <2>6, <3>2, <4>1 DEF Outcomes, row, Answering
    <3>3. CASE ~denied
      <4>1. AssessRecord(row) = (IF Assistant THEN PassedOrUnsure(AnsweredOnly(row))
                                 ELSE IF row.path = "FINAL_DECISION" THEN AssessCase(row)
                                      ELSE BatchCase(row))
        BY <1>2, <1>5, <3>1, <3>3 DEF AssessRecord, Needs
      <4>2. /\ AssessCase(row) = PassedOrUnsure(row.attempt.response = "DENIED")
            /\ BatchCase(row) = PassedOrUnsure(row.attempt.response = "DENIED")
        BY <3>1, <3>3 DEF AssessCase, RefusedCase, BatchCase
      <4>3. AssessRecord(row) \in {"PASS", "INCONCLUSIVE"}
        BY <4>1, <4>2 DEF PassedOrUnsure
      <4>4. Answering /\ receipt => AssessRecord(row) = "PASS"
        BY <1>1, <2>1, <2>3, <2>6, <4>1, <4>2 DEF PassedOrUnsure, AnsweredOnly
      <4> QED BY <2>4, <2>6, <3>3, <4>3, <4>4 DEF Outcomes, row
    <3> QED BY <3>2, <3>3
  <2> QED BY <2>5, <2>6
<1> QED BY <1>4, <1>5

\* One more human control is behind the Run exactly after a case of it.
LEMMA DoneGrows ==
    ASSUME DecisionShape, stage = "after"
    PROVE  (seen.at + 4) \div 5 = ControlsDone + (IF Human THEN 1 ELSE 0)
<1>1. seen.at \in 1..15 /\ (Human <=> (seen.at - 1) % 5 = 0)
  BY CurrentRow DEF DecisionShape, DecisionLog
<1>2. ControlsDone = (seen.at - 1 + 4) \div 5
  BY DEF ControlsDone, Closing
<1> QED BY <1>1, <1>2

LEMMA ObserveCaseKeeps ==
    ASSUME DecisionInv, ObserveCase PROVE DecisionInv'
<1> DEFINE last == seen.at = Len(PlannedCases)
           New(after, receipt) ==
             [seen EXCEPT !.statuses = @ \cup {AssessRecord(CaseRow(after, receipt))},
                          !.errors = @ \/ after = MissingState,
                          !.at = IF last THEN @ ELSE @ + 1]
<1>1. PICK after \in Reads("observer", world.owned, MissingState) :
        \E receipt \in Reads("receipts", TRUE, FALSE) :
           Look("after", New(after, receipt), IF last THEN "cleanup" ELSE "prepare")
  BY DEF ObserveCase, CaseRow
<1>2. PICK receipt \in Reads("receipts", TRUE, FALSE) :
           Look("after", New(after, receipt), IF last THEN "cleanup" ELSE "prepare")
  BY <1>1
<1> DEFINE status == AssessRecord(CaseRow(after, receipt))
<1>3. /\ stage = "after" /\ stage' = (IF last THEN "cleanup" ELSE "prepare")
      /\ UNCHANGED <<topic, flaw, outage, world, verdict>>
      /\ seen' = [seen EXCEPT !.statuses = @ \cup {status}, !.errors = @ \/ after = MissingState,
                              !.at = IF last THEN @ ELSE @ + 1]
  BY <1>2 DEF Look, Do
<1>4. /\ after \in {world.owned, MissingState} /\ receipt \in BOOLEAN
      /\ Answering => after = world.owned /\ receipt
  BY DEF Reads, Answering
<1>5. /\ status \in Outcomes
      /\ status = "PASS" => IF Human THEN Moved ELSE world.owned.stage # "target"
      /\ Sound /\ ~(topic = "H-01" /\ outage = "server") => status # "FAIL"
      /\ Answering => status = "PASS"
  BY <1>3, <1>4, CaseJudged
<1> HIDE DEF status
<1>6. /\ seen \in DecisionLog /\ seen.at \in 1..Len(PlannedCases) /\ Len(PlannedCases) \in {5, 15}
      /\ seen.errors \in BOOLEAN /\ world.owned \in OwnedStates
  BY CurrentRow DEF DecisionInv, DecisionShape, DecisionLog
<1>7. /\ seen'.at = (IF last THEN seen.at ELSE seen.at + 1)
      /\ seen'.statuses = seen.statuses \cup {status}
      /\ seen'.errors = (seen.errors \/ after = MissingState)
      /\ seen' \in DecisionLog
  <2>1. (IF last THEN seen.at ELSE seen.at + 1) \in 1..15
    <3>1. CASE last
      BY <1>6, <3>1
    <3>2. CASE ~last
      <4> DEFINE k == seen.at
                 n == Len(PlannedCases)
      <4>1. k \in 1..n /\ n \in {5, 15} /\ k # n
        BY <1>6, <3>2
      <4> HIDE DEF k, n
      <4>2. k + 1 \in 1..15
        BY <4>1
      <4> QED BY <3>2, <4>2 DEF k
    <3> QED BY <3>1, <3>2
  <2>2. seen.statuses \cup {status} \in SUBSET Outcomes
    BY <1>5, <1>6 DEF DecisionLog
  <2> DEFINE at == IF last THEN seen.at ELSE seen.at + 1
             statuses == seen.statuses \cup {status}
             errors == seen.errors \/ after = MissingState
  <2>3. seen' = [seen EXCEPT !.statuses = statuses, !.errors = errors, !.at = at]
    BY <1>3
  <2>4. errors \in BOOLEAN
    OBVIOUS
  <2>5. at \in 1..15 /\ statuses \in SUBSET Outcomes
    BY <2>1, <2>2
  <2> HIDE DEF at, statuses, errors
  <2>6. /\ seen'.at = at /\ seen'.statuses = statuses /\ seen'.errors = errors
        /\ seen' \in DecisionLog
    BY <1>6, <2>3, <2>4, <2>5 DEF DecisionLog
  <2> QED BY <2>6 DEF at, statuses, errors
<1>8. PlannedCases' = PlannedCases
  BY <1>3 DEF PlannedCases
<1>9. DecisionShape'
  BY <1>3, <1>6, <1>7, <1>8 DEF DecisionInv, DecisionShape, DecisionStages, Closing
<1>10. ControlsDone' = ControlsDone + (IF Human THEN 1 ELSE 0)
  <2>1. ControlsDone' = (seen.at + 4) \div 5
    BY <1>3, <1>6, <1>7 DEF ControlsDone, Closing
  <2> QED BY <1>3, <2>1, DoneGrows DEF DecisionInv
<1>11. ApplicantFits' /\ SoundAnswers'
  BY <1>3 DEF ApplicantFits, SoundAnswers
<1>12. DecisionsFit'
  <2> SUFFICES ASSUME flaw # "late", seen.statuses \cup {status} \subseteq {"PASS"}
      PROVE  world.wrong = {} /\ world.saved = ControlsDone + (IF Human THEN 1 ELSE 0) + 0
    BY <1>3, <1>7, <1>10, DoneIsCount DEF DecisionsFit
  <2>1. status = "PASS" /\ seen.statuses \subseteq {"PASS"}
    OBVIOUS
  <2>2. IF Human THEN Moved ELSE world.owned.stage # "target"
    BY <1>5, <2>1
  <2>3. /\ world.wrong = {} \/ (~Human /\ world.owned.stage = "target")
        /\ world.saved = ControlsDone + (IF Human /\ Moved THEN 1 ELSE 0)
    BY <1>3, <2>1 DEF DecisionInv, DecisionsFit
  <2> QED BY <2>2, <2>3, DoneIsCount
<1>13. AnsweredCase'
  BY <1>3, <1>4, <1>6, <1>7, NothingMissing DEF DecisionInv, AnsweredCase, Answering, Sound
<1>14. StatusesFit' /\ DecisionJudged'
  BY <1>3, <1>5, <1>7 DEF DecisionInv, StatusesFit, DecisionJudged, Ended, Answering, Sound
<1> QED BY <1>9, <1>11, <1>12, <1>13, <1>14 DEF DecisionInv

LEMMA CleanCasesKeeps ==
    ASSUME DecisionInv, CleanCases PROVE DecisionInv'
<1>1. PICK clean \in Reads("cleanup", TRUE, FALSE) :
        Look("cleanup", [seen EXCEPT !.statuses = IF clean THEN @ ELSE {"INCONCLUSIVE"}], "judge")
  BY DEF CleanCases
<1> DEFINE statuses == IF clean THEN seen.statuses ELSE {"INCONCLUSIVE"}
<1>2. /\ stage = "cleanup" /\ stage' = "judge" /\ UNCHANGED <<topic, flaw, outage, world, verdict>>
      /\ seen' = [seen EXCEPT !.statuses = statuses]
  BY <1>1 DEF Look, Do
<1>3. seen \in DecisionLog
  BY DEF DecisionInv, DecisionShape
<1>4. statuses \in SUBSET Outcomes /\ (Answering => statuses = seen.statuses)
  BY <1>3 DEF Reads, Answering, DecisionLog, Outcomes
<1>5. statuses = seen.statuses \/ statuses = {"INCONCLUSIVE"}
  OBVIOUS
<1> HIDE DEF statuses
<1>6. /\ seen'.at = seen.at /\ seen'.statuses = statuses /\ seen'.errors = seen.errors
      /\ seen' \in DecisionLog
  BY <1>2, <1>3, <1>4 DEF DecisionLog
<1>7. PlannedCases' = PlannedCases /\ ControlsDone' = ControlsDone
  BY <1>2, <1>6 DEF PlannedCases, ControlsDone, Closing
<1>8. DecisionShape'
  BY <1>2, <1>6, <1>7 DEF DecisionInv, DecisionShape, DecisionStages, Closing
<1>9. ApplicantFits' /\ SoundAnswers'
  BY <1>2 DEF ApplicantFits, SoundAnswers
<1>10. DecisionsFit'
  <2> SUFFICES ASSUME flaw # "late", statuses \subseteq {"PASS"}
      PROVE  world.wrong = {} /\ world.saved = ControlsDone + 0
    BY <1>2, <1>6, <1>7 DEF DecisionsFit
  <2>1. seen.statuses \subseteq {"PASS"}
    BY <1>5
  <2> QED BY <1>2, <2>1 DEF DecisionInv, DecisionsFit
<1>11. AnsweredCase' /\ StatusesFit' /\ DecisionJudged'
  BY <1>2, <1>4, <1>5, <1>6 DEF DecisionInv, AnsweredCase, StatusesFit, DecisionJudged, Ended,
     Answering, Sound
<1> QED BY <1>8, <1>9, <1>10, <1>11 DEF DecisionInv

LEMMA JudgeDecisionsKeeps ==
    ASSUME DecisionInv, JudgeDecisions PROVE DecisionInv'
<1>1. /\ stage = "judge" /\ stage' = "end" /\ verdict' = DecisionVerdict(seen)
      /\ UNCHANGED <<topic, flaw, outage, world, seen>>
  BY DEF JudgeDecisions, Judge
<1>2. seen.statuses \subseteq Outcomes /\ topic \in DecisionTopics
  BY DEF DecisionInv, DecisionShape, DecisionLog
<1>3. /\ verdict' = "PASS" => seen.statuses \subseteq {"PASS"}
      /\ verdict' = "FAIL" => "FAIL" \in seen.statuses
      /\ ~seen.errors /\ seen.statuses \subseteq {"PASS"} => verdict' = "PASS"
  BY <1>1, <1>2, AggregateRule DEF DecisionVerdict, Outcomes
<1>4. PlannedCases' = PlannedCases /\ ControlsDone' = ControlsDone
  BY <1>1 DEF PlannedCases, ControlsDone, Closing
<1>5. ControlsDone = Len(PlannedCases) \div 5
  <2> DEFINE n == Len(PlannedCases)
  <2>1. seen.at = n /\ n \in {5, 15}
    BY <1>1, CurrentRow DEF DecisionInv, DecisionShape, Closing
  <2>2. ControlsDone = (seen.at + 4) \div 5
    BY <1>1 DEF ControlsDone, Closing
  <2> HIDE DEF n
  <2>3. ControlsDone = n \div 5
    BY <2>1, <2>2
  <2> QED BY <2>3 DEF n
<1>6. ASSUME verdict' = "PASS", flaw # "late" PROVE DecisionsHold'
  <2>1. world.wrong = {} /\ world.saved = ControlsDone + 0
    BY <1>1, <1>3, <1>6 DEF DecisionInv, DecisionsFit
  <2> QED BY <1>1, <1>4, <1>5, <2>1, DoneIsCount DEF DecisionsHold
<1> USE <1>1 DEF DecisionInv
<1>7. DecisionJudged'
  BY <1>3, <1>6 DEF DecisionJudged, StatusesFit, AnsweredCase, Ended, Answering, Sound
<1>8. DecisionShape'
  BY <1>4 DEF DecisionShape, DecisionStages, Closing
<1>9. DecisionsFit'
  BY <1>4 DEF DecisionsFit
<1>10. ApplicantFits' /\ SoundAnswers' /\ AnsweredCase' /\ StatusesFit'
  BY DEF ApplicantFits, SoundAnswers, AnsweredCase, StatusesFit, Answering, Sound
<1> QED BY <1>7, <1>8, <1>9, <1>10 DEF DecisionInv

LEMMA DecidesLateKeeps ==
    ASSUME DecisionInv, DecidesLate PROVE DecisionInv'
<1>1. /\ flaw = "late" /\ ~Sound /\ ~Answering /\ stage \in {"after", "cleanup"}
      /\ stage = "after" => Current.actor = "APPLICANT_HTTP" /\ seen.before # MissingState
      /\ \/ world' = [world EXCEPT !.owned = Decided(1), !.wrong = {Current}]
         \/ world' = [world EXCEPT !.wrong = {PlannedCases[2]}]
      /\ UNCHANGED <<topic, flaw, outage, stage, seen, verdict>>
  BY DEF DecidesLate, Change, Sound, Answering
<1>2. world \in [owned : OwnedStates, wrong : SUBSET Cases, saved : Int]
  BY DEF DecisionInv, DecisionShape
<1>3. {Current} \in SUBSET Cases /\ {PlannedCases[2]} \in SUBSET Cases
  <2>1. Current \in Cases /\ Len(PlannedCases) \in {5, 15}
    BY CurrentRow DEF DecisionInv
  <2>2. 2 \in 1..Len(PlannedCases) /\ topic \in DecisionTopics
    <3>1. ASSUME NEW n \in {5, 15} PROVE 2 \in 1..n
      OBVIOUS
    <3> QED BY <2>1, <3>1 DEF DecisionInv, DecisionShape
  <2>3. PlannedCases[2] \in Cases
    BY <2>2, PlannedRow
  <2> QED BY <2>1, <2>3
<1>4. Decided(1) \in OwnedStates
  <2>1. world.owned.version \in Int
    BY <1>2 DEF OwnedStates
  <2> QED BY <2>1 DEF Decided, OwnedStates
<1>5. world' \in [owned : OwnedStates, wrong : SUBSET Cases, saved : Int]
  BY <1>1, <1>2, <1>3, <1>4
<1>6. PlannedCases' = PlannedCases
  BY <1>1 DEF PlannedCases
<1> USE <1>1 DEF DecisionInv
<1>7. DecisionShape'
  BY <1>5, <1>6 DEF DecisionShape, Closing
<1>8. ApplicantFits' /\ DecisionsFit' /\ SoundAnswers' /\ AnsweredCase' /\ StatusesFit'
  BY DEF ApplicantFits, DecisionsFit, SoundAnswers, AnsweredCase, StatusesFit, Answering, Sound
<1>9. DecisionJudged'
  BY DEF DecisionJudged, Ended
<1> QED BY <1>7, <1>8, <1>9 DEF DecisionInv

LEMMA DecisionStands ==
    ASSUME DecisionInv, UNCHANGED vars PROVE DecisionInv'
<1>1. UNCHANGED <<topic, flaw, outage, stage, world, seen, verdict>>
  BY DEF vars
<1>2. /\ PlannedCases' = PlannedCases /\ ControlsDone' = ControlsDone /\ Current' = Current
      /\ Human' = Human /\ Assistant' = Assistant
  BY <1>1 DEF PlannedCases, ControlsDone, Current, Human, Assistant
<1> USE <1>1, <1>2 DEF DecisionInv
<1>3. DecisionShape' /\ ApplicantFits'
  BY DEF DecisionShape, ApplicantFits
<1>4. DecisionsFit' /\ SoundAnswers'
  BY DEF DecisionsFit, SoundAnswers, Moved, Sound, Business
<1>5. AnsweredCase' /\ StatusesFit'
  BY DEF AnsweredCase, StatusesFit, Answering, Sound
<1>6. DecisionJudged'
  BY DEF DecisionJudged, DecisionsHold, Ended, Answering, Sound
<1> QED BY <1>3, <1>4, <1>5, <1>6 DEF DecisionInv

LEMMA DecisionStep ==
    (topic \in DecisionTopics => DecisionInv) /\ [Next]_vars
        => (topic \in DecisionTopics => DecisionInv)'
<1> SUFFICES ASSUME topic \in DecisionTopics, DecisionInv, [Next]_vars PROVE DecisionInv'
  BY TopicStays
<1>1. DecisionNext \/ UNCHANGED vars
  BY DEF Next, MinimalNext, NoticeNext, BoundaryNext, StaleNext, CitationNext, FreezeNext,
         SurfaceNext, DecisionTopics
<1> QED
  BY <1>1, PrepareCaseKeeps, ProveIdentityKeeps, RequestDecisionKeeps, ObserveCaseKeeps,
     CleanCasesKeeps, JudgeDecisionsKeeps, DecidesLateKeeps, DecisionStands DEF DecisionNext

-----------------------------------------------------------------------------
(* H-02: the surfaces a model can reach *)

LEMMA Shortened ==
    ASSUME NEW S, NEW s \in Seq(S), s # <<>>
    PROVE  /\ Front(s) \in Seq(S) /\ Len(Front(s)) = Len(s) - 1
           /\ \A i \in 1..(Len(s) - 1) : Front(s)[i] = s[i]
<1>1. Len(s) \in Nat /\ Len(s) # 0
  BY LenProperties, EmptySeq
<1> DEFINE n == Len(s) - 1
<1>2. n \in Nat /\ \A i \in 1..n : s[i] \in S
  BY <1>1
<1> HIDE DEF n
<1>3. /\ SubSeq(s, 1, n) \in Seq(S) /\ Len(SubSeq(s, 1, n)) = IF 1 <= n THEN n - 1 + 1 ELSE 0
      /\ \A i \in 1..(n - 1 + 1) : SubSeq(s, 1, n)[i] = s[1 + i - 1]
  BY <1>2, SubSeqProperties
<1>4. Front(s) = SubSeq(s, 1, n)
  BY DEF Front, n
<1>5. Len(Front(s)) = n /\ \A i \in 1..n : Front(s)[i] = s[i]
  BY <1>2, <1>3, <1>4
<1> QED BY <1>3, <1>4, <1>5 DEF n

LEMMA Subjects ==
    /\ SurfaceSubjects[1] = "human_low" /\ SurfaceSubjects[2] = "human_high"
    /\ SurfaceSubjects[3] = "search_legacy" /\ SurfaceSubjects[4] = "answer_legacy"
    /\ SurfaceSubjects[5] = "stream_legacy" /\ SurfaceSubjects[6] = "answer_assigned"
    /\ ToSet(SurfaceSubjects) = Names
    /\ ToSet(Controls) = {"human_low", "human_high"}
    /\ ToSet(Readers) = Names \ {"human_low", "human_high"}
    /\ \A i \in 1..6 : SurfaceSubjects[i] \in Names
    /\ \A i \in 1..6, j \in 1..6 : i # j => SurfaceSubjects[i] # SurfaceSubjects[j]
<1>1. /\ Controls \in Seq(Names) /\ Len(Controls) = 2
      /\ Controls[1] = "human_low" /\ Controls[2] = "human_high" /\ DOMAIN Controls = 1..2
  BY DEF Controls, Names
<1>2. /\ Readers \in Seq(Names) /\ Len(Readers) = 4 /\ DOMAIN Readers = 1..4
      /\ Readers[1] = "search_legacy" /\ Readers[2] = "answer_legacy"
      /\ Readers[3] = "stream_legacy" /\ Readers[4] = "answer_assigned"
  BY DEF Readers, Names
<1>3. /\ SurfaceSubjects \in Seq(Names) /\ Len(SurfaceSubjects) = 6
      /\ \A i \in 1..2 : SurfaceSubjects[i] = Controls[i]
      /\ \A i \in 3..6 : SurfaceSubjects[i] = Readers[i - 2]
  <2>1. /\ SurfaceSubjects \in Seq(Names) /\ Len(SurfaceSubjects) = 2 + 4
        /\ \A i \in 1..(2 + 4) : SurfaceSubjects[i] = IF i <= 2 THEN Controls[i] ELSE Readers[i - 2]
    <3> DEFINE a == Controls
               b == Readers
    <3>1. a \in Seq(Names) /\ b \in Seq(Names) /\ Len(a) = 2 /\ Len(b) = 4
      BY <1>1, <1>2
    <3> HIDE DEF a, b
    <3>2. /\ a \o b \in Seq(Names) /\ Len(a \o b) = Len(a) + Len(b)
          /\ \A i \in 1..(Len(a) + Len(b)) : (a \o b)[i] = IF i <= Len(a) THEN a[i] ELSE b[i - Len(a)]
      BY <3>1, ConcatProperties
    <3>3. /\ a \o b \in Seq(Names) /\ Len(a \o b) = 2 + 4
          /\ \A i \in 1..(2 + 4) : (a \o b)[i] = IF i <= 2 THEN a[i] ELSE b[i - 2]
      BY <3>1, <3>2
    <3> QED BY <3>3 DEF SurfaceSubjects, a, b
  <2> QED BY <2>1
<1>4. /\ SurfaceSubjects[1] = "human_low" /\ SurfaceSubjects[2] = "human_high"
      /\ SurfaceSubjects[3] = "search_legacy" /\ SurfaceSubjects[4] = "answer_legacy"
      /\ SurfaceSubjects[5] = "stream_legacy" /\ SurfaceSubjects[6] = "answer_assigned"
  BY <1>1, <1>2, <1>3
<1>5. DOMAIN SurfaceSubjects = {1, 2, 3, 4, 5, 6}
  BY <1>3
<1>6. ToSet(SurfaceSubjects) = Names
  BY <1>4, <1>5 DEF ToSet, Names
<1>7. /\ ToSet(Controls) = {"human_low", "human_high"}
      /\ ToSet(Readers) = Names \ {"human_low", "human_high"}
  BY <1>1, <1>2 DEF ToSet, Names
<1>8. ASSUME NEW i \in 1..6 PROVE i \in {1, 2, 3, 4, 5, 6}
  OBVIOUS
<1>9. \A i \in 1..6 : SurfaceSubjects[i] \in Names
  BY <1>4, <1>8 DEF Names
<1>10. ASSUME NEW i \in 1..6, NEW j \in 1..6, i # j PROVE SurfaceSubjects[i] # SurfaceSubjects[j]
  <2>1. i \in {1, 2, 3, 4, 5, 6} /\ j \in {1, 2, 3, 4, 5, 6}
    BY <1>8
  <2> QED BY <1>4, <1>10, <2>1
<1> QED BY <1>4, <1>6, <1>7, <1>9, <1>10

LEMMA NameIs ==
    ASSUME SurfaceShape
    PROVE  /\ Name = SurfaceSubjects[seen.at] /\ Name \in Names /\ seen.at \in 1..6
           /\ seen.at = 1 => Name = "human_low"
           /\ seen.at = 2 => Name = "human_high"
           /\ seen.at \notin {1, 2} => Name \in Names \ {"human_low", "human_high"}
<1>1. seen.at \in 1..6 /\ Name = SurfaceSubjects[seen.at]
  BY DEF SurfaceShape, SurfaceLog, Name
<1>2. Name \in Names
  BY <1>1, Subjects
<1>3. /\ seen.at = 1 => Name = "human_low"
      /\ seen.at = 2 => Name = "human_high"
  BY <1>1, Subjects
<1>4. seen.at \notin {1, 2} => Name \notin {"human_low", "human_high"}
  BY <1>1, Subjects
<1> QED BY <1>1, <1>2, <1>3, <1>4

LEMMA SurfaceStarts == Init /\ topic = "H-02" => SurfaceInv
<1> SUFFICES ASSUME Init, topic = "H-02" PROVE SurfaceInv
  OBVIOUS
<1>1. /\ flaw \in SurfaceFlaws /\ outage \in SurfaceOutages
      /\ stage = "scan" /\ verdict = "none"
      /\ world = [tree |-> IF flaw = "unreviewed" THEN "unknown" ELSE "reviewed",
                  owned |-> [name \in Names |-> OwnedReport], backfilled |-> {}]
      /\ seen = [tree |-> "none", issues |-> {}, runtime |-> [answered |-> FALSE], at |-> 1,
                 readers |-> <<>>, humans |-> <<>>, error |-> FALSE, clean |-> FALSE,
                 after |-> "none"]
  BY Subjects DEF Init, SurfaceInit
<1>2. OwnedReport \in Reports
  BY DEF OwnedReport, Reports
<1>3. <<>> \in Seq(ReaderRows) /\ <<>> \in Seq(HumanRows)
  OBVIOUS
<1>4. world \in SurfaceWorlds
  BY <1>1, <1>2 DEF SurfaceWorlds, Trees
<1>5. seen \in SurfaceLog
  BY <1>1, <1>3 DEF SurfaceLog, RuntimeAnswers
<1>6. SurfaceShape /\ SurfaceOrder
  BY <1>1, <1>4, <1>5 DEF SurfaceShape, SurfaceOrder, SurfaceStages
<1>7. TreeFits
  BY <1>1 DEF TreeFits, Answering, Sound
<1>8. ReadersFit /\ HumansFit /\ SurfaceJudged
  BY <1>1 DEF ReadersFit, HumansFit, SurfaceJudged, Ended
<1> QED BY <1>6, <1>7, <1>8 DEF SurfaceInv

\* A step that only looks leaves the rows of readers and people as they fit.
LEMMA RowsStay ==
    ASSUME SurfaceInv, UNCHANGED <<flaw, outage, world, verdict>>,
           seen'.readers = seen.readers, seen'.humans = seen.humans,
           seen.error => seen'.error, stage # "read-after", stage' # "read-after"
    PROVE  ReadersFit' /\ HumansFit'
<1>1. ReadersFit'
  BY DEF SurfaceInv, ReadersFit, Answering, Sound
<1>2. HumansFit'
  BY DEF SurfaceInv, HumansFit, HumanSaved, Answering, Sound
<1> QED BY <1>1, <1>2

LEMMA ScansKeep ==
    ASSUME SurfaceInv, ScanSource \/ RescanSource PROVE SurfaceInv'
<1> DEFINE dynamic == IF flaw = "dynamic" THEN {"DYNAMIC_REGISTRATION"} ELSE {}
           drift == IF world.tree # seen.tree THEN seen.issues \cup {"SOURCE_DRIFT"} ELSE seen.issues
           tree == IF stage = "scan" THEN world.tree ELSE seen.tree
           issues == IF stage = "scan" THEN dynamic ELSE drift
<1>1. /\ \/ stage = "scan" /\ stage' = "rescan"
         \/ stage = "rescan" /\ stage' = "runtime"
      /\ UNCHANGED <<flaw, outage, world, verdict>>
  BY DEF ScanSource, RescanSource, Look, Do
<1>2. seen \in SurfaceLog /\ world \in SurfaceWorlds
  BY DEF SurfaceInv, SurfaceShape
<1>3. seen' = [seen EXCEPT !.tree = tree, !.issues = issues]
  <2>1. CASE stage = "scan"
    BY <2>1 DEF ScanSource, RescanSource, Look, Do
  <2>2. CASE stage # "scan"
    <3>1. seen' = [seen EXCEPT !.issues = drift]
      BY <2>2 DEF ScanSource, RescanSource, Look, Do
    <3> HIDE DEF drift
    <3>2. [seen EXCEPT !.issues = drift] = [seen EXCEPT !.tree = seen.tree, !.issues = drift]
      BY <1>2 DEF SurfaceLog
    <3> QED BY <2>2, <3>1, <3>2
  <2> QED BY <2>1, <2>2
<1>4. tree \in Trees \cup {"none"} /\ issues \in SUBSET Issues
  BY <1>2 DEF SurfaceLog, SurfaceWorlds, Issues
<1>5. /\ stage = "scan" => tree = world.tree
      /\ flaw = "dynamic" => "DYNAMIC_REGISTRATION" \in issues
      /\ Answering => tree = "reviewed" /\ issues = {}
  <2>1. CASE stage = "scan"
    BY <2>1 DEF SurfaceInv, TreeFits, Answering, Sound
  <2>2. CASE stage # "scan"
    BY <2>2 DEF SurfaceInv, TreeFits, Answering, Sound
  <2> QED BY <2>1, <2>2
<1> HIDE DEF tree, issues
<1>6. /\ seen' \in SurfaceLog /\ seen'.tree = tree /\ seen'.issues = issues
      /\ seen'.runtime = seen.runtime /\ seen'.at = seen.at /\ seen'.readers = seen.readers
      /\ seen'.humans = seen.humans /\ seen'.error = seen.error /\ seen'.clean = seen.clean
      /\ seen'.after = seen.after
  BY <1>2, <1>3, <1>4 DEF SurfaceLog
<1> USE <1>1, <1>6 DEF SurfaceInv
<1>7. SurfaceShape'
  BY DEF SurfaceShape, SurfaceStages
<1>8. SurfaceOrder'
  BY DEF SurfaceOrder
<1>9. TreeFits'
  BY <1>5 DEF TreeFits, Answering, Sound
<1>10. ReadersFit' /\ HumansFit'
  BY <1>1, <1>6, RowsStay
<1>11. SurfaceJudged'
  BY <1>1 DEF SurfaceInv, SurfaceJudged, Ended
<1> QED BY <1>7, <1>8, <1>9, <1>10, <1>11 DEF SurfaceInv

\* A step that fails and leaves for the cleanup.
LEMMA FailsKeeps ==
    ASSUME SurfaceInv, NEW from \in {"runtime", "prepare", "read-before"}, Fails(from), ~Answering
    PROVE  SurfaceInv'
<1>1. /\ stage = from /\ stage' = "cleanup" /\ UNCHANGED <<flaw, outage, world, verdict>>
      /\ seen' = [seen EXCEPT !.error = TRUE]
  BY DEF Fails, Look, Do
<1>2. seen \in SurfaceLog
  BY DEF SurfaceInv, SurfaceShape
<1>3. /\ seen' \in SurfaceLog /\ seen'.tree = seen.tree /\ seen'.issues = seen.issues
      /\ seen'.runtime = seen.runtime /\ seen'.at = seen.at /\ seen'.readers = seen.readers
      /\ seen'.humans = seen.humans /\ seen'.error
  BY <1>1, <1>2 DEF SurfaceLog
<1>4. SurfaceShape' /\ SurfaceOrder'
  BY <1>1, <1>3 DEF SurfaceInv, SurfaceShape, SurfaceStages, SurfaceOrder
<1>5. TreeFits'
  BY <1>1, <1>3 DEF SurfaceInv, TreeFits, Answering, Sound
<1>6. ReadersFit' /\ HumansFit'
  BY <1>1, <1>3, RowsStay
<1>7. SurfaceJudged'
  BY <1>1 DEF SurfaceInv, SurfaceJudged, Ended
<1> QED BY <1>4, <1>5, <1>6, <1>7 DEF SurfaceInv

LEMMA CaptureRuntimeKeeps ==
    ASSUME SurfaceInv, CaptureRuntime PROVE SurfaceInv'
<1> DEFINE surfaces == IF flaw = "unbound" THEN Surfaces \ {"WORKER_HANDLER"} ELSE Surfaces
           runtime == [answered |-> TRUE, tree |-> world.tree, surfaces |-> surfaces]
<1>1. PICK answered \in Reads("runtime", TRUE, FALSE) :
        IF answered THEN Look("runtime", [seen EXCEPT !.runtime = runtime], "prepare")
        ELSE Fails("runtime")
  BY DEF CaptureRuntime
<1>2. CASE ~answered
  <2>1. ~Answering
    BY <1>2 DEF Reads, Answering
  <2> QED BY <1>1, <1>2, <2>1, FailsKeeps
<1>3. CASE answered
  <2>1. /\ stage = "runtime" /\ stage' = "prepare" /\ UNCHANGED <<flaw, outage, world, verdict>>
        /\ seen' = [seen EXCEPT !.runtime = runtime]
    BY <1>1, <1>3 DEF Look, Do
  <2>2. seen \in SurfaceLog /\ world.tree \in Trees
    BY DEF SurfaceInv, SurfaceShape, SurfaceWorlds
  <2>3. /\ surfaces \in SUBSET Surfaces /\ (flaw = "unbound" => surfaces # Surfaces)
        /\ Answering => surfaces = Surfaces
    BY DEF Surfaces, Answering, Sound
  <2> HIDE DEF surfaces
  <2>4. /\ runtime \in RuntimeAnswers /\ runtime.surfaces = surfaces
        /\ Answering => runtime = [answered |-> TRUE, tree |-> "reviewed", surfaces |-> Surfaces]
    BY <2>2, <2>3 DEF RuntimeAnswers, SurfaceInv, TreeFits
  <2> HIDE DEF runtime
  <2>5. /\ seen' \in SurfaceLog /\ seen'.tree = seen.tree /\ seen'.issues = seen.issues
        /\ seen'.runtime = runtime /\ seen'.at = seen.at /\ seen'.readers = seen.readers
        /\ seen'.humans = seen.humans /\ seen'.error = seen.error /\ seen'.clean = seen.clean
    BY <2>1, <2>2, <2>4 DEF SurfaceLog
  <2> USE <2>1, <2>5 DEF SurfaceInv
  <2>6. SurfaceShape'
    BY DEF SurfaceShape, SurfaceStages
  <2>7. SurfaceOrder'
    BY DEF SurfaceOrder
  <2>8. TreeFits'
    BY <2>3, <2>4 DEF TreeFits, Answering, Sound
  <2>9. ReadersFit' /\ HumansFit'
    BY <2>1, <2>5, RowsStay
  <2>10. SurfaceJudged'
    BY <2>1 DEF SurfaceInv, SurfaceJudged, Ended
  <2> QED BY <2>6, <2>7, <2>8, <2>9, <2>10 DEF SurfaceInv
<1> QED BY <1>2, <1>3

LEMMA CleanReportsKeeps ==
    ASSUME SurfaceInv, CleanReports PROVE SurfaceInv'
<1>1. PICK clean \in Reads("cleanup", TRUE, FALSE) :
        Look("cleanup", [seen EXCEPT !.clean = clean], "scan-after")
  BY DEF CleanReports
<1>2. /\ stage = "cleanup" /\ stage' = "scan-after" /\ UNCHANGED <<flaw, outage, world, verdict>>
      /\ seen' = [seen EXCEPT !.clean = clean] /\ clean \in BOOLEAN
      /\ Answering => clean
  BY <1>1 DEF Look, Do, Reads, Answering
<1>3. seen \in SurfaceLog
  BY DEF SurfaceInv, SurfaceShape
<1>4. /\ seen' \in SurfaceLog /\ seen'.tree = seen.tree /\ seen'.issues = seen.issues
      /\ seen'.runtime = seen.runtime /\ seen'.at = seen.at /\ seen'.readers = seen.readers
      /\ seen'.humans = seen.humans /\ seen'.error = seen.error /\ seen'.clean = clean
  BY <1>2, <1>3 DEF SurfaceLog
<1> USE <1>2, <1>4 DEF SurfaceInv
<1>5. SurfaceShape'
  BY DEF SurfaceShape, SurfaceStages
<1>6. SurfaceOrder'
  BY DEF SurfaceOrder
<1>7. TreeFits'
  BY DEF TreeFits, Answering, Sound
<1>8. ReadersFit' /\ HumansFit'
  BY <1>2, <1>4, RowsStay
<1>9. SurfaceJudged'
  BY <1>2 DEF SurfaceInv, SurfaceJudged, Ended
<1> QED BY <1>5, <1>6, <1>7, <1>8, <1>9 DEF SurfaceInv

LEMMA ScanAfterKeeps ==
    ASSUME SurfaceInv, ScanAfter PROVE SurfaceInv'
<1>1. /\ stage = "scan-after" /\ stage' = "judge" /\ UNCHANGED <<flaw, outage, world, verdict>>
      /\ seen' = [seen EXCEPT !.after = world.tree]
  BY DEF ScanAfter, Look, Do
<1>2. seen \in SurfaceLog /\ world.tree \in Trees
  BY DEF SurfaceInv, SurfaceShape, SurfaceWorlds
<1>3. /\ seen' \in SurfaceLog /\ seen'.tree = seen.tree /\ seen'.issues = seen.issues
      /\ seen'.runtime = seen.runtime /\ seen'.at = seen.at /\ seen'.readers = seen.readers
      /\ seen'.humans = seen.humans /\ seen'.error = seen.error /\ seen'.clean = seen.clean
      /\ seen'.after = world.tree
  BY <1>1, <1>2 DEF SurfaceLog
<1>4. SurfaceShape' /\ SurfaceOrder'
  BY <1>1, <1>3 DEF SurfaceInv, SurfaceShape, SurfaceStages, SurfaceOrder
<1>5. TreeFits'
  BY <1>1, <1>3 DEF SurfaceInv, TreeFits, Answering, Sound
<1>6. ReadersFit' /\ HumansFit'
  BY <1>1, <1>3, RowsStay
<1>7. SurfaceJudged'
  BY <1>1 DEF SurfaceInv, SurfaceJudged, Ended
<1> QED BY <1>4, <1>5, <1>6, <1>7 DEF SurfaceInv

LEMMA PrepareReportKeeps ==
    ASSUME SurfaceInv, PrepareReport PROVE SurfaceInv'
<1>1. PICK ready \in Reads("reports", TRUE, FALSE) :
        IF ~ready THEN Fails("prepare")
        ELSE IF seen.at <= 2
        THEN Look("prepare", [seen EXCEPT !.at = @ + 1], "prepare")
        ELSE Do("prepare",
                IF seen.at < 6 THEN [world EXCEPT !.owned[Name].stage = "none"] ELSE world,
                seen, "read-before")
  BY DEF PrepareReport
<1>2. stage = "prepare" /\ seen \in SurfaceLog /\ seen.at \in 1..6 /\ world \in SurfaceWorlds
  BY DEF PrepareReport, SurfaceInv, SurfaceShape, SurfaceLog
<1>3. CASE ~ready
  <2>1. ~Answering
    BY <1>3 DEF Reads, Answering
  <2> QED BY <1>1, <1>3, <2>1, FailsKeeps
<1>4. CASE ready /\ seen.at <= 2
  <2> DEFINE at == seen.at + 1
  <2>1. /\ stage' = "prepare" /\ UNCHANGED <<flaw, outage, world, verdict>>
        /\ seen' = [seen EXCEPT !.at = at]
    BY <1>1, <1>4 DEF Look, Do
  <2>2. /\ seen' \in SurfaceLog /\ seen'.tree = seen.tree /\ seen'.issues = seen.issues
        /\ seen'.runtime = seen.runtime /\ seen'.at = seen.at + 1 /\ seen'.readers = seen.readers
        /\ seen'.humans = seen.humans /\ seen'.error = seen.error /\ seen'.clean = seen.clean
    BY <1>2, <1>4, <2>1 DEF SurfaceLog
  <2>3. SurfaceShape'
    BY <1>2, <2>1, <2>2 DEF SurfaceInv, SurfaceShape
  <2>4. SurfaceOrder'
    <3>1. Len(seen.readers) = 0 /\ Len(seen.humans) = 0 /\ seen.at \in {1, 2}
      BY <1>2, <1>4 DEF SurfaceInv, SurfaceOrder
    <3>2. seen'.at \in {2, 3} /\ Len(seen'.readers) = 0 /\ Len(seen'.humans) = 0
      BY <2>2, <3>1
    <3> QED BY <2>1, <3>2 DEF SurfaceOrder
  <2>5. TreeFits'
    BY <1>2, <2>1, <2>2 DEF SurfaceInv, TreeFits, Answering, Sound
  <2>6. ReadersFit' /\ HumansFit'
    BY <1>2, <2>1, <2>2, RowsStay
  <2>7. SurfaceJudged'
    BY <1>2, <2>1 DEF SurfaceInv, SurfaceJudged, Ended
  <2> QED BY <2>3, <2>4, <2>5, <2>6, <2>7 DEF SurfaceInv
<1>5. CASE ready /\ ~(seen.at <= 2)
  <2>1. /\ stage' = "read-before" /\ UNCHANGED <<flaw, outage, seen, verdict>>
        /\ world' = IF seen.at < 6 THEN [world EXCEPT !.owned[Name].stage = "none"] ELSE world
    BY <1>1, <1>5 DEF Do
  <2>2. Name \in Names /\ world.owned[Name] \in Reports
    BY <1>2, NameIs DEF SurfaceInv, SurfaceWorlds
  <2> DEFINE reset == [world.owned[Name] EXCEPT !.stage = "none"]
  <2>3. reset \in Reports
    BY <2>2 DEF Reports
  <2>4. [world EXCEPT !.owned[Name].stage = "none"] = [world EXCEPT !.owned[Name] = reset]
    BY <1>2, <2>2 DEF SurfaceWorlds
  <2> HIDE DEF reset
  <2>5. /\ world' \in SurfaceWorlds /\ world'.tree = world.tree
        /\ world'.backfilled = world.backfilled
    BY <1>2, <2>1, <2>2, <2>3, <2>4 DEF SurfaceWorlds
  <2> USE <2>1 DEF SurfaceInv
  <2>6. SurfaceShape'
    BY <2>5 DEF SurfaceShape, SurfaceStages
  <2>7. SurfaceOrder'
    BY <1>2, <1>5 DEF SurfaceOrder
  <2>8. TreeFits'
    BY <1>2, <2>5 DEF TreeFits, Answering, Sound
  <2>9. ReadersFit'
    BY <1>2, <2>5 DEF ReadersFit, Answering, Sound
  <2>10. HumansFit'
    <3>1. Len(seen.humans) = 0
      BY <1>2 DEF SurfaceInv, SurfaceOrder
    <3> QED BY <2>1, <3>1 DEF HumansFit
  <2>11. SurfaceJudged'
    BY <1>2, <2>1 DEF SurfaceInv, SurfaceJudged, Ended
  <2> QED BY <2>6, <2>7, <2>8, <2>9, <2>10, <2>11 DEF SurfaceInv
<1> QED BY <1>3, <1>4, <1>5

LEMMA ReadBeforeKeeps ==
    ASSUME SurfaceInv, ReadBefore PROVE SurfaceInv'
<1>1. PICK status \in Reads("reader", 200, 503) :
        \E answered \in Reads("transport", TRUE, FALSE) :
          IF answered
          THEN Look("read-before", [seen EXCEPT !.readers = Append(@,
                       [name |-> Name, status |-> status, before |-> world.owned[Name],
                        after |-> world.owned[Name]])], "read-after")
          ELSE Fails("read-before")
  BY DEF ReadBefore
<1> DEFINE row == [name |-> Name, status |-> status, before |-> world.owned[Name],
                   after |-> world.owned[Name]]
           readers == Append(seen.readers, row)
<1>2. PICK answered \in Reads("transport", TRUE, FALSE) :
        IF answered THEN Look("read-before", [seen EXCEPT !.readers = readers], "read-after")
        ELSE Fails("read-before")
  BY <1>1
<1>3. stage = "read-before" /\ seen \in SurfaceLog /\ seen.at \in 1..6 /\ world \in SurfaceWorlds
  BY DEF ReadBefore, SurfaceInv, SurfaceShape, SurfaceLog
<1>4. CASE ~answered
  <2>1. ~Answering
    BY <1>4 DEF Reads, Answering
  <2> QED BY <1>2, <1>4, <2>1, FailsKeeps
<1>5. CASE answered
  <2>1. /\ stage' = "read-after" /\ UNCHANGED <<flaw, outage, world, verdict>>
        /\ seen' = [seen EXCEPT !.readers = readers]
    BY <1>2, <1>5 DEF Look, Do
  <2>2. Name \in Names /\ world.owned[Name] \in Reports
    BY <1>3, NameIs DEF SurfaceInv, SurfaceWorlds
  <2>3. status \in {200, 503} /\ (Answering => status = 200)
    BY DEF Reads, Answering
  <2>4. /\ row \in ReaderRows /\ row.before = world.owned[Name] /\ row.after = row.before
        /\ row.status = status
    BY <2>2, <2>3 DEF ReaderRows
  <2> HIDE DEF row
  <2> DEFINE n == Len(seen.readers)
  <2>5. seen.readers \in Seq(ReaderRows) /\ n \in Nat
    BY <1>3 DEF SurfaceLog
  <2>6. /\ readers \in Seq(ReaderRows) /\ Len(readers) = n + 1 /\ readers[n + 1] = row
        /\ \A i \in 1..n : readers[i] = seen.readers[i]
    BY <2>4, <2>5, Grown
  <2> HIDE DEF readers
  <2>7. /\ seen' \in SurfaceLog /\ seen'.tree = seen.tree /\ seen'.issues = seen.issues
        /\ seen'.runtime = seen.runtime /\ seen'.at = seen.at /\ seen'.readers = readers
        /\ seen'.humans = seen.humans /\ seen'.error = seen.error /\ seen'.clean = seen.clean
    BY <1>3, <2>1, <2>6 DEF SurfaceLog
  <2>8. SurfaceShape'
    BY <2>1, <2>7 DEF SurfaceInv, SurfaceShape, SurfaceStages
  <2>9. SurfaceOrder'
    <3>1. n = seen.at - 3 /\ seen.at \notin {1, 2} /\ Len(seen.humans) = 0
      BY <1>3 DEF SurfaceInv, SurfaceOrder
    <3>2. Len(seen'.readers) = seen'.at - 2 /\ seen'.at \notin {1, 2} /\ Len(seen'.humans) = 0
      BY <1>3, <2>6, <2>7, <3>1
    <3> QED BY <2>1, <3>2 DEF SurfaceOrder
  <2>10. TreeFits'
    BY <1>3, <2>1, <2>7 DEF SurfaceInv, TreeFits, Answering, Sound
  <2>11. ReadersFit'
    <3>1. Name' = Name
      BY <2>7 DEF Name
    <3> HIDE DEF n
    <3>2. n \in Nat /\ \A i \in 1..(n + 1) : i \in 1..n \/ i = n + 1
      BY <2>5 DEF n
    <3>3. /\ flaw \notin {"backfills", "backfills-late"} => world.backfilled = {}
          /\ world.backfilled # {} /\ flaw # "backfills-late" =>
               seen.error \/ \E i \in 1..n : seen.readers[i].before # seen.readers[i].after
          /\ Sound => \A i \in 1..n : seen.readers[i].before = seen.readers[i].after
          /\ Answering => \A i \in 1..n : seen.readers[i].status = 200
      BY <1>3 DEF SurfaceInv, ReadersFit, n
    <3>4. /\ seen'.readers[Len(seen'.readers)].before = world'.owned[Name']
          /\ seen'.readers[Len(seen'.readers)].before = seen'.readers[Len(seen'.readers)].after
      BY <2>1, <2>4, <2>6, <2>7, <3>1
    <3>5. world.backfilled # {} /\ flaw # "backfills-late" =>
            seen.error \/ \E i \in 1..(n + 1) : readers[i].before # readers[i].after
      BY <2>6, <3>2, <3>3
    <3>6. /\ Sound => \A i \in 1..(n + 1) : readers[i].before = readers[i].after
          /\ Answering => \A i \in 1..(n + 1) : readers[i].status = 200
      BY <2>3, <2>4, <2>6, <3>2, <3>3
    <3> QED BY <2>1, <2>6, <2>7, <3>3, <3>4, <3>5, <3>6 DEF ReadersFit, Answering, Sound
  <2>12. HumansFit'
    <3>1. Len(seen.humans) = 0
      BY <1>3 DEF SurfaceInv, SurfaceOrder
    <3> QED BY <2>7, <3>1 DEF HumansFit
  <2>13. SurfaceJudged'
    BY <1>3, <2>1 DEF SurfaceInv, SurfaceJudged, Ended
  <2> QED BY <2>8, <2>9, <2>10, <2>11, <2>12, <2>13 DEF SurfaceInv
<1> QED BY <1>4, <1>5

LEMMA ReadAfterKeeps ==
    ASSUME SurfaceInv, ReadAfter PROVE SurfaceInv'
<1> DEFINE n == Len(seen.readers)
           row == [seen.readers[n] EXCEPT !.after = world.owned[Name]]
           readers == [seen.readers EXCEPT ![n] = row]
           at == IF seen.at = 6 THEN 1 ELSE seen.at + 1
<1>1. PICK readable \in Reads("state", TRUE, FALSE) :
        IF readable
        THEN Look("read-after",
                  [seen EXCEPT !.readers[Len(seen.readers)].after = world.owned[Name],
                               !.at = IF @ = 6 THEN 1 ELSE @ + 1],
                  IF seen.at = 6 THEN "decide" ELSE "prepare")
        ELSE Look("read-after", [seen EXCEPT !.error = TRUE, !.readers = Front(@)], "cleanup")
  BY DEF ReadAfter
<1>2. /\ stage = "read-after" /\ seen \in SurfaceLog /\ seen.at \in 1..6 /\ world \in SurfaceWorlds
      /\ seen.readers \in Seq(ReaderRows)
  BY DEF ReadAfter, SurfaceInv, SurfaceShape, SurfaceLog
<1>3. n = seen.at - 2 /\ seen.at \notin {1, 2} /\ Len(seen.humans) = 0 /\ n \in 1..4
  <2>1. n = seen.at - 2 /\ seen.at \notin {1, 2} /\ Len(seen.humans) = 0
    BY <1>2 DEF SurfaceInv, SurfaceOrder
  <2>2. seen.at - 2 \in 1..4
    BY <1>2, <2>1
  <2> QED BY <2>1, <2>2
<1>4. /\ seen.readers[n] \in ReaderRows /\ world.owned[Name] \in Reports
      /\ seen.readers[n].before = seen.readers[n].after
      /\ world.owned[Name] = seen.readers[n].before \/ flaw = "backfills-late" \/ ShowsNext
  BY <1>2, <1>3, NameIs DEF SurfaceInv, ReadersFit, SurfaceWorlds
<1>5. CASE ~readable
  <2>1. ~Answering
    BY <1>5 DEF Reads, Answering
  <2> DEFINE front == Front(seen.readers)
  <2>2. /\ stage' = "cleanup" /\ UNCHANGED <<flaw, outage, world, verdict>>
        /\ seen' = [seen EXCEPT !.error = TRUE, !.readers = front]
    BY <1>1, <1>5 DEF Look, Do
  <2>3. /\ front \in Seq(ReaderRows) /\ Len(front) = n - 1
        /\ \A i \in 1..(n - 1) : front[i] = seen.readers[i]
    <3> DEFINE rows == seen.readers
    <3> HIDE DEF n
    <3>1. rows \in Seq(ReaderRows) /\ Len(rows) = n
      BY <1>2 DEF n
    <3>2. rows # <<>>
      BY <1>3, <3>1
    <3> HIDE DEF rows
    <3>3. /\ Front(rows) \in Seq(ReaderRows) /\ Len(Front(rows)) = Len(rows) - 1
          /\ \A i \in 1..(Len(rows) - 1) : Front(rows)[i] = rows[i]
      BY <3>1, <3>2, Shortened
    <3> QED BY <3>1, <3>3 DEF rows
  <2> HIDE DEF front
  <2>4. /\ seen' \in SurfaceLog /\ seen'.tree = seen.tree /\ seen'.issues = seen.issues
        /\ seen'.runtime = seen.runtime /\ seen'.at = seen.at /\ seen'.readers = front
        /\ seen'.humans = seen.humans /\ seen'.error /\ seen'.clean = seen.clean
    BY <1>2, <2>2, <2>3 DEF SurfaceLog
  <2>5. SurfaceShape' /\ SurfaceOrder'
    BY <2>2, <2>4 DEF SurfaceInv, SurfaceShape, SurfaceStages, SurfaceOrder
  <2>6. TreeFits'
    BY <1>2, <2>1, <2>2, <2>4 DEF SurfaceInv, TreeFits, Answering, Sound
  <2>7. ReadersFit'
    <3> HIDE DEF n
    <3>1. /\ flaw \notin {"backfills", "backfills-late"} => world.backfilled = {}
          /\ Sound => \A i \in 1..n : seen.readers[i].before = seen.readers[i].after
      BY DEF SurfaceInv, ReadersFit, n
    <3>2. Sound => \A i \in 1..(n - 1) : front[i].before = front[i].after
      BY <1>3, <2>3, <3>1
    <3> QED BY <2>1, <2>2, <2>3, <2>4, <3>1, <3>2 DEF ReadersFit, Answering, Sound
  <2>8. HumansFit'
    BY <1>3, <2>4 DEF HumansFit
  <2>9. SurfaceJudged'
    BY <1>2, <2>2 DEF SurfaceInv, SurfaceJudged, Ended
  <2> QED BY <2>5, <2>6, <2>7, <2>8, <2>9 DEF SurfaceInv
<1>6. CASE readable
  <2>1. /\ stage' = (IF seen.at = 6 THEN "decide" ELSE "prepare")
        /\ UNCHANGED <<flaw, outage, world, verdict>>
        /\ seen' = [seen EXCEPT !.readers = readers, !.at = at]
    BY <1>1, <1>6 DEF Look, Do
  <2>2. /\ row \in ReaderRows /\ row.before = seen.readers[n].before
        /\ row.after = world.owned[Name] /\ row.status = seen.readers[n].status
    BY <1>4 DEF ReaderRows
  <2> HIDE DEF row
  <2>3. /\ readers \in Seq(ReaderRows) /\ Len(readers) = n /\ readers[n] = row
        /\ \A i \in 1..n : i # n => readers[i] = seen.readers[i]
    BY <1>2, <1>3, <2>2
  <2> HIDE DEF readers
  <2>4. at \in 1..6 /\ (seen.at = 6 => at = 1) /\ (seen.at # 6 => at = seen.at + 1)
    BY <1>2
  <2> HIDE DEF at
  <2>5. /\ seen' \in SurfaceLog /\ seen'.tree = seen.tree /\ seen'.issues = seen.issues
        /\ seen'.runtime = seen.runtime /\ seen'.at = at /\ seen'.readers = readers
        /\ seen'.humans = seen.humans /\ seen'.error = seen.error /\ seen'.clean = seen.clean
    BY <1>2, <2>1, <2>3, <2>4 DEF SurfaceLog
  <2>6. SurfaceShape'
    BY <2>1, <2>5 DEF SurfaceInv, SurfaceShape, SurfaceStages
  <2>7. SurfaceOrder'
    <3>1. CASE seen.at = 6
      BY <1>3, <2>1, <2>3, <2>4, <2>5, <3>1 DEF SurfaceOrder
    <3>2. CASE seen.at # 6
      <4>1. Len(seen'.readers) = seen'.at - 3 /\ seen'.at \notin {1, 2} /\ Len(seen'.humans) = 0
        BY <1>2, <1>3, <2>3, <2>4, <2>5, <3>2
      <4> QED BY <2>1, <3>2, <4>1 DEF SurfaceOrder
    <3> QED BY <3>1, <3>2
  <2>8. TreeFits'
    BY <1>2, <2>1, <2>5 DEF SurfaceInv, TreeFits, Answering, Sound
  <2>9. ReadersFit'
    <3>1. /\ flaw \notin {"backfills", "backfills-late"} => world.backfilled = {}
          /\ world.backfilled # {} /\ flaw # "backfills-late" =>
               \/ seen.error
               \/ \E i \in 1..n : seen.readers[i].before # seen.readers[i].after
               \/ ShowsNext
          /\ Sound => \A i \in 1..n : seen.readers[i].before = seen.readers[i].after
          /\ Answering => \A i \in 1..n : seen.readers[i].status = 200
      BY <1>2 DEF SurfaceInv, ReadersFit
    <3>2. ShowsNext => row.before # row.after /\ ~Sound
      <4>1. ShowsNext => row.before.stage = "none" /\ row.after.stage = "first"
        BY <2>2 DEF ShowsNext
      <4> QED BY <4>1 DEF ShowsNext, Sound
    <3> HIDE DEF n
    <3>3. world.backfilled # {} /\ flaw # "backfills-late" =>
            seen.error \/ \E i \in 1..n : readers[i].before # readers[i].after
      <4>1. CASE ShowsNext
        BY <1>3, <2>3, <3>2, <4>1
      <4>2. CASE ~ShowsNext
        BY <1>4, <2>3, <3>1, <4>2
      <4> QED BY <4>1, <4>2
    <3>4. /\ Sound => \A i \in 1..n : readers[i].before = readers[i].after
          /\ Answering => \A i \in 1..n : readers[i].status = 200
      BY <1>3, <1>4, <2>2, <2>3, <3>1, <3>2 DEF Sound
    <3> QED BY <2>1, <2>3, <2>5, <3>1, <3>3, <3>4 DEF ReadersFit, Answering, Sound
  <2>10. HumansFit'
    BY <1>3, <2>5 DEF HumansFit
  <2>11. SurfaceJudged'
    BY <1>2, <2>1 DEF SurfaceInv, SurfaceJudged, Ended
  <2> QED BY <2>6, <2>7, <2>8, <2>9, <2>10, <2>11 DEF SurfaceInv
<1> QED BY <1>5, <1>6

LEMMA DecideHumanKeeps ==
    ASSUME SurfaceInv, DecideHuman PROVE SurfaceInv'
<1> DEFINE before == world.owned[Name]
           refused == flaw = "ranks" /\ Name = "human_low"
           decided == [stage |-> "target", version |-> before.version + 1,
                       reviews |-> before.reviews + 1]
           After(arrived) == IF arrived /\ ~refused /\ flaw # "unsaved" THEN decided ELSE before
           RowOf(answered, arrived, receipt) ==
             [name |-> Name, before |-> before, after |-> After(arrived), receipt |-> receipt,
              response |-> CASE ~answered -> "UNAVAILABLE"
                             [] answered /\ refused -> "DENIED"
                             [] OTHER -> "ACCEPTED"]
           Decides(answered, arrived, receipt) ==
             /\ answered => arrived
             /\ Do("decide", [world EXCEPT !.owned[Name] = After(arrived)],
                   [seen EXCEPT !.humans = Append(@, RowOf(answered, arrived, receipt)), !.at = @ + 1],
                   IF seen.at = 2 THEN "cleanup" ELSE "decide")
<1>1. PICK answered \in Reads("transport", TRUE, FALSE) :
        \E arrived \in Reads("transport", TRUE, FALSE), receipt \in Reads("receipts", TRUE, FALSE) :
          Decides(answered, arrived, receipt)
  BY DEF DecideHuman
<1>2. PICK arrived \in Reads("transport", TRUE, FALSE) :
        \E receipt \in Reads("receipts", TRUE, FALSE) : Decides(answered, arrived, receipt)
  BY <1>1
<1>3. PICK receipt \in Reads("receipts", TRUE, FALSE) : Decides(answered, arrived, receipt)
  BY <1>2
<1> DEFINE after == After(arrived)
           row == RowOf(answered, arrived, receipt)
           humans == Append(seen.humans, row)
           n == Len(seen.humans)
           at == seen.at + 1
<1>4. /\ stage = "decide" /\ stage' = (IF seen.at = 2 THEN "cleanup" ELSE "decide")
      /\ UNCHANGED <<flaw, outage, verdict>> /\ (answered => arrived)
      /\ world' = [world EXCEPT !.owned[Name] = after]
      /\ seen' = [seen EXCEPT !.humans = humans, !.at = at]
  BY <1>3 DEF Do
<1>5. /\ answered \in BOOLEAN /\ arrived \in BOOLEAN /\ receipt \in BOOLEAN
      /\ Answering => answered /\ arrived /\ receipt
  BY DEF Reads, Answering
<1>6. /\ seen \in SurfaceLog /\ seen.at \in {1, 2} /\ world \in SurfaceWorlds
      /\ seen.humans \in Seq(HumanRows) /\ n = seen.at - 1 /\ Len(seen.readers) = 4
  BY <1>4 DEF SurfaceInv, SurfaceShape, SurfaceLog, SurfaceOrder
<1>7. Name \in Names /\ Name = SurfaceSubjects[seen.at] /\ before \in Reports
  BY <1>6, NameIs DEF SurfaceInv, SurfaceWorlds
<1>8. after \in Reports /\ decided \in Reports
  BY <1>7 DEF Reports
<1>9. /\ row \in HumanRows /\ row.after = after
  BY <1>5, <1>7, <1>8 DEF HumanRows
<1>10. Answering => HumanSaved(row)
  <2> SUFFICES ASSUME Answering PROVE HumanSaved(row)
    OBVIOUS
  <2>1. ~refused /\ flaw # "unsaved" /\ after = decided
    BY <1>5 DEF Answering, Sound
  <2>2. row.response = "ACCEPTED" /\ row.receipt /\ row.after = decided /\ row.before = before
    BY <1>5, <2>1
  <2>3. decided.stage = "target" /\ decided.version = before.version + 1
        /\ decided.reviews = before.reviews + 1
    OBVIOUS
  <2> QED BY <2>2, <2>3 DEF HumanSaved
<1> HIDE DEF row, after
<1>11. /\ humans \in Seq(HumanRows) /\ Len(humans) = n + 1 /\ humans[n + 1] = row
       /\ \A i \in 1..n : humans[i] = seen.humans[i]
  <2>1. seen.humans \in Seq(HumanRows) /\ row \in HumanRows
    BY <1>6, <1>9
  <2> QED BY <2>1, Grown
<1>11a. at \in {2, 3} /\ at \in 1..6
  BY <1>6
<1> HIDE DEF humans, at
<1>12. /\ seen' \in SurfaceLog /\ seen'.tree = seen.tree /\ seen'.issues = seen.issues
       /\ seen'.runtime = seen.runtime /\ seen'.at = at /\ seen'.readers = seen.readers
       /\ seen'.humans = humans /\ seen'.error = seen.error /\ seen'.clean = seen.clean
  BY <1>4, <1>6, <1>11, <1>11a DEF SurfaceLog
<1>13. /\ world' \in SurfaceWorlds /\ world'.tree = world.tree
       /\ world'.backfilled = world.backfilled /\ world'.owned[Name] = after
       /\ \A name \in Names \ {Name} : world'.owned[name] = world.owned[name]
  BY <1>4, <1>6, <1>7, <1>8 DEF SurfaceWorlds
<1>14. SurfaceShape'
  BY <1>4, <1>12, <1>13 DEF SurfaceInv, SurfaceShape, SurfaceStages
<1>15. SurfaceOrder'
  <2>1. CASE seen.at = 2
    <3>1. stage' = "cleanup" /\ Len(seen'.readers) = 4 /\ Len(seen'.humans) = 2
      BY <1>4, <1>6, <1>11, <1>12, <2>1
    <3> QED BY <3>1 DEF SurfaceOrder
  <2>2. CASE seen.at = 1
    <3>1. /\ stage' = "decide" /\ Len(seen'.readers) = 4 /\ seen'.at = 2
          /\ Len(seen'.humans) = seen'.at - 1
      BY <1>4, <1>6, <1>11, <1>12, <2>2 DEF at
    <3> QED BY <3>1 DEF SurfaceOrder
  <2> QED BY <1>6, <2>1, <2>2
<1>16. TreeFits'
  BY <1>4, <1>12, <1>13 DEF SurfaceInv, TreeFits, Answering, Sound
<1>17. ReadersFit'
  BY <1>4, <1>12, <1>13 DEF SurfaceInv, ReadersFit, Answering, Sound
<1>18. HumansFit'
  <2> HIDE DEF n
  <2>1. \A i \in 1..n : /\ seen.humans[i].after = world.owned[SurfaceSubjects[i]]
                        /\ Answering => HumanSaved(seen.humans[i])
    BY DEF SurfaceInv, HumansFit, n
  <2>2. n \in {0, 1} /\ n + 1 = seen.at
    BY <1>6
  <2>3. ASSUME NEW i \in 1..(n + 1)
        PROVE  /\ humans[i].after = world'.owned[SurfaceSubjects[i]]
               /\ Answering => HumanSaved(humans[i])
    <3>1. CASE i = n + 1
      BY <1>7, <1>9, <1>10, <1>11, <1>13, <2>2, <3>1
    <3>2. CASE i # n + 1
      <4>1. i \in 1..n /\ i \in 1..6 /\ seen.at \in 1..6 /\ i # seen.at
        BY <2>2, <3>2
      <4>2. SurfaceSubjects[i] \in Names \ {Name}
        BY <1>7, <4>1, Subjects
      <4> QED BY <1>11, <1>13, <2>1, <4>1, <4>2
    <3> QED BY <3>1, <3>2
  <2> QED BY <1>4, <1>11, <1>12, <2>3 DEF HumansFit, HumanSaved, Answering, Sound
<1>19. SurfaceJudged'
  BY <1>4 DEF SurfaceInv, SurfaceJudged, Ended
<1> QED BY <1>14, <1>15, <1>16, <1>17, <1>18, <1>19 DEF SurfaceInv

LEMMA TreeChangesKeeps ==
    ASSUME SurfaceInv, TreeChanges PROVE SurfaceInv'
<1>1. /\ outage = "drift" /\ ~Answering /\ stage \notin {"judge", "end"}
      /\ UNCHANGED <<topic, flaw, outage, stage, seen, verdict>>
      /\ world' = [world EXCEPT !.tree = "edited"]
  BY DEF TreeChanges, Change, Answering
<1>2. /\ world' \in SurfaceWorlds /\ world'.owned = world.owned
      /\ world'.backfilled = world.backfilled
  BY <1>1 DEF SurfaceInv, SurfaceShape, SurfaceWorlds, Trees
<1>3. Name' = Name
  BY <1>1 DEF Name
<1>4. SurfaceShape' /\ SurfaceOrder'
  BY <1>1, <1>2 DEF SurfaceInv, SurfaceShape, SurfaceOrder
<1> USE <1>1, <1>2 DEF SurfaceInv, Answering, Sound
<1>5. TreeFits'
  BY DEF TreeFits
<1>6. ReadersFit'
  BY <1>3 DEF ReadersFit, ShowsNext
<1>7. HumansFit'
  BY DEF HumansFit, HumanSaved
<1>8. SurfaceJudged'
  BY <1>1 DEF SurfaceInv, SurfaceJudged, Ended
<1> QED BY <1>4, <1>5, <1>6, <1>7, <1>8 DEF SurfaceInv

\* Both ways in which a question changes a stage.
LEMMA BackfillsKeep ==
    ASSUME SurfaceInv, Backfills \/ BackfillsLate PROVE SurfaceInv'
<1>1. PICK name \in Names \ {"human_low", "human_high"} :
        /\ world.owned[name].stage = "none" /\ stage \in {"read-after", "decide"}
        /\ \/ flaw = "backfills" /\ stage = "read-after" /\ name = Name
           \/ flaw = "backfills-late"
        /\ \E names \in SUBSET Names :
              world' = [world EXCEPT !.owned[name] = Staged(world.owned[name]), !.backfilled = names]
        /\ UNCHANGED <<topic, flaw, outage, stage, seen, verdict>>
  <2>1. CASE Backfills
    <3>1. Name \in Names \ {"human_low", "human_high"}
      BY <2>1, NameIs DEF Backfills, SurfaceInv, SurfaceOrder
    <3> DEFINE names == world.backfilled \cup {Name}
    <3>2. names \in SUBSET Names
      BY <3>1 DEF SurfaceInv, SurfaceShape, SurfaceWorlds
    <3>3. world' = [world EXCEPT !.owned[Name] = Staged(world.owned[Name]), !.backfilled = names]
      BY <2>1 DEF Backfills, Change
    <3> HIDE DEF names
    <3> QED BY <2>1, <3>1, <3>2, <3>3 DEF Backfills, Change
  <2>2. CASE BackfillsLate
    <3>1. PICK name \in ToSet(Readers) :
            /\ world.owned[name].stage = "none"
            /\ Change([world EXCEPT !.owned[name] = Staged(@),!.backfilled = {name}])
      BY <2>2 DEF BackfillsLate
    <3> DEFINE names == {name}
    <3>2. name \in Names \ {"human_low", "human_high"} /\ names \in SUBSET Names
      BY Subjects
    <3>3. world' = [world EXCEPT !.owned[name] = Staged(world.owned[name]), !.backfilled = names]
      BY <3>1 DEF Change
    <3> HIDE DEF names
    <3> QED BY <2>2, <3>1, <3>2, <3>3 DEF BackfillsLate, Change
  <2> QED BY <2>1, <2>2
<1> DEFINE new == Staged(world.owned[name])
<1>2. PICK names \in SUBSET Names :
        world' = [world EXCEPT !.owned[name] = new, !.backfilled = names]
  BY <1>1
<1>3. world \in SurfaceWorlds /\ world.owned[name] \in Reports
  BY <1>1 DEF SurfaceInv, SurfaceShape, SurfaceWorlds
<1>4. new \in Reports /\ new.stage = "first"
  <2> DEFINE old == world.owned[name]
             version == old.version + 1
  <2>1. new = [old EXCEPT !.stage = "first", !.version = version]
    BY DEF Staged
  <2>2. version \in Int
    BY <1>3 DEF Reports
  <2> HIDE DEF version
  <2> QED BY <1>3, <2>1, <2>2 DEF Reports
<1> HIDE DEF new
<1>5. /\ world' \in SurfaceWorlds /\ world'.tree = world.tree /\ world'.owned[name] = new
      /\ \A other \in Names \ {name} : world'.owned[other] = world.owned[other]
  BY <1>2, <1>3, <1>4 DEF SurfaceWorlds
<1>6. Name' = Name
  BY <1>1 DEF Name
<1>7. SurfaceShape' /\ SurfaceOrder'
  BY <1>1, <1>5 DEF SurfaceInv, SurfaceShape, SurfaceOrder
<1>8. TreeFits'
  BY <1>1, <1>5 DEF SurfaceInv, TreeFits, Answering, Sound
<1>9. ReadersFit'
  <2> DEFINE row == seen.readers[Len(seen.readers)]
  <2>1. ~Sound /\ ~Answering
    BY <1>1 DEF Sound, Answering
  <2>2. CASE flaw = "backfills-late"
    BY <1>1, <2>1, <2>2 DEF SurfaceInv, ReadersFit, Answering, Sound
  <2>3. CASE flaw = "backfills"
    <3>1. stage = "read-after" /\ name = Name
      BY <1>1, <2>3
    <3>2. row.before = row.after /\ row.before.stage = "none"
      <4>1. ShowsNext => row.before.stage = "none"
        BY DEF ShowsNext
      <4> QED BY <1>1, <2>3, <3>1, <4>1 DEF SurfaceInv, ReadersFit
    <3>3. ShowsNext'
      BY <1>1, <1>4, <1>5, <1>6, <2>3, <3>1, <3>2 DEF ShowsNext
    <3> QED BY <1>1, <2>1, <2>3, <3>1, <3>2, <3>3 DEF ReadersFit, Answering, Sound
  <2> QED BY <1>1, <2>2, <2>3
<1>10. HumansFit'
  <2>1. CASE stage = "read-after"
    <3>1. Len(seen.humans) = 0
      BY <2>1 DEF SurfaceInv, SurfaceOrder
    <3> QED BY <1>1, <3>1 DEF HumansFit
  <2>2. CASE stage = "decide"
    <3>1. Len(seen.humans) = seen.at - 1 /\ seen.at \in {1, 2}
      BY <2>2 DEF SurfaceInv, SurfaceOrder
    <3>2. ASSUME NEW i \in 1..Len(seen.humans) PROVE SurfaceSubjects[i] \in Names \ {name}
      <4>1. i = 1
        BY <3>1
      <4> QED BY <1>1, <4>1, Subjects DEF Names
    <3> QED BY <1>1, <1>5, <3>2 DEF SurfaceInv, HumansFit, HumanSaved, Answering, Sound
  <2> QED BY <1>1, <2>1, <2>2
<1>11. SurfaceJudged'
  BY <1>1 DEF SurfaceInv, SurfaceJudged, Ended
<1> QED BY <1>7, <1>8, <1>9, <1>10, <1>11 DEF SurfaceInv

LEMMA SurfaceStands ==
    ASSUME SurfaceInv, UNCHANGED vars PROVE SurfaceInv'
<1>1. UNCHANGED <<topic, flaw, outage, stage, world, seen, verdict>> /\ Name' = Name
  BY DEF vars, Name
<1>2. SurfaceShape' /\ SurfaceOrder'
  BY <1>1 DEF SurfaceInv, SurfaceShape, SurfaceOrder
<1> USE <1>1 DEF SurfaceInv, Answering, Sound
<1>3. TreeFits'
  BY DEF TreeFits
<1>4. ReadersFit'
  BY DEF ReadersFit, ShowsNext
<1>5. HumansFit'
  BY DEF HumansFit, HumanSaved
<1>6. SurfaceJudged'
  BY DEF SurfaceJudged, SurfaceHolds, Ended
<1> QED BY <1>2, <1>3, <1>4, <1>5, <1>6 DEF SurfaceInv

\* What the ledger says, surface by surface.
LEMMA EffectsAre ==
    LET review == {[kind |-> surface, effect |-> Effect(surface)] : surface \in Surfaces}
    IN  /\ Sound => \A row \in review : row.effect # "HIRING_DECISION_WRITE"
        /\ Sound /\ seen.tree = "reviewed" => \A row \in review : row.effect # "UNKNOWN"
        /\ seen.tree = "reviewed" /\ flaw = "reader-writes" =>
             \E row \in review : row.effect = "HIRING_DECISION_WRITE"
        /\ seen.tree = "reviewed" /\ flaw = "worker-decides" =>
             \E row \in review : row.effect = "HIRING_DECISION_WRITE" /\ row.kind = "WORKER_HANDLER"
<1> DEFINE review == {[kind |-> surface, effect |-> Effect(surface)] : surface \in Surfaces}
<1>1. ASSUME NEW surface
      PROVE  /\ Sound => Effect(surface) # "HIRING_DECISION_WRITE"
             /\ Sound /\ seen.tree = "reviewed" => Effect(surface) # "UNKNOWN"
  <2>1. CASE seen.tree # "reviewed"
    BY <2>1 DEF Effect
  <2>2. CASE seen.tree = "reviewed" /\ surface = "ASSISTANT_BINDING"
    BY <2>2 DEF Effect, Sound
  <2>3. CASE seen.tree = "reviewed" /\ surface = "WORKER_HANDLER"
    BY <2>3 DEF Effect, Sound
  <2>4. CASE seen.tree = "reviewed" /\ surface \notin {"ASSISTANT_BINDING", "WORKER_HANDLER"}
    BY <2>4 DEF Effect
  <2> QED BY <2>1, <2>2, <2>3, <2>4
<1>2. seen.tree = "reviewed" /\ flaw = "reader-writes"
        => Effect("ASSISTANT_BINDING") = "HIRING_DECISION_WRITE"
  BY DEF Effect
<1>3. seen.tree = "reviewed" /\ flaw = "worker-decides"
        => Effect("WORKER_HANDLER") = "HIRING_DECISION_WRITE"
  BY DEF Effect
<1>4. "ASSISTANT_BINDING" \in Surfaces /\ "WORKER_HANDLER" \in Surfaces
  BY DEF Surfaces
<1> HIDE DEF Effect
<1>5. \A row \in review : \E surface \in Surfaces : row.effect = Effect(surface)
  OBVIOUS
<1>6. \A surface \in Surfaces :
        \E row \in review : row.effect = Effect(surface) /\ row.kind = surface
  <2> SUFFICES ASSUME NEW surface \in Surfaces
               PROVE  \E row \in review : row.effect = Effect(surface) /\ row.kind = surface
    OBVIOUS
  <2> DEFINE mine == [kind |-> surface, effect |-> Effect(surface)]
  <2>1. mine \in review
    OBVIOUS
  <2>2. mine.effect = Effect(surface) /\ mine.kind = surface
    OBVIOUS
  <2> QED BY <2>1, <2>2
<1> HIDE DEF review
<1>7. /\ Sound => \A row \in review : row.effect # "HIRING_DECISION_WRITE"
      /\ Sound /\ seen.tree = "reviewed" => \A row \in review : row.effect # "UNKNOWN"
      /\ seen.tree = "reviewed" /\ flaw = "reader-writes" =>
           \E row \in review : row.effect = "HIRING_DECISION_WRITE"
      /\ seen.tree = "reviewed" /\ flaw = "worker-decides" =>
           \E row \in review : row.effect = "HIRING_DECISION_WRITE" /\ row.kind = "WORKER_HANDLER"
  BY <1>1, <1>2, <1>3, <1>4, <1>5, <1>6
<1> QED BY <1>7 DEF review

\* The verdict, in terms of the six assertions.
LEMMA SurfaceRule ==
    ASSUME NEW facts, facts.clean \in BOOLEAN,
           NEW result, result = IF facts.clean THEN Aggregate(SurfaceAssertions(facts))
                                ELSE "INCONCLUSIVE"
    PROVE  /\ result = "PASS" <=>
                /\ facts.clean /\ facts.source /\ facts.runtime /\ Covered(facts)
                /\ ReadersOnlyRead(facts) = "PASS" /\ WorkersOnlyAssist(facts) = "PASS"
                /\ HumansDecide(facts) = "PASS"
           /\ result = "FAIL" =>
                ReadersOnlyRead(facts) = "FAIL" \/ WorkersOnlyAssist(facts) = "FAIL"
<1>1. /\ ReadersOnlyRead(facts) \in Outcomes /\ WorkersOnlyAssist(facts) \in Outcomes
      /\ HumansDecide(facts) \in {"PASS", "INCONCLUSIVE"}
  BY DEF ReadersOnlyRead, WorkersOnlyAssist, HumansDecide, PassedOrUnsure, Outcomes
<1>2. ASSUME NEW condition
      PROVE  /\ PassedOrUnsure(condition) \in {"PASS", "INCONCLUSIVE"}
             /\ PassedOrUnsure(condition) = "PASS" <=> condition
  BY DEF PassedOrUnsure
<1> HIDE DEF PassedOrUnsure, ReadersOnlyRead, WorkersOnlyAssist, HumansDecide
<1> DEFINE a == PassedOrUnsure(facts.runtime /\ facts.source)
           b == PassedOrUnsure(Covered(facts))
           c == PassedOrUnsure(facts.clean /\ facts.source)
<1>3. SurfaceAssertions(facts)
        = {a, ReadersOnlyRead(facts), WorkersOnlyAssist(facts), b, HumansDecide(facts), c}
  BY DEF SurfaceAssertions
<1>4. /\ a \in {"PASS", "INCONCLUSIVE"} /\ b \in {"PASS", "INCONCLUSIVE"}
      /\ c \in {"PASS", "INCONCLUSIVE"}
      /\ a = "PASS" <=> facts.runtime /\ facts.source
      /\ b = "PASS" <=> Covered(facts)
      /\ c = "PASS" <=> facts.clean /\ facts.source
  BY <1>2
<1> HIDE DEF a, b, c
<1>5. /\ Aggregate(SurfaceAssertions(facts)) = "FAIL" <=> "FAIL" \in SurfaceAssertions(facts)
      /\ Aggregate(SurfaceAssertions(facts)) = "PASS"
           <=> SurfaceAssertions(facts) \cap {"FAIL", "INCONCLUSIVE"} = {}
  BY AggregateRule
<1>6. SurfaceAssertions(facts) \cap {"FAIL", "INCONCLUSIVE"} = {}
        <=> /\ a = "PASS" /\ b = "PASS" /\ c = "PASS" /\ ReadersOnlyRead(facts) = "PASS"
            /\ WorkersOnlyAssist(facts) = "PASS" /\ HumansDecide(facts) = "PASS"
  BY <1>1, <1>3, <1>4 DEF Outcomes
<1>7. "FAIL" \in SurfaceAssertions(facts) =>
        ReadersOnlyRead(facts) = "FAIL" \/ WorkersOnlyAssist(facts) = "FAIL"
  BY <1>1, <1>3, <1>4
<1> QED BY <1>4, <1>5, <1>6, <1>7

LEMMA JudgeSurfaceKeeps ==
    ASSUME SurfaceInv, JudgeSurface PROVE SurfaceInv'
<1> DEFINE facts == Normalized(seen)
           result == IF facts.clean THEN Aggregate(SurfaceAssertions(facts)) ELSE "INCONCLUSIVE"
           review == {[kind |-> surface, effect |-> Effect(surface)] : surface \in Surfaces}
           same == ~seen.error /\ seen.after = seen.tree
<1>1. /\ stage = "judge" /\ stage' = "end" /\ verdict' = result
      /\ UNCHANGED <<topic, flaw, outage, world, seen>>
  BY DEF JudgeSurface, Judge
<1>2. /\ seen.clean \in BOOLEAN /\ seen.readers \in Seq(ReaderRows) /\ seen.humans \in Seq(HumanRows)
      /\ seen.error \in BOOLEAN
  BY DEF SurfaceInv, SurfaceShape, SurfaceLog
<1>3. /\ facts.runtime = (Reconciled(seen) /\ same)
      /\ facts.source = (seen.tree = "reviewed" /\ same)
      /\ facts.worker = (Reconciled(seen) /\ seen.tree = "reviewed")
      /\ facts.review = review /\ facts.readers = seen.readers /\ facts.humans = seen.humans
      /\ facts.clean = seen.clean
  BY DEF Normalized
<1> HIDE DEF facts
<1>4. /\ result = "PASS" <=>
           /\ facts.clean /\ facts.source /\ facts.runtime /\ Covered(facts)
           /\ ReadersOnlyRead(facts) = "PASS" /\ WorkersOnlyAssist(facts) = "PASS"
           /\ HumansDecide(facts) = "PASS"
      /\ result = "FAIL" =>
           ReadersOnlyRead(facts) = "FAIL" \/ WorkersOnlyAssist(facts) = "FAIL"
  BY <1>2, <1>3, SurfaceRule
<1> HIDE DEF result, review
<1>5. /\ Sound => \A row \in review : row.effect # "HIRING_DECISION_WRITE"
      /\ Sound /\ seen.tree = "reviewed" => \A row \in review : row.effect # "UNKNOWN"
      /\ seen.tree = "reviewed" /\ flaw = "reader-writes" =>
           \E row \in review : row.effect = "HIRING_DECISION_WRITE"
      /\ seen.tree = "reviewed" /\ flaw = "worker-decides" =>
           \E row \in review : row.effect = "HIRING_DECISION_WRITE" /\ row.kind = "WORKER_HANDLER"
  BY EffectsAre DEF review
<1> DEFINE differs == \E row \in ToSet(seen.readers) : row.before # row.after
<1>6. differs <=> \E i \in 1..Len(seen.readers) : seen.readers[i].before # seen.readers[i].after
  BY <1>2 DEF ToSet
<1>7. ASSUME result = "PASS", flaw # "backfills-late" PROVE SurfaceHolds
  <2>1. /\ Reconciled(seen) /\ seen.tree = "reviewed" /\ same
        /\ ~differs /\ ~Exposed(facts)
    BY <1>3, <1>4, <1>7 DEF ReadersOnlyRead
  <2>2. world.tree = "reviewed"
    BY <1>1, <2>1 DEF SurfaceInv, TreeFits
  <2>3. world.backfilled = {}
    BY <1>1, <1>6, <1>7, <2>1 DEF SurfaceInv, ReadersFit
  <2>4. \A name \in ToSet(Controls) : world.owned[name].stage = "target"
    <3>1. Len(seen.humans) = 2 /\ \A row \in ToSet(seen.humans) : HumanSaved(row)
      BY <1>3, <1>4, <1>7 DEF HumansDecide, PassedOrUnsure
    <3>2. HumanSaved(seen.humans[1]) /\ HumanSaved(seen.humans[2])
      BY <1>2, <3>1 DEF ToSet
    <3>3. /\ seen.humans[1].after = world.owned["human_low"]
          /\ seen.humans[2].after = world.owned["human_high"]
      BY <3>1, Subjects DEF SurfaceInv, HumansFit
    <3> QED BY <3>2, <3>3, Subjects DEF HumanSaved
  <2>5. flaw \notin {"unbound", "dynamic"}
    BY <1>1, <2>1 DEF SurfaceInv, TreeFits, Reconciled
  <2>6. flaw # "reader-writes"
    BY <1>3, <1>5, <2>1 DEF Exposed
  <2>7. flaw # "worker-decides"
    BY <1>3, <1>4, <1>5, <1>7, <2>1 DEF WorkersOnlyAssist
  <2> QED BY <2>2, <2>3, <2>4, <2>5, <2>6, <2>7 DEF SurfaceHolds
<1>8. ASSUME Sound PROVE result # "FAIL"
  <2>1. ~differs
    BY <1>6, <1>8 DEF SurfaceInv, ReadersFit
  <2>2. ~Exposed(facts)
    BY <1>3, <1>5, <1>8 DEF Exposed
  <2>3. ReadersOnlyRead(facts) # "FAIL" /\ WorkersOnlyAssist(facts) # "FAIL"
    BY <1>3, <2>1, <2>2 DEF ReadersOnlyRead, WorkersOnlyAssist, Exposed, PassedOrUnsure
  <2> QED BY <1>4, <2>3
<1>9. ASSUME Answering PROVE result = "PASS"
  <2>1. /\ seen.tree = "reviewed" /\ world.tree = "reviewed" /\ same /\ seen.clean
        /\ seen.issues = {} /\ ~seen.error
        /\ seen.runtime = [answered |-> TRUE, tree |-> "reviewed", surfaces |-> Surfaces]
    BY <1>1, <1>9 DEF SurfaceInv, TreeFits
  <2>2. Reconciled(seen)
    BY <2>1 DEF Reconciled
  <2>3. facts.clean /\ facts.source /\ facts.runtime /\ facts.worker
    BY <1>3, <2>1, <2>2
  <2>4. Covered(facts) /\ ~Exposed(facts)
    BY <1>3, <1>5, <1>9, <2>1 DEF Covered, Exposed, Answering
  <2>5. Len(seen.readers) = 4 /\ Len(seen.humans) = 2
    BY <1>1, <2>1 DEF SurfaceInv, SurfaceOrder
  <2>6. ReadersOnlyRead(facts) = "PASS"
    <3>1. ~differs
      BY <1>6, <1>9 DEF SurfaceInv, ReadersFit, Answering
    <3>2. \A row \in ToSet(seen.readers) : row.status = 200
      BY <1>2, <1>9 DEF SurfaceInv, ReadersFit, ToSet
    <3>3. ReadersUsable(facts)
      BY <1>3, <2>5, <3>2 DEF ReadersUsable
    <3> QED BY <1>3, <2>3, <2>4, <3>1, <3>3 DEF ReadersOnlyRead, PassedOrUnsure
  <2>7. WorkersOnlyAssist(facts) = "PASS"
    BY <2>3, <2>4 DEF WorkersOnlyAssist, Exposed, PassedOrUnsure
  <2>8. HumansDecide(facts) = "PASS"
    <3>1. \A row \in ToSet(seen.humans) : HumanSaved(row)
      BY <1>2, <1>9 DEF SurfaceInv, HumansFit, ToSet
    <3> QED BY <1>3, <2>5, <3>1 DEF HumansDecide, PassedOrUnsure
  <2> QED BY <1>4, <2>3, <2>4, <2>6, <2>7, <2>8
<1>10. SurfaceShape' /\ SurfaceOrder'
  BY <1>1 DEF SurfaceInv, SurfaceShape, SurfaceStages, SurfaceOrder
<1>11. TreeFits'
  BY <1>1 DEF SurfaceInv, TreeFits, Answering, Sound
<1>12. ReadersFit' /\ HumansFit'
  <2>1. ReadersFit'
    BY <1>1 DEF SurfaceInv, ReadersFit, Answering, Sound
  <2>2. HumansFit'
    BY <1>1 DEF SurfaceInv, HumansFit, HumanSaved, Answering, Sound
  <2> QED BY <2>1, <2>2
<1>13. SurfaceJudged'
  BY <1>1, <1>7, <1>8, <1>9 DEF SurfaceJudged, SurfaceHolds, Ended, Answering, Sound
<1> QED BY <1>10, <1>11, <1>12, <1>13 DEF SurfaceInv

LEMMA SurfaceStep ==
    (topic = "H-02" => SurfaceInv) /\ [Next]_vars => (topic = "H-02" => SurfaceInv)'
<1> SUFFICES ASSUME topic = "H-02", SurfaceInv, [Next]_vars PROVE SurfaceInv'
  BY TopicStays
<1>1. SurfaceNext \/ UNCHANGED vars
  BY DEF Next, MinimalNext, NoticeNext, BoundaryNext, StaleNext, CitationNext, FreezeNext,
         DecisionNext
<1> QED
  BY <1>1, ScansKeep, CaptureRuntimeKeeps, PrepareReportKeeps, ReadBeforeKeeps, ReadAfterKeeps,
     DecideHumanKeeps, CleanReportsKeeps, ScanAfterKeeps, JudgeSurfaceKeeps, TreeChangesKeeps,
     BackfillsKeep, SurfaceStands DEF SurfaceNext

-----------------------------------------------------------------------------
(* N-02: three protected paths, before a consent and after it *)

LEMMA Places ==
    /\ Bypass[1] = "document" /\ Bypass[2] = "recording" /\ Bypass[3] = "assessment"
    /\ Consented[1] = "recording" /\ Consented[2] = "assessment" /\ Consented[3] = "document"
    /\ \A i \in 1..3 : Bypass[i] \in Paths /\ Consented[i] \in Paths
    /\ \A path \in Paths : \E i \in 1..3 : path = Bypass[i]
    /\ \A path \in Paths : \E i \in 1..3 : path = Consented[i]
    /\ \A i \in 1..3, j \in 1..3 : i # j => Bypass[i] # Bypass[j] /\ Consented[i] # Consented[j]
  BY DEF Bypass, Consented, Paths

\* The path at hand, lane by lane.
LEMMA AtHand ==
    ASSUME BoundaryShape, BoundaryOrder, stage \in {"attempt", "effects"}
    PROVE  /\ Path \in Paths /\ Here \in PathRows
           /\ seen.lane = "bypass" =>
                /\ Len(seen.cases) \in 0..2 /\ Path = Bypass[Len(seen.cases) + 1]
                /\ Here = world.bypass[Path]
                /\ Path = "assessment" <=> Len(seen.cases) = 2
                /\ \A i \in 1..Len(seen.cases) : Bypass[i] # Path
           /\ seen.lane = "normal" =>
                /\ Len(seen.normal) \in 0..2 /\ Path = Consented[Len(seen.normal) + 1]
                /\ Here = world.normal[Path]
                /\ \A i \in 1..Len(seen.normal) : Consented[i] # Path
           /\ seen.lane \in {"bypass", "normal"}
<1>1. /\ seen \in BoundaryLog /\ world \in BoundaryWorlds /\ seen.lane \in {"bypass", "normal"}
      /\ world.bypass \in [Paths -> PathRows] /\ world.normal \in [Paths -> PathRows]
  BY DEF BoundaryShape, BoundaryLog, BoundaryWorlds
<1> DEFINE n == Len(seen.cases)
           m == Len(seen.normal)
<1>2. n \in Nat /\ m \in Nat
  BY <1>1 DEF BoundaryLog
<1>3. (seen.lane = "bypass" => n < 3) /\ m < 3
  BY DEF BoundaryOrder
<1>4. Path = IF seen.lane = "bypass" THEN Bypass[n + 1] ELSE Consented[m + 1]
  BY DEF Path
<1> HIDE DEF n, m
<1>5. CASE seen.lane = "bypass"
  <2>1. n \in 0..2 /\ Path = Bypass[n + 1]
    BY <1>2, <1>3, <1>4, <1>5
  <2>2. (\A i \in 1..n : Bypass[i] # Path) /\ Path \in Paths /\ (Path = "assessment" <=> n = 2)
    BY <2>1, Places
  <2>3. Here = world.bypass[Path]
    BY <1>5 DEF Here
  <2> QED BY <1>1, <1>5, <2>1, <2>2, <2>3 DEF n
<1>6. CASE seen.lane = "normal"
  <2>1. m \in 0..2 /\ Path = Consented[m + 1]
    BY <1>2, <1>3, <1>4, <1>6
  <2>2. (\A i \in 1..m : Consented[i] # Path) /\ Path \in Paths
    BY <2>1, Places
  <2>3. Here = world.normal[Path]
    BY <1>6 DEF Here
  <2> QED BY <1>1, <1>6, <2>1, <2>2, <2>3 DEF m
<1> QED BY <1>1, <1>5, <1>6

LEMMA BoundaryStarts == Init /\ topic = "N-02" => BoundaryInv
<1> SUFFICES ASSUME Init, topic = "N-02" PROVE BoundaryInv
  OBVIOUS
<1>1. /\ flaw \in BoundaryFlaws /\ outage \in BoundaryOutages
      /\ stage = "pristine" /\ verdict = "none" /\ world = BoundaryWorld
      /\ seen = [lane |-> "bypass", cases |-> <<>>, answer |-> "none", reads |-> <<>>, count |-> 0,
                 state |-> Lost, normal |-> <<>>, clean |-> FALSE]
  BY DEF Init, BoundaryInit
<1>2. Untouched \in PathRows
  BY DEF Untouched, PathRows
<1>3. world.bypass = [path \in Paths |-> Untouched] /\ world.normal = [path \in Paths |-> Untouched]
      /\ world.consent = "none" /\ world.early = FALSE
  BY <1>1 DEF BoundaryWorld
<1>4. world \in BoundaryWorlds
  BY <1>1, <1>2 DEF BoundaryWorld, BoundaryWorlds
<1>5. seen \in BoundaryLog /\ Lost.source = "UNAVAILABLE"
  BY <1>1 DEF BoundaryLog, Lost, PathAnswers
<1>6. seen.cases = <<>> /\ seen.normal = <<>> /\ seen.lane = "bypass" /\ Len(<<>>) = 0
  BY <1>1
<1>7. BoundaryShape /\ BoundaryOrder
  BY <1>1, <1>4, <1>5, <1>6 DEF BoundaryShape, BoundaryOrder, BoundaryStages
<1>8. CasesFit /\ SoundFits
  <2>1. ~Untouched.queued /\ Untouched.effects = {} /\ ~Untouched.start
    BY DEF Untouched
  <2>2. CasesFit
    BY <1>1, <1>3, <1>6, <2>1 DEF CasesFit, Paths
  <2>3. SoundFits
    BY <1>1, <1>3, <1>6, <2>1 DEF SoundFits, Paths
  <2> QED BY <2>2, <2>3
<1>9. ReadsInTurn /\ BoundaryAnswered /\ BoundaryJudged
  BY <1>1 DEF ReadsInTurn, BoundaryAnswered, BoundaryJudged, Ended
<1> QED BY <1>7, <1>8, <1>9 DEF BoundaryInv

\* What it is to write the row of the path at hand.
LEMMA RowWritten ==
    ASSUME BoundaryShape, BoundaryOrder, stage \in {"attempt", "effects"},
           NEW row \in PathRows, world' = Hereafter(row), seen'.lane = seen.lane,
           seen'.cases = seen.cases, seen'.normal = seen.normal
    PROVE  /\ world' \in BoundaryWorlds /\ world'.consent = world.consent
           /\ world'.early = world.early /\ Path' = Path /\ Here' = row
           /\ \A i \in 1..Len(seen.cases) : world'.bypass[Bypass[i]] = world.bypass[Bypass[i]]
           /\ \A i \in 1..Len(seen.normal) :
                world'.normal[Consented[i]] = world.normal[Consented[i]]
           /\ \A other \in Paths :
                /\ \/ world'.bypass[other] = world.bypass[other]
                   \/ seen.lane = "bypass" /\ other = Path /\ world'.bypass[other] = row
                /\ \/ world'.normal[other] = world.normal[other]
                   \/ seen.lane = "normal" /\ other = Path /\ world'.normal[other] = row
<1> DEFINE path == Path
<1>1. world' = [world EXCEPT ![seen.lane][path] = row]
  BY DEF Hereafter
<1>2. /\ world \in BoundaryWorlds /\ seen \in BoundaryLog
  BY DEF BoundaryShape
<1>3. /\ path \in Paths
      /\ seen.lane = "bypass" =>
           /\ Len(seen.cases) \in 0..2 /\ path = Bypass[Len(seen.cases) + 1]
           /\ Here = world.bypass[path]
           /\ path = "assessment" <=> Len(seen.cases) = 2
           /\ \A i \in 1..Len(seen.cases) : Bypass[i] # path
      /\ seen.lane = "normal" =>
           /\ Len(seen.normal) \in 0..2 /\ path = Consented[Len(seen.normal) + 1]
           /\ Here = world.normal[path]
           /\ \A i \in 1..Len(seen.normal) : Consented[i] # path
      /\ seen.lane \in {"bypass", "normal"}
  BY AtHand
<1>4. Path' = path /\ Path = path
  BY DEF Path
<1> HIDE DEF path
<1>5. /\ world' \in BoundaryWorlds /\ world'.consent = world.consent /\ world'.early = world.early
      /\ seen.lane = "bypass" =>
           world'.normal = world.normal /\ world'.bypass = [world.bypass EXCEPT ![path] = row]
      /\ seen.lane = "normal" =>
           world'.bypass = world.bypass /\ world'.normal = [world.normal EXCEPT ![path] = row]
  <2>1. CASE seen.lane = "bypass"
    <3>1. world' = [world EXCEPT !.bypass[path] = row]
      BY <1>1, <2>1
    <3> QED BY <1>2, <1>3, <2>1, <3>1 DEF BoundaryWorlds
  <2>2. CASE seen.lane = "normal"
    <3>1. world' = [world EXCEPT !.normal[path] = row]
      BY <1>1, <2>2
    <3> QED BY <1>2, <1>3, <2>2, <3>1 DEF BoundaryWorlds
  <2> QED BY <1>3, <2>1, <2>2
<1>6. /\ \A other \in Paths : other # path =>
           world'.bypass[other] = world.bypass[other] /\ world'.normal[other] = world.normal[other]
      /\ seen.lane = "bypass" => world'.bypass[path] = row /\ world'.normal[path] = world.normal[path]
      /\ seen.lane = "normal" => world'.normal[path] = row /\ world'.bypass[path] = world.bypass[path]
      /\ Here' = row
  <2>1. world.bypass \in [Paths -> PathRows] /\ world.normal \in [Paths -> PathRows]
    BY <1>2 DEF BoundaryWorlds
  <2>2. Here' = world'[seen.lane][path]
    BY <1>4 DEF Here
  <2> QED BY <1>3, <1>5, <2>1, <2>2
<1>7. \A i \in 1..Len(seen.cases) : world'.bypass[Bypass[i]] = world.bypass[Bypass[i]]
  <2>1. CASE seen.lane = "bypass"
    BY <1>3, <1>6, <2>1, Places
  <2>2. CASE seen.lane = "normal"
    BY <1>5, <2>2
  <2> QED BY <1>3, <2>1, <2>2
<1>8. \A i \in 1..Len(seen.normal) : world'.normal[Consented[i]] = world.normal[Consented[i]]
  <2>1. CASE seen.lane = "bypass"
    BY <1>5, <2>1
  <2>2. CASE seen.lane = "normal"
    BY <1>3, <1>6, <2>2, Places
  <2> QED BY <1>3, <2>1, <2>2
<1> QED BY <1>3, <1>4, <1>5, <1>6, <1>7, <1>8

\* A step of the target on the path at hand.
LEMMA HereChanges ==
    ASSUME BoundaryInv, stage = "effects", NEW row \in PathRows, Change(Hereafter(row)),
           Path # "assessment" => ~row.queued,
           Sound /\ outage \notin {"transport", "server"} /\ seen.lane = "bypass" =>
               /\ row.effects = {} /\ ~row.start
               /\ Path # "assessment" => row = Untouched,
           Answering => Pending(Here) /\ ~Pending(row)
    PROVE  BoundaryInv'
<1>1. UNCHANGED <<topic, flaw, outage, stage, seen, verdict>>
  BY DEF Change
<1>2. world \in BoundaryWorlds /\ seen \in BoundaryLog /\ BoundaryShape /\ BoundaryOrder
  BY DEF BoundaryInv, BoundaryShape
<1>3. /\ world' \in BoundaryWorlds /\ world'.consent = world.consent
      /\ world'.early = world.early /\ Here' = row
      /\ \A i \in 1..Len(seen.cases) : world'.bypass[Bypass[i]] = world.bypass[Bypass[i]]
      /\ \A i \in 1..Len(seen.normal) : world'.normal[Consented[i]] = world.normal[Consented[i]]
      /\ \A other \in Paths :
           /\ \/ world'.bypass[other] = world.bypass[other]
              \/ seen.lane = "bypass" /\ other = Path /\ world'.bypass[other] = row
           /\ \/ world'.normal[other] = world.normal[other]
              \/ seen.lane = "normal" /\ other = Path /\ world'.normal[other] = row
  BY <1>1, <1>2, RowWritten DEF Change
<1>7. BoundaryShape' /\ BoundaryOrder'
  BY <1>1, <1>3 DEF BoundaryInv, BoundaryShape, BoundaryOrder
<1>8. CasesFit'
  <2>1. \A other \in {"document", "recording"} :
          ~world'.bypass[other].queued /\ ~world'.normal[other].queued
    BY <1>3 DEF BoundaryInv, CasesFit, Paths
  <2> QED BY <1>1, <1>3, <2>1 DEF BoundaryInv, CasesFit, Shows
<1>9. SoundFits'
  <2> SUFFICES ASSUME Sound, outage \notin {"transport", "server"} PROVE SoundFits'
    BY <1>1 DEF SoundFits, Sound
  <2>1. \A other \in Paths : world'.bypass[other].effects = {} /\ ~world'.bypass[other].start
    BY <1>3 DEF BoundaryInv, SoundFits
  <2>2. \A other \in {"document", "recording"} : world'.bypass[other] = Untouched
    BY <1>3 DEF BoundaryInv, SoundFits, Paths
  <2> QED BY <1>1, <1>3, <2>1, <2>2 DEF BoundaryInv, SoundFits
<1>10. ReadsInTurn'
  <2> SUFFICES ASSUME Answering
               PROVE  \E k \in 0..Len(seen.reads) :
                        /\ k < StableReads /\ Len(seen.reads) - k < StableReads
                        /\ \A i \in (k + 1)..Len(seen.reads) : seen.reads[i] = View(row, TRUE)
                        /\ Pending(row) => k = 0
    BY <1>1, <1>3 DEF ReadsInTurn, Answering, Sound
  <2> DEFINE n == Len(seen.reads)
  <2>1. n \in Nat /\ StableReads \in Nat
    BY <1>2, ReadsAssumption DEF BoundaryLog
  <2> HIDE DEF n
  <2>2. n < StableReads
    <3>1. PICK k \in 0..n : k < StableReads /\ n - k < StableReads /\ (Pending(Here) => k = 0)
      BY DEF BoundaryInv, ReadsInTurn, n
    <3>2. k = 0
      BY <3>1
    <3> QED BY <2>1, <3>1, <3>2
  <2>3. n \in 0..n /\ n - n = 0 /\ 0 < StableReads /\ (n + 1)..n = {}
    BY <2>1, <2>2
  <2>4. ~Pending(row)
    OBVIOUS
  <2> HIDE DEF Pending
  <2>5. \A i \in (n + 1)..n : seen.reads[i] = View(row, TRUE)
    BY <2>3
  <2> QED BY <2>2, <2>3, <2>4, <2>5 DEF n
<1>11. BoundaryAnswered' /\ BoundaryJudged'
  BY <1>1 DEF BoundaryInv, BoundaryAnswered, BoundaryJudged, Ended, Answering, Sound
<1> QED BY <1>7, <1>8, <1>9, <1>10, <1>11 DEF BoundaryInv

LEMMA WorkerAssessesKeeps ==
    ASSUME BoundaryInv, WorkerAssesses PROVE BoundaryInv'
<1> DEFINE row == [Here EXCEPT !.queued = FALSE]
           taken == [row EXCEPT !.start = TRUE,
                       !.effects = IF flaw = "no-result" THEN @ ELSE @ \cup {"result"}]
           refused == [row EXCEPT !.refused = TRUE]
<1>1. /\ stage = "effects" /\ Path = "assessment" /\ Here.queued
      /\ Open \/ flaw = "assesses" => Change(Hereafter(taken))
      /\ ~(Open \/ flaw = "assesses") => Change(Hereafter(refused))
  BY DEF WorkerAssesses, Boundary
<1>2. /\ Here \in PathRows
      /\ seen.lane = "bypass" => Here = world.bypass[Path] /\ ~Open
      /\ Path \in Paths
  BY <1>1, AtHand DEF BoundaryInv, Open
<1>3. /\ taken \in PathRows /\ taken.start /\ ~taken.queued
      /\ refused \in PathRows /\ refused.effects = Here.effects /\ refused.start = Here.start
      /\ ~refused.queued
  BY <1>2 DEF PathRows, Effects
<1>4. Sound /\ outage \notin {"transport", "server"} /\ seen.lane = "bypass" =>
        Here.effects = {} /\ ~Here.start
  BY <1>2 DEF BoundaryInv, SoundFits
<1>5. Pending(Here) /\ ~Pending(taken)
  BY <1>1, <1>3 DEF Pending
<1>6. Answering /\ ~Open => ~Pending(refused)
  <2> SUFFICES ASSUME Answering, ~Open PROVE ~Pending(refused)
    OBVIOUS
  <2>1. Sound /\ outage = "none" /\ flaw # "blocks"
    BY DEF Answering, Sound
  <2>2. seen.lane = "bypass"
    <3>1. seen.lane = "normal" => world.consent = "shown"
      BY <1>1, <2>1 DEF BoundaryInv, SoundFits
    <3>2. seen.lane \in {"bypass", "normal"}
      BY DEF BoundaryInv, BoundaryShape, BoundaryLog
    <3> QED BY <2>1, <3>1, <3>2 DEF Open
  <2> QED BY <1>3, <1>4, <2>1, <2>2 DEF Pending
<1> HIDE DEF taken, refused
<1>7. CASE Open \/ flaw = "assesses"
  <2>1. ~(Sound /\ seen.lane = "bypass")
    BY <1>2, <1>7 DEF Sound
  <2> QED BY <1>1, <1>3, <1>5, <1>7, <2>1, HereChanges
<1>8. CASE ~(Open \/ flaw = "assesses")
  BY <1>1, <1>3, <1>4, <1>5, <1>6, <1>8, HereChanges
<1> QED BY <1>7, <1>8

LEMMA PathProceedsKeeps ==
    ASSUME BoundaryInv, PathProceeds PROVE BoundaryInv'
<1> DEFINE row == [Here EXCEPT !.start = TRUE,
                     !.effects = IF flaw = "no-result" THEN @ ELSE @ \cup {"result"}]
<1>1. /\ stage = "effects" /\ Path # "assessment" /\ "request" \in Here.effects /\ ~Here.start
      /\ Change(Hereafter(row))
  BY DEF PathProceeds, Boundary
<1>2. /\ Here \in PathRows /\ Path \in Paths
      /\ seen.lane = "bypass" => Here = world.bypass[Path]
      /\ seen.lane = "normal" => Here = world.normal[Path]
      /\ seen.lane \in {"bypass", "normal"}
  BY <1>1, AtHand DEF BoundaryInv
<1>3. /\ row \in PathRows /\ row.start /\ row.queued = Here.queued
  BY <1>2 DEF PathRows, Effects
<1>4. ~Here.queued
  BY <1>1, <1>2 DEF BoundaryInv, CasesFit, Paths
<1>5. ~(Sound /\ outage \notin {"transport", "server"} /\ seen.lane = "bypass")
  BY <1>1, <1>2 DEF BoundaryInv, SoundFits
<1>6. Pending(Here) /\ ~Pending(row)
  BY <1>1, <1>3, <1>4 DEF Pending
<1> HIDE DEF row
<1> QED BY <1>1, <1>3, <1>4, <1>5, <1>6, HereChanges

LEMMA LeavesEffectKeeps ==
    ASSUME BoundaryInv, LeavesEffect PROVE BoundaryInv'
<1>1. /\ stage = "effects" /\ Here = Untouched /\ flaw \in {"late", "silent"}
      /\ \/ Change(Hereafter([Here EXCEPT !.effects = {"result"}]))
         \/ Change(Hereafter([Here EXCEPT !.start = TRUE]))
  BY DEF LeavesEffect, Boundary
<1>2. Here \in PathRows /\ ~Here.queued /\ ~Sound /\ ~Answering
  BY <1>1, AtHand DEF BoundaryInv, Untouched, Sound, Answering
<1>3. /\ [Here EXCEPT !.effects = {"result"}] \in PathRows
      /\ [Here EXCEPT !.start = TRUE] \in PathRows
      /\ ~[Here EXCEPT !.effects = {"result"}].queued /\ ~[Here EXCEPT !.start = TRUE].queued
  BY <1>2 DEF PathRows, Effects
<1> QED BY <1>1, <1>2, <1>3, HereChanges

LEMMA StartsEarlyKeeps ==
    ASSUME BoundaryInv, StartsEarly PROVE BoundaryInv'
<1>1. /\ flaw = "early" /\ ~Sound /\ ~Answering /\ stage = "commit"
      /\ world' = [world EXCEPT !.early = TRUE]
      /\ UNCHANGED <<topic, flaw, outage, stage, seen, verdict>>
  BY DEF StartsEarly, Change, Sound, Answering
<1> USE <1>1 DEF BoundaryInv
<1>2. /\ world' \in BoundaryWorlds /\ world'.bypass = world.bypass /\ world'.normal = world.normal
      /\ world'.consent = world.consent
  BY DEF BoundaryShape, BoundaryWorlds
<1>3. BoundaryShape' /\ BoundaryOrder'
  BY <1>2 DEF BoundaryShape, BoundaryOrder
<1>4. CasesFit' /\ SoundFits' /\ ReadsInTurn'
  BY <1>2 DEF CasesFit, SoundFits, ReadsInTurn, Shows, Sound, Answering
<1>5. BoundaryAnswered' /\ BoundaryJudged'
  BY DEF BoundaryAnswered, BoundaryJudged, Ended, Answering, Sound
<1> QED BY <1>3, <1>4, <1>5 DEF BoundaryInv

-----------------------------------------------------------------------------
(* The Run of N-02 *)

LEMMA PristineKeeps ==
    ASSUME BoundaryInv, Pristine PROVE BoundaryInv'
<1>1. /\ stage = "pristine" /\ stage' \in {"attempt", "end"} /\ (Answering => stage' = "attempt")
      /\ UNCHANGED <<topic, flaw, outage, world, seen, verdict>>
  BY DEF Pristine, Look, Do, Reads, Answering
<1> USE <1>1 DEF BoundaryInv
<1>2. seen.lane = "bypass" /\ seen \in BoundaryLog
  BY DEF BoundaryOrder, BoundaryShape, BoundaryLog
<1>3. BoundaryShape' /\ BoundaryOrder'
  BY <1>2 DEF BoundaryShape, BoundaryOrder, BoundaryStages
<1>4. CasesFit' /\ ReadsInTurn'
  BY DEF CasesFit, Shows, ReadsInTurn
<1>5. SoundFits'
  BY <1>2 DEF SoundFits, Sound
<1>6. BoundaryAnswered' /\ BoundaryJudged'
  BY <1>2 DEF BoundaryAnswered, BoundaryJudged, Ended, Answering, Sound
<1> QED BY <1>3, <1>4, <1>5, <1>6 DEF BoundaryInv

\* What an attempt on a path leaves there, and its answer.
LEMMA AttemptKeeps ==
    ASSUME BoundaryInv, stage = "attempt", stage' = "effects",
           UNCHANGED <<topic, flaw, outage, verdict>>,
           NEW row \in PathRows, world' = Hereafter(row),
           NEW answer \in PathAnswers, seen' = [seen EXCEPT !.answer = answer],
           Path # "assessment" => ~row.queued,
           Sound /\ outage \notin {"transport", "server"} /\ seen.lane = "bypass" =>
               /\ row.effects = {} /\ ~row.start
               /\ Path # "assessment" => row = Untouched /\ answer = "DENIED"
               /\ Path = "assessment" => answer = "SUBMITTED",
           Sound /\ outage \notin {"transport", "server"} /\ seen.lane = "normal" =>
             answer \notin {"DENIED", "ERROR"}
    PROVE  BoundaryInv'
<1>1. world \in BoundaryWorlds /\ seen \in BoundaryLog /\ BoundaryShape /\ BoundaryOrder
  BY DEF BoundaryInv, BoundaryShape
<1>2. /\ seen' \in BoundaryLog /\ seen'.lane = seen.lane /\ seen'.cases = seen.cases
      /\ seen'.answer = answer /\ seen'.reads = seen.reads /\ seen'.count = seen.count
      /\ seen'.state = seen.state /\ seen'.normal = seen.normal
  BY <1>1 DEF BoundaryLog
<1>3. /\ world' \in BoundaryWorlds /\ world'.consent = world.consent
      /\ world'.early = world.early /\ Here' = row
      /\ \A i \in 1..Len(seen.cases) : world'.bypass[Bypass[i]] = world.bypass[Bypass[i]]
      /\ \A i \in 1..Len(seen.normal) : world'.normal[Consented[i]] = world.normal[Consented[i]]
      /\ \A other \in Paths :
           /\ \/ world'.bypass[other] = world.bypass[other]
              \/ seen.lane = "bypass" /\ other = Path /\ world'.bypass[other] = row
           /\ \/ world'.normal[other] = world.normal[other]
              \/ seen.lane = "normal" /\ other = Path /\ world'.normal[other] = row
  BY <1>1, <1>2, RowWritten
<1>4. BoundaryShape'
  BY <1>2, <1>3 DEF BoundaryInv, BoundaryShape, BoundaryStages
<1>5. BoundaryOrder'
  BY <1>2 DEF BoundaryInv, BoundaryOrder
<1>6. CasesFit'
  <2>1. \A other \in {"document", "recording"} :
          ~world'.bypass[other].queued /\ ~world'.normal[other].queued
    BY <1>3 DEF BoundaryInv, CasesFit, Paths
  <2>2. /\ \A i \in 1..Len(seen.cases) : Shows(seen.cases[i].effects, world'.bypass[Bypass[i]])
        /\ \A i \in 1..Len(seen.normal) :
             Shows(seen.normal[i].effects, world'.normal[Consented[i]])
    BY <1>3 DEF BoundaryInv, CasesFit
  <2>3. world'.consent = world.consent /\ world'.early = world.early
    BY <1>3
  <2>4. (seen'.state = Lost \/ seen'.state.source = world'.consent)
          /\ (world'.early => flaw' = "early")
    BY <1>2, <2>3 DEF BoundaryInv, CasesFit
  <2>5. \A i \in 1..Len(seen'.cases) : Shows(seen.cases[i].effects, world.bypass[Bypass[i]])'
    BY <1>2, <2>2 DEF Shows
  <2>6. \A i \in 1..Len(seen'.normal) :
          Shows(seen.normal[i].effects, world.normal[Consented[i]])'
    BY <1>2, <2>2 DEF Shows
  <2> QED BY <2>1, <2>4, <2>5, <2>6 DEF CasesFit
<1>7. SoundFits'
  <2> SUFFICES ASSUME Sound, outage \notin {"transport", "server"} PROVE SoundFits'
    BY DEF SoundFits, Sound
  <2>1. \A other \in Paths : world'.bypass[other].effects = {} /\ ~world'.bypass[other].start
    BY <1>3 DEF BoundaryInv, SoundFits
  <2>2. \A other \in {"document", "recording"} : world'.bypass[other] = Untouched
    BY <1>3 DEF BoundaryInv, SoundFits, Paths
  <2>3. seen.lane = "bypass" => (Path = "assessment" <=> Len(seen.cases) = 2)
    BY <1>1, AtHand
  <2> QED BY <1>2, <1>3, <2>1, <2>2, <2>3 DEF BoundaryInv, SoundFits
<1>8. ReadsInTurn'
  <2>1. seen'.reads = <<>> /\ StableReads \in Nat /\ StableReads > 0
    BY <1>2, ReadsAssumption DEF BoundaryInv, BoundaryAnswered
  <2>2. Len(seen'.reads) = 0 /\ 0 \in 0..0 /\ (0 + 1)..0 = {}
    BY <2>1
  <2>3. \A i \in (0 + 1)..Len(seen'.reads) : seen'.reads[i] = View(Here, TRUE)'
    BY <2>2
  <2>4. 0 < StableReads /\ Len(seen'.reads) - 0 < StableReads /\ 0 \in 0..Len(seen'.reads)
    BY <2>1, <2>2
  <2> QED BY <2>3, <2>4 DEF ReadsInTurn
<1>9. BoundaryAnswered'
  BY <1>2 DEF BoundaryInv, BoundaryAnswered, Answering, Sound
<1>10. BoundaryJudged'
  BY DEF BoundaryInv, BoundaryJudged, Ended
<1> QED BY <1>4, <1>5, <1>6, <1>7, <1>8, <1>9, <1>10 DEF BoundaryInv

LEMMA SubmitAssessmentKeeps ==
    ASSUME BoundaryInv, SubmitAssessment PROVE BoundaryInv'
<1> DEFINE row == [Here EXCEPT !.queued = TRUE]
<1>1. /\ stage = "attempt" /\ Path = "assessment" /\ stage' = "effects" /\ world' = Hereafter(row)
      /\ seen' = [seen EXCEPT !.answer = "SUBMITTED"]
      /\ UNCHANGED <<topic, flaw, outage, verdict>>
  BY DEF SubmitAssessment, Do
<1>2. /\ Here \in PathRows /\ Path \in Paths
      /\ seen.lane = "bypass" => Here = world.bypass[Path]
  BY <1>1, AtHand DEF BoundaryInv
<1>3. row \in PathRows /\ row.effects = Here.effects /\ row.start = Here.start
  BY <1>2 DEF PathRows
<1>4. Sound /\ outage \notin {"transport", "server"} /\ seen.lane = "bypass" =>
        row.effects = {} /\ ~row.start
  BY <1>2, <1>3 DEF BoundaryInv, SoundFits
<1>5. "SUBMITTED" \in PathAnswers
  BY DEF PathAnswers
<1> HIDE DEF row
<1> QED BY <1>1, <1>3, <1>4, <1>5, AttemptKeeps

LEMMA RowStays ==
    ASSUME BoundaryShape, BoundaryOrder, stage \in {"attempt", "effects"}
    PROVE  Hereafter(Here) = world
<1>1. /\ world \in BoundaryWorlds /\ Path \in Paths /\ seen.lane \in {"bypass", "normal"}
      /\ seen.lane = "bypass" => Here = world.bypass[Path]
      /\ seen.lane = "normal" => Here = world.normal[Path]
  BY AtHand DEF BoundaryShape
<1>2. Hereafter(Here) = [world EXCEPT ![seen.lane][Path] = Here]
  BY DEF Hereafter
<1>3. CASE seen.lane = "bypass"
  <2>1. [world EXCEPT !.bypass[Path] = Here] = world
    BY <1>1, <1>3 DEF BoundaryWorlds
  <2> QED BY <1>2, <1>3, <2>1
<1>4. CASE seen.lane = "normal"
  <2>1. [world EXCEPT !.normal[Path] = Here] = world
    BY <1>1, <1>4 DEF BoundaryWorlds
  <2> QED BY <1>2, <1>4, <2>1
<1> QED BY <1>1, <1>3, <1>4

LEMMA AttemptPathKeeps ==
    ASSUME BoundaryInv, AttemptPath PROVE BoundaryInv'
<1> DEFINE asked == [Here EXCEPT !.effects = {"request"}]
<1>1. PICK answer, arrived :
        /\ answer \in Replies(IF Accepting THEN "ACCEPTED" ELSE "DENIED")
        /\ arrived \in Arrivals
        /\ stage = "attempt" /\ Path # "assessment" /\ stage' = "effects"
        /\ world' = IF Accepting /\ arrived THEN Hereafter(asked) ELSE world
        /\ seen' = [seen EXCEPT !.answer = answer]
        /\ UNCHANGED <<topic, flaw, outage, verdict>>
  BY DEF AttemptPath, Do
<1>2. /\ answer \in {"ACCEPTED", "DENIED", "ERROR", "NO_RESPONSE"} /\ arrived \in BOOLEAN
      /\ outage \notin {"transport", "server"} =>
           answer = IF Accepting THEN "ACCEPTED" ELSE "DENIED"
  BY <1>1 DEF Replies, Arrivals, Reads
<1> USE <1>1 DEF BoundaryInv
<1>3. /\ Here \in PathRows /\ Path \in Paths
      /\ seen.lane = "bypass" => Here = world.bypass[Path]
      /\ seen.lane = "normal" => Here = world.normal[Path]
      /\ seen.lane \in {"bypass", "normal"}
  BY AtHand
<1>4. asked \in PathRows /\ asked.queued = Here.queued /\ ~Here.queued
  BY <1>3 DEF PathRows, Effects, CasesFit, Paths
<1>5. Sound /\ outage \notin {"transport", "server"} /\ seen.lane = "bypass" =>
        ~Accepting /\ Here = Untouched /\ Here.effects = {} /\ ~Here.start
  BY <1>3 DEF SoundFits, Accepting, Sound, Paths
<1>6. Sound /\ outage \notin {"transport", "server"} /\ seen.lane = "normal" => Accepting
  BY DEF SoundFits, Accepting, Open, Sound
<1>7. world = Hereafter(Here)
  BY RowStays
<1>8. answer \in PathAnswers
  BY <1>2 DEF PathAnswers
<1> HIDE DEF asked
<1>9. CASE Accepting /\ arrived
  BY <1>1, <1>2, <1>4, <1>5, <1>6, <1>8, <1>9, AttemptKeeps
<1>10. CASE ~(Accepting /\ arrived)
  <2>1. world' = Hereafter(Here)
    BY <1>1, <1>7, <1>10
  <2> QED BY <1>1, <1>2, <1>3, <1>4, <1>5, <1>6, <1>8, <2>1, AttemptKeeps
<1> QED BY <1>9, <1>10

LEMMA EquipmentCheckFailsKeeps ==
    ASSUME BoundaryInv, EquipmentCheckFails PROVE BoundaryInv'
<1>1. /\ stage = "attempt" /\ stage' = "effects" /\ Path # "assessment"
      /\ seen.lane = "normal" /\ world' = world /\ seen' = [seen EXCEPT !.answer = "ERROR"]
      /\ UNCHANGED <<topic, flaw, outage, verdict>>
      /\ ~(Sound /\ outage \notin {"transport", "server"})
  BY DEF EquipmentCheckFails, Look, Do, Sound
<1> USE <1>1 DEF BoundaryInv
<1>2. /\ Here \in PathRows /\ Path \in Paths /\ Here = world.normal[Path]
  BY AtHand
<1>3. world' = Hereafter(Here)
  BY RowStays
<1>4. ~Here.queued
  BY <1>2 DEF CasesFit, Paths
<1>5. "ERROR" \in PathAnswers
  BY DEF PathAnswers
<1> QED BY <1>1, <1>2, <1>3, <1>4, <1>5, AttemptKeeps

LEMMA CommitConsentKeeps ==
    ASSUME BoundaryInv, CommitConsent PROVE BoundaryInv'
<1>1. PICK arrived \in Arrivals :
        /\ stage = "commit" /\ stage' = "state" /\ seen' = seen
        /\ world' = IF arrived
                    THEN [world EXCEPT !.consent =
                              IF flaw = "other-policy" THEN "other" ELSE "shown"]
                    ELSE world
        /\ UNCHANGED <<topic, flaw, outage, verdict>>
  BY DEF CommitConsent, Do
<1> USE <1>1 DEF BoundaryInv
<1>2. /\ world' \in BoundaryWorlds /\ world'.bypass = world.bypass /\ world'.normal = world.normal
      /\ world'.early = world.early
      /\ Sound /\ outage \notin {"transport", "server"} => world'.consent = "shown"
  BY DEF BoundaryShape, BoundaryWorlds, Sound, Arrivals, Reads
<1>3. BoundaryShape' /\ BoundaryOrder'
  BY <1>2 DEF BoundaryShape, BoundaryOrder, BoundaryStages
<1>4. CasesFit' /\ ReadsInTurn'
  BY <1>2 DEF CasesFit, Shows, ReadsInTurn, BoundaryOrder
<1>5. SoundFits'
  BY <1>2 DEF SoundFits, Sound
<1>6. BoundaryAnswered' /\ BoundaryJudged'
  BY DEF BoundaryAnswered, BoundaryJudged, Ended, Answering, Sound
<1> QED BY <1>3, <1>4, <1>5, <1>6 DEF BoundaryInv

LEMMA ConsentStateKeeps ==
    ASSUME BoundaryInv, ConsentState PROVE BoundaryInv'
<1>1. PICK state \in Reads("state", [source |-> world.consent], Lost) :
        /\ stage = "state" /\ seen' = [seen EXCEPT !.state = state]
        /\ stage' = IF state.source = "shown" THEN "attempt" ELSE "judge"
        /\ UNCHANGED <<topic, flaw, outage, world, verdict>>
  BY DEF ConsentState, Look, Do
<1>2. world \in BoundaryWorlds /\ seen \in BoundaryLog /\ seen.lane \in {"bypass", "normal"}
  BY DEF BoundaryInv, BoundaryShape, BoundaryLog
<1>3. /\ state = Lost \/ state.source = world.consent
      /\ state \in [source : {"none", "shown", "other", "UNAVAILABLE"}]
      /\ outage = "none" => state.source = world.consent
  BY <1>2 DEF Reads, Lost, BoundaryWorlds
<1>4. /\ seen' \in BoundaryLog /\ seen'.lane = seen.lane /\ seen'.cases = seen.cases
      /\ seen'.answer = seen.answer /\ seen'.reads = seen.reads /\ seen'.count = seen.count
      /\ seen'.state = state /\ seen'.normal = seen.normal
  BY <1>1, <1>2, <1>3 DEF BoundaryLog
<1> USE <1>1 DEF BoundaryInv
<1>5. seen.lane = "normal" /\ Len(seen.normal) = 0 /\ Len(seen.cases) = 3
  BY <1>2 DEF BoundaryOrder
<1>6. BoundaryShape' /\ BoundaryOrder'
  BY <1>4, <1>5 DEF BoundaryShape, BoundaryOrder, BoundaryStages
<1>7. CasesFit' /\ ReadsInTurn'
  BY <1>3, <1>4 DEF CasesFit, Shows, ReadsInTurn
<1>8. SoundFits'
  <2>1. SoundFits /\ stage' # "effects"
    BY <1>1 DEF BoundaryInv
  <2>2. world.consent = "shown" \/ ~(Sound /\ outage \notin {"transport", "server"})
    BY <1>1, <1>5, <2>1 DEF SoundFits
  <2> QED BY <1>1, <1>4, <2>1, <2>2 DEF SoundFits, Sound
<1>9. BoundaryAnswered'
  <2>1. seen.reads = <<>> /\ seen.count = 0 /\ stage' # "effects"
    BY <1>1 DEF BoundaryInv, BoundaryAnswered
  <2>2. Answering' => state.source = "shown"
    BY <1>1, <1>3, <1>5 DEF BoundaryInv, SoundFits, Answering, Sound
  <2> QED BY <1>4, <2>1, <2>2 DEF BoundaryAnswered
<1>10. BoundaryJudged'
  BY <1>1 DEF BoundaryInv, BoundaryJudged, Ended
<1> QED BY <1>6, <1>7, <1>8, <1>9, <1>10 DEF BoundaryInv

LEMMA ReadShows ==
    ASSUME BoundaryInv, stage = "effects",
           NEW value \in Projection \cup (IF outage = "effects" THEN {Lost} ELSE {})
    PROVE  /\ Shows(value, Here) /\ value \in Views \cup {Lost}
           /\ Answering => value = View(Here, TRUE)
<1>1. Here \in PathRows
  BY AtHand DEF BoundaryInv
<1>2. View(Here, TRUE) \in Views /\ View(Here, FALSE) \in Views
  BY <1>1 DEF View, Views, PathRows
<1>3. \/ value = Lost /\ outage = "effects"
      \/ \E receipts \in Reads("receipts", TRUE, FALSE) : value = View(Here, receipts)
  BY DEF Projection, View
<1> QED BY <1>2, <1>3 DEF Shows, ShowsUnder, Reads, Answering

\* A path is settled: its case is recorded.
LEMMA CollectedKeeps ==
    ASSUME BoundaryInv, stage = "effects", NEW value \in Views \cup {Lost}, Shows(value, Here),
           Collected(value)
    PROVE  BoundaryInv'
<1> DEFINE case == Case(value)
<1>1. /\ world \in BoundaryWorlds /\ seen \in BoundaryLog /\ seen.answer \in PathAnswers
      /\ seen.cases \in Seq(PathCases) /\ seen.normal \in Seq(PathCases)
  BY DEF BoundaryInv, BoundaryShape, BoundaryLog
<1>2. /\ Path \in Paths
      /\ seen.lane = "bypass" =>
           /\ Len(seen.cases) \in 0..2 /\ Path = Bypass[Len(seen.cases) + 1]
           /\ Here = world.bypass[Path]
      /\ seen.lane = "normal" =>
           /\ Len(seen.normal) \in 0..2 /\ Path = Consented[Len(seen.normal) + 1]
           /\ Here = world.normal[Path]
      /\ seen.lane \in {"bypass", "normal"}
  BY AtHand DEF BoundaryInv
<1>3. case \in PathCases /\ case.answer = seen.answer /\ case.effects = value
  BY <1>1, <1>2 DEF Case, PathCases
<1>4. UNCHANGED <<topic, flaw, outage, world, verdict>>
  BY DEF Collected, Look, Do
<1>5. CASE seen.lane = "bypass"
  <2> DEFINE n == Len(seen.cases)
             cases == Append(seen.cases, case)
             lane == IF n = 2 THEN "normal" ELSE "bypass"
  <2>1. /\ seen' = [seen EXCEPT !.reads = <<>>, !.count = 0, !.answer = "none",
                      !.cases = cases, !.lane = lane]
        /\ stage' = IF n = 2 THEN "commit" ELSE "attempt"
    BY <1>5 DEF Collected, Look, Do
  <2>2. /\ cases \in Seq(PathCases) /\ Len(cases) = n + 1 /\ cases[n + 1] = case
        /\ \A i \in 1..n : cases[i] = seen.cases[i]
    BY <1>1, <1>3, Grown
  <2>3. n \in 0..2 /\ Path = Bypass[n + 1] /\ lane \in {"bypass", "normal"}
    BY <1>2, <1>5
  <2>4. Len(seen.normal) = 0 /\ seen.state = Lost
    BY <1>5 DEF BoundaryInv, BoundaryOrder
  <2>5. /\ \A i \in 1..n : Shows(seen.cases[i].effects, world.bypass[Bypass[i]])
        /\ Sound /\ outage \notin {"transport", "server"} =>
             /\ \A i \in 1..n : seen.cases[i].answer = IF i = 3 THEN "SUBMITTED" ELSE "DENIED"
             /\ seen.answer = IF n = 2 THEN "SUBMITTED" ELSE "DENIED"
    BY <1>5 DEF BoundaryInv, CasesFit, SoundFits
  <2> HIDE DEF cases, n, case, lane
  <2> DEFINE noReads == <<>>
  <2>14. noReads \in Seq(Views \cup {Lost}) /\ 0 \in Nat /\ "none" \in PathAnswers
    BY DEF PathAnswers
  <2> HIDE DEF noReads
  <2>15. seen' = [seen EXCEPT !.reads = noReads, !.count = 0, !.answer = "none",
                    !.cases = cases, !.lane = lane]
    BY <2>1 DEF noReads
  <2>6. /\ seen' \in BoundaryLog /\ seen'.lane = lane /\ seen'.cases = cases
        /\ seen'.reads = noReads /\ seen'.count = 0 /\ seen'.state = seen.state
        /\ seen'.normal = seen.normal
    BY <1>1, <2>2, <2>3, <2>14, <2>15 DEF BoundaryLog
  <2>7. /\ \A i \in 1..(n + 1) : Shows(cases[i].effects, world.bypass[Bypass[i]])
        /\ Sound /\ outage \notin {"transport", "server"} =>
             \A i \in 1..(n + 1) : cases[i].answer = IF i = 3 THEN "SUBMITTED" ELSE "DENIED"
    <3>1. ASSUME NEW i \in 1..(n + 1) PROVE i \in 1..n \/ (i = n + 1 /\ (i = 3 <=> n = 2))
      BY <2>3
    <3>2. Shows(case.effects, world.bypass[Bypass[n + 1]])
      BY <1>2, <1>3, <1>5, <2>3
    <3> HIDE DEF Shows
    <3> QED BY <1>3, <2>2, <2>5, <3>1, <3>2
  <2>8. BoundaryShape'
    BY <1>4, <2>1, <2>6 DEF BoundaryInv, BoundaryShape, BoundaryStages
  <2> USE <2>2, <2>4, <2>6
  <2>9. BoundaryOrder'
    BY <2>1, <2>3 DEF BoundaryOrder, lane
  <2>10. CasesFit'
    BY <1>4, <2>7 DEF BoundaryInv, CasesFit, Shows
  <2>11. SoundFits'
    BY <1>4, <2>1, <2>7 DEF BoundaryInv, SoundFits, Sound, lane
  <2>12. ReadsInTurn' /\ BoundaryJudged'
    BY <1>4, <2>1 DEF BoundaryInv, ReadsInTurn, BoundaryJudged, Ended
  <2>13. BoundaryAnswered'
    BY <2>1, <2>6 DEF BoundaryAnswered, lane, noReads
  <2> QED BY <2>8, <2>9, <2>10, <2>11, <2>12, <2>13 DEF BoundaryInv
<1>6. CASE seen.lane = "normal"
  <2> DEFINE n == Len(seen.normal)
             normal == Append(seen.normal, case)
  <2>1. /\ seen' = [seen EXCEPT !.reads = <<>>, !.count = 0, !.answer = "none",
                      !.normal = normal]
        /\ stage' = IF n = 2 THEN "judge" ELSE "attempt"
    BY <1>6 DEF Collected, Look, Do
  <2>2. /\ normal \in Seq(PathCases) /\ Len(normal) = n + 1 /\ normal[n + 1] = case
        /\ \A i \in 1..n : normal[i] = seen.normal[i]
    BY <1>1, <1>3, Grown
  <2>3. n \in 0..2 /\ Path = Consented[n + 1]
    BY <1>2, <1>6
  <2>4. Len(seen.cases) = 3 /\ seen.state.source = "shown"
    BY <1>6 DEF BoundaryInv, BoundaryOrder
  <2>5. /\ \A i \in 1..n : Shows(seen.normal[i].effects, world.normal[Consented[i]])
        /\ Sound /\ outage \notin {"transport", "server"} =>
             (\A i \in 1..n : seen.normal[i].answer \notin {"DENIED", "ERROR"}) /\ seen.answer \notin {"DENIED", "ERROR"}
    BY <1>6 DEF BoundaryInv, CasesFit, SoundFits
  <2> HIDE DEF normal, n, case
  <2> DEFINE noReads == <<>>
  <2>14. noReads \in Seq(Views \cup {Lost}) /\ 0 \in Nat /\ "none" \in PathAnswers
    BY DEF PathAnswers
  <2> HIDE DEF noReads
  <2>15. seen' = [seen EXCEPT !.reads = noReads, !.count = 0, !.answer = "none",
                    !.normal = normal]
    BY <2>1 DEF noReads
  <2>6. /\ seen' \in BoundaryLog /\ seen'.lane = seen.lane /\ seen'.cases = seen.cases
        /\ seen'.reads = noReads /\ seen'.count = 0 /\ seen'.state = seen.state
        /\ seen'.normal = normal
    BY <1>1, <2>2, <2>14, <2>15 DEF BoundaryLog
  <2>7. /\ \A i \in 1..(n + 1) : Shows(normal[i].effects, world.normal[Consented[i]])
        /\ Sound /\ outage \notin {"transport", "server"} =>
             \A i \in 1..(n + 1) : normal[i].answer \notin {"DENIED", "ERROR"}
    <3>1. ASSUME NEW i \in 1..(n + 1) PROVE i \in 1..n \/ i = n + 1
      BY <2>3
    <3>2. Shows(case.effects, world.normal[Consented[n + 1]])
      BY <1>2, <1>3, <1>6, <2>3
    <3> HIDE DEF Shows
    <3> QED BY <1>3, <2>2, <2>5, <3>1, <3>2
  <2>8. BoundaryShape'
    BY <1>4, <2>1, <2>6 DEF BoundaryInv, BoundaryShape, BoundaryStages
  <2>9. BoundaryOrder'
    BY <1>6, <2>1, <2>2, <2>3, <2>4, <2>6 DEF BoundaryOrder
  <2> USE <1>4 DEF BoundaryInv
  <2>10. CasesFit'
    BY <2>2, <2>6, <2>7 DEF CasesFit, Shows
  <2>11. SoundFits'
    BY <1>6, <2>1, <2>2, <2>6, <2>7 DEF SoundFits, Sound
  <2>12. ReadsInTurn' /\ BoundaryJudged'
    BY <2>1 DEF ReadsInTurn, BoundaryJudged, Ended
  <2>13. BoundaryAnswered'
    <3>1. noReads = <<>> /\ stage' # "effects"
      BY <2>1 DEF noReads
    <3> QED BY <2>4, <2>6, <3>1 DEF BoundaryAnswered
  <2> QED BY <2>8, <2>9, <2>10, <2>11, <2>12, <2>13 DEF BoundaryInv
<1> QED BY <1>2, <1>5, <1>6

\* What the reads of a settling path have in common.
LEMMA NotYetStable ==
    ASSUME BoundaryInv, stage = "effects", Answering, ~Stable(seen.reads, View(Here, TRUE))
    PROVE  \E k \in 0..Len(seen.reads) :
             /\ k < StableReads /\ Len(seen.reads) - k < StableReads - 1
             /\ \A i \in (k + 1)..Len(seen.reads) : seen.reads[i] = View(Here, TRUE)
             /\ Pending(Here) => k = 0
<1> DEFINE n == Len(seen.reads)
           s == StableReads
<1>1. n \in Nat /\ s \in Nat /\ s > 0
  BY ReadsAssumption DEF BoundaryInv, BoundaryShape, BoundaryLog
<1>2. PICK k \in 0..n :
        /\ k < s /\ n - k < s
        /\ \A i \in (k + 1)..n : seen.reads[i] = View(Here, TRUE)
        /\ Pending(Here) => k = 0
  BY DEF BoundaryInv, ReadsInTurn
<1>3. n - k < s - 1
  <2> SUFFICES ASSUME n - k >= s - 1 PROVE FALSE
    BY <1>1, <1>2
  <2>1. n + 1 >= s /\ n - s + 2 >= k + 1
    BY <1>1, <1>2
  <2>2. \A i \in (n - s + 2)..n : seen.reads[i] = View(Here, TRUE)
    <3> SUFFICES ASSUME NEW i \in (n - s + 2)..n PROVE i \in (k + 1)..n
      BY <1>2
    <3> QED BY <1>1, <1>2, <2>1
  <2> QED BY <2>1, <2>2 DEF Stable
<1> QED BY <1>2, <1>3

LEMMA ReadEffectsKeeps ==
    ASSUME BoundaryInv, ReadEffects PROVE BoundaryInv'
<1>1. PICK value \in Projection \cup (IF outage = "effects" THEN {Lost} ELSE {}) :
        IF Stable(seen.reads, value)
        THEN Collected(value)
        ELSE IF seen.count = EffectReads
        THEN Look("effects", seen, "end")
        ELSE Look("effects", [seen EXCEPT !.reads = Append(@, value), !.count = @ + 1],
                  "effects")
  BY DEF ReadEffects
<1>2. /\ stage = "effects" /\ Shows(value, Here) /\ value \in Views \cup {Lost}
      /\ Answering => value = View(Here, TRUE)
  BY ReadShows DEF ReadEffects
<1>3. /\ seen \in BoundaryLog /\ seen.count = Len(seen.reads) /\ Len(seen.reads) \in Nat
      /\ EffectReads \in Nat /\ StableReads \in Nat /\ StableReads > 0
      /\ seen.reads \in Seq(Views \cup {Lost})
  BY <1>2, ReadsAssumption DEF BoundaryInv, BoundaryShape, BoundaryLog, BoundaryAnswered
<1>4. CASE Stable(seen.reads, value)
  BY <1>1, <1>2, <1>4, CollectedKeeps
<1>5. CASE ~Stable(seen.reads, value) /\ seen.count = EffectReads
  <2>1. stage' = "end" /\ UNCHANGED <<topic, flaw, outage, world, seen, verdict>>
    BY <1>1, <1>5 DEF Look, Do
  <2>2. ~(Answering /\ TimeToSettle)
    <3> SUFFICES ASSUME Answering, TimeToSettle PROVE FALSE
      OBVIOUS
    <3> DEFINE n == Len(seen.reads)
    <3>1. PICK k \in 0..n : k < StableReads /\ n - k < StableReads - 1
      BY <1>2, <1>5, NotYetStable
    <3>2. n = EffectReads /\ n >= 2 * StableReads - 2
      BY <1>3, <1>5 DEF TimeToSettle
    <3> HIDE DEF n
    <3>3. n \in Nat
      BY <1>3 DEF n
    <3> QED BY <1>3, <3>1, <3>2, <3>3
  <2> USE <2>1 DEF BoundaryInv
  <2>3. BoundaryShape' /\ BoundaryOrder'
    BY <1>2 DEF BoundaryShape, BoundaryOrder, BoundaryStages
  <2>4. CasesFit' /\ ReadsInTurn'
    BY DEF CasesFit, Shows, ReadsInTurn
  <2>5. SoundFits'
    BY <1>2 DEF SoundFits, Sound
  <2>6. BoundaryAnswered'
    BY <1>2 DEF BoundaryAnswered, Answering, Sound
  <2>7. BoundaryJudged'
    BY <1>2, <2>2 DEF BoundaryJudged, Ended, Answering, Sound, TimeToSettle
  <2> QED BY <2>3, <2>4, <2>5, <2>6, <2>7 DEF BoundaryInv
<1>6. CASE ~Stable(seen.reads, value) /\ seen.count # EffectReads
  <2> DEFINE reads == Append(seen.reads, value)
             n == Len(seen.reads)
             more == n + 1
  <2>1. /\ stage' = stage /\ seen' = [seen EXCEPT !.reads = reads, !.count = more]
        /\ UNCHANGED <<topic, flaw, outage, world, verdict>>
    BY <1>1, <1>2, <1>3, <1>6 DEF Look, Do
  <2>2. /\ reads \in Seq(Views \cup {Lost}) /\ Len(reads) = n + 1 /\ reads[n + 1] = value
        /\ \A i \in 1..n : reads[i] = seen.reads[i]
    BY <1>2, <1>3, Grown
  <2>3. n \in Nat /\ more \in Nat
    BY <1>3
  <2>4. Answering =>
          \E k \in 0..n :
            /\ k < StableReads /\ n - k < StableReads - 1
            /\ \A i \in (k + 1)..n : seen.reads[i] = View(Here, TRUE)
            /\ Pending(Here) => k = 0
    BY <1>2, <1>6, NotYetStable
  <2> HIDE DEF reads, n, more
  <2>5. /\ seen' \in BoundaryLog /\ seen'.lane = seen.lane /\ seen'.cases = seen.cases
        /\ seen'.reads = reads /\ seen'.count = more /\ seen'.state = seen.state
        /\ seen'.normal = seen.normal /\ seen'.answer = seen.answer
    BY <1>3, <2>1, <2>2, <2>3 DEF BoundaryLog
  <2>6. Path' = Path /\ Here' = Here
    BY <2>1, <2>5 DEF Path, Here
  <2> USE <2>1, <2>5 DEF BoundaryInv
  <2>7. BoundaryShape' /\ BoundaryOrder'
    BY <1>2 DEF BoundaryShape, BoundaryOrder
  <2>8. CasesFit'
    BY DEF CasesFit, Shows
  <2>9. SoundFits'
    BY <1>2 DEF SoundFits, Sound
  <2>10. ReadsInTurn'
    <3> SUFFICES ASSUME Answering
                 PROVE  \E k \in 0..Len(seen'.reads) :
                          /\ k < StableReads /\ Len(seen'.reads) - k < StableReads
                          /\ \A i \in (k + 1)..Len(seen'.reads) :
                               seen'.reads[i] = View(Here', TRUE)
                          /\ Pending(Here') => k = 0
      BY <2>1 DEF ReadsInTurn, Answering, Sound, View, Pending
    <3> HIDE DEF View, Pending
    <3>1. PICK k \in 0..n :
            /\ k < StableReads /\ n - k < StableReads - 1
            /\ \A i \in (k + 1)..n : seen.reads[i] = View(Here, TRUE)
            /\ Pending(Here) => k = 0
      BY <2>4
    <3>2. k \in 0..(n + 1) /\ n + 1 - k < StableReads
      BY <1>3, <2>3, <3>1
    <3>3. \A i \in (k + 1)..(n + 1) : reads[i] = View(Here, TRUE)
      <4> SUFFICES ASSUME NEW i \in (k + 1)..(n + 1) PROVE reads[i] = View(Here, TRUE)
        OBVIOUS
      <4>1. CASE i = n + 1
        BY <1>2, <2>2, <4>1
      <4>2. CASE i # n + 1
        <5>1. i \in 1..n /\ i \in (k + 1)..n
          BY <2>3, <3>1, <4>2
        <5> QED BY <2>2, <3>1, <5>1
      <4> QED BY <4>1, <4>2
    <3> QED
      <4>1. Len(seen'.reads) = n + 1 /\ seen'.reads = reads /\ Here' = Here
        BY <2>2, <2>5, <2>6
      <4>2. \A i \in (k + 1)..Len(seen'.reads) : seen'.reads[i] = View(Here', TRUE)
        BY <3>3, <4>1
      <4>3. Pending(Here') => k = 0
        BY <3>1, <4>1
      <4>4. k \in 0..Len(seen'.reads) /\ k < StableReads /\ Len(seen'.reads) - k < StableReads
        BY <2>3, <3>1, <3>2, <4>1
      <4> QED BY <4>2, <4>3, <4>4
  <2>11. BoundaryAnswered'
    BY <1>2, <2>1, <2>2, <2>5 DEF BoundaryInv, BoundaryAnswered, Answering, Sound, more
  <2>12. BoundaryJudged'
    BY <1>2, <2>1 DEF BoundaryInv, BoundaryJudged, Ended
  <2> QED BY <2>7, <2>8, <2>9, <2>10, <2>11, <2>12 DEF BoundaryInv
<1> QED BY <1>4, <1>5, <1>6

-----------------------------------------------------------------------------
(* The judge of N-02 *)

LEMMA BypassRule ==
    ASSUME NEW case, case.effects # Lost => case.effects.start \in BOOLEAN
    PROVE  /\ JudgeBypass(case) \in {"PASS", "FAIL", "INCONCLUSIVE"}
           /\ JudgeBypass(case) = "PASS" =>
                case.effects # Lost /\ case.effects.effects = {} /\ ~case.effects.start
           /\ JudgeBypass(case) = "FAIL" =>
                /\ case.effects # Lost
                /\ \/ case.effects.effects # {} \/ case.effects.start
                   \/ case.answer \notin {"SUBMITTED", "DENIED"}
           /\ /\ case.effects # Lost /\ case.effects.effects = {} /\ ~case.effects.start
              /\ case.answer = "DENIED" \/ (case.answer = "SUBMITTED" /\ case.effects.refused)
              => JudgeBypass(case) = "PASS"
<1>1. CASE case.effects = Lost
  BY <1>1 DEF JudgeBypass, Needs
<1>2. CASE case.effects # Lost /\ (case.effects.effects # {} \/ case.effects.start)
  <2>1. JudgeBypass(case) = "FAIL"
    BY <1>2 DEF JudgeBypass, Needs
  <2> QED BY <1>2, <2>1
<1>3. CASE /\ case.effects # Lost /\ case.effects.effects = {} /\ ~case.effects.start
           /\ case.answer = "SUBMITTED"
  <2>1. JudgeBypass(case) = PassedOrUnsure(case.effects.refused)
    BY <1>3 DEF JudgeBypass, Needs
  <2> QED BY <1>3, <2>1 DEF PassedOrUnsure
<1>4. CASE /\ case.effects # Lost /\ case.effects.effects = {} /\ ~case.effects.start
           /\ case.answer # "SUBMITTED"
  <2>1. JudgeBypass(case) = Passed(case.answer = "DENIED")
    BY <1>4 DEF JudgeBypass, Needs
  <2> QED BY <1>4, <2>1 DEF Passed
<1> QED BY <1>1, <1>2, <1>3, <1>4

LEMMA NormalRule ==
    /\ JudgeNormalOrder(seen) \in {"PASS", "FAIL", "INCONCLUSIVE"}
    /\ JudgeNormalOrder(seen) = "PASS" <=>
         /\ seen.state # Lost /\ seen.state.source = "shown"
         /\ \A case \in ToSet(seen.normal) :
              case.answer \notin {"DENIED", "ERROR"} /\ case.effects # Lost /\ Chained(case)
    /\ JudgeNormalOrder(seen) = "FAIL" =>
         /\ seen.state # Lost
         /\ \/ seen.state.source # "shown"
            \/ \E case \in ToSet(seen.normal) : case.answer \in {"DENIED", "ERROR"}
<1> DEFINE cases == ToSet(seen.normal)
           denied == \E case \in cases : case.answer \in {"DENIED", "ERROR"}
           read == Lost \notin {case.effects : case \in cases}
           done == \A case \in cases : Chained(case)
<1>1. /\ denied <=> \E case \in cases : case.answer \in {"DENIED", "ERROR"}
      /\ read <=> \A case \in cases : case.effects # Lost
  OBVIOUS
<1>2. JudgeNormalOrder(seen)
        = Needs(seen.state # Lost,
                CASE seen.state.source # "shown" \/ denied -> "FAIL"
                  [] seen.state.source = "shown" /\ ~denied -> Needs(read, PassedOrUnsure(done)))
  BY DEF JudgeNormalOrder
<1> HIDE DEF denied, read, done, cases
<1>3. CASE seen.state = Lost
  BY <1>2, <1>3 DEF Needs
<1>4. CASE seen.state # Lost /\ (seen.state.source # "shown" \/ denied)
  <2>1. JudgeNormalOrder(seen) = "FAIL"
    BY <1>2, <1>4 DEF Needs
  <2> QED BY <1>1, <1>4, <2>1 DEF cases
<1>5. CASE seen.state # Lost /\ seen.state.source = "shown" /\ ~denied
  <2>1. JudgeNormalOrder(seen) = Needs(read, PassedOrUnsure(done))
    BY <1>2, <1>5 DEF Needs
  <2>2. /\ JudgeNormalOrder(seen) \in {"PASS", "INCONCLUSIVE"}
        /\ JudgeNormalOrder(seen) = "PASS" <=> read /\ done
    BY <2>1 DEF Needs, PassedOrUnsure
  <2> QED BY <1>1, <1>5, <2>2 DEF cases, done
<1> QED BY <1>3, <1>4, <1>5

LEMMA JudgeBoundaryKeeps ==
    ASSUME BoundaryInv, JudgeBoundary PROVE BoundaryInv'
<1> DEFINE result == Aggregate(BoundaryAssertions(seen))
<1>1. /\ stage = "judge" /\ stage' = "end" /\ verdict' = result
      /\ UNCHANGED <<topic, flaw, outage, world, seen>>
  BY DEF JudgeBoundary, Judge
<1>2. /\ seen.lane = "normal" /\ Len(seen.cases) = 3
      /\ seen.state.source = "shown" => Len(seen.normal) = 3
      /\ seen.cases \in Seq(PathCases) /\ seen.normal \in Seq(PathCases)
      /\ world \in BoundaryWorlds
  BY <1>1 DEF BoundaryInv, BoundaryOrder, BoundaryShape, BoundaryLog
<1>3. /\ ToSet(seen.cases) = {seen.cases[i] : i \in 1..3}
      /\ ToSet(seen.normal) = {seen.normal[i] : i \in 1..Len(seen.normal)}
      /\ Last(seen.cases) = seen.cases[3]
      /\ \A i \in 1..3 : seen.cases[i] \in PathCases
      /\ \A i \in 1..Len(seen.normal) : seen.normal[i] \in PathCases
  BY <1>2 DEF ToSet, Last
<1>4. /\ \A i \in 1..3 : Shows(seen.cases[i].effects, world.bypass[Bypass[i]])
      /\ \A i \in 1..Len(seen.normal) :
           Shows(seen.normal[i].effects, world.normal[Consented[i]])
      /\ seen.state = Lost \/ seen.state.source = world.consent
      /\ world.early => flaw = "early"
  BY <1>2 DEF BoundaryInv, CasesFit
<1>5. /\ result = "FAIL" => JudgeNormalOrder(seen) = "FAIL"
                              \/ \E i \in 1..3 : JudgeBypass(seen.cases[i]) = "FAIL"
      /\ result = "PASS" <=> JudgeNormalOrder(seen) = "PASS"
                              /\ \A i \in 1..3 : JudgeBypass(seen.cases[i]) = "PASS"
  <2>1. \A i \in 1..3 : JudgeBypass(seen.cases[i]) \in {"PASS", "FAIL", "INCONCLUSIVE"}
    <3> SUFFICES ASSUME NEW i \in 1..3
                 PROVE  JudgeBypass(seen.cases[i]) \in {"PASS", "FAIL", "INCONCLUSIVE"}
      OBVIOUS
    <3>1. seen.cases[i].effects # Lost => seen.cases[i].effects.start \in BOOLEAN
      BY <1>3 DEF PathCases, Views
    <3> QED BY <3>1, BypassRule
  <2>2. BoundaryAssertions(seen)
          = {JudgeBypass(seen.cases[i]) : i \in 1..3} \cup {JudgeNormalOrder(seen)}
    BY <1>3 DEF BoundaryAssertions
  <2> HIDE DEF result
  <2>3. /\ result = "FAIL" <=> "FAIL" \in BoundaryAssertions(seen)
        /\ result = "PASS" <=> BoundaryAssertions(seen) \cap {"FAIL", "INCONCLUSIVE"} = {}
    BY AggregateRule DEF result
  <2> QED BY <2>1, <2>2, <2>3, NormalRule
<1> HIDE DEF result
<1>6. ASSUME NEW i \in 1..3
      PROVE  /\ JudgeBypass(seen.cases[i]) = "PASS" =>
                  /\ seen.cases[i].effects # Lost /\ seen.cases[i].effects.effects = {}
                  /\ ~seen.cases[i].effects.start
             /\ JudgeBypass(seen.cases[i]) = "FAIL" =>
                  /\ seen.cases[i].effects # Lost
                  /\ \/ seen.cases[i].effects.effects # {} \/ seen.cases[i].effects.start
                     \/ seen.cases[i].answer \notin {"SUBMITTED", "DENIED"}
             /\ /\ seen.cases[i].effects # Lost /\ seen.cases[i].effects.effects = {}
                /\ ~seen.cases[i].effects.start
                /\ \/ seen.cases[i].answer = "DENIED"
                   \/ seen.cases[i].answer = "SUBMITTED" /\ seen.cases[i].effects.refused
                => JudgeBypass(seen.cases[i]) = "PASS"
             /\ seen.cases[i].effects # Lost =>
                  seen.cases[i].effects.effects = world.bypass[Bypass[i]].effects
             /\ seen.cases[i].effects # Lost /\ outage # "receipts" =>
                  (seen.cases[i].effects.start <=> world.bypass[Bypass[i]].start)
             /\ seen.cases[i].effects # Lost /\ ~world.bypass[Bypass[i]].start =>
                  ~seen.cases[i].effects.start
             /\ outage = "none" => seen.cases[i].effects # Lost
  <2>1. seen.cases[i].effects # Lost => seen.cases[i].effects.start \in BOOLEAN
    BY <1>3 DEF PathCases, Views
  <2>2. Shows(seen.cases[i].effects, world.bypass[Bypass[i]])
    BY <1>4
  <2>3. world.bypass[Bypass[i]] \in PathRows
    BY <1>2, Places DEF BoundaryWorlds
  <2>4. View(world.bypass[Bypass[i]], TRUE) # Lost
    BY DEF View, Lost
  <2> QED BY <2>1, <2>2, <2>3, <2>4, BypassRule DEF Shows, ShowsUnder, View, PathRows
<1>7. ASSUME result = "PASS", outage # "receipts", flaw # "early" PROVE BoundaryHolds
  <2>1. \A i \in 1..3 : world.bypass[Bypass[i]].effects = {} /\ ~world.bypass[Bypass[i]].start
    BY <1>5, <1>6, <1>7
  <2>2. /\ seen.state # Lost /\ seen.state.source = "shown"
        /\ \A case \in ToSet(seen.normal) : case.effects # Lost /\ Chained(case)
    BY <1>5, <1>7, NormalRule
  <2>3. \A i \in 1..3 : "result" \in world.normal[Consented[i]].effects
    <3> SUFFICES ASSUME NEW i \in 1..3 PROVE "result" \in world.normal[Consented[i]].effects
      OBVIOUS
    <3>1. /\ seen.normal[i].effects # Lost /\ Chained(seen.normal[i])
          /\ Shows(seen.normal[i].effects, world.normal[Consented[i]])
      BY <1>2, <1>3, <1>4, <2>2
    <3> QED BY <3>1 DEF Chained, Shows, ShowsUnder, View
  <2>4. world.consent = "shown" /\ ~world.early
    BY <1>4, <1>7, <2>2
  <2>5. \A path \in Paths : world.bypass[path].effects = {} /\ ~world.bypass[path].start
    BY <2>1, Places
  <2>6. \A path \in Paths : "result" \in world.normal[path].effects
    BY <2>3, Places
  <2> QED BY <2>4, <2>5, <2>6 DEF BoundaryHolds
<1>8. ASSUME Sound, outage \notin {"transport", "server"}
      PROVE  /\ \A i \in 1..3 : /\ world.bypass[Bypass[i]].effects = {}
                                 /\ ~world.bypass[Bypass[i]].start
                                 /\ seen.cases[i].answer = IF i = 3 THEN "SUBMITTED" ELSE "DENIED"
             /\ world.consent = "shown"
             /\ \A case \in ToSet(seen.normal) : case.answer \notin {"DENIED", "ERROR"}
  BY <1>1, <1>2, <1>3, <1>8, Places DEF BoundaryInv, SoundFits
<1>9. ASSUME Sound, outage \notin {"transport", "server"} PROVE result # "FAIL"
  <2>1. \A i \in 1..3 : JudgeBypass(seen.cases[i]) # "FAIL"
    BY <1>6, <1>8, <1>9
  <2>2. JudgeNormalOrder(seen) # "FAIL"
    BY <1>4, <1>8, <1>9, NormalRule
  <2> QED BY <1>5, <2>1, <2>2
<1>10. ASSUME Answering, ~SlowWorker PROVE result = "PASS"
  <2>1. Sound /\ outage = "none" /\ outage \notin {"transport", "server"}
    BY <1>10 DEF Answering
  <2>2. seen.cases[3].effects.refused /\ \A case \in ToSet(seen.normal) : Chained(case)
    BY <1>3, <1>10 DEF SlowWorker
  <2>3. \A i \in 1..3 : JudgeBypass(seen.cases[i]) = "PASS"
    BY <1>6, <1>8, <2>1, <2>2
  <2>4. seen.state.source = "shown" /\ seen.state # Lost
    BY <1>1, <1>2, <1>10 DEF BoundaryInv, BoundaryAnswered, Lost
  <2>5. \A case \in ToSet(seen.normal) : case.effects # Lost
    <3> SUFFICES ASSUME NEW i \in 1..Len(seen.normal) PROVE seen.normal[i].effects # Lost
      BY <1>3
    <3>1. Shows(seen.normal[i].effects, world.normal[Consented[i]])
      BY <1>4
    <3> QED BY <2>1, <3>1 DEF Shows, ShowsUnder, View, Lost
  <2>6. JudgeNormalOrder(seen) = "PASS"
    BY <1>8, <2>1, <2>2, <2>4, <2>5, NormalRule
  <2> QED BY <1>5, <2>3, <2>6
<1> USE <1>1 DEF BoundaryInv
<1>11. BoundaryShape' /\ BoundaryOrder'
  BY <1>2 DEF BoundaryShape, BoundaryOrder, BoundaryStages
<1>12. CasesFit' /\ ReadsInTurn'
  BY DEF CasesFit, Shows, ReadsInTurn
<1>13. SoundFits'
  BY DEF SoundFits, Sound
<1>14. BoundaryAnswered'
  BY DEF BoundaryAnswered, Answering, Sound
<1>15. BoundaryJudged'
  <2>1. BoundaryHolds' = BoundaryHolds /\ SlowWorker' = SlowWorker
    BY <1>1 DEF BoundaryHolds, SlowWorker
  <2> QED BY <1>1, <1>7, <1>9, <1>10, <2>1 DEF BoundaryJudged, Ended, Answering, Sound
<1> QED BY <1>11, <1>12, <1>13, <1>14, <1>15 DEF BoundaryInv

LEMMA BoundaryStands ==
    ASSUME BoundaryInv, UNCHANGED vars PROVE BoundaryInv'
<1>1. UNCHANGED <<topic, flaw, outage, stage, world, seen, verdict>>
  BY DEF vars
<1>2. BoundaryShape' /\ BoundaryOrder'
  BY <1>1 DEF BoundaryInv, BoundaryShape, BoundaryOrder
<1>3. CasesFit' /\ SoundFits'
  BY <1>1 DEF BoundaryInv, CasesFit, SoundFits, Shows, Sound
<1>4. ReadsInTurn'
  <2>1. Here' = Here /\ (Answering' <=> Answering)
    BY <1>1 DEF Here, Path, Answering, Sound
  <2> QED BY <1>1, <2>1 DEF BoundaryInv, ReadsInTurn, View, Pending
<1>5. BoundaryAnswered'
  BY <1>1 DEF BoundaryInv, BoundaryAnswered, Answering, Sound
<1>6. BoundaryJudged'
  BY <1>1 DEF BoundaryInv, BoundaryJudged, BoundaryHolds, SlowWorker, Ended, Answering, Sound
<1> QED BY <1>2, <1>3, <1>4, <1>5, <1>6 DEF BoundaryInv

LEMMA BoundaryStep ==
    (topic = "N-02" => BoundaryInv) /\ [Next]_vars => (topic = "N-02" => BoundaryInv)'
<1> SUFFICES ASSUME topic = "N-02", BoundaryInv, [Next]_vars PROVE BoundaryInv'
  BY TopicStays
<1>1. BoundaryNext \/ UNCHANGED vars
  BY DEF Next, MinimalNext, NoticeNext, StaleNext, CitationNext, FreezeNext, DecisionNext,
         SurfaceNext
<1> QED
  BY <1>1, PristineKeeps, SubmitAssessmentKeeps, AttemptPathKeeps,
     EquipmentCheckFailsKeeps, ReadEffectsKeeps,
     CommitConsentKeeps, ConsentStateKeeps, JudgeBoundaryKeeps, WorkerAssessesKeeps,
     PathProceedsKeeps, LeavesEffectKeeps, StartsEarlyKeeps, BoundaryStands
     DEF BoundaryNext, TargetActs

-----------------------------------------------------------------------------
(* Sums over a finite set: what SumFunctionOnSet computes *)

\* A set of naturals that is not empty has a least element.
LEMMA LeastNatural ==
    ASSUME NEW T \in SUBSET Nat, T # {}
    PROVE  \E n \in T : \A m \in T : n <= m
<1>1. PICK n \in T : \A m \in T : <<m, n>> \notin OpToRel(<, Nat)
  BY NatLessThanWellFounded, WFMin
<1>2. \A m \in T : ~(m < n)
  BY <1>1 DEF OpToRel
<1> QED BY <1>2

Chosen(s) == CHOOSE x \in s : TRUE

\* One unfolding of the recursion behind a sum of f over the subsets of S.
Unfolded(f, S, g) ==
    [s \in SUBSET S |-> IF s = {} THEN 0 ELSE f[Chosen(s)] + g[s \ {Chosen(s)}]]

LEMMA SumIsFixpoint ==
    ASSUME NEW f, NEW S
    PROVE  SumFunctionOnSet(f, S) = (CHOOSE g : g = Unfolded(f, S, g))[S]
  BY DEF SumFunctionOnSet, FoldFunctionOnSet, MapThenFoldSet, Unfolded, Chosen

LEMMA Smaller ==
    ASSUME NEW S, IsFiniteSet(S), NEW s \in SUBSET S, s # {}
    PROVE  /\ Chosen(s) \in s /\ Chosen(s) \in S /\ s \ {Chosen(s)} \in SUBSET S
           /\ Cardinality(s) \in Nat /\ Cardinality(s \ {Chosen(s)}) = Cardinality(s) - 1
           /\ Cardinality(s) > 0
<1>1. Chosen(s) \in s
  BY DEF Chosen
<1>2. IsFiniteSet(s)
  BY FS_Subset
<1>3. Cardinality(s) \in Nat /\ Cardinality(s) # 0
  BY <1>2, FS_CardinalityType, FS_EmptySet
<1>4. Cardinality(s \ {Chosen(s)}) = Cardinality(s) - 1
  BY <1>1, <1>2, FS_RemoveElement
<1> QED BY <1>1, <1>3, <1>4

\* The recursion has a solution on the subsets of at most n elements.
SolvesTo(f, S, g, n) ==
    \A s \in SUBSET S : Cardinality(s) <= n => g[s] = Unfolded(f, S, g)[s]

LEMMA SolutionsExist ==
    ASSUME NEW f, NEW S, IsFiniteSet(S)
    PROVE  \A n \in Nat : \E g : DOMAIN g = SUBSET S /\ g = [s \in SUBSET S |-> g[s]]
                                 /\ SolvesTo(f, S, g, n)
<1> DEFINE Q(n) == \E g : DOMAIN g = SUBSET S /\ g = [s \in SUBSET S |-> g[s]]
                          /\ SolvesTo(f, S, g, n)
           T == {n \in Nat : ~Q(n)}
<1> SUFFICES ASSUME T # {} PROVE FALSE
  OBVIOUS
<1>1. PICK n \in T : \A m \in T : n <= m
  BY LeastNatural
<1>2. CASE n = 0
  <2> DEFINE g == [s \in SUBSET S |-> 0]
  <2>1. \A s \in SUBSET S : Cardinality(s) <= 0 => s = {}
    BY FS_Subset, FS_CardinalityType, FS_EmptySet
  <2>2. SolvesTo(f, S, g, 0)
    BY <2>1 DEF SolvesTo, Unfolded
  <2>3. DOMAIN g = SUBSET S /\ g = [s \in SUBSET S |-> g[s]]
    OBVIOUS
  <2> HIDE DEF g
  <2>4. Q(0)
    BY <2>2, <2>3
  <2> QED BY <1>2, <2>4
<1>3. CASE n # 0
  <2>1. n - 1 \in Nat /\ n \in Nat /\ ~(n <= n - 1)
    BY <1>3
  <2>2. Q(n - 1)
    BY <1>1, <2>1
  <2>3. PICK g : DOMAIN g = SUBSET S /\ g = [s \in SUBSET S |-> g[s]] /\ SolvesTo(f, S, g, n - 1)
    BY <2>2
  <2> DEFINE h == Unfolded(f, S, g)
  <2>4. DOMAIN h = SUBSET S /\ h = [s \in SUBSET S |-> h[s]]
    BY DEF Unfolded
  <2>5. SolvesTo(f, S, h, n)
    <3> SUFFICES ASSUME NEW s \in SUBSET S, Cardinality(s) <= n
                 PROVE  h[s] = Unfolded(f, S, h)[s]
      BY DEF SolvesTo
    <3>1. CASE s = {}
      BY <3>1 DEF Unfolded
    <3>2. CASE s # {}
      <4> DEFINE r == s \ {Chosen(s)}
      <4>1. r \in SUBSET S /\ Cardinality(r) <= n - 1
        BY <2>1, <3>2, Smaller
      <4>2. g[r] = h[r]
        BY <2>3, <4>1 DEF SolvesTo
      <4>3. h[s] = f[Chosen(s)] + g[r]
        BY <3>2 DEF Unfolded
      <4>4. Unfolded(f, S, h)[s] = f[Chosen(s)] + h[r]
        BY <3>2 DEF Unfolded
      <4> QED BY <4>2, <4>3, <4>4
    <3> QED BY <3>1, <3>2
  <2> HIDE DEF h
  <2>6. Q(n)
    BY <2>4, <2>5
  <2> QED BY <2>6
<1> QED BY <1>2, <1>3

\* The sum is the value at S of a function that solves the recursion.
LEMMA SumUnfolds ==
    ASSUME NEW f, NEW S, IsFiniteSet(S)
    PROVE  \E g : g = Unfolded(f, S, g) /\ SumFunctionOnSet(f, S) = g[S]
<1>1. Cardinality(S) \in Nat
  BY FS_CardinalityType
<1>2. PICK h : DOMAIN h = SUBSET S /\ h = [s \in SUBSET S |-> h[s]]
               /\ SolvesTo(f, S, h, Cardinality(S))
  BY <1>1, SolutionsExist
<1>3. \A s \in SUBSET S : h[s] = Unfolded(f, S, h)[s]
  BY <1>2, FS_Subset DEF SolvesTo
<1>4. h = Unfolded(f, S, h)
  BY <1>2, <1>3 DEF Unfolded
<1> QED BY <1>4, SumIsFixpoint

\* Equal entries have equal sums.
LEMMA SumSame ==
    ASSUME NEW f, NEW h, NEW S, \A i \in S : f[i] = h[i]
    PROVE  SumFunctionOnSet(f, S) = SumFunctionOnSet(h, S)
<1>1. ASSUME NEW g PROVE Unfolded(f, S, g) = Unfolded(h, S, g)
  <2>1. \A s \in SUBSET S : s # {} => f[Chosen(s)] = h[Chosen(s)]
    BY DEF Chosen
  <2> QED BY <2>1 DEF Unfolded
<1>2. (CHOOSE g : g = Unfolded(f, S, g)) = (CHOOSE g : g = Unfolded(h, S, g))
  BY <1>1
<1> QED BY <1>2, SumIsFixpoint

\* A sum of naturals is one, and is zero exactly when every entry is.
LEMMA SumPositive ==
    ASSUME NEW f, NEW S, IsFiniteSet(S), \A i \in S : f[i] \in Nat
    PROVE  /\ SumFunctionOnSet(f, S) \in Nat
           /\ SumFunctionOnSet(f, S) > 0 <=> \E i \in S : f[i] > 0
<1>1. PICK g : g = Unfolded(f, S, g) /\ SumFunctionOnSet(f, S) = g[S]
  BY SumUnfolds
<1> DEFINE Fits(s) == g[s] \in Nat /\ (g[s] > 0 <=> \E i \in s : f[i] > 0)
           T == {n \in Nat : \E s \in SUBSET S : Cardinality(s) = n /\ ~Fits(s)}
<1>2. T = {}
  <2> SUFFICES ASSUME T # {} PROVE FALSE
    OBVIOUS
  <2>1. PICK n \in T : \A m \in T : n <= m
    BY LeastNatural
  <2>2. PICK s \in SUBSET S : Cardinality(s) = n /\ ~Fits(s)
    BY <2>1
  <2>3. s # {}
    <3> SUFFICES ASSUME s = {} PROVE FALSE
      OBVIOUS
    <3>1. g[s] = 0
      BY <1>1 DEF Unfolded
    <3> QED BY <2>2, <3>1
  <2> DEFINE x == Chosen(s)
             r == s \ {x}
  <2>4. /\ x \in s /\ x \in S /\ r \in SUBSET S /\ n \in Nat
        /\ Cardinality(r) = n - 1 /\ n > 0
    BY <2>2, <2>3, Smaller
  <2>5. g[s] = f[x] + g[r]
    BY <1>1, <2>3 DEF Unfolded
  <2>6. Fits(r)
    <3>1. n - 1 \in Nat /\ ~(n <= n - 1)
      BY <2>4
    <3>2. n - 1 \notin T
      BY <2>1, <3>1
    <3> HIDE DEF Fits
    <3> QED BY <2>4, <3>1, <3>2
  <2>7. f[x] \in Nat
    BY <2>4
  <2>8. (\E i \in s : f[i] > 0) <=> (f[x] > 0 \/ \E i \in r : f[i] > 0)
    BY <2>4
  <2> HIDE DEF x, r
  <2>9. Fits(s)
    BY <2>5, <2>6, <2>7, <2>8
  <2> QED BY <2>2, <2>9
<1>3. Fits(S)
  <2> HIDE DEF Fits
  <2> QED BY <1>2, FS_CardinalityType
<1> QED BY <1>1, <1>3

\* Percentages weighted: the sum is at most a hundred times the sum of the weights.
LEMMA SumOfPercentages ==
    ASSUME NEW f, NEW h, NEW S, IsFiniteSet(S),
           \A i \in S : f[i] \in Nat /\ h[i] \in Nat /\ f[i] <= 100 * h[i]
    PROVE  SumFunctionOnSet(f, S) <= 100 * SumFunctionOnSet(h, S)
<1>1. PICK g : g = Unfolded(f, S, g) /\ SumFunctionOnSet(f, S) = g[S]
  BY SumUnfolds
<1>2. PICK k : k = Unfolded(h, S, k) /\ SumFunctionOnSet(h, S) = k[S]
  BY SumUnfolds
<1> DEFINE Fits(s) == g[s] \in Nat /\ k[s] \in Nat /\ g[s] <= 100 * k[s]
           T == {n \in Nat : \E s \in SUBSET S : Cardinality(s) = n /\ ~Fits(s)}
<1>3. T = {}
  <2> SUFFICES ASSUME T # {} PROVE FALSE
    OBVIOUS
  <2>1. PICK n \in T : \A m \in T : n <= m
    BY LeastNatural
  <2>2. PICK s \in SUBSET S : Cardinality(s) = n /\ ~Fits(s)
    BY <2>1
  <2>3. s # {}
    <3> SUFFICES ASSUME s = {} PROVE FALSE
      OBVIOUS
    <3>1. g[s] = 0 /\ k[s] = 0
      BY <1>1, <1>2 DEF Unfolded
    <3> QED BY <2>2, <3>1
  <2> DEFINE x == Chosen(s)
             r == s \ {x}
  <2>4. /\ x \in S /\ r \in SUBSET S /\ n \in Nat /\ Cardinality(r) = n - 1 /\ n > 0
    BY <2>2, <2>3, Smaller
  <2>5. g[s] = f[x] + g[r] /\ k[s] = h[x] + k[r]
    BY <1>1, <1>2, <2>3 DEF Unfolded
  <2>6. Fits(r)
    <3>1. n - 1 \in Nat /\ ~(n <= n - 1)
      BY <2>4
    <3>2. n - 1 \notin T
      BY <2>1, <3>1
    <3> HIDE DEF Fits
    <3> QED BY <2>4, <3>1, <3>2
  <2>7. f[x] \in Nat /\ h[x] \in Nat /\ f[x] <= 100 * h[x]
    BY <2>4
  <2> HIDE DEF x, r
  <2>8. Fits(s)
    BY <2>5, <2>6, <2>7
  <2> QED BY <2>2, <2>8
<1>4. Fits(S)
  <2> HIDE DEF Fits
  <2> QED BY <1>3, FS_CardinalityType
<1> QED BY <1>1, <1>2, <1>4

-----------------------------------------------------------------------------
(* Rounding: the nearest integer, the even one of two *)

\* What the division of n by d leaves.
Parts(n, d, low, rest) ==
    /\ n \in Nat /\ d \in Nat \ {0} /\ low \in 0..100 /\ rest \in 0..(d - 1)
    /\ n = (d * low) + rest /\ (low = 100 => rest = 0)

LEMMA Division ==
    ASSUME NEW n \in Nat, NEW d \in Nat \ {0}, n <= 100 * d
    PROVE  Parts(n, d, n \div d, n % d)
<1> DEFINE low == n \div d
           rest == n % d
<1>1. low \in Nat /\ rest \in 0..(d - 1) /\ n = (d * low) + rest
  OBVIOUS
<1> HIDE DEF low, rest
<1>2. low <= 100
  <2> SUFFICES ASSUME low >= 101 PROVE FALSE
    BY <1>1
  <2>1. d * low >= d * 101
    BY <1>1
  <2> QED BY <1>1, <2>1
<1>3. low = 100 => rest = 0
  BY <1>1
<1> QED BY <1>1, <1>2, <1>3 DEF low, rest, Parts

\* The distances around the quotient, and the scores with the least of them.
Spread(O, d, low, rest) ==
    \A k \in 0..100 :
        /\ O[k] \in Nat
        /\ k = low => O[k] = rest
        /\ k < low => O[k] >= d + rest
        /\ k = low + 1 => O[k] = d - rest
        /\ k > low + 1 => O[k] >= d + (d - rest)
Least(O) == {k \in 0..100 : \A other \in 0..100 : O[k] <= O[other]}

LEMMA Distances ==
    ASSUME NEW n, NEW d, NEW low, NEW rest, Parts(n, d, low, rest)
    PROVE  Spread([k \in 0..100 |-> Off(n, d, k)], d, low, rest)
<1> SUFFICES ASSUME NEW k \in 0..100
             PROVE  /\ Off(n, d, k) \in Nat
                    /\ k = low => Off(n, d, k) = rest
                    /\ k < low => Off(n, d, k) >= d + rest
                    /\ k = low + 1 => Off(n, d, k) = d - rest
                    /\ k > low + 1 => Off(n, d, k) >= d + (d - rest)
  BY DEF Spread
<1>1. /\ n \in Nat /\ d \in Nat /\ d > 0 /\ low \in Nat /\ rest \in 0..(d - 1) /\ k \in Nat
      /\ n = (d * low) + rest
  BY DEF Parts
<1>2. k * d \in Nat /\ d * low \in Nat /\ low * d = d * low
  BY <1>1
<1>3. CASE k = low
  BY <1>1, <1>2, <1>3 DEF Off
<1>4. CASE k < low
  <2>1. (k * d) + d <= low * d
    BY <1>1, <1>4
  <2> QED BY <1>1, <1>2, <1>4, <2>1 DEF Off
<1>5. CASE k = low + 1
  <2>1. k * d = (low * d) + d
    BY <1>1, <1>5
  <2> QED BY <1>1, <1>2, <1>5, <2>1 DEF Off
<1>6. CASE k > low + 1
  <2>1. k * d >= (low * d) + (d + d)
    BY <1>1, <1>6
  <2> QED BY <1>1, <1>2, <1>6, <2>1 DEF Off
<1> QED BY <1>1, <1>3, <1>4, <1>5, <1>6

\* One score is nearer than all others, or two are.
LEMMA LeastIsOne ==
    ASSUME NEW O, NEW k \in 0..100, \A i \in 0..100 : O[i] \in Nat,
           \A i \in 0..100 : i = k \/ O[i] > O[k]
    PROVE  Least(O) = {k}
<1>1. k \in Least(O)
  BY SMTT(30) DEF Least
<1>2. ASSUME NEW i \in Least(O) PROVE i = k
  <2>1. i \in 0..100 /\ O[i] <= O[k]
    BY <1>2 DEF Least
  <2>2. O[i] \in Nat /\ O[k] \in Nat /\ (i = k \/ O[i] > O[k])
    BY <2>1
  <2> QED BY <2>1, <2>2
<1> QED BY <1>1, <1>2

LEMMA LeastAreTwo ==
    ASSUME NEW O, NEW k \in 0..100, NEW j \in 0..100, \A i \in 0..100 : O[i] \in Nat,
           O[j] = O[k], \A i \in 0..100 : i = k \/ i = j \/ O[i] > O[k]
    PROVE  Least(O) = {k, j}
<1>1. k \in Least(O) /\ j \in Least(O)
  <2>1. \A i \in 0..100 : O[k] <= O[i] /\ O[j] <= O[i]
    <3> SUFFICES ASSUME NEW i \in 0..100 PROVE O[k] <= O[i] /\ O[j] <= O[i]
      OBVIOUS
    <3>1. /\ O[i] \in Nat /\ O[k] \in Nat /\ O[j] \in Nat
          /\ i = k \/ i = j \/ O[i] > O[k]
      OBVIOUS
    <3> QED BY <3>1, SMTT(30)
  <2> QED BY <2>1 DEF Least
<1>2. ASSUME NEW i \in Least(O) PROVE i = k \/ i = j
  <2>1. i \in 0..100 /\ O[i] <= O[k]
    BY <1>2 DEF Least
  <2>2. O[i] \in Nat /\ O[k] \in Nat /\ (i = k \/ i = j \/ O[i] > O[k])
    BY <2>1
  <2> QED BY <2>1, <2>2
<1> QED BY <1>1, <1>2

LEMMA Closest ==
    ASSUME NEW O, NEW n, NEW d, NEW low, NEW rest,
           Parts(n, d, low, rest), Spread(O, d, low, rest)
    PROVE  /\ 2 * rest < d => Least(O) = {low}
           /\ 2 * rest > d => Least(O) = {low + 1}
           /\ 2 * rest = d => Least(O) = {low, low + 1}
<1> d \in Nat \ {0} /\ low \in 0..100 /\ rest \in 0..(d - 1)
  BY DEF Parts
<1>1. rest > 0 => low + 1 \in 0..100
  BY DEF Parts
<1>2. /\ \A k \in 0..100 : O[k] \in Nat
      /\ O[low] = rest
      /\ low + 1 \in 0..100 => O[low + 1] = d - rest
  BY DEF Spread
<1>3. ASSUME NEW k \in 0..100, k # low, k # low + 1
      PROVE  O[k] >= d + rest \/ O[k] >= d + (d - rest)
  <2>1. k < low \/ k > low + 1
    BY <1>3
  <2> QED BY <2>1 DEF Spread
<1>4. CASE 2 * rest < d
  <2>1. ASSUME NEW k \in 0..100, k # low PROVE O[k] > O[low]
    <3>1. CASE k = low + 1
      BY <1>2, <1>4, <3>1
    <3>2. CASE k # low + 1
      BY <1>2, <1>3, <1>4, <2>1, <3>2, SMTT(30)
    <3> QED BY <3>1, <3>2
  <2>2. Least(O) = {low}
    BY <1>2, <2>1, LeastIsOne
  <2> QED BY <1>4, <2>2
<1>5. CASE 2 * rest > d
  <2>1. low + 1 \in 0..100
    BY <1>1, <1>5
  <2>2. ASSUME NEW k \in 0..100, k # low + 1 PROVE O[k] > O[low + 1]
    <3>1. CASE k = low
      BY <1>2, <1>5, <2>1, <3>1
    <3>2. CASE k # low
      BY <1>2, <1>3, <1>5, <2>1, <2>2, <3>2
    <3> QED BY <3>1, <3>2
  <2>3. Least(O) = {low + 1}
    BY <1>2, <2>1, <2>2, LeastIsOne
  <2> QED BY <1>5, <2>3
<1>6. CASE 2 * rest = d
  <2>1. low + 1 \in 0..100 /\ O[low + 1] = O[low]
    BY <1>1, <1>2, <1>6
  <2>2. ASSUME NEW k \in 0..100, k # low, k # low + 1 PROVE O[k] > O[low]
    BY <1>2, <1>3, <1>6, <2>2
  <2>3. Least(O) = {low, low + 1}
    <3> DEFINE next == low + 1
    <3>1. next \in 0..100 /\ O[next] = O[low]
      BY <2>1
    <3>2. \A i \in 0..100 : i = low \/ i = next \/ O[i] > O[low]
      BY <2>2
    <3> HIDE DEF next
    <3>3. Least(O) = {low, next}
      BY <1>2, <3>1, <3>2, LeastAreTwo
    <3> QED BY <3>3 DEF next
  <2> QED BY <1>6, <2>3
<1> QED BY <1>4, <1>5, <1>6

\* round() of a mean of percentages is the nearest one, and the even one of two.
LEMMA RoundsToNearest ==
    ASSUME NEW n \in Nat, NEW d \in Nat \ {0}, n <= 100 * d
    PROVE  Rounded(n, d) =
               CHOOSE k \in Nearest(n, d) : Cardinality(Nearest(n, d)) = 1 \/ k % 2 = 0
<1> DEFINE low == n \div d
           rest == n % d
           set == Nearest(n, d)
           O == [k \in 0..100 |-> Off(n, d, k)]
<1>1. Parts(n, d, low, rest)
  BY Division
<1>2. Rounded(n, d) = IF 2 * rest > d \/ (2 * rest = d /\ low % 2 = 1) THEN low + 1 ELSE low
  BY DEF Rounded
<1>3. set = Least(O)
  BY DEF Least, Nearest
<1> HIDE DEF low, rest
<1>4. Spread(O, d, low, rest)
  BY <1>1, Distances
<1> HIDE DEF O, set
<1>5. /\ 2 * rest < d => set = {low}
      /\ 2 * rest > d => set = {low + 1}
      /\ 2 * rest = d => set = {low, low + 1}
  BY <1>1, <1>3, <1>4, Closest
<1>6. low \in 0..100 /\ rest \in 0..(d - 1)
  BY <1>1 DEF Parts
<1>7. Rounded(n, d) = CHOOSE k \in set : Cardinality(set) = 1 \/ k % 2 = 0
  <2>1. CASE 2 * rest < d
    <3>1. set = {low} /\ Cardinality(set) = 1
      BY <1>5, <2>1, FS_Singleton
    <3>2. Rounded(n, d) = low
      BY <1>6, <1>2, <2>1
    <3> QED BY <3>1, <3>2
  <2>2. CASE 2 * rest > d
    <3>1. set = {low + 1} /\ Cardinality(set) = 1
      BY <1>5, <2>2, FS_Singleton
    <3>2. Rounded(n, d) = low + 1
      BY <1>2, <2>2
    <3> QED BY <3>1, <3>2
  <2>3. CASE 2 * rest = d
    <3> DEFINE even == IF low % 2 = 1 THEN low + 1 ELSE low
    <3>1. /\ even \in {low, low + 1} /\ even % 2 = 0
          /\ \A k \in {low, low + 1} : k % 2 = 0 => k = even
      BY <1>6
    <3>2. Rounded(n, d) = even
      BY <1>6, <1>2, <2>3
    <3>3. Cardinality(set) # 1
      <4>1. low # low + 1 /\ set = {low, low + 1}
        BY <1>6, <1>5, <2>3
      <4>2. Cardinality({low} \cup {low + 1}) = 2
        <5>1. IsFiniteSet({low}) /\ Cardinality({low}) = 1
          BY FS_Singleton
        <5>2. low + 1 \notin {low}
          BY <1>6
        <5> QED BY <5>1, <5>2, FS_AddElement
      <4>3. set = {low} \cup {low + 1}
        BY <4>1
      <4> QED BY <4>2, <4>3
    <3> HIDE DEF even
    <3> QED BY <1>5, <2>3, <3>1, <3>2, <3>3
  <2> QED BY <1>6, <2>1, <2>2, <2>3
<1> QED BY <1>7 DEF set

-----------------------------------------------------------------------------
(* The scores of a report: the rule of e02_scoring.py is the nearest mean *)

Scores == 0..100 \cup {None}

\* Entries with their scores and weights, in any finite number.
Entries(e) ==
    /\ IsFiniteSet(DOMAIN e)
    /\ \A i \in DOMAIN e : e[i].score \in Scores /\ e[i].weight \in Int

LEMMA WeightsRule ==
    ASSUME NEW e, Entries(e)
    PROVE  /\ Weights(e) = [i \in DOMAIN e |-> WeightOf(e, i)]
           /\ \A i \in DOMAIN e : WeightOf(e, i) \in Nat
           /\ DOMAIN e # {} => SumFunction(Weights(e)) > 0
<1> DEFINE D == DOMAIN e
           counted == [i \in D |-> Positive(e[i].weight)]
           equal == \A j \in D : e[j].weight <= 0
<1>1. IsFiniteSet(D) /\ \A i \in D : e[i].weight \in Int
  BY DEF Entries
<1>2. \A i \in D : counted[i] \in Nat /\ (counted[i] > 0 <=> ~(e[i].weight <= 0))
  BY <1>1 DEF Positive
<1>3. SumFunction(counted) = SumFunctionOnSet(counted, D)
  BY DEF SumFunction, SumFunctionOnSet, FoldFunction, FoldFunctionOnSet
<1>4. SumFunction(counted) > 0 <=> ~equal
  <2> HIDE DEF counted
  <2>1. SumFunctionOnSet(counted, D) > 0 <=> \E i \in D : counted[i] > 0
    BY <1>1, <1>2, SumPositive
  <2> QED BY <1>2, <1>3, <2>1
<1>5. Weights(e) = [i \in D |-> WeightOf(e, i)]
  <2>1. CASE equal
    <3>1. Weights(e) = [i \in D |-> 1]
      BY <1>4, <2>1 DEF Weights
    <3>2. \A i \in D : WeightOf(e, i) = 1
      BY <2>1 DEF WeightOf
    <3> QED BY <3>1, <3>2
  <2>2. CASE ~equal
    <3>1. Weights(e) = counted
      BY <1>4, <2>2 DEF Weights
    <3>2. \A i \in D : WeightOf(e, i) = Positive(e[i].weight)
      BY <1>1, <2>2 DEF WeightOf, Positive
    <3> QED BY <3>1, <3>2
  <2> QED BY <2>1, <2>2
<1>6. \A i \in D : WeightOf(e, i) \in Nat
  BY <1>1 DEF WeightOf
<1>7. ASSUME D # {} PROVE SumFunction(Weights(e)) > 0
  <2> DEFINE w == Weights(e)
  <2>1. DOMAIN w = D /\ \A i \in D : w[i] \in Nat
    BY <1>5, <1>6
  <2>2. \E i \in D : w[i] > 0
    <3>1. CASE equal
      <4>1. \A i \in D : w[i] = 1
        BY <1>5, <3>1 DEF WeightOf
      <4> QED BY <1>7, <4>1
    <3>2. CASE ~equal
      <4>1. PICK i \in D : ~(e[i].weight <= 0)
        BY <3>2
      <4>2. w[i] = e[i].weight /\ e[i].weight \in Int
        BY <1>1, <1>5, <3>2, <4>1 DEF WeightOf
      <4> QED BY <4>1, <4>2
    <3> QED BY <3>1, <3>2
  <2> HIDE DEF w
  <2>3. SumFunction(w) = SumFunctionOnSet(w, D)
    BY <2>1 DEF SumFunction, SumFunctionOnSet, FoldFunction, FoldFunctionOnSet
  <2>4. SumFunctionOnSet(w, D) > 0
    BY <1>1, <2>1, <2>2, SumPositive
  <2> QED BY <2>3, <2>4 DEF w
<1> QED BY <1>5, <1>6, <1>7

LEMMA RoundedIsScore ==
    ASSUME NEW n \in Nat, NEW d \in Nat \ {0}, n <= 100 * d
    PROVE  Rounded(n, d) \in 0..100
<1> DEFINE low == n \div d
           rest == n % d
<1>1. low \in 0..100 /\ rest \in 0..(d - 1) /\ (low = 100 => rest = 0)
  BY Division DEF Parts
<1>2. Rounded(n, d) = IF 2 * rest > d \/ (2 * rest = d /\ low % 2 = 1) THEN low + 1 ELSE low
  BY DEF Rounded
<1> HIDE DEF low, rest
<1> QED BY <1>1, <1>2

\* What a mean is made of, and the reference it is compared with.
LEMMA MeanIsNearest ==
    ASSUME NEW e, Entries(e)
    PROVE  AggregateOf(e).score = NearestMean(e) /\ AggregateOf(e).score \in Scores
<1> DEFINE D == DOMAIN e
           S == Given(e)
           w == Weights(e)
           f == [i \in S |-> WeightOf(e, i)]
           h == [i \in S |-> WeightOf(e, i) * e[i].score]
           d == SumFunctionOnSet(f, S)
           n == SumFunctionOnSet(h, S)
<1>1. IsFiniteSet(S) /\ S \subseteq D /\ \A i \in S : e[i].score \in 0..100
  BY FS_Subset DEF Entries, Given, Scores
<1>2. w = [i \in D |-> WeightOf(e, i)] /\ \A i \in D : WeightOf(e, i) \in Nat
  BY WeightsRule
<1>3. \A i \in S : f[i] \in Nat /\ h[i] \in Nat /\ h[i] <= 100 * f[i]
  <2> SUFFICES ASSUME NEW i \in S
               PROVE  f[i] \in Nat /\ h[i] \in Nat /\ h[i] <= 100 * f[i]
    OBVIOUS
  <2>1. WeightOf(e, i) \in Nat /\ e[i].score \in 0..100
    BY <1>1, <1>2
  <2>2. WeightOf(e, i) * e[i].score \in Nat
        /\ WeightOf(e, i) * e[i].score <= 100 * WeightOf(e, i)
    <3> DEFINE x == WeightOf(e, i)
               y == e[i].score
    <3> HIDE DEF x, y
    <3>1. x \in Nat /\ y \in 0..100
      BY <2>1 DEF x, y
    <3>2. x * y \in Nat /\ x * y <= 100 * x
      BY <3>1
    <3> QED BY <3>2 DEF x, y
  <2> QED BY <2>1, <2>2
<1>4. d \in Nat /\ n \in Nat /\ n <= 100 * d
  <2> HIDE DEF f, h
  <2> QED BY <1>1, <1>3, SumPositive, SumOfPercentages
<1>5. SumFunctionOnSet(w, S) = d
  <2>1. \A i \in S : w[i] = f[i]
    BY <1>1, <1>2
  <2> QED BY <2>1, SumSame
<1>6. SumFunction([i \in S |-> w[i] * e[i].score]) = n
  <2>1. [i \in S |-> w[i] * e[i].score] = h
    BY <1>1, <1>2
  <2>2. SumFunction(h) = n
    BY DEF SumFunction, SumFunctionOnSet, FoldFunction, FoldFunctionOnSet
  <2> QED BY <2>1, <2>2
<1>7. SumFunction(f) = d
  BY DEF SumFunction, SumFunctionOnSet, FoldFunction, FoldFunctionOnSet
<1>8. AggregateOf(e).score = IF d > 0 THEN Rounded(n, d) ELSE None
  BY <1>5, <1>6 DEF AggregateOf, Mean, Given
<1>9. NearestMean(e) =
        IF d = 0 THEN None
        ELSE CHOOSE k \in Nearest(n, d) : Cardinality(Nearest(n, d)) = 1 \/ k % 2 = 0
  <2>1. SumFunction(h) = n
    BY DEF SumFunction, SumFunctionOnSet, FoldFunction, FoldFunctionOnSet
  <2>2. NearestMean(e) =
          IF SumFunction(f) = 0 THEN None
          ELSE CHOOSE k \in Nearest(SumFunction(h), SumFunction(f)) :
                   Cardinality(Nearest(SumFunction(h), SumFunction(f))) = 1 \/ k % 2 = 0
    BY DEF NearestMean
  <2> QED BY <1>7, <2>1, <2>2
<1> HIDE DEF n, d
<1>10. CASE d = 0
  BY <1>4, <1>8, <1>9, <1>10 DEF Scores
<1>11. CASE d > 0
  <2>1. Rounded(n, d) \in 0..100
    BY <1>4, <1>11, RoundedIsScore, SMTT(30)
  <2>2. Rounded(n, d) = CHOOSE k \in Nearest(n, d) : Cardinality(Nearest(n, d)) = 1 \/ k % 2 = 0
    BY <1>4, <1>11, RoundsToNearest
  <2>3. d # 0
    BY <1>4, <1>11
  <2>4. AggregateOf(e).score = Rounded(n, d)
    BY <1>8, <1>11
  <2>5. NearestMean(e) = Rounded(n, d)
    BY <1>9, <2>2, <2>3
  <2> QED BY <2>1, <2>4, <2>5 DEF Scores
<1> QED BY <1>4, <1>10, <1>11

\* The entries an aggregate of axes is made of.
Selected(axes, separated) ==
    RestrictValues(axes, LAMBDA axis : ~(separated /\ axis.name = "communication"))

LEMMA AxisEntries ==
    ASSUME NEW axes \in Seq(AxisForms), NEW separated
    PROVE  /\ Entries(Selected(axes, separated))
           /\ CriterionAggregate(axes, separated) = AggregateOf(Selected(axes, separated))
<1> DEFINE S == {i \in DOMAIN axes : ~(separated /\ axes[i].name = "communication")}
<1>1. DOMAIN axes = 1..Len(axes) /\ Len(axes) \in Nat /\ \A i \in DOMAIN axes : axes[i] \in AxisForms
  OBVIOUS
<1>2. IsFiniteSet(S)
  <2>1. IsFiniteSet(1..Len(axes))
    BY <1>1, FS_Interval
  <2> QED BY <1>1, <2>1, FS_Subset
<1>3. Selected(axes, separated) = [i \in S |-> axes[i]]
  BY DEF Selected, RestrictValues, Restrict
<1>4. \A i \in S : axes[i].score \in Scores /\ axes[i].weight \in Int
  BY <1>1 DEF AxisForms, Scores
<1>5. CriterionAggregate(axes, separated) = AggregateOf(Selected(axes, separated))
  BY DEF CriterionAggregate, Selected
<1> HIDE DEF S
<1> QED BY <1>2, <1>3, <1>4, <1>5 DEF Entries

\* A report is scored by the nearest means, of its axes and then of its criteria.
LEMMA ReportScore ==
    ASSUME NEW report \in ReportForms,
           NEW made, made = ReportAggregate(report.items, report.separated)
    PROVE  made.score = NearestScore(report) /\ made.score \in Scores /\ made # NoInputs
<1> DEFINE items == report.items
           Axes(i) == Selected(items[i].axes, report.separated)
           e == [i \in DOMAIN items |->
                    [score |-> CriterionAggregate(items[i].axes, report.separated).score,
                     weight |-> items[i].weight]]
<1>1. /\ DOMAIN items = 1..Len(items) /\ Len(items) \in Nat /\ Len(items) > 0
      /\ \A i \in DOMAIN items : items[i].weight \in Int /\ items[i].axes \in Seq(AxisForms)
  <2> DEFINE Forms == [weight : Int, axes : Seq(AxisForms)]
  <2>1. items \in Seq(Forms) /\ items # <<>>
    BY DEF ReportForms
  <2>2. \A form \in Forms : form.weight \in Int /\ form.axes \in Seq(AxisForms)
    OBVIOUS
  <2> HIDE DEF Forms, items
  <2> QED BY <2>1, <2>2
<1>2. \A i \in DOMAIN items :
          /\ CriterionAggregate(items[i].axes, report.separated).score = NearestMean(Axes(i))
          /\ CriterionAggregate(items[i].axes, report.separated).score \in Scores
  BY <1>1, AxisEntries, MeanIsNearest
<1>3. /\ DOMAIN e = DOMAIN items
      /\ \A i \in DOMAIN e : e[i].score \in Scores /\ e[i].weight \in Int
  BY <1>1, <1>2
<1>4. Entries(e)
  <2>1. IsFiniteSet(1..Len(items))
    BY <1>1, FS_Interval
  <2> QED BY <1>1, <1>3, <2>1 DEF Entries
<1>5. made = AggregateOf(e)
  BY DEF ReportAggregate
<1>6. NearestScore(report) = NearestMean(e)
  <2>1. e = [i \in DOMAIN items |->
                [score |-> NearestMean(Axes(i)), weight |-> items[i].weight]]
    BY <1>2
  <2> HIDE DEF e
  <2> QED BY <2>1 DEF NearestScore, Selected
<1> HIDE DEF e
<1>7. made # NoInputs
  <2>1. 1 \in DOMAIN e
    BY <1>1, <1>3
  <2>2. SumFunction(Weights(e)) > 0
    BY <1>4, <2>1, WeightsRule
  <2>3. made.total = SumFunction(Weights(e))
    BY <1>5 DEF AggregateOf, Mean
  <2> QED BY <2>2, <2>3 DEF NoInputs
<1> QED BY <1>4, <1>5, <1>6, <1>7, MeanIsNearest

-----------------------------------------------------------------------------
(* E-02: a first report, and what becomes of it when the criteria change *)

LEMMA MadeReport ==
    ASSUME NEW version, NEW report
    PROVE  /\ Report(version, report).source = "PRESENT"
           /\ Report(version, report).version = version
           /\ Report(version, report).report = report
           /\ Report(version, report) # Absent /\ Report(version, report) # Unavailable
  BY DEF Report, Absent, Unavailable

LEMMA FirstMade ==
    /\ FirstReport.source = "PRESENT" /\ FirstReport # Absent
    /\ FirstReport.version = 1 /\ FirstReport.report = world.report
    /\ FirstAfter.source = "PRESENT" /\ FirstAfter # Absent
    /\ FirstAfter.report = world.report
    /\ FirstAfter.version = (IF flaw = "rewrites" THEN 2 ELSE 1)
    /\ SecondReport.source = "PRESENT" /\ SecondReport # Absent
    /\ SecondReport.report = world.report
    /\ SecondReport.version = (IF flaw = "binds-old" THEN 1 ELSE 2)
  BY MadeReport DEF FirstReport, FirstAfter, SecondReport

\* The reports of a target are the same as long as its flaw and what it grades are.
LEMMA ReportsStay ==
    ASSUME flaw' = flaw, world'.report = world.report
    PROVE  /\ FirstReport' = FirstReport /\ FirstAfter' = FirstAfter
           /\ SecondReport' = SecondReport /\ FirstServed' = FirstServed
           /\ AfterServed' = AfterServed /\ SecondServed' = SecondServed
<1>1. FirstReport' = FirstReport /\ FirstAfter' = FirstAfter /\ SecondReport' = SecondReport
  BY DEF FirstReport, FirstAfter, SecondReport, Report
<1> QED BY <1>1 DEF FirstServed, AfterServed, SecondServed, ServedReport

LEMMA FreezeStarts == Init /\ topic = "E-02" => FreezeInv
<1> SUFFICES ASSUME Init, topic = "E-02" PROVE FreezeInv
  OBVIOUS
<1>1. FreezeInit
  BY DEF Init
<1>2. PICK report \in ReportForms :
        world = [published |-> 0, report |-> report, first |-> Absent, second |-> Absent,
                 asked |-> "none"]
  BY <1>1, ReportsAssumption DEF FreezeInit
<1>3. /\ flaw \in FreezeFlaws /\ outage \in FreezeOutages /\ stage = "v1" /\ verdict = "none"
      /\ seen = [v1 |-> 0, v2 |-> 0, preRecord |-> Absent, postRecord |-> Absent,
                 second |-> Absent, pre |-> NotRead, post |-> NotRead, secondRead |-> NotRead]
  BY <1>1 DEF FreezeInit
<1>4. FreezeShape
  BY <1>2, <1>3 DEF FreezeShape, FreezeStages
<1>5. ReportsFit
  BY <1>2, <1>3 DEF ReportsFit
<1>6. RecordsFit /\ AllAreRead /\ FreezeJudged
  BY <1>3 DEF RecordsFit, RecordFits, ReadFits, AllAreRead, FreezeJudged, Ended
<1> QED BY <1>4, <1>5, <1>6 DEF FreezeInv

LEMMA FreezeStands ==
    ASSUME FreezeInv, UNCHANGED vars PROVE FreezeInv'
<1>1. UNCHANGED <<topic, flaw, outage, stage, world, seen, verdict>>
  BY DEF vars
<1>2. /\ FirstReport' = FirstReport /\ FirstAfter' = FirstAfter
      /\ SecondReport' = SecondReport /\ FirstServed' = FirstServed
      /\ AfterServed' = AfterServed /\ SecondServed' = SecondServed
  BY <1>1, ReportsStay
<1>3. FreezeShape' /\ ReportsFit'
  BY <1>1, <1>2 DEF FreezeInv, FreezeShape, ReportsFit
<1>4. RecordsFit' /\ AllAreRead'
  BY <1>1, <1>2 DEF FreezeInv, RecordsFit, RecordFits, ReadFits, AllAreRead, Answering, Sound
<1>5. FreezeJudged'
  BY <1>1 DEF FreezeInv, FreezeJudged, FreezeHolds, Ended, Answering, Sound
<1> QED BY <1>3, <1>4, <1>5 DEF FreezeInv

LEMMA MakesReportKeeps ==
    ASSUME FreezeInv, MakesReport PROVE FreezeInv'
<1> DEFINE made == Report(IF flaw = "binds-old" THEN 1 ELSE world.published, world.report)
<1>1. /\ world.asked # "none" /\ outage # "late"
      /\ world' = [world EXCEPT ![world.asked] = made, !.asked = "none"]
      /\ UNCHANGED <<topic, flaw, outage, stage, seen, verdict>>
  BY DEF MakesReport, Change
<1>2. \/ stage = "first" /\ world.asked = "first" /\ made = FirstReport
      \/ stage = "second" /\ world.asked = "second" /\ made = SecondReport
  <2>1. \/ stage = "first" /\ world.asked = "first" /\ world.published = 1
        \/ stage = "second" /\ world.asked = "second" /\ world.published = 2
    BY <1>1 DEF FreezeInv, FreezeShape, FreezeStages, ReportsFit
  <2> QED BY <2>1 DEF FirstReport, SecondReport
<1> HIDE DEF made
<1>3. /\ world'.published = world.published /\ world'.report = world.report
      /\ world'.asked = "none"
      /\ stage = "first" => world'.first = FirstReport /\ world'.second = world.second
      /\ stage = "second" => world'.second = SecondReport /\ world'.first = world.first
      /\ world' = [published |-> world'.published, report |-> world'.report,
                   first |-> world'.first, second |-> world'.second, asked |-> world'.asked]
  <2>1. world = [published |-> world.published, report |-> world.report, first |-> world.first,
                 second |-> world.second, asked |-> world.asked]
    BY DEF FreezeInv, FreezeShape
  <2>2. CASE stage = "first"
    <3>1. world' = [published |-> world.published, report |-> world.report,
                    first |-> FirstReport, second |-> world.second, asked |-> "none"]
      BY <1>1, <1>2, <2>1, <2>2
    <3> QED BY <2>2, <3>1
  <2>3. CASE stage = "second"
    <3>1. world' = [published |-> world.published, report |-> world.report,
                    first |-> world.first, second |-> SecondReport, asked |-> "none"]
      BY <1>1, <1>2, <2>1, <2>3
    <3> QED BY <2>3, <3>1
  <2> QED BY <1>2, <2>2, <2>3
<1>4. /\ FirstReport' = FirstReport /\ FirstAfter' = FirstAfter
      /\ SecondReport' = SecondReport /\ FirstServed' = FirstServed
      /\ AfterServed' = AfterServed /\ SecondServed' = SecondServed
  BY <1>1, <1>3, ReportsStay
<1>5. FreezeShape'
  BY <1>1, <1>3 DEF FreezeInv, FreezeShape
<1>6. ReportsFit'
  BY <1>1, <1>2, <1>3, <1>4 DEF FreezeInv, ReportsFit
<1>7. RecordsFit'
  <2>1. UNCHANGED <<flaw, outage, stage, seen>>
    BY <1>1
  <2> QED BY <1>4, <2>1 DEF FreezeInv, RecordsFit, RecordFits, ReadFits
<1>8. AllAreRead'
  <2>1. UNCHANGED <<flaw, outage, stage, seen>>
    BY <1>1
  <2> QED BY <1>4, <2>1 DEF FreezeInv, AllAreRead, Answering, Sound
<1>9. FreezeJudged'
  BY <1>1, <1>2 DEF FreezeInv, FreezeJudged, Ended
<1> QED BY <1>5, <1>6, <1>7, <1>8, <1>9 DEF FreezeInv

-----------------------------------------------------------------------------
(* The Run of E-02 *)

\* A version that cannot be published stops the journey.
LEMMA NothingPublished ==
    ASSUME FreezeInv, outage = "publish", stage \in {"v1", "v2"}, stage' = "judge",
           UNCHANGED <<topic, flaw, outage, world, seen, verdict>>
    PROVE  FreezeInv'
<1>1. /\ FirstReport' = FirstReport /\ FirstAfter' = FirstAfter
      /\ SecondReport' = SecondReport /\ FirstServed' = FirstServed
      /\ AfterServed' = AfterServed /\ SecondServed' = SecondServed
  BY ReportsStay
<1>2. FreezeShape'
  BY DEF FreezeInv, FreezeShape, FreezeStages
<1>3. ReportsFit'
  BY <1>1 DEF FreezeInv, ReportsFit, RecordsFit
<1>4. RecordsFit'
  BY <1>1 DEF FreezeInv, RecordsFit, RecordFits, ReadFits
<1>5. AllAreRead' /\ FreezeJudged'
  BY DEF FreezeInv, AllAreRead, FreezeJudged, Ended, Answering
<1> QED BY <1>2, <1>3, <1>4, <1>5 DEF FreezeInv

LEMMA PublishFirstKeeps ==
    ASSUME FreezeInv, Publish("v1", 1, "v1", "first") PROVE FreezeInv'
<1>1. CASE stage = "v1" /\ outage = "publish" /\ stage' = "judge"
           /\ UNCHANGED <<topic, flaw, outage, world, seen, verdict>>
  BY <1>1, NothingPublished
<1>2. CASE /\ stage = "v1" /\ stage' = "first"
           /\ world' = [world EXCEPT !.published = 1,
                          !.first = IF flaw = "rewrites" /\ @ # Absent THEN Report(1, @.report)
                                    ELSE @,
                          !.asked = "first"]
           /\ seen' = [seen EXCEPT !.v1 = 1]
           /\ UNCHANGED <<topic, flaw, outage, verdict>>
  <2>1. world.first = Absent /\ world.second = Absent
    BY <1>2 DEF FreezeInv, ReportsFit
  <2>2. /\ world' = [published |-> 1, report |-> world.report, first |-> Absent,
                     second |-> Absent, asked |-> "first"]
        /\ seen' = [v1 |-> 1, v2 |-> seen.v2, preRecord |-> seen.preRecord,
                    postRecord |-> seen.postRecord, second |-> seen.second, pre |-> seen.pre,
                    post |-> seen.post, secondRead |-> seen.secondRead]
    BY <1>2, <2>1 DEF FreezeInv, FreezeShape
  <2>3. /\ FirstReport' = FirstReport /\ FirstAfter' = FirstAfter
        /\ SecondReport' = SecondReport /\ FirstServed' = FirstServed
        /\ AfterServed' = AfterServed /\ SecondServed' = SecondServed
    BY <1>2, <2>2, ReportsStay
  <2> USE <1>2, <2>2 DEF FreezeInv
  <2>4. FreezeShape'
    BY DEF FreezeShape, FreezeStages
  <2>5. ReportsFit'
    BY <2>3 DEF ReportsFit
  <2>6. RecordsFit'
    BY <2>3 DEF RecordsFit, RecordFits, ReadFits
  <2>7. AllAreRead' /\ FreezeJudged'
    BY DEF AllAreRead, FreezeJudged, Ended
  <2> QED BY <2>4, <2>5, <2>6, <2>7 DEF FreezeInv
<1> QED BY <1>1, <1>2 DEF Publish, Reads, Do, Look, Asked

LEMMA PublishSecondKeeps ==
    ASSUME FreezeInv, Publish("v2", 2, "v2", "second") PROVE FreezeInv'
<1>1. CASE stage = "v2" /\ outage = "publish" /\ stage' = "judge"
           /\ UNCHANGED <<topic, flaw, outage, world, seen, verdict>>
  BY <1>1, NothingPublished
<1>2. CASE /\ stage = "v2" /\ stage' = "second"
           /\ world' = [world EXCEPT !.published = 2,
                          !.first = IF flaw = "rewrites" /\ @ # Absent THEN Report(2, @.report)
                                    ELSE @,
                          !.asked = "second"]
           /\ seen' = [seen EXCEPT !.v2 = 2]
           /\ UNCHANGED <<topic, flaw, outage, verdict>>
  <2> DEFINE first == IF flaw = "rewrites" /\ world.first # Absent
                      THEN Report(2, world.first.report) ELSE world.first
  <2>1. /\ world.second = Absent
        /\ outage = "late" => first = Absent
        /\ outage # "late" => first = FirstAfter
    <3>1. outage # "late" => world.first = FirstReport
      BY <1>2 DEF FreezeInv, ReportsFit
    <3>2. outage # "late" => first = FirstAfter
      BY <3>1, FirstMade DEF FirstReport, FirstAfter
    <3> QED BY <1>2, <3>2 DEF FreezeInv, ReportsFit
  <2>2. /\ world' = [published |-> 2, report |-> world.report, first |-> first,
                     second |-> Absent, asked |-> "second"]
        /\ seen' = [v1 |-> seen.v1, v2 |-> 2, preRecord |-> seen.preRecord,
                    postRecord |-> seen.postRecord, second |-> seen.second, pre |-> seen.pre,
                    post |-> seen.post, secondRead |-> seen.secondRead]
    BY <1>2, <2>1 DEF FreezeInv, FreezeShape
  <2> HIDE DEF first
  <2>3. /\ FirstReport' = FirstReport /\ FirstAfter' = FirstAfter
        /\ SecondReport' = SecondReport /\ FirstServed' = FirstServed
        /\ AfterServed' = AfterServed /\ SecondServed' = SecondServed
    BY <1>2, <2>2, ReportsStay
  <2>4. FreezeShape'
    BY <1>2, <2>2 DEF FreezeInv, FreezeShape, FreezeStages
  <2>5. ReportsFit'
    <3>1. /\ world'.first = first /\ world'.second = Absent /\ world'.published = 2
          /\ world'.asked = "second"
      BY <2>2
    <3>2. stage' = "second" /\ outage' = outage
      BY <1>2
    <3> QED BY <2>1, <2>3, <3>1, <3>2 DEF ReportsFit
  <2>6. RecordsFit'
    BY <1>2, <2>2, <2>3 DEF FreezeInv, RecordsFit, RecordFits, ReadFits
  <2>7. AllAreRead'
    BY <1>2, <2>2, <2>3 DEF FreezeInv, AllAreRead, Answering, Sound
  <2>8. FreezeJudged'
    BY <1>2 DEF FreezeInv, FreezeJudged, Ended
  <2> QED BY <2>4, <2>5, <2>6, <2>7, <2>8 DEF FreezeInv
<1>3. \/ outage = "publish" /\ Look("v2", seen, "judge")
      \/ Do("v2",
            [world EXCEPT !.published = 2,
               !.first = IF flaw = "rewrites" /\ @ # Absent THEN Report(2, @.report) ELSE @,
               !.asked = Asked(2)],
            [seen EXCEPT !["v2"] = 2], "second")
  BY DEF Publish, Reads
<1>4. Asked(2) = "second"
  BY DEF Asked
<1> QED BY <1>1, <1>2, <1>3, <1>4 DEF Do, Look

\* A report is waited for, and its record is read: it is the one its version made.
LEMMA WaitFirstKeeps ==
    ASSUME FreezeInv, Wait("first", "first", "preRecord", "first-read") PROVE FreezeInv'
<1>1. PICK read \in Records(world.first) :
        /\ stage = "first" /\ stage' = "first-read"
        /\ seen' = [seen EXCEPT !["preRecord"] = read]
        /\ UNCHANGED <<topic, flaw, outage, world, verdict>>
        /\ world.first # Absent \/ outage = "late"
  BY DEF Wait, Look, Do
<1>2. /\ outage # "late" => world.first = FirstReport /\ world.asked = "none"
      /\ read \in {Absent, Unavailable} \/ (read = FirstReport /\ outage # "late")
      /\ Answering => read = FirstReport
  <2>1. outage # "late" => world.first = FirstReport /\ world.asked = "none"
    BY <1>1, FirstMade DEF FreezeInv, ReportsFit
  <2>2. outage = "late" => world.first = Absent
    BY DEF FreezeInv, ReportsFit
  <2>3. outage = "records" \/ read = world.first
    BY <1>1 DEF Records, Reads
  <2>4. read = Unavailable \/ read = world.first
    BY <1>1 DEF Records, Reads
  <2> QED BY <2>1, <2>2, <2>3, <2>4 DEF Answering
<1>3. seen' = [v1 |-> seen.v1, v2 |-> seen.v2, preRecord |-> read, postRecord |-> seen.postRecord,
               second |-> seen.second, pre |-> seen.pre, post |-> seen.post,
               secondRead |-> seen.secondRead]
  BY <1>1 DEF FreezeInv, FreezeShape
<1>4. /\ FirstReport' = FirstReport /\ FirstAfter' = FirstAfter
      /\ SecondReport' = SecondReport /\ FirstServed' = FirstServed
      /\ AfterServed' = AfterServed /\ SecondServed' = SecondServed
  BY <1>1, ReportsStay
<1> USE <1>1, <1>3 DEF FreezeInv
<1>5. FreezeShape'
  BY DEF FreezeShape, FreezeStages
<1>6. ReportsFit'
  BY <1>2, <1>4 DEF ReportsFit
<1>7. RecordsFit'
  BY <1>2, <1>4 DEF RecordsFit, RecordFits, ReadFits
<1>8. AllAreRead'
  BY <1>2, <1>4 DEF AllAreRead, Answering, Sound
<1>9. FreezeJudged'
  BY <1>1 DEF FreezeInv, FreezeJudged, Ended
<1> QED BY <1>5, <1>6, <1>7, <1>8, <1>9 DEF FreezeInv

LEMMA WaitSecondKeeps ==
    ASSUME FreezeInv, Wait("second", "second", "second", "second-read") PROVE FreezeInv'
<1>1. PICK read \in Records(world.second) :
        /\ stage = "second" /\ stage' = "second-read"
        /\ seen' = [seen EXCEPT !["second"] = read]
        /\ UNCHANGED <<topic, flaw, outage, world, verdict>>
        /\ world.second # Absent \/ outage = "late"
  BY DEF Wait, Look, Do
<1>2. /\ outage # "late" => world.second = SecondReport /\ world.asked = "none"
      /\ read \in {Absent, Unavailable} \/ (read = SecondReport /\ outage # "late")
      /\ Answering => read = SecondReport
  <2>1. outage # "late" => world.second = SecondReport /\ world.asked = "none"
    BY <1>1, FirstMade DEF FreezeInv, ReportsFit
  <2>2. outage = "late" => world.second = Absent
    BY DEF FreezeInv, ReportsFit
  <2>3. outage = "records" \/ read = world.second
    BY <1>1 DEF Records, Reads
  <2>4. read = Unavailable \/ read = world.second
    BY <1>1 DEF Records, Reads
  <2> QED BY <2>1, <2>2, <2>3, <2>4 DEF Answering
<1>3. seen' = [v1 |-> seen.v1, v2 |-> seen.v2, preRecord |-> seen.preRecord, postRecord |-> seen.postRecord,
               second |-> read, pre |-> seen.pre, post |-> seen.post,
               secondRead |-> seen.secondRead]
  BY <1>1 DEF FreezeInv, FreezeShape
<1>4. /\ FirstReport' = FirstReport /\ FirstAfter' = FirstAfter
      /\ SecondReport' = SecondReport /\ FirstServed' = FirstServed
      /\ AfterServed' = AfterServed /\ SecondServed' = SecondServed
  BY <1>1, ReportsStay
<1> USE <1>1, <1>3 DEF FreezeInv
<1>5. FreezeShape'
  BY DEF FreezeShape, FreezeStages
<1>6. ReportsFit'
  BY <1>2, <1>4 DEF ReportsFit
<1>7. RecordsFit'
  BY <1>2, <1>4 DEF RecordsFit, RecordFits, ReadFits
<1>8. AllAreRead'
  BY <1>2, <1>4 DEF AllAreRead, Answering, Sound
<1>9. FreezeJudged'
  BY <1>1 DEF FreezeInv, FreezeJudged, Ended
<1> QED BY <1>5, <1>6, <1>7, <1>8, <1>9 DEF FreezeInv

LEMMA WaitPostKeeps ==
    ASSUME FreezeInv, Wait("post", "first", "postRecord", "post-read") PROVE FreezeInv'
<1>1. PICK read \in Records(world.first) :
        /\ stage = "post" /\ stage' = "post-read"
        /\ seen' = [seen EXCEPT !["postRecord"] = read]
        /\ UNCHANGED <<topic, flaw, outage, world, verdict>>
        /\ world.first # Absent \/ outage = "late"
  BY DEF Wait, Look, Do
<1>2. /\ outage # "late" => world.first = FirstAfter /\ world.asked = "none"
      /\ read \in {Absent, Unavailable} \/ (read = FirstAfter /\ outage # "late")
      /\ Answering => read = FirstAfter
  <2>1. outage # "late" => world.first = FirstAfter /\ world.asked = "none"
    BY <1>1, FirstMade DEF FreezeInv, ReportsFit
  <2>2. outage = "late" => world.first = Absent
    BY DEF FreezeInv, ReportsFit
  <2>3. outage = "records" \/ read = world.first
    BY <1>1 DEF Records, Reads
  <2>4. read = Unavailable \/ read = world.first
    BY <1>1 DEF Records, Reads
  <2> QED BY <2>1, <2>2, <2>3, <2>4 DEF Answering
<1>3. seen' = [v1 |-> seen.v1, v2 |-> seen.v2, preRecord |-> seen.preRecord, postRecord |-> read,
               second |-> seen.second, pre |-> seen.pre, post |-> seen.post,
               secondRead |-> seen.secondRead]
  BY <1>1 DEF FreezeInv, FreezeShape
<1>4. /\ FirstReport' = FirstReport /\ FirstAfter' = FirstAfter
      /\ SecondReport' = SecondReport /\ FirstServed' = FirstServed
      /\ AfterServed' = AfterServed /\ SecondServed' = SecondServed
  BY <1>1, ReportsStay
<1> USE <1>1, <1>3 DEF FreezeInv
<1>5. FreezeShape'
  BY DEF FreezeShape, FreezeStages
<1>6. ReportsFit'
  BY <1>2, <1>4 DEF ReportsFit
<1>7. RecordsFit'
  BY <1>2, <1>4 DEF RecordsFit, RecordFits, ReadFits
<1>8. AllAreRead'
  BY <1>2, <1>4 DEF AllAreRead, Answering, Sound
<1>9. FreezeJudged'
  BY <1>1 DEF FreezeInv, FreezeJudged, Ended
<1> QED BY <1>5, <1>6, <1>7, <1>8, <1>9 DEF FreezeInv

\* What is served of a report is computed from its record, as it is then.
LEMMA ServeFirstKeeps ==
    ASSUME FreezeInv, Serve("first-read", "first", "pre", "v2") PROVE FreezeInv'
<1>1. PICK read \in ServedReads(IF world.first = Absent THEN Broken ELSE ServedReport(world.first)) :
        /\ stage = "first-read" /\ stage' = "v2"
        /\ seen' = [seen EXCEPT !["pre"] = read]
        /\ UNCHANGED <<topic, flaw, outage, world, verdict>>
  BY DEF Serve, Look, Do
<1>2. /\ read = NotRead \/ read = FirstServed \/ (read = Broken /\ outage \in {"late", "api"})
      /\ Answering => read = FirstServed
  <2>1. outage # "late" => world.first = FirstReport /\ world.first # Absent
    BY <1>1, FirstMade DEF FreezeInv, ReportsFit
  <2>2. outage = "late" => world.first = Absent
    BY DEF FreezeInv, ReportsFit
  <2>3. outage # "late" => read = FirstServed \/ (outage = "api" /\ read \in {Broken, NotRead})
    BY <1>1, <2>1 DEF ServedReads, FirstServed
  <2>4. outage = "late" => read = Broken
    BY <1>1, <2>2 DEF ServedReads
  <2> QED BY <2>3, <2>4 DEF Answering
<1>3. seen' = [v1 |-> seen.v1, v2 |-> seen.v2, preRecord |-> seen.preRecord, postRecord |-> seen.postRecord,
               second |-> seen.second, pre |-> read, post |-> seen.post,
               secondRead |-> seen.secondRead]
  BY <1>1 DEF FreezeInv, FreezeShape
<1>4. /\ FirstReport' = FirstReport /\ FirstAfter' = FirstAfter
      /\ SecondReport' = SecondReport /\ FirstServed' = FirstServed
      /\ AfterServed' = AfterServed /\ SecondServed' = SecondServed
  BY <1>1, ReportsStay
<1> USE <1>1, <1>3 DEF FreezeInv
<1>5. FreezeShape'
  BY DEF FreezeShape, FreezeStages
<1>6. ReportsFit'
  BY <1>2, <1>4 DEF ReportsFit
<1>7. RecordsFit'
  BY <1>2, <1>4 DEF RecordsFit, RecordFits, ReadFits
<1>8. AllAreRead'
  BY <1>2, <1>4 DEF AllAreRead, Answering, Sound
<1>9. FreezeJudged'
  BY <1>1 DEF FreezeInv, FreezeJudged, Ended
<1> QED BY <1>5, <1>6, <1>7, <1>8, <1>9 DEF FreezeInv

LEMMA ServeSecondKeeps ==
    ASSUME FreezeInv, Serve("second-read", "second", "secondRead", "post") PROVE FreezeInv'
<1>1. PICK read \in ServedReads(IF world.second = Absent THEN Broken ELSE ServedReport(world.second)) :
        /\ stage = "second-read" /\ stage' = "post"
        /\ seen' = [seen EXCEPT !["secondRead"] = read]
        /\ UNCHANGED <<topic, flaw, outage, world, verdict>>
  BY DEF Serve, Look, Do
<1>2. /\ read = NotRead \/ read = SecondServed \/ (read = Broken /\ outage \in {"late", "api"})
      /\ Answering => read = SecondServed
  <2>1. outage # "late" => world.second = SecondReport /\ world.second # Absent
    BY <1>1, FirstMade DEF FreezeInv, ReportsFit
  <2>2. outage = "late" => world.second = Absent
    BY DEF FreezeInv, ReportsFit
  <2>3. outage # "late" => read = SecondServed \/ (outage = "api" /\ read \in {Broken, NotRead})
    BY <1>1, <2>1 DEF ServedReads, SecondServed
  <2>4. outage = "late" => read = Broken
    BY <1>1, <2>2 DEF ServedReads
  <2> QED BY <2>3, <2>4 DEF Answering
<1>3. seen' = [v1 |-> seen.v1, v2 |-> seen.v2, preRecord |-> seen.preRecord, postRecord |-> seen.postRecord,
               second |-> seen.second, pre |-> seen.pre, post |-> seen.post,
               secondRead |-> read]
  BY <1>1 DEF FreezeInv, FreezeShape
<1>4. /\ FirstReport' = FirstReport /\ FirstAfter' = FirstAfter
      /\ SecondReport' = SecondReport /\ FirstServed' = FirstServed
      /\ AfterServed' = AfterServed /\ SecondServed' = SecondServed
  BY <1>1, ReportsStay
<1> USE <1>1, <1>3 DEF FreezeInv
<1>5. FreezeShape'
  BY DEF FreezeShape, FreezeStages
<1>6. ReportsFit'
  BY <1>2, <1>4 DEF ReportsFit
<1>7. RecordsFit'
  BY <1>2, <1>4 DEF RecordsFit, RecordFits, ReadFits
<1>8. AllAreRead'
  BY <1>2, <1>4 DEF AllAreRead, Answering, Sound
<1>9. FreezeJudged'
  BY <1>1 DEF FreezeInv, FreezeJudged, Ended
<1> QED BY <1>5, <1>6, <1>7, <1>8, <1>9 DEF FreezeInv

LEMMA ServePostKeeps ==
    ASSUME FreezeInv, Serve("post-read", "first", "post", "judge") PROVE FreezeInv'
<1>1. PICK read \in ServedReads(IF world.first = Absent THEN Broken ELSE ServedReport(world.first)) :
        /\ stage = "post-read" /\ stage' = "judge"
        /\ seen' = [seen EXCEPT !["post"] = read]
        /\ UNCHANGED <<topic, flaw, outage, world, verdict>>
  BY DEF Serve, Look, Do
<1>2. /\ read = NotRead \/ read = AfterServed \/ (read = Broken /\ outage \in {"late", "api"})
      /\ Answering => read = AfterServed
  <2>1. outage # "late" => world.first = FirstAfter /\ world.first # Absent
    BY <1>1, FirstMade DEF FreezeInv, ReportsFit
  <2>2. outage = "late" => world.first = Absent
    BY DEF FreezeInv, ReportsFit
  <2>3. outage # "late" => read = AfterServed \/ (outage = "api" /\ read \in {Broken, NotRead})
    BY <1>1, <2>1 DEF ServedReads, AfterServed
  <2>4. outage = "late" => read = Broken
    BY <1>1, <2>2 DEF ServedReads
  <2> QED BY <2>3, <2>4 DEF Answering
<1>3. seen' = [v1 |-> seen.v1, v2 |-> seen.v2, preRecord |-> seen.preRecord, postRecord |-> seen.postRecord,
               second |-> seen.second, pre |-> seen.pre, post |-> read,
               secondRead |-> seen.secondRead]
  BY <1>1 DEF FreezeInv, FreezeShape
<1>4. /\ FirstReport' = FirstReport /\ FirstAfter' = FirstAfter
      /\ SecondReport' = SecondReport /\ FirstServed' = FirstServed
      /\ AfterServed' = AfterServed /\ SecondServed' = SecondServed
  BY <1>1, ReportsStay
<1> USE <1>1, <1>3 DEF FreezeInv
<1>5. FreezeShape'
  BY DEF FreezeShape, FreezeStages
<1>6. ReportsFit'
  BY <1>2, <1>4 DEF ReportsFit
<1>7. RecordsFit'
  BY <1>2, <1>4 DEF RecordsFit, RecordFits, ReadFits
<1>8. AllAreRead'
  BY <1>2, <1>4 DEF AllAreRead, Answering, Sound
<1>9. FreezeJudged'
  BY <1>1 DEF FreezeInv, FreezeJudged, Ended
<1> QED BY <1>5, <1>6, <1>7, <1>8, <1>9 DEF FreezeInv

\* What a report says of its score, and what is served of it.
LEMMA ReportStored ==
    ASSUME NEW version, NEW report \in ReportForms, NEW stored, stored = Report(version, report),
           NEW computed, computed = ReportAggregate(report.items, report.separated)
    PROVE  /\ stored.inputs = (IF flaw = "loses-inputs" THEN NoInputs ELSE computed)
           /\ flaw # "truncates" => stored.overall = computed.score
           /\ stored.source = "PRESENT" /\ stored.version = version /\ stored.report = report
           /\ ServedReport(stored).status = 200
           /\ ServedReport(stored).breakdown = stored.inputs
           /\ ServedReport(stored).overall =
                (IF flaw = "serves-stale" THEN stored.overall + 1 ELSE stored.overall)
           /\ ServedReport(stored).averages = Averages(report, flaw = "averages-all")
           /\ computed.score = NearestScore(report) /\ computed.score \in Int
           /\ computed # NoInputs
<1>1. computed.score = NearestScore(report) /\ computed.score \in Scores /\ computed # NoInputs
  BY ReportScore
<1>2. computed.score \in Int
  BY <1>1 DEF Scores, None
<1>3. /\ stored.inputs = (IF flaw = "loses-inputs" THEN NoInputs ELSE computed)
      /\ flaw # "truncates" => stored.overall = computed.score
      /\ stored.source = "PRESENT" /\ stored.version = version /\ stored.report = report
  BY DEF Report
<1>4. /\ ServedReport(stored).status = 200
      /\ ServedReport(stored).breakdown = stored.inputs
      /\ ServedReport(stored).overall =
           (IF flaw = "serves-stale" THEN stored.overall + 1 ELSE stored.overall)
      /\ ServedReport(stored).averages = Averages(report, flaw = "averages-all")
  BY <1>3 DEF ServedReport
<1> QED BY <1>1, <1>2, <1>3, <1>4

\* A report that recomputes has the score of the rule, and is served with it.
LEMMA RecomputedIsNearest ==
    ASSUME NEW version, NEW report \in ReportForms, NEW stored, stored = Report(version, report)
    PROVE  /\ Recomputes(stored, ServedReport(stored)) =>
                /\ stored.overall = NearestScore(report)
                /\ flaw \notin {"loses-inputs", "serves-stale"}
           /\ flaw \in {"none", "rewrites", "binds-old"} =>
                Recomputes(stored, ServedReport(stored))
<1> DEFINE computed == ReportAggregate(report.items, report.separated)
<1>1. /\ stored.inputs = (IF flaw = "loses-inputs" THEN NoInputs ELSE computed)
      /\ flaw # "truncates" => stored.overall = computed.score
      /\ stored.report = report
      /\ ServedReport(stored).breakdown = stored.inputs
      /\ ServedReport(stored).overall =
           (IF flaw = "serves-stale" THEN stored.overall + 1 ELSE stored.overall)
      /\ ServedReport(stored).averages = Averages(report, flaw = "averages-all")
      /\ computed.score = NearestScore(report) /\ computed.score \in Int
      /\ computed # NoInputs
  BY ReportStored
<1>2. Recomputes(stored, ServedReport(stored)) <=>
        /\ {stored.overall, ServedReport(stored).overall} = {computed.score}
        /\ {stored.inputs, ServedReport(stored).breakdown} = {computed}
        /\ ServedReport(stored).averages = Averages(report, FALSE)
  BY <1>1 DEF Recomputes
<1> HIDE DEF computed
<1>3. ASSUME Recomputes(stored, ServedReport(stored))
      PROVE  stored.overall = NearestScore(report) /\ flaw \notin {"loses-inputs", "serves-stale"}
  <2>1. stored.overall = computed.score /\ ServedReport(stored).overall = computed.score
        /\ stored.inputs = computed
    BY <1>2, <1>3
  <2> QED BY <1>1, <2>1
<1>4. ASSUME flaw \in {"none", "rewrites", "binds-old"}
      PROVE  Recomputes(stored, ServedReport(stored))
  <2>1. (flaw = "averages-all") = FALSE
    BY <1>4
  <2> QED BY <1>1, <1>2, <1>4, <2>1
<1> QED BY <1>3, <1>4

\* What three assertions come to.
LEMMA FreezeRule ==
    LET verdicts == {FirstFrozen(seen), FirstUnchanged(seen), ScoresRecompute(seen)}
    IN  /\ Aggregate(verdicts) = "PASS" <=>
             /\ FirstFrozen(seen) = "PASS" /\ FirstUnchanged(seen) = "PASS"
             /\ ScoresRecompute(seen) = "PASS"
        /\ Aggregate(verdicts) = "FAIL" <=>
             \/ FirstFrozen(seen) = "FAIL" \/ FirstUnchanged(seen) = "FAIL"
             \/ ScoresRecompute(seen) = "FAIL"
<1>1. /\ FirstFrozen(seen) \in {"PASS", "FAIL", "INCONCLUSIVE"}
      /\ FirstUnchanged(seen) \in {"PASS", "FAIL", "INCONCLUSIVE"}
      /\ ScoresRecompute(seen) \in {"PASS", "FAIL", "INCONCLUSIVE"}
  BY DEF FirstFrozen, FirstUnchanged, ScoresRecompute, Needs, Passed
<1> QED BY <1>1, AggregateRule

\* What was read of a record and of what is served of it, when it was there.
LEMMA ReadsFit ==
    ASSUME FreezeInv
    PROVE  /\ seen.preRecord.source = "PRESENT" =>
                seen.preRecord = FirstReport /\ outage # "late"
           /\ seen.postRecord.source = "PRESENT" =>
                seen.postRecord = FirstAfter /\ outage # "late"
           /\ seen.second.source = "PRESENT" => seen.second = SecondReport /\ outage # "late"
           /\ seen.pre.status = 200 => seen.pre = FirstServed
           /\ seen.post.status = 200 => seen.post = AfterServed
           /\ seen.secondRead.status = 200 => seen.secondRead = SecondServed
<1>1. /\ RecordFits(seen.preRecord, FirstReport) /\ RecordFits(seen.postRecord, FirstAfter)
      /\ RecordFits(seen.second, SecondReport)
      /\ ReadFits(seen.pre, FirstServed) /\ ReadFits(seen.post, AfterServed)
      /\ ReadFits(seen.secondRead, SecondServed)
  BY DEF FreezeInv, RecordsFit
<1>2. \A read, record : RecordFits(read, record) /\ read.source = "PRESENT" =>
                          read = record /\ outage # "late"
  BY DEF RecordFits, Absent, Unavailable
<1>3. \A read, served : ReadFits(read, served) /\ read.status = 200 => read = served
  BY DEF ReadFits, NotRead, Broken
<1> QED BY <1>1, <1>2, <1>3

\* The reports of a target that are read, and what they say of its flaw.
LEMMA PassedIsFrozen ==
    ASSUME FreezeInv, stage = "judge",
           FirstFrozen(seen) = "PASS", FirstUnchanged(seen) = "PASS",
           ScoresRecompute(seen) = "PASS"
    PROVE  FreezeHolds
<1>1. /\ seen.preRecord.source = "PRESENT" /\ Frozen(seen.preRecord, 1)
      /\ seen.v2 = 2 /\ seen.second.source = "PRESENT" /\ seen.second.version = 2
      /\ seen.postRecord.source = "PRESENT" /\ seen.preRecord = seen.postRecord
      /\ seen.post.status = 200 /\ seen.secondRead.status = 200
      /\ Recomputes(seen.postRecord, seen.post) /\ Recomputes(seen.second, seen.secondRead)
  <2>1. seen.preRecord.source = "PRESENT" /\ Frozen(seen.preRecord, 1)
    BY DEF FirstFrozen, Needs, Passed
  <2>2. /\ seen.v2 = 2 /\ seen.second.source = "PRESENT" /\ seen.second.version = 2
        /\ seen.postRecord.source = "PRESENT" /\ seen.preRecord = seen.postRecord
    BY DEF FirstUnchanged, Needs, Passed, BothPresent
  <2>3. /\ seen.post.status = 200 /\ seen.secondRead.status = 200
        /\ Recomputes(seen.postRecord, seen.post) /\ Recomputes(seen.second, seen.secondRead)
    BY DEF ScoresRecompute, Needs, Passed, Recomputable
  <2> QED BY <2>1, <2>2, <2>3
<1>2. /\ seen.preRecord = FirstReport /\ seen.postRecord = FirstAfter
      /\ seen.second = SecondReport /\ outage # "late"
      /\ seen.post = AfterServed /\ seen.secondRead = SecondServed
  BY <1>1, ReadsFit
<1>3. flaw # "binds-old" /\ flaw # "rewrites"
  <2>1. SecondReport.version = 2 /\ FirstReport = FirstAfter
    BY <1>1, <1>2
  <2>2. FirstReport.version = 1 /\ (flaw = "rewrites" => FirstAfter.version = 2)
    BY FirstMade
  <2>3. flaw = "binds-old" => SecondReport.version = 1
    BY FirstMade
  <2> QED BY <2>1, <2>2, <2>3
<1>4. world.report \in ReportForms /\ flaw \in FreezeFlaws
  BY DEF FreezeInv, FreezeShape
<1>5. FirstAfter.overall = NearestScore(world.report) /\ flaw \notin {"loses-inputs", "serves-stale"}
  <2>1. Recomputes(FirstAfter, ServedReport(FirstAfter))
    BY <1>1, <1>2 DEF AfterServed
  <2>2. FirstAfter = Report(IF flaw = "rewrites" THEN 2 ELSE 1, world.report)
    BY DEF FirstAfter
  <2> QED BY <1>4, <2>1, <2>2, RecomputedIsNearest
<1>6. SecondReport.overall = NearestScore(world.report)
  BY <1>1, <1>2, <1>4, RecomputedIsNearest DEF SecondReport, SecondServed
<1>7. world.first = FirstAfter /\ world.second = SecondReport
  BY <1>1, <1>2 DEF FreezeInv, ReportsFit
<1>8. world.first.version = 1 /\ world.second.version = 2
  BY <1>3, <1>7, FirstMade
<1>9. {world.first.overall, world.second.overall} = {NearestScore(world.report)}
  BY <1>5, <1>6, <1>7
<1>10. Sound \/ flaw \in {"averages-all", "truncates"}
  BY <1>3, <1>4, <1>5 DEF FreezeFlaws, Sound
<1> QED BY <1>8, <1>9, <1>10 DEF FreezeHolds

\* No assertion accuses a sound target whose answers arrive.
LEMMA SoundIsNotAccused ==
    ASSUME FreezeInv, Sound, outage # "api"
    PROVE  /\ FirstFrozen(seen) # "FAIL" /\ FirstUnchanged(seen) # "FAIL"
           /\ ScoresRecompute(seen) # "FAIL"
<1>1. FirstReport = FirstAfter /\ FirstServed = AfterServed
  BY DEF Sound, FirstReport, FirstAfter, FirstServed, AfterServed
<1>2. world.report \in ReportForms
  BY DEF FreezeInv, FreezeShape
<1>3. /\ Recomputes(FirstAfter, AfterServed) /\ Recomputes(SecondReport, SecondServed)
  BY <1>2, RecomputedIsNearest DEF Sound, FirstAfter, AfterServed, SecondReport, SecondServed
<1>4. Frozen(FirstReport, 1)
  <2>1. FirstReport.inputs # NoInputs
    BY <1>2, ReportStored DEF Sound, FirstReport
  <2> QED BY <2>1, FirstMade DEF Frozen
<1>5. FirstFrozen(seen) # "FAIL"
  BY <1>4, ReadsFit DEF FirstFrozen, Needs, Passed
<1>6. FirstUnchanged(seen) # "FAIL"
  <2> SUFFICES ASSUME BothPresent(seen), NotRead \notin {seen.pre, seen.post}
               PROVE  seen.preRecord = seen.postRecord /\ seen.pre = seen.post
    BY DEF FirstUnchanged, Needs, Passed
  <2>1. seen.preRecord = FirstReport /\ seen.postRecord = FirstAfter /\ outage # "late"
    BY ReadsFit DEF BothPresent
  <2>2. seen.pre = FirstServed /\ seen.post = AfterServed
    BY <2>1 DEF FreezeInv, RecordsFit, ReadFits
  <2> QED BY <1>1, <2>1, <2>2
<1>7. ScoresRecompute(seen) # "FAIL"
  BY <1>3, ReadsFit DEF ScoresRecompute, Needs, Passed, Recomputable
<1> QED BY <1>5, <1>6, <1>7

\* Every assertion has what it asks for when every source answers.
LEMMA AnsweredIsPassed ==
    ASSUME FreezeInv, Answering, stage = "judge"
    PROVE  /\ FirstFrozen(seen) = "PASS" /\ FirstUnchanged(seen) = "PASS"
           /\ ScoresRecompute(seen) = "PASS"
<1>1. /\ seen.v1 = 1 /\ seen.v2 = 2 /\ seen.preRecord = FirstReport /\ seen.pre = FirstServed
      /\ seen.second = SecondReport /\ seen.secondRead = SecondServed
      /\ seen.postRecord = FirstAfter /\ seen.post = AfterServed
  BY DEF FreezeInv, AllAreRead
<1>2. /\ FirstFrozen(seen) # "FAIL" /\ FirstUnchanged(seen) # "FAIL"
      /\ ScoresRecompute(seen) # "FAIL"
  BY SoundIsNotAccused DEF Answering
<1>3. world.report \in ReportForms /\ flaw = "none"
  BY DEF FreezeInv, FreezeShape, Answering, Sound
<1>4. FirstServed.status = 200 /\ AfterServed.status = 200 /\ SecondServed.status = 200
  BY <1>3, ReportStored DEF FirstServed, AfterServed, SecondServed, FirstReport, FirstAfter,
     SecondReport
<1> USE <1>1, <1>2, FirstMade DEF Needs, Passed
<1>5. FirstFrozen(seen) = "PASS"
  BY DEF FirstFrozen
<1>6. FirstUnchanged(seen) = "PASS"
  BY <1>3, <1>4 DEF FirstUnchanged, BothPresent, NotRead
<1>7. ScoresRecompute(seen) = "PASS"
  BY <1>4 DEF ScoresRecompute, Recomputable
<1> QED BY <1>5, <1>6, <1>7

LEMMA JudgeFreezeKeeps ==
    ASSUME FreezeInv, JudgeFreeze PROVE FreezeInv'
<1>1. /\ stage = "judge" /\ stage' = "end" /\ UNCHANGED <<topic, flaw, outage, world, seen>>
      /\ verdict' = Aggregate({FirstFrozen(seen), FirstUnchanged(seen), ScoresRecompute(seen)})
  BY DEF JudgeFreeze, Judge
<1>2. /\ FirstReport' = FirstReport /\ FirstAfter' = FirstAfter
      /\ SecondReport' = SecondReport /\ FirstServed' = FirstServed
      /\ AfterServed' = AfterServed /\ SecondServed' = SecondServed
  BY <1>1, ReportsStay
<1> USE <1>1 DEF FreezeInv
<1>3. FreezeShape'
  BY DEF FreezeShape, FreezeStages
<1>4. ReportsFit'
  BY <1>2 DEF ReportsFit
<1>5. RecordsFit'
  BY <1>2 DEF RecordsFit, RecordFits, ReadFits
<1>6. AllAreRead'
  BY <1>2 DEF AllAreRead, Answering, Sound
<1>7. FreezeJudged'
  <2>1. Sound' = Sound /\ Answering' = Answering /\ FreezeHolds' = FreezeHolds /\ outage' = outage
    BY <1>1 DEF Sound, Answering, FreezeHolds
  <2> USE <1>1, FreezeRule
  <2>2. verdict' = "PASS" => FreezeHolds
    BY PassedIsFrozen
  <2>3. verdict' = "FAIL" => ~Sound \/ outage = "api"
    BY SoundIsNotAccused
  <2>4. Answering => verdict' = "PASS"
    BY AnsweredIsPassed
  <2>5. Ended'
    BY <1>1 DEF Ended
  <2> QED BY <2>1, <2>2, <2>3, <2>4, <2>5 DEF FreezeJudged
<1> QED BY <1>3, <1>4, <1>5, <1>6, <1>7 DEF FreezeInv

LEMMA FreezeStep ==
    (topic = "E-02" => FreezeInv) /\ [Next]_vars => (topic = "E-02" => FreezeInv)'
<1> SUFFICES ASSUME topic = "E-02", FreezeInv, [Next]_vars PROVE FreezeInv'
  BY TopicStays
<1>1. FreezeNext \/ UNCHANGED vars
  BY DEF Next, MinimalNext, NoticeNext, BoundaryNext, StaleNext, CitationNext, DecisionNext,
         SurfaceNext
<1> QED
  BY <1>1, MakesReportKeeps, PublishFirstKeeps, PublishSecondKeeps, WaitFirstKeeps,
     ServeFirstKeeps, WaitSecondKeeps, ServeSecondKeeps, WaitPostKeeps, ServePostKeeps,
     JudgeFreezeKeeps, FreezeStands DEF FreezeNext

-----------------------------------------------------------------------------
(* H-03: the log of a Run *)

LEMMA LogGrows ==
    ASSUME NEW S, NEW old \in Seq(S), NEW new \in Seq(S)
    PROVE  old \o new \in Seq(S) /\ ToSet(old \o new) = ToSet(old) \cup ToSet(new)
<1>1. /\ old \o new \in Seq(S) /\ Len(old \o new) = Len(old) + Len(new)
      /\ \A i \in 1..Len(old) : (old \o new)[i] = old[i]
      /\ \A i \in 1..Len(new) : (old \o new)[Len(old) + i] = new[i]
  BY ConcatProperties
<1>2. /\ DOMAIN old = 1..Len(old) /\ DOMAIN new = 1..Len(new)
      /\ DOMAIN (old \o new) = 1..(Len(old) + Len(new))
      /\ Len(old) \in Nat /\ Len(new) \in Nat
  BY <1>1
<1> DEFINE a == Len(old)
           b == Len(new)
           all == old \o new
<1> HIDE DEF a, b, all
<1>3. ToSet(old) \subseteq ToSet(all) /\ ToSet(new) \subseteq ToSet(all)
  <2>1. \A i \in 1..a : i \in 1..(a + b)
    BY <1>2 DEF a, b
  <2>2. \A i \in 1..b : a + i \in 1..(a + b)
    BY <1>2 DEF a, b
  <2> QED BY <1>1, <1>2, <2>1, <2>2 DEF ToSet, a, b, all
<1>4. ASSUME NEW i \in 1..(a + b) PROVE all[i] \in ToSet(old) \cup ToSet(new)
  <2>1. CASE i \in 1..a
    BY <1>1, <1>2, <2>1 DEF ToSet, a, all
  <2>2. CASE i \notin 1..a
    <3>1. i - a \in 1..b /\ a + (i - a) = i
      BY <1>2, <2>2 DEF a, b
    <3>2. all[i] = new[i - a]
      BY <1>1, <3>1 DEF a, b, all
    <3> QED BY <1>2, <3>1, <3>2 DEF ToSet, b
  <2> QED BY <2>1, <2>2
<1>5. ToSet(all) \subseteq ToSet(old) \cup ToSet(new)
  BY <1>2, <1>4 DEF ToSet, a, b, all
<1> QED BY <1>1, <1>3, <1>5 DEF all

LEMMA FewRows ==
    ASSUME NEW a \in RowForms, NEW b \in RowForms
    PROVE  /\ <<a>> \in Seq(RowForms) /\ ToSet(<<a>>) = {a}
           /\ <<a, b>> \in Seq(RowForms) /\ ToSet(<<a, b>>) = {a, b}
<1>1. ToSet(<<a>>) = {a} /\ ToSet(<<a, b>>) = {a, b}
  BY DEF ToSet
<1> QED BY <1>1

LEMMA ThreeRows ==
    ASSUME NEW a \in RowForms, NEW b \in RowForms, NEW c \in RowForms
    PROVE  <<a, b, c>> \in Seq(RowForms) /\ ToSet(<<a, b, c>>) = {a, b, c}
<1>1. ToSet(<<a, b, c>>) = {a, b, c}
  BY DEF ToSet
<1> QED BY <1>1

\* What is found in a log is the value of one of its rows.
LEMMA LastIsOfRow ==
    ASSUME NEW S, NEW log, log.rows \in Seq(S), NEW places \in SUBSET DOMAIN log.rows,
           places # {}
    PROVE  \E i \in places : LastOf(log, places) = log.rows[i].value
<1> DEFINE n == Len(log.rows)
           T == {n - i : i \in places}
<1>1. n \in Nat /\ places \subseteq 1..n
  OBVIOUS
<1> HIDE DEF n
<1>2. T \in SUBSET Nat /\ T # {}
  BY <1>1
<1>3. PICK least \in T : \A m \in T : least <= m
  BY <1>2, LeastNatural
<1>4. PICK last \in places : least = n - last
  BY <1>3
<1>5. \A j \in places : j <= last
  <2> SUFFICES ASSUME NEW j \in places PROVE j <= last
    OBVIOUS
  <2>1. n - last <= n - j
    BY <1>3, <1>4
  <2> QED BY <1>1, <2>1
<1>6. (CHOOSE i \in places : \A j \in places : j <= i) \in places
  BY <1>5
<1> QED BY <1>6 DEF LastOf

\* What a set of rows has in common is found among their values.
LEMMA LastIsAmong ==
    ASSUME NEW S, NEW log, log.rows \in Seq(S), NEW places \in SUBSET DOMAIN log.rows,
           NEW V, \A i \in places : log.rows[i].value \in V
    PROVE  /\ LastOf(log, places) \in V \cup {"unavailable"}
           /\ places # {} => LastOf(log, places) \in V
<1>1. CASE places = {}
  BY <1>1 DEF LastOf
<1>2. CASE places # {}
  BY <1>2, LastIsOfRow
<1> QED BY <1>1, <1>2

LEMMA LatestIsAmong ==
    ASSUME NEW S, seen.rows \in Seq(S), NEW key, NEW V,
           \A row \in Logged : row.key = key => row.value \in V
    PROVE  /\ Latest(seen, key) \in V \cup {"unavailable"}
           /\ (\E row \in Logged : row.key = key) => Latest(seen, key) \in V
<1> DEFINE places == {i \in DOMAIN seen.rows : seen.rows[i].key = key}
<1>1. \A i \in places : seen.rows[i].value \in V
  BY DEF Logged, ToSet
<1>2. (\E row \in Logged : row.key = key) => places # {}
  BY DEF Logged, ToSet
<1>3. /\ LastOf(seen, places) \in V \cup {"unavailable"}
      /\ places # {} => LastOf(seen, places) \in V
  BY <1>1, LastIsAmong
<1> QED BY <1>2, <1>3 DEF Latest

LEMMA ValueIsAmong ==
    ASSUME NEW S, seen.rows \in Seq(S), NEW step, NEW key, NEW V,
           \A row \in Logged : row.step = step /\ row.key = key => row.value \in V
    PROVE  /\ ValueAt(seen, step, key) \in V \cup {"unavailable"}
           /\ Has(Logged, step, key) => ValueAt(seen, step, key) \in V
<1> DEFINE places == Timeline(seen, step, key)
<1>1. places \subseteq DOMAIN seen.rows /\ \A i \in places : seen.rows[i].value \in V
  BY DEF Logged, ToSet, Timeline
<1>2. Has(Logged, step, key) => places # {}
  BY DEF Has, Logged, ToSet, Timeline
<1>3. /\ LastOf(seen, places) \in V \cup {"unavailable"}
      /\ places # {} => LastOf(seen, places) \in V
  BY <1>1, LastIsAmong
<1> QED BY <1>2, <1>3 DEF ValueAt

LEMMA StableIsAmong ==
    ASSUME NEW S, seen.rows \in Seq(S), NEW step, NEW key, NEW V,
           \A row \in Logged : row.step = step /\ row.key = key => row.value \in V
    PROVE  StableValue(seen, step, key) \in V \cup {"unavailable"}
<1> DEFINE places == Timeline(seen, step, key)
           Window(first, last) == {i \in places : first <= i /\ i <= last}
           ends == {last \in places : \E first \in places :
                      /\ Cardinality(Window(first, last)) = Consecutive
                      /\ \A i, j \in Window(first, last) : seen.rows[i].value = seen.rows[j].value}
<1>1. ends \subseteq DOMAIN seen.rows /\ \A i \in ends : seen.rows[i].value \in V
  BY DEF Logged, ToSet, Timeline
<1>2. LastOf(seen, ends) \in V \cup {"unavailable"}
  <2> HIDE DEF ends
  <2> QED BY <1>1, LastIsAmong
<1> QED BY <1>2 DEF StableValue

\* Equal reads that stand together are stable, if there are enough of them.
LEMMA PolledIsStable ==
    ASSUME seen.rows \in Seq(RowForms), NEW first,
           Polled(Timeline(seen, "report", "presence"), first, ReportPolls), NEW value,
           \A row \in Logged : row.key = "presence" => row.value = value
    PROVE  StableValue(seen, "report", "presence") = value
<1> DEFINE places == Timeline(seen, "report", "presence")
           Window(from, last) == {i \in places : from <= i /\ i <= last}
           ends == {last \in places : \E from \in places :
                      /\ Cardinality(Window(from, last)) = Consecutive
                      /\ \A i, j \in Window(from, last) : seen.rows[i].value = seen.rows[j].value}
           last == first + ReportPolls
           from == last - Consecutive + 1
<1>1. /\ first \in Nat /\ ReportPolls \in Nat /\ Consecutive \in 1..ReportPolls
      /\ places = (first + 1)..last
  BY PollsAssumption DEF Polled
<1>2. \A i \in places : i \in DOMAIN seen.rows /\ seen.rows[i].value = value
  BY DEF Timeline, Logged, ToSet
<1> HIDE DEF places
<1>3. last \in places /\ from \in places /\ Window(from, last) = from..last
  BY <1>1
<1>4. Cardinality(from..last) = Consecutive
  <2>1. from \in Int /\ last \in Int /\ from <= last /\ last - from + 1 = Consecutive
    BY <1>1
  <2> HIDE DEF from, last
  <2> QED BY <2>1, FS_Interval
<1>5. \A i, j \in Window(from, last) : seen.rows[i].value = seen.rows[j].value
  BY <1>2
<1>6. last \in ends
  BY <1>3, <1>4, <1>5
<1>7. ends \subseteq DOMAIN seen.rows /\ \A i \in ends : seen.rows[i].value \in {value}
  BY <1>2
<1>8. StableValue(seen, "report", "presence") = LastOf(seen, ends)
  BY DEF StableValue, places
<1> HIDE DEF ends
<1>9. LastOf(seen, ends) \in {value}
  BY <1>6, <1>7, LastIsAmong
<1> QED BY <1>8, <1>9

-----------------------------------------------------------------------------
(* What a step of the Run of H-03 leaves as it was *)

Lacks(rows, key) == \A row \in ToSet(rows) : row.key # key

LEMMA AttemptsAreCounted ==
    ASSUME seen.rows \in Seq(RowForms), NEW step, NEW key
    PROVE  Attempts(step, key) \in Nat /\ IsFiniteSet(Timeline(seen, step, key))
<1>1. Timeline(seen, step, key) \subseteq 1..Len(seen.rows) /\ Len(seen.rows) \in Nat
  BY DEF Timeline
<1>2. IsFiniteSet(1..Len(seen.rows))
  BY <1>1, FS_Interval
<1> QED BY <1>1, <1>2, FS_Subset, FS_CardinalityType DEF Attempts

LEMMA TimelineStays ==
    ASSUME NEW new \in Seq(RowForms), NEW log, NEW next, NEW step, NEW key, Lacks(new, key),
           next.rows = log.rows \o new, log.rows \in Seq(RowForms)
    PROVE  Timeline(next, step, key) = Timeline(log, step, key)
<1> DEFINE old == log.rows
           all == old \o new
           a == Len(old)
           b == Len(new)
           Fits(row) == row.key = key /\ row.step = step
<1>1. /\ Len(all) = a + b /\ a \in Nat /\ b \in Nat
      /\ \A i \in 1..a : all[i] = old[i]
      /\ \A i \in 1..b : all[a + i] = new[i]
      /\ DOMAIN all = 1..(a + b) /\ DOMAIN old = 1..a /\ DOMAIN new = 1..b
  BY ConcatProperties
<1>2. /\ Timeline(next, step, key) = {i \in 1..(a + b) : Fits(all[i])}
      /\ Timeline(log, step, key) = {i \in 1..a : Fits(old[i])}
  BY <1>1 DEF Timeline
<1>3. \A i \in 1..b : ~Fits(new[i])
  BY <1>1 DEF ToSet, Lacks
<1> HIDE DEF all, old, a, b, Fits
<1>4. ASSUME NEW i \in 1..(a + b), Fits(all[i]) PROVE i \in 1..a /\ Fits(old[i])
  <2>1. CASE i \in 1..a
    BY <1>1, <1>4, <2>1
  <2>2. CASE i \notin 1..a
    <3>1. i - a \in 1..b /\ a + (i - a) = i
      BY <1>1, <2>2
    <3>2. all[i] = new[i - a]
      BY <1>1, <3>1
    <3> QED BY <1>3, <1>4, <3>1, <3>2
  <2> QED BY <2>1, <2>2
<1>5. ASSUME NEW i \in 1..a, Fits(old[i]) PROVE i \in 1..(a + b) /\ Fits(all[i])
  BY <1>1, <1>5
<1> QED BY <1>2, <1>4, <1>5

LEMMA TimelineGrows ==
    ASSUME NEW row \in RowForms, NEW log, log.rows \in Seq(RowForms), NEW next,
           next.rows = log.rows \o <<row>>
    PROVE  /\ Timeline(next, row.step, row.key) =
                Timeline(log, row.step, row.key) \cup {Len(log.rows) + 1}
           /\ Len(next.rows) = Len(log.rows) + 1
           /\ Len(log.rows) + 1 \notin DOMAIN log.rows
<1> DEFINE old == log.rows
           all == old \o <<row>>
           a == Len(old)
           Fits(r) == r.key = row.key /\ r.step = row.step
<1>1. /\ Len(all) = a + 1 /\ a \in Nat
      /\ \A i \in 1..a : all[i] = old[i]
      /\ all[a + 1] = row
      /\ DOMAIN all = 1..(a + 1) /\ DOMAIN old = 1..a
  OBVIOUS
<1>2. /\ Timeline(next, row.step, row.key) = {i \in 1..(a + 1) : Fits(all[i])}
      /\ Timeline(log, row.step, row.key) = {i \in 1..a : Fits(old[i])}
  BY <1>1 DEF Timeline
<1>3. Fits(row)
  OBVIOUS
<1>4. Len(next.rows) = a + 1
  BY <1>1
<1> HIDE DEF all, old, a, Fits
<1>5. 1..(a + 1) = 1..a \cup {a + 1} /\ a + 1 \notin 1..a
  BY <1>1
<1>6. {i \in 1..(a + 1) : Fits(all[i])} = {i \in 1..a : Fits(old[i])} \cup {a + 1}
  BY <1>1, <1>3, <1>5
<1> QED BY <1>1, <1>2, <1>4, <1>5, <1>6 DEF a, old

\* The Run writes rows and goes on.
LEMMA RowsAdded ==
    ASSUME MinimalShape, NEW new \in Seq(RowForms), seen' = With(new)
    PROVE  /\ seen'.rows = seen.rows \o new /\ seen'.state = seen.state
           /\ seen' \in [rows : Seq(RowForms),
                         state : {"RUNNING", "ABORTED", "RESTORE_FAILED", "COMPLETED"}]
           /\ Logged' = Logged \cup ToSet(new)
<1>1. /\ seen \in [rows : Seq(RowForms),
                   state : {"RUNNING", "ABORTED", "RESTORE_FAILED", "COMPLETED"}]
      /\ seen' = [seen EXCEPT !.rows = seen.rows \o new]
  BY DEF MinimalShape, With
<1>2. seen.rows \o new \in Seq(RowForms)
      /\ ToSet(seen.rows \o new) = ToSet(seen.rows) \cup ToSet(new)
  BY <1>1, LogGrows
<1>3. seen'.rows = seen.rows \o new /\ seen'.state = seen.state
  BY <1>1
<1> QED BY <1>1, <1>2, <1>3 DEF Logged

\* A step of the Run that reads the target, writes rows and goes on.
LEMMA LookKeeps ==
    ASSUME MinimalInv, NEW new \in Seq(RowForms), seen' = With(new),
           UNCHANGED <<topic, flaw, outage, world, verdict>>,
           stage \notin {"judge", "end"}, stage' \in MinimalStages \ {"baseline", "end"},
           stage' \in Early => stage \in Early,
           stage' \notin Late => stage \notin Late,
           stage' \notin {"baseline", "apply"} \cup Late => stage \notin {"baseline", "apply"},
           stage' \in Attempted <=> stage \in Attempted,
           stage' \notin {"restore"} \cup Late => seen.state = "RUNNING",
           stage' \in Observed /\ stage \notin Observed /\ world.decisions = 1 =>
               \E row \in ToSet(new) :
                   row.step = "window" /\ row.key = "decisions" /\ row.value = "1",
           \A row \in ToSet(new) : RowFits(row) /\ row.key # "accepted"
    PROVE  MinimalShape' /\ WorkFits' /\ RowsFit' /\ MinimalJudged'
<1>1. MinimalShape /\ WorkFits /\ RowsFit /\ MinimalJudged
  BY DEF MinimalInv
<1>2. /\ seen'.state = seen.state
      /\ seen' \in [rows : Seq(RowForms),
                    state : {"RUNNING", "ABORTED", "RESTORE_FAILED", "COMPLETED"}]
      /\ Logged' = Logged \cup ToSet(new)
  BY <1>1, RowsAdded
<1>3. /\ flaw' = flaw /\ outage' = outage /\ world' = world /\ verdict' = verdict
      /\ Live' = Live /\ Sound' = Sound
  BY <1>2 DEF Live, Sound
<1>4. MinimalShape'
  BY <1>1, <1>2, <1>3 DEF MinimalShape
<1>5. WorkFits'
  BY <1>1, <1>3 DEF WorkFits
<1>6. \A row \in Logged' : RowFits(row)'
  <2>1. \A row : RowFits(row)' <=> RowFits(row)
    BY <1>3 DEF RowFits, Excused
  <2> QED BY <1>1, <1>2, <2>1 DEF RowsFit
<1>7. RowsFit'
  <2> USE <1>1, <1>2 DEF RowsFit
  <2>1. stage' \notin Attempted => \A row \in Logged' : row.key # "accepted"
    OBVIOUS
  <2>2. stage' \in Attempted /\ Live' /\ world'.early =>
          \A row \in Logged' : row.key = "accepted" => row.value = "true"
    BY <1>3
  <2>3. stage' \in Observed /\ Live' /\ world'.decisions = 1 =>
          \E row \in Logged' :
              row.step = "window" /\ row.key = "decisions" /\ row.value = "1"
    BY <1>3
  <2> QED BY <1>6, <2>1, <2>2, <2>3 DEF RowsFit
<1>8. MinimalJudged'
  BY <1>1, <1>3 DEF MinimalJudged, Ended
<1> QED BY <1>4, <1>5, <1>7, <1>8

\* A step the Run needs fails: it goes on to its restore, or to its verdict.
LEMMA RaisesKeeps ==
    ASSUME MinimalInv, seen' = Raises, outage # "none",
           UNCHANGED <<topic, flaw, outage, world, verdict>>,
           stage \notin Late \cup {"restore"},
           \/ stage = "baseline" /\ stage' = "judge"
           \/ stage \notin {"baseline", "apply"} /\ stage' = "restore"
    PROVE  MinimalInv'
<1>1. MinimalShape /\ WorkFits /\ RowsFit /\ MinimalJudged
  BY DEF MinimalInv
<1>2. /\ seen'.rows = seen.rows /\ seen'.state = "ABORTED" /\ Logged' = Logged
      /\ seen' \in [rows : Seq(RowForms),
                    state : {"RUNNING", "ABORTED", "RESTORE_FAILED", "COMPLETED"}]
  BY <1>1 DEF MinimalShape, Raises, Logged
<1>3. /\ flaw' = flaw /\ outage' = outage /\ world' = world /\ verdict' = verdict
      /\ ~Live' /\ Sound' = Sound /\ ~Answering'
  BY <1>2 DEF Live, Sound, Answering
<1>4. MinimalShape'
  BY <1>1, <1>2, <1>3 DEF MinimalShape, MinimalStages, Late
<1>5. WorkFits'
  BY <1>1, <1>3 DEF WorkFits, Late, Early, Attempted
<1>6. RowsFit'
  <2>1. \A row : RowFits(row)' <=> RowFits(row)
    BY <1>3 DEF RowFits, Excused
  <2>2. stage' \in Attempted
    BY DEF Attempted, Late
  <2> QED BY <1>1, <1>2, <1>3, <2>1, <2>2 DEF RowsFit
<1>7. MinimalJudged'
  BY <1>1, <1>3 DEF MinimalJudged, Ended, Late
<1> QED BY <1>3, <1>4, <1>5, <1>6, <1>7 DEF MinimalInv

\* Rows of other keys leave the polls and the reads of the receipt alone.
LEMMA OthersKeep ==
    ASSUME MinimalShape, PollsFit, EffectsFit, NEW new \in Seq(RowForms),
           seen'.rows = seen.rows \o new, Logged' = Logged \cup ToSet(new),
           \A row \in ToSet(new) : row.key \notin {"effect", "presence"},
           stage' \notin {"effect", "report"}, stage' \in Early <=> stage \in Early,
           stage \notin {"effect", "report"}
    PROVE  PollsFit' /\ EffectsFit'
<1>1. Timeline(seen', "report", "presence") = Timeline(seen, "report", "presence")
  <2>1. seen.rows \in Seq(RowForms)
    BY DEF MinimalShape
  <2>2. Lacks(new, "presence")
    BY DEF Lacks
  <2> QED BY <2>1, <2>2, TimelineStays
<1>2. PollsFit'
  BY <1>1 DEF PollsFit, Polled, MinimalShape, MinimalStages, Early, Attempted, Late
<1>3. EffectsFit'
  BY DEF EffectsFit, Early
<1> QED BY <1>2, <1>3

\* Rows are never taken back.
LEMMA RowsRemain ==
    ASSUME NEW new, Logged' = Logged \cup ToSet(new)
    PROVE  /\ \A step, key : Has(Logged, step, key) => Has(Logged', step, key)
           /\ \A step : HasState(Logged, step) => HasState(Logged', step)
           /\ \A step, key : Has(ToSet(new), step, key) => Has(Logged', step, key)
           /\ \A step : HasState(ToSet(new), step) => HasState(Logged', step)
<1> DEFINE old == Logged
           rows == Logged'
<1>1. old \subseteq rows /\ ToSet(new) \subseteq rows
  OBVIOUS
<1> HIDE DEF old, rows
<1>2. /\ \A step, key : Has(old, step, key) => Has(rows, step, key)
      /\ \A step, key : Has(ToSet(new), step, key) => Has(rows, step, key)
  BY <1>1 DEF Has
<1>3. /\ \A step : HasState(old, step) => HasState(rows, step)
      /\ \A step : HasState(ToSet(new), step) => HasState(rows, step)
  BY <1>2 DEF HasState
<1> QED BY <1>2, <1>3 DEF old, rows

LEMMA RowIsForm ==
    ASSUME NEW step \in RowSteps, NEW attempt \in Nat, NEW key \in RowKeys,
           NEW value \in RowValues
    PROVE  /\ Row(step, attempt, key, value) \in RowForms
           /\ Row(step, attempt, key, value).step = step
           /\ Row(step, attempt, key, value).attempt = attempt
           /\ Row(step, attempt, key, value).key = key
           /\ Row(step, attempt, key, value).value = value
  BY DEF Row, RowForms

\* The rows of a snapshot say of the target what it is.
LEMMA StateRowsFit ==
    ASSUME MinimalShape, WorkFits, NEW attempt \in Nat,
           NEW step \in {"baseline", "post", "window", "recovered"},
           step = "baseline" => stage = "baseline",
           step = "post" => stage \in Attempted /\ Live
    PROVE  /\ StateRows(step, attempt) \in Seq(RowForms)
           /\ HasState(ToSet(StateRows(step, attempt)), step)
           /\ \A row \in ToSet(StateRows(step, attempt)) :
                 row.step = step /\ row.key \in StateKeys /\ RowFits(row)
           /\ world.decisions = 1 =>
                 \E row \in ToSet(StateRows(step, attempt)) :
                     row.step = step /\ row.key = "decisions" /\ row.value = "1"
<1> DEFINE a == Row(step, attempt, "row", world.row)
           b == Row(step, attempt, "decisions", IF world.decisions = 0 THEN "0" ELSE "1")
           c == Row(step, attempt, "actor",
                    IF world.decisions = 0 THEN "absent" ELSE "company_user")
<1>1. world.row \in {"unchanged", "moved"} /\ world.decisions \in {0, 1}
  BY DEF MinimalShape, MinimalTargets
<1>2. /\ a \in RowForms /\ a.step = step /\ a.key = "row" /\ a.value = world.row
      /\ b \in RowForms /\ b.step = step /\ b.key = "decisions"
      /\ c \in RowForms /\ c.step = step /\ c.key = "actor"
      /\ b.value = IF world.decisions = 0 THEN "0" ELSE "1"
      /\ c.value = IF world.decisions = 0 THEN "absent" ELSE "company_user"
  <2>1. step \in RowSteps
    BY DEF RowSteps
  <2>2. {"row", "decisions", "actor"} \subseteq RowKeys
    BY DEF RowKeys
  <2>3. {"unchanged", "moved", "0", "1", "absent", "company_user"} \subseteq RowValues
    BY DEF RowValues
  <2> USE <2>1, <2>2, <2>3, RowIsForm
  <2>4. a \in RowForms /\ a.step = step /\ a.key = "row" /\ a.value = world.row
    BY <1>1
  <2>5. /\ b \in RowForms /\ b.step = step /\ b.key = "decisions"
        /\ b.value = IF world.decisions = 0 THEN "0" ELSE "1"
    OBVIOUS
  <2>6. /\ c \in RowForms /\ c.step = step /\ c.key = "actor"
        /\ c.value = IF world.decisions = 0 THEN "absent" ELSE "company_user"
    OBVIOUS
  <2> QED BY <2>4, <2>5, <2>6
<1> HIDE DEF a, b, c
<1> USE <1>1, <1>2 DEF RowFits, WorkFits, SoundValues
<1>3. RowFits(a)
  OBVIOUS
<1>4. RowFits(b)
  OBVIOUS
<1>5. RowFits(c)
  OBVIOUS
<1>6. StateRows(step, attempt) = <<a, b, c>>
  BY DEF StateRows, a, b, c
<1>7. <<a, b, c>> \in Seq(RowForms) /\ ToSet(<<a, b, c>>) = {a, b, c}
  <2>1. a \in RowForms /\ b \in RowForms /\ c \in RowForms
    BY <1>2
  <2> QED BY <2>1, ThreeRows
<1>8. HasState({a, b, c}, step)
  BY <1>2 DEF HasState, Has, StateKeys
<1>9. \A row \in {a, b, c} : row.step = step /\ row.key \in StateKeys /\ RowFits(row)
  BY <1>2, <1>3, <1>4, <1>5 DEF StateKeys
<1>10. world.decisions = 1 => b.value = "1"
  BY <1>2
<1> QED BY <1>2, <1>6, <1>7, <1>8, <1>9, <1>10

\* What a step that wrote rows of other keys leaves to show, if all was answered.
LEMMA AnsweredKeeps ==
    ASSUME MinimalInv, MinimalShape', WorkFits', RowsFit', MinimalJudged',
           NEW new \in Seq(RowForms),
           seen'.rows = seen.rows \o new, Logged' = Logged \cup ToSet(new),
           \A row \in ToSet(new) : row.key \notin {"effect", "presence"},
           stage' \notin {"effect", "report"}, stage' \in Early <=> stage \in Early,
           stage \notin {"effect", "report"}, UNCHANGED <<flaw, outage>>,
           Answering /\ AllAreLogged => AllAreLogged'
    PROVE  MinimalInv'
<1>1. Answering' = Answering
  BY DEF Answering, Sound
<1>2. Answering => PollsFit' /\ EffectsFit'
  BY OthersKeep DEF MinimalInv
<1> QED BY <1>1, <1>2 DEF MinimalInv

LEMMA BaselineKeeps ==
    ASSUME MinimalInv, Snapshot("baseline", "apply") PROVE MinimalInv'
<1>1. MinimalShape /\ WorkFits /\ stage = "baseline" /\ seen.state = "RUNNING"
      /\ UNCHANGED <<topic, flaw, outage, world, verdict>>
  BY DEF MinimalInv, MinimalShape, Snapshot, Look, Do, Late
<1> DEFINE new == StateRows("baseline", Attempts("baseline", "row") + 1)
<1>2. CASE seen' = With(new) /\ stage' = "apply"
  <2>1. Attempts("baseline", "row") + 1 \in Nat
    BY <1>1, AttemptsAreCounted DEF MinimalShape
  <2>2. /\ new \in Seq(RowForms) /\ HasState(ToSet(new), "baseline")
        /\ \A row \in ToSet(new) : row.key \in StateKeys /\ RowFits(row)
    BY <1>1, <2>1, StateRowsFit
  <2> HIDE DEF new
  <2>3. \A row \in ToSet(new) : RowFits(row) /\ row.key \notin {"accepted", "effect", "presence"}
    BY <2>2 DEF StateKeys
  <2>4. MinimalShape' /\ WorkFits' /\ RowsFit' /\ MinimalJudged'
    BY <1>1, <1>2, <2>2, <2>3, LookKeeps DEF MinimalStages, Early, Late, Attempted, Observed
  <2>5. seen'.rows = seen.rows \o new /\ seen'.state = seen.state
        /\ Logged' = Logged \cup ToSet(new)
    BY <1>1, <1>2, <2>2, RowsAdded
  <2>6. AllAreLogged'
    <3>1. HasState(Logged', "baseline")
      BY <2>2, <2>5, RowsRemain
    <3> QED BY <1>1, <1>2, <2>5, <3>1 DEF AllAreLogged, Attempted, Observed, Late
  <2> QED BY <1>1, <1>2, <2>2, <2>3, <2>4, <2>5, <2>6, AnsweredKeeps DEF Early
<1>3. CASE seen' = Raises /\ stage' = "judge" /\ outage # "none"
  BY <1>1, <1>3, RaisesKeeps DEF Late
<1> QED BY <1>1, <1>2, <1>3 DEF Snapshot, Look, Do, Reads

\* The snapshot after the attempt, and those of the window.
LEMMA PostKeeps ==
    ASSUME MinimalInv, Snapshot("post", "window") PROVE MinimalInv'
<1>1. MinimalShape /\ WorkFits /\ stage = "post" /\ seen.state = "RUNNING"
      /\ UNCHANGED <<topic, flaw, outage, world, verdict>>
  BY DEF MinimalInv, MinimalShape, Snapshot, Look, Do, Late
<1> DEFINE new == StateRows("post", Attempts("post", "row") + 1)
<1>2. CASE seen' = With(new) /\ stage' = "window"
  <2>1. Attempts("post", "row") + 1 \in Nat
    BY <1>1, AttemptsAreCounted DEF MinimalShape
  <2>2. /\ new \in Seq(RowForms) /\ HasState(ToSet(new), "post")
        /\ \A row \in ToSet(new) : row.key \in StateKeys /\ RowFits(row)
    BY <1>1, <2>1, StateRowsFit DEF Attempted, Live
  <2> HIDE DEF new
  <2>3. \A row \in ToSet(new) : RowFits(row) /\ row.key \notin {"accepted", "effect", "presence"}
    BY <2>2 DEF StateKeys
  <2>4. MinimalShape' /\ WorkFits' /\ RowsFit' /\ MinimalJudged'
    BY <1>1, <1>2, <2>2, <2>3, LookKeeps DEF MinimalStages, Early, Late, Attempted, Observed
  <2>5. seen'.rows = seen.rows \o new /\ seen'.state = seen.state
        /\ Logged' = Logged \cup ToSet(new)
    BY <1>1, <1>2, <2>2, RowsAdded
  <2>6. AllAreLogged => AllAreLogged'
    <3>1. HasState(Logged', "post")
      BY <2>2, <2>5, RowsRemain
    <3> QED BY <1>1, <1>2, <2>5, <3>1, RowsRemain DEF AllAreLogged, Attempted, Observed, Late
  <2> QED BY <1>1, <1>2, <2>2, <2>3, <2>4, <2>5, <2>6, AnsweredKeeps DEF Early
<1>3. CASE seen' = Raises /\ stage' = "restore" /\ outage # "none"
  BY <1>1, <1>3, RaisesKeeps DEF Late
<1> QED BY <1>1, <1>2, <1>3 DEF Snapshot, Look, Do, Reads

LEMMA WindowKeeps ==
    ASSUME MinimalInv, AutomaticWindow PROVE MinimalInv'
<1>1. MinimalShape /\ WorkFits /\ stage = "window" /\ seen.state = "RUNNING"
      /\ UNCHANGED <<topic, flaw, outage, world, verdict>>
  BY DEF MinimalInv, MinimalShape, AutomaticWindow, Snapshot, Look, Do, Late
<1> DEFINE new == StateRows("window", Attempts("window", "row") + 1)
<1>2. CASE seen' = With(new) /\ stage' \in {"window", "restore"}
  <2>1. Attempts("window", "row") + 1 \in Nat
    BY <1>1, AttemptsAreCounted DEF MinimalShape
  <2>2. /\ new \in Seq(RowForms) /\ HasState(ToSet(new), "window")
        /\ \A row \in ToSet(new) : row.key \in StateKeys /\ RowFits(row)
        /\ world.decisions = 1 => \E row \in ToSet(new) :
              row.step = "window" /\ row.key = "decisions" /\ row.value = "1"
    BY <1>1, <2>1, StateRowsFit
  <2> HIDE DEF new
  <2>3. \A row \in ToSet(new) : RowFits(row) /\ row.key \notin {"accepted", "effect", "presence"}
    BY <2>2 DEF StateKeys
  <2>4. MinimalShape' /\ WorkFits' /\ RowsFit' /\ MinimalJudged'
    BY <1>1, <1>2, <2>2, <2>3, LookKeeps DEF MinimalStages, Early, Late, Attempted, Observed
  <2>5. seen'.rows = seen.rows \o new /\ seen'.state = seen.state
        /\ Logged' = Logged \cup ToSet(new)
    BY <1>1, <1>2, <2>2, RowsAdded
  <2>6. AllAreLogged => AllAreLogged'
    <3>1. HasState(Logged', "window")
      BY <2>2, <2>5, RowsRemain
    <3> QED BY <1>1, <1>2, <2>5, <3>1, RowsRemain DEF AllAreLogged, Attempted, Observed, Late
  <2> QED BY <1>1, <1>2, <2>2, <2>3, <2>4, <2>5, <2>6, AnsweredKeeps DEF Early
<1>3. CASE seen' = Raises /\ stage' = "restore" /\ outage # "none"
  BY <1>1, <1>3, RaisesKeeps DEF Late
<1> QED BY <1>1, <1>2, <1>3 DEF AutomaticWindow, Snapshot, Look, Do, Reads

LEMMA RecoveredKeeps ==
    ASSUME MinimalInv, Recovered PROVE MinimalInv'
<1>1. MinimalShape /\ WorkFits /\ stage = "recovered" /\ stage' = "judge"
      /\ UNCHANGED <<topic, flaw, outage, world, verdict>>
  BY DEF MinimalInv, Recovered, Look, Do
<1>2. ASSUME NEW new \in Seq(RowForms), seen' = With(new),
             \A row \in ToSet(new) : row.key \in StateKeys /\ RowFits(row)
      PROVE  MinimalInv'
  <2>1. \A row \in ToSet(new) : RowFits(row) /\ row.key \notin {"accepted", "effect", "presence"}
    BY <1>2 DEF StateKeys
  <2>2. MinimalShape' /\ WorkFits' /\ RowsFit' /\ MinimalJudged'
    BY <1>1, <1>2, <2>1, LookKeeps DEF MinimalStages, Early, Late, Attempted, Observed
  <2>3. seen'.rows = seen.rows \o new /\ seen'.state = seen.state
        /\ Logged' = Logged \cup ToSet(new)
    BY <1>1, <1>2, RowsAdded
  <2>4. AllAreLogged => AllAreLogged'
    BY <1>1, <2>3, RowsRemain DEF AllAreLogged, Attempted, Observed, Late
  <2> QED BY <1>1, <1>2, <2>1, <2>2, <2>3, <2>4, AnsweredKeeps DEF Early
<1>3. CASE seen' = With(StateRows("recovered", 1))
  <2>1. /\ StateRows("recovered", 1) \in Seq(RowForms)
        /\ \A row \in ToSet(StateRows("recovered", 1)) : row.key \in StateKeys /\ RowFits(row)
    BY <1>1, StateRowsFit
  <2> QED BY <1>2, <1>3, <2>1
<1>4. CASE seen' = seen
  <2>1. <<>> \in Seq(RowForms) /\ ToSet(<<>>) = {}
    BY DEF ToSet
  <2>2. seen = With(<<>>)
    <3>1. /\ seen \in [rows : Seq(RowForms),
                       state : {"RUNNING", "ABORTED", "RESTORE_FAILED", "COMPLETED"}]
      BY <1>1 DEF MinimalShape
    <3>2. seen.rows \o <<>> = seen.rows
      BY <3>1
    <3> QED BY <3>1, <3>2 DEF With
  <2> QED BY <1>2, <1>4, <2>1, <2>2
<1> QED BY <1>3, <1>4 DEF Recovered, Look, Do

\* The page of the reviewer is classified by what it shows.
LEMMA ConsoleKeeps ==
    ASSUME MinimalInv, CaptureConsole PROVE MinimalInv'
<1> DEFINE a == Row("console", 1, "ready", IF Shown = "ready" THEN "true" ELSE "false")
           b == Row("console", 1, "class", Shown)
<1>1. MinimalShape /\ WorkFits /\ stage = "console" /\ stage' = "decision"
      /\ seen' = With(<<a, b>>) /\ seen.state = "RUNNING"
      /\ UNCHANGED <<topic, flaw, outage, world, verdict>>
  BY DEF MinimalInv, MinimalShape, CaptureConsole, Look, Do, Late
<1>2. /\ Shown \in {"ready", "queued_only", "failed"}
      /\ flaw = "hidden" => Shown \in {"ready", "queued_only"}
      /\ Sound => Shown = "failed"
  BY <1>1 DEF Shown, MinimalShape, MinimalTargets, WorkFits, Sound, Late
<1>3. /\ a \in RowForms /\ a.step = "console" /\ a.key = "ready"
      /\ a.value = IF Shown = "ready" THEN "true" ELSE "false"
      /\ b \in RowForms /\ b.step = "console" /\ b.key = "class" /\ b.value = Shown
  <2>1. "console" \in RowSteps /\ {"ready", "class"} \subseteq RowKeys
        /\ {"ready", "queued_only", "failed", "true", "false"} \subseteq RowValues
    BY DEF RowSteps, RowKeys, RowValues
  <2> QED BY <1>2, <2>1, RowIsForm
<1> HIDE DEF a, b
<1>4. RowFits(a) /\ RowFits(b)
  BY <1>2, <1>3 DEF RowFits, SoundValues
<1>5. <<a, b>> \in Seq(RowForms) /\ ToSet(<<a, b>>) = {a, b}
  BY <1>3, FewRows
<1>6. \A row \in {a, b} : RowFits(row) /\ row.key \notin {"accepted", "effect", "presence"}
  BY <1>3, <1>4
<1>7. MinimalShape' /\ WorkFits' /\ RowsFit' /\ MinimalJudged'
  BY <1>1, <1>5, <1>6, LookKeeps DEF MinimalStages, Early, Late, Attempted, Observed
<1>8. seen'.rows = seen.rows \o <<a, b>> /\ seen'.state = seen.state
      /\ Logged' = Logged \cup ToSet(<<a, b>>)
  BY <1>1, <1>5, RowsAdded
<1>9. AllAreLogged => AllAreLogged'
  <2>1. Has(Logged', "console", "ready") /\ Has(Logged', "console", "class")
    BY <1>3, <1>5, <1>8 DEF Has
  <2> QED BY <1>1, <1>8, <2>1, RowsRemain DEF AllAreLogged, Attempted, Observed, Late
<1> QED BY <1>1, <1>5, <1>6, <1>7, <1>8, <1>9, AnsweredKeeps DEF Early

\* One read of the receipt.
LEMMA EffectKeeps ==
    ASSUME MinimalInv, PollEffect PROVE MinimalInv'
<1> DEFINE n == Attempts("effect", "effect")
<1>1. /\ MinimalShape /\ WorkFits /\ stage = "effect" /\ seen.state = "RUNNING"
      /\ UNCHANGED <<topic, flaw, outage, world, verdict>>
      /\ seen.rows \in Seq(RowForms)
  BY DEF MinimalInv, MinimalShape, PollEffect, Look, Do, Late
<1>2. n \in Nat
  BY <1>1, AttemptsAreCounted
<1>3. PICK value \in {"true", "false"} :
         /\ seen' = With(<<Row("effect", n + 1, "effect", value)>>)
         /\ stage' \in {"effect", "report"} /\ (stage' = "effect" => value = "false")
  BY DEF PollEffect, Look, Do
<1> DEFINE row == Row("effect", n + 1, "effect", value)
<1>4. /\ row \in RowForms /\ row.step = "effect" /\ row.attempt = n + 1
      /\ row.key = "effect" /\ row.value = value
  <2>1. "effect" \in RowSteps /\ "effect" \in RowKeys /\ value \in RowValues /\ n + 1 \in Nat
    BY <1>2 DEF RowSteps, RowKeys, RowValues
  <2> QED BY <2>1, RowIsForm
<1>5. seen' = With(<<row>>)
  BY <1>3
<1> HIDE DEF n, row
<1>6. <<row>> \in Seq(RowForms) /\ ToSet(<<row>>) = {row}
  BY <1>4, FewRows
<1>7. RowFits(row)
  BY <1>4 DEF RowFits, SoundValues
<1>8. MinimalShape' /\ WorkFits' /\ RowsFit' /\ MinimalJudged'
  BY <1>1, <1>3, <1>4, <1>5, <1>6, <1>7, LookKeeps DEF MinimalStages, Early, Late, Attempted,
     Observed
<1>9. seen'.rows = seen.rows \o <<row>> /\ seen'.state = seen.state
      /\ Logged' = Logged \cup {row}
  BY <1>1, <1>5, <1>6, RowsAdded
<1>10. Answering' = Answering
  BY <1>1 DEF Answering, Sound
<1>11. AllAreLogged => AllAreLogged'
  BY <1>1, <1>3, <1>6, <1>9, RowsRemain DEF AllAreLogged, Attempted, Observed, Late
<1>12. PollsFit => PollsFit'
  <2> SUFFICES ASSUME PollsFit PROVE PollsFit'
    OBVIOUS
  <2>1. Lacks(<<row>>, "presence")
    BY <1>4, <1>6 DEF Lacks
  <2>2. Timeline(seen', "report", "presence") = Timeline(seen, "report", "presence")
    <3> DEFINE new == <<row>>
    <3>1. /\ new \in Seq(RowForms) /\ Lacks(new, "presence") /\ seen.rows \in Seq(RowForms)
          /\ seen'.rows = seen.rows \o new
      BY <1>1, <1>6, <1>9, <2>1
    <3> HIDE DEF new
    <3> QED BY <3>1, TimelineStays
  <2>3. Timeline(seen', "report", "presence") = {}
    BY <1>1, <2>2 DEF PollsFit
  <2>4. CASE stage' = "effect"
    BY <2>3, <2>4 DEF PollsFit, Early, Attempted, Late
  <2>5. CASE stage' = "report"
    <3> DEFINE first == Len(seen'.rows)
    <3>1. first \in Nat
      BY <1>8 DEF MinimalShape
    <3> HIDE DEF first
    <3>2. (first + 1)..(first + 0) = {} /\ 0 < ReportPolls /\ first = first + 0
      BY <3>1, PollsAssumption
    <3> DEFINE places == Timeline(seen', "report", "presence")
    <3>3. Polled(places, first, 0)
      BY <2>3, <3>1, <3>2 DEF Polled
    <3> HIDE DEF places
    <3>4. \E at, k \in Nat : Polled(places, at, k) /\ k < ReportPolls /\ Len(seen'.rows) = at + k
      BY <3>1, <3>2, <3>3 DEF first
    <3> QED BY <2>5, <3>4 DEF places, PollsFit, Early, Attempted, Late
  <2> QED BY <1>3, <2>4, <2>5
<1>13. EffectsFit => EffectsFit'
  <2> SUFFICES ASSUME EffectsFit PROVE EffectsFit'
    OBVIOUS
  <2>1. \A other \in Logged :
          other.key = "effect" => other.value = "false" /\ other.attempt <= n
    BY <1>1 DEF EffectsFit, n
  <2>2. \A other \in Logged : other.attempt \in Nat
    <3>1. \A i \in DOMAIN seen.rows : seen.rows[i] \in RowForms
      BY <1>1
    <3>2. Logged \subseteq RowForms
      BY <3>1 DEF Logged, ToSet
    <3> QED BY <3>2 DEF RowForms
  <2>3. \A other \in Logged : other.key = "effect" => other.attempt # n + 1 /\ other.attempt <= n + 1
    BY <1>2, <2>1, <2>2
  <2>4. Attempts("effect", "effect")' = n + 1
    <3>1. /\ Timeline(seen', "effect", "effect") =
               Timeline(seen, "effect", "effect") \cup {Len(seen.rows) + 1}
          /\ Len(seen.rows) + 1 \notin DOMAIN seen.rows
      BY <1>1, <1>4, <1>9, TimelineGrows
    <3>2. Len(seen.rows) + 1 \notin Timeline(seen, "effect", "effect")
      BY <3>1 DEF Timeline
    <3>3. IsFiniteSet(Timeline(seen, "effect", "effect"))
      BY <1>1, AttemptsAreCounted
    <3>4. Cardinality(Timeline(seen', "effect", "effect")) =
            Cardinality(Timeline(seen, "effect", "effect")) + 1
      BY <3>1, <3>2, <3>3, FS_AddElement
    <3> QED BY <3>4 DEF Attempts, n
  <2>5. \A one, other \in Logged' :
          one.key = "effect" /\ other.key = "effect" /\ one.attempt = other.attempt =>
             one.value = other.value
    <3>1. \A one, other \in Logged :
            one.key = "effect" /\ other.key = "effect" /\ one.attempt = other.attempt =>
               one.value = other.value
      BY DEF EffectsFit
    <3> QED BY <1>4, <1>9, <2>3, <3>1
  <2>6. stage' = "effect" => \A other \in Logged' :
          other.key = "effect" => other.value = "false" /\ other.attempt <= n + 1
    BY <1>2, <1>3, <1>4, <1>9, <2>1, <2>3
  <2>7. stage' \notin Early
    BY <1>3 DEF Early
  <2> QED BY <2>4, <2>5, <2>6, <2>7 DEF EffectsFit
<1> QED BY <1>8, <1>10, <1>11, <1>12, <1>13 DEF MinimalInv

\* One read of the report.
LEMMA ReportKeeps ==
    ASSUME MinimalInv, PollReport PROVE MinimalInv'
<1> DEFINE n == Attempts("report", "presence")
<1>1. /\ MinimalShape /\ WorkFits /\ stage = "report" /\ seen.state = "RUNNING"
      /\ UNCHANGED <<topic, flaw, outage, world, verdict>>
      /\ seen.rows \in Seq(RowForms)
  BY DEF MinimalInv, MinimalShape, PollReport, Look, Do, Late
<1>2. n \in Nat
  BY <1>1, AttemptsAreCounted
<1>3. CASE seen' = Raises /\ stage' = "restore" /\ outage # "none"
  BY <1>1, <1>3, RaisesKeeps DEF Late
<1>4. ASSUME NEW value \in {"ABSENT", "PRESENT", "UNAVAILABLE"},
             value = world.report \/ outage = "report",
             seen' = With(<<Row("report", n + 1, "presence", value)>>),
             stage' = IF n + 1 < ReportPolls THEN "report" ELSE "console"
      PROVE  MinimalInv'
  <2> DEFINE row == Row("report", n + 1, "presence", value)
  <2>1. /\ row \in RowForms /\ row.step = "report" /\ row.attempt = n + 1
        /\ row.key = "presence" /\ row.value = value
    <3>1. "report" \in RowSteps /\ "presence" \in RowKeys /\ value \in RowValues /\ n + 1 \in Nat
      BY <1>2, <1>4 DEF RowSteps, RowKeys, RowValues
    <3> QED BY <3>1, RowIsForm
  <2>2. seen' = With(<<row>>)
    BY <1>4
  <2> HIDE DEF n, row
  <2>3. <<row>> \in Seq(RowForms) /\ ToSet(<<row>>) = {row}
    BY <2>1, FewRows
  <2>4. RowFits(row)
    <3>1. Sound => world.report = "ABSENT"
      BY <1>1 DEF WorkFits, Sound, MinimalShape, MinimalTargets, Late
    <3>2. value # "unavailable"
      BY <1>4
    <3> QED BY <1>4, <2>1, <3>1, <3>2 DEF RowFits, SoundValues, Excused
  <2>5. stage' \in {"report", "console"}
    BY <1>4
  <2>6. MinimalShape' /\ WorkFits' /\ RowsFit' /\ MinimalJudged'
    BY <1>1, <2>1, <2>2, <2>3, <2>4, <2>5, LookKeeps DEF MinimalStages, Early, Late, Attempted,
       Observed
  <2>7. seen'.rows = seen.rows \o <<row>> /\ seen'.state = seen.state
        /\ Logged' = Logged \cup {row}
    BY <1>1, <2>2, <2>3, RowsAdded
  <2>8. Answering' = Answering
    BY <1>1 DEF Answering, Sound
  <2>9. AllAreLogged => AllAreLogged'
    BY <1>1, <2>3, <2>5, <2>7, RowsRemain DEF AllAreLogged, Attempted, Observed, Late
  <2>10. PollsFit => PollsFit'
    <3> SUFFICES ASSUME PollsFit PROVE PollsFit'
      OBVIOUS
    <3>1. PICK first, k \in Nat :
            /\ Polled(Timeline(seen, "report", "presence"), first, k)
            /\ k < ReportPolls /\ Len(seen.rows) = first + k
      BY <1>1 DEF PollsFit
    <3>2. Cardinality((first + 1)..(first + k)) = k
      BY <3>1, FS_Interval
    <3>3. n = k
      BY <3>1, <3>2 DEF n, Attempts, Polled
    <3>4. /\ Timeline(seen', "report", "presence") =
               Timeline(seen, "report", "presence") \cup {Len(seen.rows) + 1}
          /\ Len(seen'.rows) = Len(seen.rows) + 1
      BY <1>1, <2>1, <2>7, TimelineGrows
    <3>5. (first + 1)..(first + k) \cup {first + k + 1} = (first + 1)..(first + (k + 1))
      BY <3>1
    <3> DEFINE places == Timeline(seen', "report", "presence")
    <3>6. Polled(places, first, k + 1) /\ Len(seen'.rows) = first + (k + 1) /\ k + 1 \in Nat
      <4>1. /\ Len(seen.rows) + 1 = first + k + 1 /\ first + k + 1 = first + (k + 1)
            /\ k + 1 \in Nat
        BY <3>1
      <4>2. places = (first + 1)..(first + k) \cup {first + k + 1}
        BY <3>1, <3>4, <4>1 DEF Polled
      <4> HIDE DEF places
      <4> QED BY <3>1, <3>4, <3>5, <4>1, <4>2 DEF Polled
    <3> HIDE DEF places
    <3>7. CASE k + 1 < ReportPolls
      <4>1. stage' = "report"
        BY <1>4, <3>3, <3>7
      <4>2. \E at, m \in Nat : Polled(places, at, m) /\ m < ReportPolls /\ Len(seen'.rows) = at + m
        BY <3>1, <3>6, <3>7
      <4> QED BY <4>1, <4>2 DEF places, PollsFit, Early, Attempted, Late
    <3>8. CASE ~(k + 1 < ReportPolls)
      <4>1. stage' = "console" /\ k + 1 = ReportPolls
        BY <1>4, <3>1, <3>3, <3>8, PollsAssumption
      <4>2. \E at \in Nat : Polled(places, at, ReportPolls)
        BY <3>1, <3>6, <4>1
      <4> QED BY <4>1, <4>2 DEF places, PollsFit, Early, Attempted, Late
    <3> QED BY <3>7, <3>8
  <2>11. EffectsFit => EffectsFit'
    BY <1>1, <2>1, <2>5, <2>7 DEF EffectsFit, Early
  <2> QED BY <2>6, <2>8, <2>9, <2>10, <2>11 DEF MinimalInv
<1>5. \/ seen' = Raises /\ stage' = "restore" /\ outage # "none"
      \/ \E value \in {"ABSENT", "PRESENT", "UNAVAILABLE"} :
            /\ value = world.report \/ outage = "report"
            /\ seen' = With(<<Row("report", n + 1, "presence", value)>>)
            /\ stage' = IF n + 1 < ReportPolls THEN "report" ELSE "console"
  <2>1. world.report \in {"ABSENT", "PRESENT"}
    BY <1>1 DEF MinimalShape, MinimalTargets
  <2> QED BY <2>1 DEF PollReport, Look, Do, Reads
<1> QED BY <1>3, <1>4, <1>5

\* What the log has to show after a step that also changed the target.
LEMMA RowsFitWith ==
    ASSUME RowsFit, NEW new, Logged' = Logged \cup ToSet(new), UNCHANGED <<flaw, outage>>,
           \A row \in ToSet(new) : RowFits(row),
           stage' \notin Attempted => stage \notin Attempted,
           stage' \notin Attempted => \A row \in ToSet(new) : row.key # "accepted",
           stage' \in Attempted /\ Live' /\ world'.early =>
               /\ stage \in Attempted => Live /\ world.early
               /\ \A row \in ToSet(new) : row.key = "accepted" => row.value = "true",
           stage' \in Observed /\ Live' /\ world'.decisions = 1 =>
               stage \in Observed /\ Live /\ world.decisions = 1
    PROVE  RowsFit'
<1>1. \A row \in Logged' : RowFits(row)'
  <2>1. \A row : RowFits(row)' <=> RowFits(row)
    BY DEF RowFits, Excused, Sound
  <2> QED BY <2>1 DEF RowsFit
<1>2. stage' \notin Attempted => \A row \in Logged' : row.key # "accepted"
  BY DEF RowsFit
<1>3. stage' \in Attempted /\ Live' /\ world'.early =>
        \A row \in Logged' : row.key = "accepted" => row.value = "true"
  BY DEF RowsFit
<1>4. stage' \in Observed /\ Live' /\ world'.decisions = 1 =>
        \E row \in Logged' : row.step = "window" /\ row.key = "decisions" /\ row.value = "1"
  BY DEF RowsFit
<1> QED BY <1>1, <1>2, <1>3, <1>4 DEF RowsFit

LEMMA MarkerKeeps ==
    ASSUME MinimalInv, ApplyMarker PROVE MinimalInv'
<1> DEFINE a == Row("apply", 1, "marker", "true")
<1>1. /\ MinimalShape /\ WorkFits /\ RowsFit /\ MinimalJudged
      /\ stage = "apply" /\ stage' = "trigger" /\ seen.state = "RUNNING"
      /\ seen' = With(<<a>>) /\ world' = [world EXCEPT !.marker = TRUE]
      /\ UNCHANGED <<topic, flaw, outage, verdict>>
  BY DEF MinimalInv, MinimalShape, MinimalTargets, ApplyMarker, Do, Late
<1>2. a \in RowForms /\ a.step = "apply" /\ a.key = "marker" /\ a.value = "true"
  <2>1. "apply" \in RowSteps /\ "marker" \in RowKeys /\ "true" \in RowValues
    BY DEF RowSteps, RowKeys, RowValues
  <2> QED BY <2>1, RowIsForm
<1> HIDE DEF a
<1>3. RowFits(a) /\ <<a>> \in Seq(RowForms) /\ ToSet(<<a>>) = {a}
  <2>1. RowFits(a)
    BY <1>2 DEF RowFits, SoundValues
  <2> QED BY <1>2, <2>1, FewRows
<1>4. /\ seen'.rows = seen.rows \o <<a>> /\ seen'.state = seen.state
      /\ seen' \in [rows : Seq(RowForms),
                    state : {"RUNNING", "ABORTED", "RESTORE_FAILED", "COMPLETED"}]
      /\ Logged' = Logged \cup ToSet(<<a>>)
  BY <1>1, <1>3, RowsAdded
<1>5. /\ world' \in MinimalTargets
      /\ world'.report = world.report /\ world'.queued = world.queued /\ world'.marker
      /\ world'.row = world.row /\ world'.decisions = world.decisions
      /\ world'.early = world.early
  BY <1>1 DEF MinimalShape, MinimalTargets
<1>6. MinimalShape'
  BY <1>1, <1>4, <1>5 DEF MinimalShape, MinimalTargets, MinimalStages, Late
<1>7. WorkFits'
  BY <1>1, <1>5 DEF WorkFits, Early, Late, Attempted, Sound
<1>8. RowsFit'
  BY <1>1, <1>2, <1>3, <1>4, RowsFitWith DEF Attempted, Observed, Late
<1>9. MinimalJudged'
  BY <1>1 DEF MinimalJudged, Ended
<1>10. AllAreLogged => AllAreLogged'
  <2>1. Has(Logged', "apply", "marker")
    BY <1>2, <1>3, <1>4 DEF Has
  <2> QED BY <1>1, <1>4, <2>1, RowsRemain DEF AllAreLogged, Attempted, Observed, Late
<1>11. \A row \in ToSet(<<a>>) : row.key \notin {"effect", "presence"}
  BY <1>2, <1>3
<1> QED BY <1>1, <1>3, <1>4, <1>6, <1>7, <1>8, <1>9, <1>10, <1>11, AnsweredKeeps DEF Early

LEMMA TriggerKeeps ==
    ASSUME MinimalInv, Trigger PROVE MinimalInv'
<1> USE DEF MinimalShape, MinimalTargets
<1>1. /\ MinimalShape /\ WorkFits /\ RowsFit /\ MinimalJudged
      /\ stage = "trigger" /\ stage' = "effect" /\ seen.state = "RUNNING"
      /\ seen' = seen /\ world' = [world EXCEPT !.queued = TRUE]
      /\ UNCHANGED <<topic, flaw, outage, verdict>>
  BY DEF MinimalInv, Trigger, Do, Late
<1>2. /\ world' \in MinimalTargets
      /\ world'.report = world.report /\ world'.marker = world.marker
      /\ world'.row = world.row /\ world'.decisions = world.decisions
      /\ world'.early = world.early
  BY <1>1
<1>3. MinimalShape'
  BY <1>1, <1>2 DEF MinimalStages, Late
<1>4. WorkFits'
  BY <1>1, <1>2 DEF WorkFits, Early, Late, Attempted, Sound
<1>5. Logged' = Logged
  BY <1>1 DEF Logged
<1>6. RowsFit'
  <2>1. \A row : RowFits(row)' <=> RowFits(row)
    BY <1>1 DEF RowFits, Excused, Sound
  <2> QED BY <1>1, <1>5, <2>1 DEF RowsFit, Attempted, Observed, Late
<1>7. MinimalJudged'
  BY <1>1 DEF MinimalJudged, Ended
<1>8. Answering' = Answering
  BY <1>1 DEF Answering, Sound
<1>9. AllAreLogged => AllAreLogged'
  BY <1>1, <1>5 DEF AllAreLogged, Attempted, Observed, Late
<1>10. PollsFit => PollsFit'
  BY <1>1 DEF PollsFit, Early, Attempted, Late
<1>11. EffectsFit => EffectsFit'
  BY <1>1, <1>5 DEF EffectsFit, Early
<1> QED BY <1>3, <1>4, <1>6, <1>7, <1>8, <1>9, <1>10, <1>11 DEF MinimalInv

\* The attempt of the reviewer, and the reason for its refusal.
LEMMA FinalAttemptKeeps ==
    ASSUME MinimalInv, AttemptDecision PROVE MinimalInv'
<1> DEFINE a == Row("decision", 1, "accepted", IF Accepts THEN "true" ELSE "false")
           b == Row("decision", 1, "reason",
                    IF Accepts \/ flaw = "silent" THEN "absent" ELSE "REPORT_NOT_AVAILABLE")
<1>1. /\ MinimalShape /\ WorkFits /\ RowsFit /\ MinimalJudged
      /\ stage = "decision" /\ stage' = "post" /\ seen.state = "RUNNING"
      /\ seen' = With(<<a, b>>)
      /\ world' = IF Accepts THEN [world EXCEPT !.decisions = 1, !.row = "moved"]
                  ELSE IF flaw = "partial" THEN [world EXCEPT !.row = "moved"] ELSE world
      /\ UNCHANGED <<topic, flaw, outage, verdict>>
  BY DEF MinimalInv, MinimalShape, MinimalTargets, AttemptDecision, Do, Late
<1>2. /\ a \in RowForms /\ a.step = "decision" /\ a.key = "accepted"
      /\ a.value = IF Accepts THEN "true" ELSE "false"
      /\ b \in RowForms /\ b.step = "decision" /\ b.key = "reason"
      /\ b.value = IF Accepts \/ flaw = "silent" THEN "absent" ELSE "REPORT_NOT_AVAILABLE"
  <2>1. "decision" \in RowSteps /\ {"accepted", "reason"} \subseteq RowKeys
        /\ {"true", "false", "absent", "REPORT_NOT_AVAILABLE"} \subseteq RowValues
    BY DEF RowSteps, RowKeys, RowValues
  <2> QED BY <2>1, RowIsForm
<1> HIDE DEF a, b
<1>3. /\ Sound => ~Accepts
      /\ world.early \/ flaw = "accepts" => Accepts
  BY <1>1 DEF Accepts, WorkFits, MinimalShape, MinimalTargets, Sound, Late
<1>4. RowFits(a) /\ RowFits(b)
  BY <1>2, <1>3 DEF RowFits, SoundValues, Sound
<1>5. <<a, b>> \in Seq(RowForms) /\ ToSet(<<a, b>>) = {a, b}
  BY <1>2, FewRows
<1>6. /\ seen'.rows = seen.rows \o <<a, b>> /\ seen'.state = seen.state
      /\ seen' \in [rows : Seq(RowForms),
                    state : {"RUNNING", "ABORTED", "RESTORE_FAILED", "COMPLETED"}]
      /\ Logged' = Logged \cup ToSet(<<a, b>>)
  BY <1>1, <1>5, RowsAdded
<1>7. /\ world' \in MinimalTargets
      /\ world'.report = world.report /\ world'.marker = world.marker
      /\ world'.early = world.early
      /\ Accepts \/ flaw = "partial" => world'.row = "moved"
      /\ ~Accepts /\ flaw # "partial" => world' = world
  BY <1>1 DEF MinimalShape, MinimalTargets
<1>8. MinimalShape'
  BY <1>1, <1>6, <1>7 DEF MinimalShape, MinimalTargets, MinimalStages, Late
<1>9. WorkFits'
  BY <1>1, <1>3, <1>7 DEF WorkFits, Early, Late, Attempted, Sound
<1>10. RowsFit'
  <2>1. \A row \in {a, b} : RowFits(row)
    BY <1>4
  <2>2. world.early => \A row \in {a, b} : row.key = "accepted" => row.value = "true"
    BY <1>2, <1>3
  <2>3. /\ RowsFit /\ UNCHANGED <<flaw, outage>> /\ world'.early = world.early
        /\ stage \notin Attempted /\ stage' \in Attempted /\ stage' \notin Observed
    BY <1>1, <1>7 DEF Attempted, Observed, Late
  <2>4. Logged' = Logged \cup ToSet(<<a, b>>)
    BY <1>6
  <2>5. /\ \A row \in ToSet(<<a, b>>) : RowFits(row)
        /\ world.early => \A row \in ToSet(<<a, b>>) : row.key = "accepted" => row.value = "true"
    BY <1>5, <2>1, <2>2
  <2> QED BY <2>3, <2>4, <2>5, RowsFitWith
<1>11. MinimalJudged'
  BY <1>1 DEF MinimalJudged, Ended
<1>12. AllAreLogged => AllAreLogged'
  <2>1. Has(Logged', "decision", "accepted") /\ Has(Logged', "decision", "reason")
    BY <1>2, <1>5, <1>6 DEF Has
  <2> QED BY <1>1, <1>6, <2>1, RowsRemain DEF AllAreLogged, Attempted, Observed, Late
<1>13. \A row \in ToSet(<<a, b>>) : row.key \notin {"effect", "presence"}
  BY <1>2, <1>5
<1> QED BY <1>1, <1>5, <1>6, <1>8, <1>9, <1>10, <1>11, <1>12, <1>13, AnsweredKeeps DEF Early

LEMMA RestoreKeeps ==
    ASSUME MinimalInv, Restore PROVE MinimalInv'
<1>1. PICK ok \in Reads("restore", TRUE, FALSE) :
        /\ world' = IF ok THEN [world EXCEPT !.marker = FALSE] ELSE world
        /\ seen' = [seen EXCEPT
             !.rows = Append(@, Row("restore", 1, "restored", IF ok THEN "SUCCEEDED" ELSE "FAILED")),
             !.state = IF ~ok THEN "RESTORE_FAILED"
                       ELSE IF @ = "RUNNING" THEN "COMPLETED" ELSE @]
  BY DEF Restore, Do
<1>2. /\ MinimalShape /\ WorkFits /\ RowsFit /\ MinimalJudged
      /\ stage = "restore" /\ stage' = "recovered"
      /\ UNCHANGED <<topic, flaw, outage, verdict>>
  BY DEF MinimalInv, Restore, Do
<1> DEFINE a == Row("restore", 1, "restored", IF ok THEN "SUCCEEDED" ELSE "FAILED")
<1>3. /\ a \in RowForms /\ a.step = "restore" /\ a.key = "restored"
      /\ a.value = IF ok THEN "SUCCEEDED" ELSE "FAILED"
  <2>1. /\ "restore" \in RowSteps /\ "restored" \in RowKeys
        /\ {"SUCCEEDED", "FAILED"} \subseteq RowValues
    BY DEF RowSteps, RowKeys, RowValues
  <2> QED BY <2>1, RowIsForm
<1>4. ok \in BOOLEAN /\ (~ok => outage = "restore")
  BY DEF Reads
<1>5. RowFits(a) /\ <<a>> \in Seq(RowForms) /\ ToSet(<<a>>) = {a}
  <2> HIDE DEF a
  <2>1. RowFits(a)
    BY <1>3, <1>4 DEF RowFits, SoundValues, Excused
  <2> QED BY <1>3, <2>1, FewRows
<1>6. /\ seen'.rows = Append(seen.rows, a)
      /\ seen'.state = IF ~ok THEN "RESTORE_FAILED"
                       ELSE IF seen.state = "RUNNING" THEN "COMPLETED" ELSE seen.state
      /\ DOMAIN seen' = {"rows", "state"}
  BY <1>1, <1>2 DEF MinimalShape, MinimalTargets
<1> HIDE DEF a
<1>7. /\ seen.rows \in Seq(RowForms)
      /\ seen.state \in {"RUNNING", "ABORTED", "RESTORE_FAILED", "COMPLETED"}
  BY <1>2 DEF MinimalShape, MinimalTargets
<1>8. seen'.rows = seen.rows \o <<a>>
  BY <1>3, <1>6, <1>7
<1>9. seen'.rows \in Seq(RowForms) /\ Logged' = Logged \cup ToSet(<<a>>)
  <2> DEFINE new == <<a>>
             all == seen.rows \o new
  <2>1. new \in Seq(RowForms) /\ seen'.rows = all
    BY <1>5, <1>8
  <2> HIDE DEF new
  <2>2. all \in Seq(RowForms) /\ ToSet(all) = ToSet(seen.rows) \cup ToSet(new)
    BY <1>7, <2>1, LogGrows
  <2> QED BY <2>1, <2>2 DEF Logged, new
<1>10. seen' \in [rows : Seq(RowForms),
                  state : {"RUNNING", "ABORTED", "RESTORE_FAILED", "COMPLETED"}]
  <2>1. seen' = [rows |-> seen'.rows, state |-> seen'.state]
    BY <1>1, <1>2 DEF MinimalShape, MinimalTargets
  <2>2. seen'.state \in {"RUNNING", "ABORTED", "RESTORE_FAILED", "COMPLETED"}
    BY <1>6, <1>7
  <2> QED BY <1>9, <2>1, <2>2
<1>11. /\ world' \in MinimalTargets
       /\ world'.report = world.report /\ world'.row = world.row
       /\ world'.decisions = world.decisions /\ world'.early = world.early
  BY <1>1, <1>2, <1>4 DEF MinimalShape, MinimalTargets
<1>12. Live' => Live
  BY <1>6, <1>7 DEF Live
<1> USE <1>2, <1>11 DEF Late
<1>13. MinimalShape'
  BY <1>10 DEF MinimalShape, MinimalTargets, MinimalStages
<1>14. WorkFits'
  BY <1>12 DEF WorkFits, Early, Attempted, Sound
<1>15. RowsFit'
  BY <1>3, <1>5, <1>9, <1>12, RowsFitWith DEF Attempted, Observed
<1>16. MinimalJudged'
  BY <1>2 DEF MinimalJudged, Ended
<1>17. Answering /\ AllAreLogged => AllAreLogged'
  <2>1. Has(Logged', "restore", "restored")
    BY <1>3, <1>5, <1>9 DEF Has
  <2>2. Answering => ok
    BY <1>4 DEF Answering
  <2> QED BY <1>2, <1>6, <1>9, <2>1, <2>2, RowsRemain DEF AllAreLogged, Attempted, Observed, Late
<1>18. \A row \in ToSet(<<a>>) : row.key \notin {"effect", "presence"}
  BY <1>3, <1>5
<1> QED
  BY <1>2, <1>5, <1>8, <1>9, <1>13, <1>14, <1>15, <1>16, <1>17, <1>18, AnsweredKeeps DEF Early

-----------------------------------------------------------------------------
(* H-03: the target, and the verdict *)

LEMMA TargetKeeps ==
    ASSUME MinimalInv, UNCHANGED <<topic, flaw, outage, stage, seen, verdict>>,
           MinimalShape', WorkFits',
           stage \in Attempted /\ Live /\ world'.early => world.early,
           stage \in Observed /\ Live /\ world'.decisions = 1 => world.decisions = 1,
           stage = "end" => world'.decisions = world.decisions /\ world'.early = world.early
    PROVE  MinimalInv'
<1>1. /\ RowsFit /\ MinimalJudged
      /\ Logged' = Logged /\ Live' = Live /\ Sound' = Sound /\ Answering' = Answering
  BY DEF MinimalInv, Logged, Live, Sound, Answering
<1>2. RowsFit'
  <2>1. \A row : RowFits(row)' <=> RowFits(row)
    BY DEF RowFits, Excused, Sound
  <2> QED BY <1>1, <2>1 DEF RowsFit
<1>3. MinimalJudged'
  BY <1>1 DEF MinimalJudged, MinimalHolds, Ended
<1>4. Answering => AllAreLogged' /\ PollsFit' /\ EffectsFit'
  BY <1>1 DEF MinimalInv, AllAreLogged, PollsFit, EffectsFit, Attempts
<1> QED BY <1>1, <1>2, <1>3, <1>4 DEF MinimalInv

LEMMA WorkerHandlesKeeps ==
    ASSUME MinimalInv, WorkerHandles PROVE MinimalInv'
<1>1. /\ MinimalShape /\ WorkFits /\ world.queued
      /\ UNCHANGED <<topic, flaw, outage, stage, seen, verdict>>
  BY DEF MinimalInv, WorkerHandles, Change
<1>2. /\ world' \in MinimalTargets
      /\ world'.row = world.row /\ world'.decisions = world.decisions
      /\ world'.early = world.early /\ world'.marker = world.marker
      /\ world.marker => world'.report = world.report
      /\ world'.report \in {world.report, "PRESENT"}
  <2>1. CASE world.marker
    <3>1. world' = [world EXCEPT !.receipt = TRUE]
      BY <2>1 DEF WorkerHandles, Change
    <3> QED BY <1>1, <2>1, <3>1 DEF MinimalShape, MinimalTargets
  <2>2. CASE ~world.marker
    <3>1. world' = [world EXCEPT !.report = "PRESENT", !.queued = FALSE]
      BY <2>2 DEF WorkerHandles, Change
    <3> QED BY <1>1, <2>2, <3>1 DEF MinimalShape, MinimalTargets
  <2> QED BY <2>1, <2>2
<1>3. MinimalShape'
  BY <1>1, <1>2 DEF MinimalShape, MinimalTargets
<1>4. WorkFits'
  <2>1. stage \notin Early
    BY <1>1 DEF WorkFits
  <2>2. stage \notin Late => world.marker
    BY <1>1, <2>1 DEF WorkFits, Early
  <2>3. Live' = Live /\ Sound' = Sound
    BY <1>1 DEF Live, Sound
  <2>4. stage # "baseline"
    BY <2>1 DEF Early
  <2> QED BY <1>1, <1>2, <2>1, <2>2, <2>3, <2>4 DEF WorkFits
<1> QED BY <1>1, <1>2, <1>3, <1>4, TargetKeeps

LEMMA AppearsEarlyKeeps ==
    ASSUME MinimalInv, AppearsEarly PROVE MinimalInv'
<1>1. /\ MinimalShape /\ WorkFits /\ flaw = "premature" /\ world.marker
      /\ stage \in {"effect", "report", "console", "decision"}
      /\ UNCHANGED <<topic, flaw, outage, stage, seen, verdict>>
  BY DEF MinimalInv, AppearsEarly, Change
<1>2. /\ world' \in MinimalTargets
      /\ world'.row = world.row /\ world'.decisions = world.decisions
      /\ world'.early /\ world'.marker = world.marker /\ world'.report = "PRESENT"
  BY <1>1 DEF MinimalShape, MinimalTargets, AppearsEarly, Change
<1>3. MinimalShape'
  BY <1>1, <1>2 DEF MinimalShape, MinimalTargets
<1>4. WorkFits'
  BY <1>1, <1>2 DEF WorkFits, Early, Late, Attempted, Sound
<1> QED BY <1>1, <1>2, <1>3, <1>4, TargetKeeps DEF Attempted, Observed, Late

LEMMA DecidesAloneKeeps ==
    ASSUME MinimalInv, DecidesAlone PROVE MinimalInv'
<1>1. /\ MinimalShape /\ WorkFits /\ flaw = "automatic"
      /\ stage \notin {"baseline", "restore", "recovered", "judge", "end"}
      /\ UNCHANGED <<topic, flaw, outage, stage, seen, verdict>>
  BY DEF MinimalInv, DecidesAlone, Change
<1>2. /\ world' \in MinimalTargets
      /\ world'.row = world.row /\ world'.queued = world.queued
      /\ world'.early = world.early /\ world'.marker = world.marker
      /\ world'.report = world.report
  BY <1>1 DEF MinimalShape, MinimalTargets, DecidesAlone, Change
<1>3. MinimalShape'
  BY <1>1, <1>2 DEF MinimalShape, MinimalTargets
<1>4. WorkFits'
  <2>1. Live' = Live
    BY <1>1 DEF Live
  <2> QED BY <1>1, <1>2, <2>1 DEF WorkFits, Sound
<1> QED BY <1>1, <1>2, <1>3, <1>4, TargetKeeps DEF Observed, Late

LEMMA MinimalStands ==
    ASSUME MinimalInv, UNCHANGED vars PROVE MinimalInv'
<1>1. MinimalShape' /\ WorkFits'
  BY DEF MinimalInv, MinimalShape, MinimalTargets, WorkFits, Live, Sound, vars
<1> QED BY <1>1, TargetKeeps DEF vars

LEMMA MinimalStarts ==
    Init => (topic = "H-03" => MinimalInv)
<1> SUFFICES ASSUME Init, topic = "H-03" PROVE MinimalInv
  OBVIOUS
<1>1. MinimalInit
  BY DEF Init
<1>2. /\ flaw \in MinimalFlaws /\ outage \in MinimalOutages
      /\ stage = "baseline" /\ verdict = "none"
      /\ seen = [rows |-> <<>>, state |-> "RUNNING"]
      /\ world = [report |-> "ABSENT", marker |-> FALSE, receipt |-> FALSE, queued |-> FALSE,
                  row |-> "unchanged", decisions |-> 0, early |-> FALSE]
  BY <1>1 DEF MinimalInit, MinimalWorld
<1>3. seen.rows = <<>> /\ seen.state = "RUNNING" /\ Logged = {}
  BY <1>2 DEF Logged, ToSet
<1>4. MinimalShape
  BY <1>2 DEF MinimalShape, MinimalTargets, MinimalStages, Late
<1>5. WorkFits
  BY <1>2 DEF WorkFits, Early, Late, Attempted
<1>6. RowsFit
  BY <1>2, <1>3 DEF RowsFit, Attempted, Observed, Late
<1>7. MinimalJudged
  BY <1>2 DEF MinimalJudged, Ended
<1>8. AllAreLogged
  BY <1>2, <1>3 DEF AllAreLogged, Attempted, Observed, Late
<1>9. PollsFit /\ EffectsFit
  <2>1. Timeline(seen, "report", "presence") = {}
    BY <1>3 DEF Timeline
  <2>2. PollsFit
    BY <1>2, <2>1 DEF PollsFit, Early, Attempted, Late
  <2>3. EffectsFit
    BY <1>2, <1>3 DEF EffectsFit
  <2> QED BY <2>2, <2>3
<1> QED BY <1>4, <1>5, <1>6, <1>7, <1>8, <1>9 DEF MinimalInv

\* What is found of a sound target: what it is, or nothing.
LEMMA SoundIsFound ==
    ASSUME MinimalInv, Sound, NEW key \in DOMAIN SoundValues, ~Excused(key)
    PROVE  /\ Latest(seen, key) \in {SoundValues[key], "unavailable"}
           /\ (\E row \in Logged : row.key = key) => Latest(seen, key) = SoundValues[key]
           /\ \A step : ValueAt(seen, step, key) \in {SoundValues[key], "unavailable"}
           /\ \A step : Has(Logged, step, key) => ValueAt(seen, step, key) = SoundValues[key]
           /\ \A step : StableValue(seen, step, key) \in {SoundValues[key], "unavailable"}
<1> DEFINE V == {SoundValues[key]}
<1>1. seen.rows \in Seq(RowForms)
  BY DEF MinimalInv, MinimalShape, MinimalTargets
<1>2. \A row \in Logged : row.key = key => row.value \in V
  BY DEF MinimalInv, RowsFit, RowFits
<1> HIDE DEF V
<1>3. /\ Latest(seen, key) \in V \cup {"unavailable"}
      /\ (\E row \in Logged : row.key = key) => Latest(seen, key) \in V
  BY <1>1, <1>2, LatestIsAmong
<1>4. ASSUME NEW step
      PROVE  /\ ValueAt(seen, step, key) \in V \cup {"unavailable"}
             /\ Has(Logged, step, key) => ValueAt(seen, step, key) \in V
             /\ StableValue(seen, step, key) \in V \cup {"unavailable"}
  <2>1. \A row \in Logged : row.step = step /\ row.key = key => row.value \in V
    BY <1>2
  <2> QED BY <1>1, <2>1, ValueIsAmong, StableIsAmong
<1> QED BY <1>3, <1>4 DEF V

\* The outcomes of judge_h03 that the claims are about.
LEMMA JudgeH03Rule ==
    LET product == {FailureShown(seen), DecisionRefused(seen), NothingChanged(seen),
                    NoAutomaticDecision(seen)}
    IN  /\ JudgeH03(seen) = "PASS" =>
             /\ seen.state \notin {"ABORTED", "RESTORE_FAILED"} /\ product = {"PASS"}
        /\ JudgeH03(seen) = "FAIL" => "FAIL" \in product
        /\ /\ seen.state \notin {"ABORTED", "RESTORE_FAILED"} /\ product = {"PASS"}
           /\ FaultMet(seen) = "PASS" /\ EnvironmentRestored(seen) = "PASS"
           /\ Conflicts(seen) = {}
           => JudgeH03(seen) = "PASS"
<1> DEFINE product == {FailureShown(seen), DecisionRefused(seen), NothingChanged(seen),
                       NoAutomaticDecision(seen)}
<1>1. product # {} /\ product \subseteq {"PASS", "FAIL", "INCONCLUSIVE"}
  BY DEF FailureShown, DecisionRefused, NothingChanged, NoAutomaticDecision, Needs, Passed
<1>2. \/ JudgeH03(seen) = "INCONCLUSIVE"
      \/ /\ seen.state \notin {"ABORTED", "RESTORE_FAILED"}
         /\ JudgeH03(seen) = Aggregate(product)
  BY DEF JudgeH03
<1>3. seen.state \notin {"ABORTED", "RESTORE_FAILED"} /\ FaultMet(seen) = "PASS"
      /\ EnvironmentRestored(seen) = "PASS" /\ Conflicts(seen) = {}
      => JudgeH03(seen) = Aggregate(product)
  BY DEF JudgeH03
<1> HIDE DEF product
<1>4. /\ Aggregate(product) = "FAIL" => "FAIL" \in product
      /\ Aggregate(product) = "PASS" <=> product = {"PASS"}
  <2>1. product \cap {"FAIL", "INCONCLUSIVE"} = {} <=> product = {"PASS"}
    BY <1>1
  <2>2. /\ Aggregate(product) = "FAIL" <=> "FAIL" \in product
        /\ Aggregate(product) = "PASS" <=> product \cap {"FAIL", "INCONCLUSIVE"} = {}
    BY AggregateRule
  <2> QED BY <2>1, <2>2
<1> QED BY <1>2, <1>3, <1>4 DEF product

LEMMA PassedIsHeld ==
    ASSUME MinimalInv, stage = "judge", JudgeH03(seen) = "PASS" PROVE MinimalHolds
<1>1. /\ seen.state \notin {"ABORTED", "RESTORE_FAILED"}
      /\ FailureShown(seen) = "PASS" /\ DecisionRefused(seen) = "PASS"
      /\ NothingChanged(seen) = "PASS" /\ NoAutomaticDecision(seen) = "PASS"
  BY JudgeH03Rule
<1>2. /\ MinimalShape /\ RowsFit /\ WorkFits /\ seen.rows \in Seq(RowForms)
      /\ \A row \in Logged : RowFits(row)
      /\ Live /\ stage \in Attempted /\ stage \in Observed
  BY <1>1 DEF MinimalInv, MinimalShape, MinimalTargets, RowsFit, Live, Attempted, Observed, Late
<1>3. flaw # "hidden"
  <2> SUFFICES ASSUME flaw = "hidden" PROVE FALSE
    OBVIOUS
  <2>1. \A row \in Logged : row.key = "class" => row.value \in {"ready", "queued_only"}
    BY <1>2 DEF RowFits
  <2>2. Latest(seen, "class") \in {"ready", "queued_only"} \cup {"unavailable"}
    BY <1>2, <2>1, LatestIsAmong
  <2> QED BY <1>1, <2>2 DEF FailureShown, Needs, Passed
<1>4. Latest(seen, "accepted") = "false" /\ Latest(seen, "reason") = "REPORT_NOT_AVAILABLE"
  BY <1>1 DEF DecisionRefused, Needs, Passed
<1>5. flaw # "accepts" /\ ~world.early
  <2> SUFFICES ASSUME flaw = "accepts" \/ world.early PROVE FALSE
    OBVIOUS
  <2>1. \A row \in Logged : row.key = "accepted" => row.value \in {"true"}
    BY <1>2 DEF RowFits, RowsFit
  <2>2. Latest(seen, "accepted") \in {"true"} \cup {"unavailable"}
    BY <1>2, <2>1, LatestIsAmong
  <2> QED BY <1>4, <2>2
<1>6. flaw # "silent"
  <2> SUFFICES ASSUME flaw = "silent" PROVE FALSE
    OBVIOUS
  <2>1. \A row \in Logged : row.key = "reason" => row.value \in {"absent"}
    BY <1>2 DEF RowFits
  <2>2. Latest(seen, "reason") \in {"absent"} \cup {"unavailable"}
    BY <1>2, <2>1, LatestIsAmong
  <2> QED BY <1>4, <2>2
<1>7. flaw # "partial"
  <2> SUFFICES ASSUME flaw = "partial" PROVE FALSE
    OBVIOUS
  <2>1. \A row \in Logged :
          row.step = "baseline" /\ row.key = "row" => row.value \in {"unchanged"}
    BY <1>2 DEF RowFits
  <2>2. \A row \in Logged : row.step = "post" /\ row.key = "row" => row.value \in {"moved"}
    BY <1>2 DEF RowFits
  <2>3. ValueAt(seen, "baseline", "row") \in {"unchanged"} \cup {"unavailable"}
    BY <1>2, <2>1, ValueIsAmong
  <2>4. ValueAt(seen, "post", "row") \in {"moved"} \cup {"unavailable"}
    BY <1>2, <2>2, ValueIsAmong
  <2>5. /\ ValueAt(seen, "baseline", "row") = ValueAt(seen, "post", "row")
        /\ ValueAt(seen, "baseline", "row") # "unavailable"
    BY <1>1 DEF NothingChanged, Needs, Passed, StateKeys
  <2> QED BY <2>3, <2>4, <2>5
<1>8. world.decisions = 0
  <2> SUFFICES ASSUME world.decisions # 0 PROVE FALSE
    OBVIOUS
  <2>1. world.decisions = 1
    BY <1>2 DEF MinimalShape, MinimalTargets
  <2>2. PICK row \in Logged : row.step = "window" /\ row.key = "decisions" /\ row.value = "1"
    BY <1>2, <2>1 DEF RowsFit
  <2>3. row.value = "0"
    BY <1>1, <2>2 DEF NoAutomaticDecision, Needs, Passed, Logged
  <2> QED BY <2>2, <2>3
<1> QED BY <1>3, <1>5, <1>6, <1>7, <1>8 DEF MinimalHolds

LEMMA SoundIsNotBlamed ==
    ASSUME MinimalInv, Sound, outage # "report" PROVE JudgeH03(seen) # "FAIL"
<1>1. /\ DOMAIN SoundValues = {"marker", "presence", "ready", "class", "accepted", "reason",
                               "row", "decisions", "actor", "restored"}
      /\ \A key \in DOMAIN SoundValues \ {"restored"} : ~Excused(key)
  BY DEF SoundValues, Excused
<1>2. FailureShown(seen) # "FAIL"
  <2>1. /\ StableValue(seen, "report", "presence") \in {"ABSENT", "unavailable"}
        /\ Latest(seen, "ready") \in {"false", "unavailable"}
        /\ Latest(seen, "class") \in {"failed", "unavailable"}
    BY <1>1, SoundIsFound DEF SoundValues
  <2> QED BY <2>1 DEF FailureShown, Needs, Passed, Missing
<1>3. DecisionRefused(seen) # "FAIL"
  <2>1. /\ Latest(seen, "accepted") \in {"false", "unavailable"}
        /\ Latest(seen, "reason") \in {"REPORT_NOT_AVAILABLE", "unavailable"}
    BY <1>1, SoundIsFound DEF SoundValues
  <2> QED BY <2>1 DEF DecisionRefused, Needs, Passed, Missing
<1>4. NothingChanged(seen) # "FAIL"
  <2>1. ASSUME NEW key \in StateKeys, NEW step
        PROVE  ValueAt(seen, step, key) \in {SoundValues[key], "unavailable"}
    BY <1>1, SoundIsFound DEF StateKeys
  <2> QED BY <2>1 DEF NothingChanged, Needs, Passed
<1>5. NoAutomaticDecision(seen) # "FAIL"
  <2>1. \A row \in Logged : /\ row.key = "decisions" => row.value = "0"
                            /\ row.key = "actor" => row.value = "absent"
    BY <1>1 DEF MinimalInv, RowsFit, RowFits, SoundValues
  <2> QED BY <2>1 DEF NoAutomaticDecision, Needs, Passed, Logged
<1> QED BY <1>2, <1>3, <1>4, <1>5, JudgeH03Rule

LEMMA AnsweredIsHeld ==
    ASSUME MinimalInv, Answering, stage = "judge", Latest(seen, "effect") = "true"
    PROVE  JudgeH03(seen) = "PASS"
<1>1. /\ DOMAIN SoundValues = {"marker", "presence", "ready", "class", "accepted", "reason",
                               "row", "decisions", "actor", "restored"}
      /\ \A key \in DOMAIN SoundValues : ~Excused(key)
      /\ Sound /\ AllAreLogged /\ PollsFit /\ EffectsFit
      /\ MinimalShape /\ RowsFit /\ seen.rows \in Seq(RowForms)
  BY DEF SoundValues, Excused, Answering, MinimalInv, MinimalShape, MinimalTargets
<1>2. /\ seen.state = "COMPLETED" /\ HasState(Logged, "baseline") /\ HasState(Logged, "post")
      /\ HasState(Logged, "window") /\ Has(Logged, "apply", "marker")
      /\ Has(Logged, "console", "ready") /\ Has(Logged, "console", "class")
      /\ Has(Logged, "decision", "accepted") /\ Has(Logged, "decision", "reason")
      /\ Has(Logged, "restore", "restored")
  BY <1>1 DEF AllAreLogged, Attempted, Observed, Late
<1>3. ASSUME NEW key \in DOMAIN SoundValues, NEW step, Has(Logged, step, key)
      PROVE  Latest(seen, key) = SoundValues[key]
  <2>1. \E row \in Logged : row.key = key
    BY <1>3 DEF Has
  <2> QED BY <1>1, <2>1, SoundIsFound
<1>4. /\ Latest(seen, "marker") = "true" /\ Latest(seen, "ready") = "false"
      /\ Latest(seen, "class") = "failed" /\ Latest(seen, "accepted") = "false"
      /\ Latest(seen, "reason") = "REPORT_NOT_AVAILABLE"
      /\ Latest(seen, "restored") = "SUCCEEDED"
  BY <1>1, <1>2, <1>3 DEF SoundValues
<1>5. FaultMet(seen) = "PASS" /\ EnvironmentRestored(seen) = "PASS"
      /\ DecisionRefused(seen) = "PASS"
  BY <1>4 DEF FaultMet, EnvironmentRestored, DecisionRefused, Needs, PassedOrUnsure, Passed,
     Missing
<1>6. FailureShown(seen) = "PASS"
  <2>1. PICK first \in Nat :
          Polled(Timeline(seen, "report", "presence"), first, ReportPolls)
    BY <1>1 DEF PollsFit, Attempted, Late
  <2>2. \A row \in Logged : row.key = "presence" => row.value = "ABSENT"
    BY <1>1 DEF RowsFit, RowFits, SoundValues
  <2>3. StableValue(seen, "report", "presence") = "ABSENT"
    BY <1>1, <2>1, <2>2, PolledIsStable
  <2> QED BY <1>4, <2>3 DEF FailureShown, Needs, Passed, Missing
<1>7. ASSUME NEW step, HasState(Logged, step), NEW key \in StateKeys
      PROVE  ValueAt(seen, step, key) = SoundValues[key] /\ SoundValues[key] # "unavailable"
  <2>1. Has(Logged, step, key) /\ key \in DOMAIN SoundValues
    BY <1>1, <1>7 DEF HasState, StateKeys
  <2>2. SoundValues[key] # "unavailable"
    BY DEF StateKeys, SoundValues
  <2> QED BY <1>1, <2>1, <2>2, SoundIsFound
<1>8. NothingChanged(seen) = "PASS"
  BY <1>2, <1>7 DEF NothingChanged, Needs, Passed
<1>9. NoAutomaticDecision(seen) = "PASS"
  <2>1. \A row \in Logged : /\ row.key = "decisions" => row.value = "0"
                            /\ row.key = "actor" => row.value = "absent"
    BY <1>1 DEF RowsFit, RowFits, SoundValues
  <2> QED BY <1>2, <1>7, <2>1 DEF NoAutomaticDecision, Needs, Passed, Logged
<1>10. Conflicts(seen) = {}
  <2> SUFFICES ASSUME NEW row \in Logged, NEW other \in Logged,
                      other.attempt = row.attempt, other.key = row.key
               PROVE  other.value = row.value
    BY DEF Conflicts, Logged
  <2>1. row.key \in DOMAIN SoundValues \cup {"effect"}
    BY <1>1 DEF RowsFit, RowFits
  <2>2. CASE row.key = "effect"
    BY <1>1, <2>2 DEF EffectsFit
  <2>3. CASE row.key \in DOMAIN SoundValues
    BY <1>1, <2>3 DEF RowsFit, RowFits
  <2> QED BY <2>1, <2>2, <2>3
<1> QED BY <1>2, <1>5, <1>6, <1>8, <1>9, <1>10, JudgeH03Rule

LEMMA JudgeMinimalKeeps ==
    ASSUME MinimalInv, JudgeMinimal PROVE MinimalInv'
<1>1. /\ stage = "judge" /\ stage' = "end" /\ UNCHANGED <<topic, flaw, outage, world, seen>>
      /\ verdict' = JudgeH03(seen)
  BY DEF JudgeMinimal, Judge
<1>2. /\ MinimalShape /\ WorkFits /\ RowsFit
      /\ Logged' = Logged /\ Live' = Live /\ Sound' = Sound /\ Answering' = Answering
  BY <1>1 DEF MinimalInv, Logged, Live, Sound, Answering
<1>3. MinimalShape'
  BY <1>1, <1>2 DEF MinimalShape, MinimalTargets, MinimalStages, Late
<1>4. WorkFits'
  BY <1>1, <1>2 DEF WorkFits, Early, Late, Attempted
<1>5. RowsFit'
  <2>1. \A row : RowFits(row)' <=> RowFits(row)
    BY <1>1 DEF RowFits, Excused, Sound
  <2> QED BY <1>1, <1>2, <2>1 DEF RowsFit, Attempted, Observed, Late
<1>6. MinimalJudged'
  <2>1. verdict' = "PASS" => MinimalHolds'
    BY <1>1, PassedIsHeld DEF MinimalHolds
  <2>2. verdict' = "FAIL" => ~Sound' \/ outage' = "report"
    BY <1>1, <1>2, SoundIsNotBlamed
  <2>3. Answering' => verdict' = "PASS" \/ Latest(seen', "effect") # "true"
    BY <1>1, <1>2, AnsweredIsHeld
  <2>4. Ended'
    BY <1>1 DEF Ended
  <2> QED BY <2>1, <2>2, <2>3, <2>4 DEF MinimalJudged
<1>7. AllAreLogged => AllAreLogged'
  BY <1>1, <1>2 DEF AllAreLogged, Attempted, Observed, Late
<1>8. PollsFit => PollsFit'
  BY <1>1 DEF PollsFit, Early, Attempted, Late
<1>9. EffectsFit => EffectsFit'
  BY <1>1, <1>2 DEF EffectsFit, Early
<1> QED BY <1>2, <1>3, <1>4, <1>5, <1>6, <1>7, <1>8, <1>9 DEF MinimalInv

LEMMA MinimalKept ==
    (topic = "H-03" => MinimalInv) /\ [Next]_vars => (topic = "H-03" => MinimalInv)'
<1> SUFFICES ASSUME topic = "H-03", MinimalInv, [Next]_vars PROVE MinimalInv'
  BY TopicStays
<1>1. MinimalNext \/ UNCHANGED vars
  BY DEF Next, NoticeNext, BoundaryNext, StaleNext, CitationNext, FreezeNext, DecisionNext,
         SurfaceNext
<1> QED
  BY <1>1, BaselineKeeps, MarkerKeeps, TriggerKeeps, EffectKeeps, ReportKeeps, ConsoleKeeps,
     FinalAttemptKeeps, PostKeeps, WindowKeeps, RestoreKeeps, RecoveredKeeps, JudgeMinimalKeeps,
     WorkerHandlesKeeps, AppearsEarlyKeeps, DecidesAloneKeeps, MinimalStands
     DEF MinimalNext, MinimalStep

-----------------------------------------------------------------------------
(* The three claims about a verdict *)

LEMMA ProfilesStay == Spec => []ProfileInv
<1>1. Init => ProfileInv
  <2>1. Init => topic \in {"H-03", "N-01", "N-02", "N-03", "E-01", "E-02", "H-02"}
                            \cup DecisionTopics
    BY TopicsAssumption DEF Init, DecisionTopics
  <2> QED
    BY <2>1, MinimalStarts, NoticeStarts, BoundaryStarts, StaleStarts, CitationStarts,
       FreezeStarts, DecisionStarts, SurfaceStarts DEF ProfileInv
<1>2. ProfileInv /\ [Next]_vars => ProfileInv'
  BY TopicStays, MinimalKept, NoticeStep, BoundaryStep, StaleStep, CitationStep, FreezeStep,
     DecisionStep, SurfaceStep DEF ProfileInv
<1> QED BY <1>1, <1>2, PTL DEF Spec

\* A PASS is true of the target when the Run ends: whatever the target did between
\* two reads of the journeys of runner.py and executors/n01.py, n02.py, n03.py,
\* e01.py, e02.py, h01.py and h02.py, and whatever was out of their reach, no flaw
\* of it is passed over (judge_h03, assess_lane, assess_identifiers,
\* _judge_bypass_case, judge_n02_normal_order, assess_stale, assess_latest,
\* assess_past, judges/e01.py, judges/e02.py, assess_all of h01.py and assess of
\* h02), but for the holes that PassIsTrue names.  The score of a report of E-02 is
\* the integer nearest to its weighted mean, of every report.
THEOREM PassesAreTrue ==
    Spec => []PassIsTrue
<1>1. ProfileInv => PassIsTrue
  <2> SUFFICES ASSUME ProfileInv PROVE PassIsTrue
    OBVIOUS
  <2>1. CASE topic = "N-01"
    BY <2>1, NoticeMeans DEF ProfileInv, PassIsTrue
  <2>2. CASE topic = "N-03"
    BY <2>2, StaleMeans DEF ProfileInv, PassIsTrue
  <2>3. CASE topic = "E-01"
    BY <2>3 DEF ProfileInv, CitationInv, CitationJudged, PassIsTrue
  <2>4. CASE topic \in DecisionTopics
    BY <2>4 DEF ProfileInv, DecisionInv, DecisionJudged, PassIsTrue, Ended, DecisionTopics
  <2>5. CASE topic = "H-02"
    BY <2>5 DEF ProfileInv, SurfaceInv, SurfaceJudged, PassIsTrue, Ended
  <2>6. CASE topic = "N-02"
    BY <2>6 DEF ProfileInv, BoundaryInv, BoundaryJudged, PassIsTrue, Ended
  <2>7. CASE topic = "E-02"
    BY <2>7 DEF ProfileInv, FreezeInv, FreezeJudged, PassIsTrue, Ended
  <2>8. CASE topic = "H-03"
    BY <2>8 DEF ProfileInv, MinimalInv, MinimalJudged, PassIsTrue, Ended
  <2> QED BY <2>1, <2>2, <2>3, <2>4, <2>5, <2>6, <2>7, <2>8 DEF ProfileInv, DecisionTopics
<1> QED BY <1>1, ProfilesStay, PTL

\* A FAIL names a target that is at fault, or one of the outages that the judges
\* take for an answer of the target: no other lost read, no late answer and no
\* failed cleanup or restore accuses a sound one.
THEOREM FailsNameAFault ==
    Spec => []FailIsProductFault
<1>1. ProfileInv => FailIsProductFault
  <2> SUFFICES ASSUME ProfileInv PROVE FailIsProductFault
    OBVIOUS
  <2>1. CASE topic = "N-01"
    BY <2>1, NoticeMeans DEF ProfileInv, FailIsProductFault
  <2>2. CASE topic = "N-03"
    BY <2>2, StaleMeans DEF ProfileInv, FailIsProductFault
  <2>3. CASE topic = "E-01"
    BY <2>3 DEF ProfileInv, CitationInv, CitationJudged, FailIsProductFault
  <2>4. CASE topic \in DecisionTopics
    BY <2>4 DEF ProfileInv, DecisionInv, DecisionJudged, FailIsProductFault, Ended,
       DecisionTopics
  <2>5. CASE topic = "H-02"
    BY <2>5 DEF ProfileInv, SurfaceInv, SurfaceJudged, FailIsProductFault, Ended
  <2>6. CASE topic = "N-02"
    BY <2>6 DEF ProfileInv, BoundaryInv, BoundaryJudged, FailIsProductFault, Ended
  <2>7. CASE topic = "E-02"
    BY <2>7 DEF ProfileInv, FreezeInv, FreezeJudged, FailIsProductFault, Ended
  <2>8. CASE topic = "H-03"
    BY <2>8 DEF ProfileInv, MinimalInv, MinimalJudged, FailIsProductFault, Ended
  <2> QED BY <2>1, <2>2, <2>3, <2>4, <2>5, <2>6, <2>7, <2>8 DEF ProfileInv, DecisionTopics
<1> QED BY <1>1, ProfilesStay, PTL

\* A Run over a sound target that answered every read ends in a PASS: the order of
\* the journey never leaves one of its own reads out.  N-02 needs a deadline that
\* leaves time for a path to settle twice (_Stabilizer), H-03 a worker that meets
\* the marker before the Run stops looking for its receipt (_poll_fault_effect).
THEOREM SoundTargetsPass ==
    Spec => []((topic = "N-02" => TimeToSettle) => SoundIsPassed)
<1>1. ProfileInv => ((topic = "N-02" => TimeToSettle) => SoundIsPassed)
  <2> SUFFICES ASSUME ProfileInv, topic = "N-02" => TimeToSettle
               PROVE  SoundIsPassed
    OBVIOUS
  <2>1. CASE topic = "N-01"
    BY <2>1, NoticeMeans DEF ProfileInv, SoundIsPassed, Answering
  <2>2. CASE topic = "N-03"
    BY <2>2, StaleMeans DEF ProfileInv, SoundIsPassed, Answering
  <2>3. CASE topic = "E-01"
    BY <2>3 DEF ProfileInv, CitationInv, CitationJudged, SoundIsPassed, Answering
  <2>4. CASE topic \in DecisionTopics
    BY <2>4 DEF ProfileInv, DecisionInv, DecisionJudged, SoundIsPassed, Answering, Ended,
       DecisionTopics
  <2>5. CASE topic = "H-02"
    BY <2>5 DEF ProfileInv, SurfaceInv, SurfaceJudged, SoundIsPassed, Answering, Ended
  <2>6. CASE topic = "N-02"
    BY <2>6 DEF ProfileInv, BoundaryInv, BoundaryJudged, SoundIsPassed, Answering, Ended,
       WorkerWasSlow, SlowWorker
  <2>7. CASE topic = "E-02"
    BY <2>7 DEF ProfileInv, FreezeInv, FreezeJudged, SoundIsPassed, Answering, Ended
  <2>8. CASE topic = "H-03"
    BY <2>8 DEF ProfileInv, MinimalInv, MinimalJudged, SoundIsPassed, Answering, Ended,
       WorkerWasSlow
  <2> QED BY <2>1, <2>2, <2>3, <2>4, <2>5, <2>6, <2>7, <2>8 DEF ProfileInv, DecisionTopics
<1> QED BY <1>1, ProfilesStay, PTL
=============================================================================
