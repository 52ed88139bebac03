---------------------------- MODULE DeliveryRuns ----------------------------
(***************************************************************************)
(* A Run of a queue profile beside the product's queue and worker: the     *)
(* next-state relation and what the Run must hold.                         *)
(***************************************************************************)
EXTENDS DeliveryRun

RunStep ==
    \/ Seed \/ ApplyFault \/ Trigger \/ PollBoundary \/ LoseReceipts
    \/ PollAttempts \/ PollDlq \/ ReadReports \/ ReadInjected
    \/ ReadStatus \/ OpenCase \/ AttemptCase \/ ReadPost \/ ResetCase
    \/ RestoreFault \/ SendAgain \/ DeleteDead \/ PollRecovered
    \/ JudgeRecovery \/ DecideFirst \/ ReadFirst \/ DecideAgain \/ ReadReplay
    \/ PollAck \/ ReadFinal \/ Unwind \/ Teardown \/ Seal

\* The publisher of the product is a process beside its worker.
Next ==
    \/ (RunStep \/ Product) /\ UNCHANGED published
    \/ MarkPublished /\ UNCHANGED runVars

\* The process of the Run and the product take their steps in any order.
Spec == Init /\ [][Next]_deliveryVars

(* The stages of a Run *)

Deciding   == {"judge", "decide", "decided", "replay", "replayed"}
Attempting == {"case", "attempt", "post", "reset"}
Ahead      == {"seed", "apply", "trigger", "boundary"}
Settled    == {"teardown", "seal", "sealed"}
Broken     == {"unwind", "raised"}

StagesOf ==
    Ahead \cup {"restore"} \cup Settled \cup Broken \cup
    CASE profile = "E03_BEFORE_V2" -> {"terminal", "dlq", "injected", "send", "delete", "recovered"}
                                        \cup Deciding
      [] profile = "E03_AFTER_V2"  -> {"injected", "ack", "final"}
      [] profile = "H03_DLQ_V2"    -> {"terminal", "dlq", "status", "send", "delete", "recovered"}
                                        \cup Attempting

\* The stages behind the redrive and behind the fault's restore, and what a
\* BEFORE Run does once it has looked for the dead letter.
Redriven    == {"recovered"} \cup Deciding
Unfaulted   == {"send", "delete"} \cup Redriven \cup Settled
PastDlq     == {"injected", "status", "restore"} \cup Attempting \cup Unfaulted

Places    == {"none", "outbox", "ready", "hidden", "dlq", "done", "dropped", "deleted"}
Flying    == {"outbox", "ready", "hidden"}
Decisions == [reviews : SUBSET ({"COMPANY_USER", "UNKNOWN"} \X {1, 2}),
              audits  : SUBSET ({Paths[i] : i \in 1..3} \X {"COMPANY_USER", "UNKNOWN"} \X {1, 2}),
              stage   : {"initial", "final"}]
Effects   == [status : {"missing", "UNAVAILABLE", "ABSENT", "PRESENT"}, rows : Decisions]
Snapshots == [status : {"missing", "UNAVAILABLE", "PRESENT"},
              reports : Nat, documents : Nat, processed : {0, 1}, published : BOOLEAN]
Answers   == {"none", "lost", "accepted", "unexplained", "refused"}
Cases     == [answer : Answers, pre : Effects, post : Effects]
Receipts  == [kind : {"before", "after", "ack"}, attempt : 1..MaxReceive]
Memories  ==
    [tries : 0..Polls, half : BOOLEAN, rows : Nat, boundary : BOOLEAN,
     attempts : SUBSET (1..MaxReceive), attemptsLost : BOOLEAN,
     dlq : {"ABSENT", "PRESENT", "UNAVAILABLE"},
     api : {"unread", "failed", "ready", "queued"},
     ui : {"unread", "final_failed", "ready", "queued_only"},
     token : Decisions, case : Cases, cases : Seq(Cases),
     injected : Snapshots, final : Snapshots, ack : {"none", "read"},
     restored : {"none", "ok", "failed"}, redrive : {"none", "unsent", "undeleted", "done"},
     first : Answers, replay : Answers, firstEffects : Effects, replayEffects : Effects]

TargetType ==
    /\ msg \in [Copies -> [place : Places, count : 0..MaxReceive]]
    /\ db \in [reports : Nat, documents : Nat, processed : {0, 1}]
    /\ published \in BOOLEAN
    /\ receipts \subseteq Receipts
    /\ marker \in {"none", "before", "after", "spent", "expired"}
    /\ hiring \in Decisions
    /\ subject \in BOOLEAN /\ flaw \in Flaws

RunType ==
    /\ profile \in Profiles /\ outage \in Outages
    /\ stage \in StagesOf /\ late \in BOOLEAN
    /\ mem \in Memories
    /\ verdict \in {"none", "PASS", "FAIL"} \cup Reasons

TypeOK == TargetType /\ RunType

-----------------------------------------------------------------------------
(* What holds of the queue, the worker and the database *)

orig  == msg["orig"]
again == msg["again"]

NoRows == [reports |-> 0, documents |-> 0, processed |-> 0]

\* The fault is there between its application and its restore, and only while
\* the applicant is.
MarkerHolds ==
    /\ marker \in IF Before THEN {"none", "before", "expired"}
                            ELSE {"none", "after", "spent", "expired"}
    /\ marker # "none" => subject
    /\ stage \in {"seed", "apply"} => marker = "none"
    /\ stage = "seed" => ~subject
    /\ stage \notin {"seed", "seal", "sealed", "raised"} => subject
    /\ stage \in Unfaulted => mem.restored # "none"
    /\ stage \notin Unfaulted \cup Broken => mem.restored = "none"
    /\ stage \notin {"seed", "apply"} \cup Unfaulted \cup Broken => marker # "none"
    /\ mem.restored # "none" => marker = "none"

\* A copy is sent for a dead letter only, which is deleted after that.
CopiesHold ==
    /\ stage \in {"seed", "apply", "trigger"} => orig.place = "none"
    /\ orig.place = "none" => orig.count = 0 /\ db = NoRows /\ receipts = {}
    /\ orig.place \in {"dlq", "dropped", "deleted"} => orig.count = MaxReceive
    /\ flaw = "drops" => orig.place \notin {"dlq", "deleted"}
    /\ flaw # "drops" => orig.place # "dropped"
    /\ mem.dlq = "PRESENT" => orig.place \in {"dlq", "deleted"}
    /\ orig.place = "deleted" => mem.redrive # "none" /\ Before
    /\ mem.redrive = "done" => orig.place = "deleted" /\ again.place # "none"
    /\ stage \notin Redriven \cup Settled \cup Broken => mem.redrive = "none"
    /\ again.place = "none" => again.count = 0
    /\ again.place # "none" =>
         /\ mem.dlq = "PRESENT" /\ mem.restored # "none" /\ Before
         /\ stage # "send"
         /\ again.place \in {"ready", "hidden", "dlq", "done"}
         /\ subject => again.place \in {"ready", "done"} /\ again.count = 0
    /\ stage = "delete" => again.place # "none"
    /\ stage \in Redriven => mem.redrive = "done"

\* The handler commits once, whichever copy it gets.
BeforeHolds ==
    Before =>
      /\ orig.place = "done" \/ again.place = "done" =>
           /\ db.processed = 1 /\ db.reports > 0
           /\ db.documents = IF flaw = "partial" THEN 0 ELSE 1
           /\ flaw # "early" => db.reports = 1
      /\ orig.place # "done" /\ again.place # "done" =>
           /\ db.processed = 0 /\ db.documents = 0
           /\ flaw # "early" => db.reports = 0
      /\ flaw = "early" /\ Attempts # {} => db.reports > 0
      /\ subject => Attempts = 1..orig.count

FirstReceipt == [kind |-> "after", attempt |-> 1]

\* The AFTER hook fires once, on effects that no redelivery adds to.
AfterHolds ==
    ~Before =>
      /\ marker = "after" =>
           /\ receipts = {} /\ db = NoRows /\ orig.count = 0
           /\ orig.place \in {"none", "outbox", "ready"}
      /\ \A x \in receipts : x.kind = "after" => x = FirstReceipt
      /\ FirstReceipt \in receipts /\ flaw # "repeats" =>
           /\ db.reports = 1 /\ db.processed = 1
           /\ db.documents = IF flaw = "partial" THEN 0 ELSE 1
      /\ AckRead => flaw # "repeats" /\ orig.place = "done" /\ FirstReceipt \in receipts
      /\ marker = "spent" =>
           /\ FirstReceipt \in receipts /\ orig.count = 1
           /\ orig.place \in {"hidden", "ready", "done"}
           /\ orig.place = "done" /\ flaw # "repeats" => AckRead

-----------------------------------------------------------------------------
(* What the Run has read is true *)

ReadsHold ==
    /\ mem.half => stage \in {"injected", "recovered", "final"}
    /\ mem.rows <= db.reports
    /\ mem.boundary => IF Before THEN Attempts # {} ELSE FirstReceipt \in receipts
    /\ Before /\ stage \notin Ahead \cup Broken => mem.boundary
    /\ mem.ack = "read" => AckRead
    /\ mem.final.processed <= db.processed
    /\ flaw = "partial" =>
         db.documents = 0 /\ mem.injected.documents = 0 /\ mem.final.documents = 0
    /\ Before /\ flaw = "early" =>
         /\ mem.half /\ stage = "injected" => mem.rows > 0
         /\ mem.injected.status = "PRESENT" => mem.injected.reports > 0
    /\ flaw = "silent" => mem.ui # "final_failed"

Nobody == [status |-> "PRESENT", rows |-> NoDecision]

\* A path that was refused, and seen to change nothing, shows the product.
Telling(case) ==
    case.answer = "refused" =>
      /\ flaw \notin {"accepts", "unexplained", "early"}
      /\ ~Lost(case.post) /\ flaw \in {"leaks", "machine"} => case.post.rows.stage = "final"

\* Each path starts from the initial stage and is taken back to it.
CasesHold ==
    /\ hiring # NoDecision => stage \in {"post", "reset"} \cup Deciding \cup Settled \cup Broken
    /\ stage \in Attempting \ {"case"} => mem.token = NoDecision
    /\ mem.case.pre.rows = NoDecision
    /\ stage \in Attempting => Len(mem.cases) \in 0..2
    /\ profile = "H03_DLQ_V2" =>
         /\ stage \in Ahead \cup {"terminal", "dlq", "status"} => Len(mem.cases) = 0
         /\ stage \in {"restore"} \cup Unfaulted => Len(mem.cases) = 3
    /\ stage = "post" /\ mem.case.answer = "refused" =>
         /\ flaw \notin {"accepts", "unexplained", "early"}
         /\ flaw \in {"leaks", "machine"} => hiring.stage = "final"
    /\ stage = "reset" => Telling(mem.case)
    /\ \A i \in DOMAIN mem.cases :
         Telling(mem.cases[i]) /\ mem.cases[i].pre.rows = NoDecision

Once  == [reviews |-> {<<"COMPANY_USER", 1>>}, audits |-> {<<Paths[1], "COMPANY_USER", 1>>},
          stage |-> "final"]
Twice == <<"COMPANY_USER", 2>>

\* A second decision under one key would show in the effects read last.
ReplayHolds ==
    /\ stage \in {"decide", "decided", "replay", "replayed"} => db.reports > 0
    /\ stage \in {"judge", "decide"} => hiring = NoDecision
    /\ stage \in {"decided", "replay"} => hiring \in {NoDecision, Once}
    /\ mem.firstEffects.rows \in {NoDecision, Once}
    /\ mem.firstEffects.rows = Once => mem.firstEffects.status = "PRESENT"
    /\ stage \notin {"replay", "replayed"} \cup Settled \cup Broken => mem.firstEffects = NoEffects
    /\ stage \notin Settled \cup Broken => mem.replayEffects = NoEffects
    /\ stage \in {"replay", "replayed"} /\ mem.firstEffects.rows = Once => hiring # NoDecision
    /\ mem.replay = "accepted" /\ flaw = "redecides" /\ mem.firstEffects.rows = Once =>
         /\ stage = "replayed" => Twice \in hiring.reviews
         /\ mem.replayEffects.status = "PRESENT" => Twice \in mem.replayEffects.rows.reviews

VerdictHolds ==
    verdict = IF stage = "sealed" THEN Verdict(Assertions(profile, mem), RestoredSafely(mem))
                                  ELSE "none"

-----------------------------------------------------------------------------
(* When every source could be read and nothing was late *)

Calm == outage = "none" /\ ~late

\* What the Run waited for has come: the copy is at rest.
CalmHolds ==
    Calm =>
      /\ Before /\ stage \in PastDlq => orig.place \notin Flying
      /\ stage \in {"final", "restore"} \cup Settled => orig.place \notin Flying
      /\ stage = "recovered" /\ mem.half /\ mem.rows > 0 /\ flaw # "early" => again.place = "done"
      /\ stage \in Deciding \cup Settled /\ flaw # "early" => again.place \in {"none", "done"}

Clean == Calm /\ flaw = "none" /\ marker # "expired" /\ stage \notin Broken

\* One report set, or no row at all, whatever the outbox row says.
Rows(n) == {[status |-> "PRESENT", reports |-> n, documents |-> n, processed |-> n,
             published |-> marked] : marked \in BOOLEAN}
Complete == Rows(1)
Nothing  == Rows(0)
Decided1 == [status |-> "PRESENT", rows |-> Once]
Refused  == [answer |-> "refused", pre |-> Nobody, post |-> Nobody]

\* A sound product fails every attempt and refuses every decision.
CleanBefore ==
    Clean /\ Before =>
      /\ stage \in {"boundary", "terminal", "dlq"} => orig.place \in Flying \cup {"dlq"}
      /\ stage = "dlq" =>
           /\ ~mem.attemptsLost
           /\ orig.place \in {"outbox", "ready"} => mem.attempts = 1..orig.count
           /\ orig.place = "dlq" => mem.attempts = AllAttempts
      /\ stage \in PastDlq => mem.dlq = "PRESENT" /\ mem.attempts = AllAttempts /\ ~mem.attemptsLost
      /\ mem.injected \in {NoReport} \cup Nothing
      /\ stage # "recovered" => mem.final \in {NoReport} \cup Complete

CleanCases ==
    Clean /\ profile = "H03_DLQ_V2" =>
      /\ stage \in PastDlq \ {"status"} => mem.api = "failed" /\ mem.ui = "final_failed"
      /\ stage \in Attempting => hiring = NoDecision
      /\ stage \in {"attempt", "post", "reset"} => mem.case.pre = Nobody
      /\ stage \in {"post", "reset"} => mem.case.answer = "refused"
      /\ stage = "reset" => mem.case.post = Nobody
      /\ stage \in PastDlq => \A i \in DOMAIN mem.cases : mem.cases[i] = Refused

CleanReplay ==
    Clean /\ profile = "E03_BEFORE_V2" =>
      /\ stage \in {"decided", "replay", "replayed"} => mem.first = "accepted" /\ hiring = Once
      /\ stage \in {"replay", "replayed"} => mem.firstEffects = Decided1
      /\ stage = "replayed" => mem.replay = "accepted"
      /\ stage \in Settled =>
           \/ mem.firstEffects = NoEffects
           \/ /\ mem.first = "accepted" /\ mem.firstEffects = Decided1
              /\ mem.replay = "accepted" /\ mem.replayEffects = Decided1

\* Its effects are there at the first delivery and stay as they are.
CleanAfter ==
    Clean /\ ~Before =>
      /\ stage \notin Ahead \cup Broken => mem.boundary
      /\ mem.half => mem.rows = 1
      /\ stage \in {"ack", "final", "restore"} \cup Settled => mem.injected \in Complete
      /\ stage \in {"final", "restore"} \cup Settled => mem.ack = "read"
      /\ stage \in {"restore"} \cup Settled => mem.final \in Complete /\ mem.dlq = "ABSENT"

\* The inductive invariant.
IInv ==
    /\ TypeOK
    /\ MarkerHolds /\ CopiesHold /\ BeforeHolds /\ AfterHolds
    /\ ReadsHold /\ CasesHold /\ ReplayHolds /\ VerdictHolds
    /\ CalmHolds /\ CleanBefore /\ CleanCases /\ CleanReplay /\ CleanAfter

-----------------------------------------------------------------------------

\* The flaws of the product that the assertions of a profile are about.
Tested ==
    CASE profile = "E03_BEFORE_V2" -> {"early", "partial", "drops", "redecides"}
      [] profile = "E03_AFTER_V2"  -> {"repeats", "partial"}
      [] profile = "H03_DLQ_V2"    -> {"early", "drops", "silent", "accepts", "leaks",
                                       "unexplained", "machine"}

\* A PASS is true of the product: no flaw the profile tests is there, the
\* marker is gone, and an E-03 Run leaves one complete report set with no
\* message in the dead-letter queue, whatever was late or out of reach.
PassIsTrue ==
    verdict = "PASS" =>
        /\ flaw \notin Tested
        /\ marker = "none"
        /\ profile # "H03_DLQ_V2" => OneReportingSet(db) /\ ~Dead

\* The outbox row was marked as published between the two reads of the effects.
MarkedMeanwhile == mem.injected.published # mem.final.published

\* A FAIL accuses a product that is at fault, when every source could be read
\* and nothing was late: no order of the reads, of the worker's deliveries and
\* of the redrive makes the instrument blame a sound product.  One hole is
\* known: an AFTER Run compares digests that cover the publish status, so the
\* publisher's late commit looks like an effect of the redelivery.
FailIsProductFault ==
    verdict = "FAIL" /\ outage = "none" /\ ~late =>
        flaw # "none" \/ (~Before /\ MarkedMeanwhile)

\* The three decision paths of H-03 start from one baseline: what the previous
\* path wrote, reviews and their audits, is gone from the database.
CasesAreIsolated ==
    stage = "case" => hiring = NoDecision

\* When the synthetic applicant is torn down after an undisturbed Run, no
\* message about it is left for the worker to fail on.  (A report that was
\* written before the boundary ends the wait for the effects at once.)
NoMessageOutlivesItsSubject ==
    stage = "sealed" /\ ~late /\ outage = "none" /\ flaw # "early" => ~InFlight

\* The event is never lost by the instrument: Custody.
held == {q \in {"source", "dlq"} :
           \E c \in Copies :
             IF q = "dlq" THEN msg[c].place = "dlq"
             ELSE msg[c].place \in {"outbox", "ready", "hidden"}}
Fate == IF db.processed = 1 THEN "handled"
        ELSE IF In("dropped") # {} THEN "lost" ELSE "open"

C == INSTANCE Custody WITH held <- held, fate <- Fate
ImplementsCustody == C!Spec

-----------------------------------------------------------------------------
(* Disagreements *)

\* contracts/whyyou-adapter-v2.md:255 and :260: access lost during a Run is
\* INCONCLUSIVE, an adapter error is never turned into a FAIL.
LostAccessIsNoFail ==
    verdict = "FAIL" /\ outage # "none" /\ ~late =>
        flaw # "none" \/ (~Before /\ MarkedMeanwhile)

\* contracts/whyyou-adapter-v2.md:256: a query that succeeds and finds no
\* message makes the assertion a FAIL candidate: the Run has a verdict.
AbsentMessageIsJudged ==
    stage = "raised" => (outage # "none" \/ late)

\* specs/002 spec.md:523: E03-A5 fails when the report is doubled or the handler
\* is run again.
FirstDeliveryCounts ==
    verdict = "FAIL" /\ outage = "none" /\ ~late => flaw # "none"

\* specs/002 spec.md:267: still retrying at the deadline is INCONCLUSIVE.
UnfinishedRetryIsNoFail ==
    verdict = "FAIL" /\ outage = "none" /\ late =>
        flaw # "none" \/ (~Before /\ MarkedMeanwhile)
=============================================================================
