---------------------------- MODULE DeliveryRun -----------------------------
(***************************************************************************)
(* What the collectors of the queue profiles do between seed and teardown: *)
(* executors/e03_before.py, e03_after.py, h03_dlq.py, polling.py, and the  *)
(* recovery they share in engine/execution.py.  The lock, the block and    *)
(* the death of the process are those of FaultRuns.                        *)
(*                                                                         *)
(* late tells that a poll ran into its deadline while the product was      *)
(* still at work, or that the marker outlived its TTL.                     *)
(***************************************************************************)
EXTENDS DeliveryVerdicts

CONSTANT Outages   \* what may be out of reach during a Run, "none" included

VARIABLES profile, outage, stage, mem, late, verdict

runVars == <<profile, outage, stage, mem, late, verdict>>
deliveryVars == <<targetVars, published, runVars>>

Profiles == {"E03_BEFORE_V2", "E03_AFTER_V2", "H03_DLQ_V2"}
Before == profile \in {"E03_BEFORE_V2", "H03_DLQ_V2"}

NoCase == [answer |-> "none", pre |-> NoEffects, post |-> NoEffects]

NoMem ==
    [tries |-> 0, half |-> FALSE, rows |-> 0,
     boundary |-> FALSE, attempts |-> {}, attemptsLost |-> FALSE, dlq |-> "ABSENT",
     api |-> "unread", ui |-> "unread", token |-> NoDecision, case |-> NoCase,
     cases |-> <<>>, injected |-> NoReport, final |-> NoReport, ack |-> "none",
     restored |-> "none", redrive |-> "none", first |-> "none", replay |-> "none",
     firstEffects |-> NoEffects, replayEffects |-> NoEffects]

Init ==
    /\ TargetInit
    /\ profile \in Profiles
    /\ outage \in Outages
    /\ stage = "seed"
    /\ mem = NoMem
    /\ late = FALSE
    /\ verdict = "none"

Goto(next) == stage' = next
Keep(changes) == mem' = changes
fixed == <<profile, outage, verdict>>

\* An access that may fail in this Run does so at any one call or at every call.
MayLose(what) == {FALSE, (outage = what)}

\* finally: the fault is restored, the exception leaves, nothing is torn down.
Unwind ==
    /\ stage = "unwind"
    /\ marker' = "none"
    /\ Goto("raised")
    /\ UNCHANGED <<msg, db, receipts, hiring, subject, flaw, mem, late, fixed>>

\* Worker steps.  The two reads of one poll are closer than a visibility timeout.
Product ==
    /\ WorkerStep
    /\ (stage = "dlq") => \A c \in Copies : ~(msg[c].place = "hidden" /\ msg'[c].place = "ready")
    /\ UNCHANGED runVars

-----------------------------------------------------------------------------
(* Fault and trigger *)

Seed ==
    /\ stage = "seed"
    /\ subject' = TRUE
    /\ Goto("apply")
    /\ UNCHANGED <<msg, db, receipts, marker, hiring, flaw, mem, late, fixed>>

ApplyFault ==
    /\ stage = "apply"
    /\ marker' = IF Before THEN "before" ELSE "after"
    /\ Goto("trigger")
    /\ UNCHANGED <<msg, db, receipts, hiring, subject, flaw, mem, late, fixed>>

Trigger ==
    /\ stage = "trigger"
    /\ \/ Put("orig", "outbox") /\ Goto("boundary")
       \/ outage = "api" /\ Goto("unwind") /\ UNCHANGED msg
    /\ UNCHANGED <<db, receipts, marker, hiring, subject, flaw, mem, late, fixed>>

\* One read of a poll: found, next read, or the deadline.
Found(next, changes) ==
    Goto(next) /\ Keep([changes EXCEPT !.tries = 0]) /\ UNCHANGED late
Again(changes) ==
    /\ mem.tries + 1 < Polls
    /\ Keep([changes EXCEPT !.tries = @ + 1])
    /\ UNCHANGED <<stage, late>>
Deadline(next, changes, unfinished) ==
    /\ mem.tries + 1 = Polls
    /\ Keep([changes EXCEPT !.tries = 0])
    /\ late' = (late \/ unfinished)
    /\ Goto(next)

\* A missing boundary ends a BEFORE Run and leaves an AFTER Run inconclusive.
PollBoundary ==
    /\ stage = "boundary"
    /\ IF BoundaryRead(IF Before THEN "before" ELSE "after")
       THEN Found(IF Before THEN "terminal" ELSE "injected", [mem EXCEPT !.boundary = TRUE])
       ELSE \/ Again(mem)
            \/ Deadline(IF Before THEN "unwind" ELSE "injected", mem, TRUE)
    /\ UNCHANGED <<targetVars, fixed>>

LoseReceipts ==
    /\ stage \in {"boundary", "ack"}
    /\ outage = "receipts"
    /\ Goto("unwind")
    /\ UNCHANGED <<targetVars, mem, late, fixed>>

-----------------------------------------------------------------------------
(* BEFORE: retries until the dead-letter queue *)

PollAttempts ==
    /\ stage = "terminal"
    /\ \E lost \in MayLose("receipts") :
         Keep([mem EXCEPT !.attempts = IF lost THEN {} ELSE Attempts, !.attemptsLost = lost])
    /\ Goto("dlq")
    /\ UNCHANGED <<targetVars, late, fixed>>

InFlight == In("outbox") \cup In("ready") \cup In("hidden") # {}
AfterTerminal == IF profile = "H03_DLQ_V2" THEN "status" ELSE "injected"

PollDlq ==
    /\ stage = "dlq"
    /\ \E lost \in MayLose("dlq") :
         IF lost \/ Dead
         THEN Found(AfterTerminal, [mem EXCEPT !.dlq = IF lost THEN "UNAVAILABLE" ELSE "PRESENT"])
         ELSE \/ /\ mem.tries + 1 < Polls
                 /\ Keep([mem EXCEPT !.tries = @ + 1])
                 /\ Goto("terminal")
                 /\ UNCHANGED late
              \/ Deadline(AfterTerminal, mem, InFlight)
    /\ UNCHANGED <<targetVars, fixed>>

\* The first SELECT of an effects read: the reports.
ReadReports ==
    /\ stage \in {"injected", "recovered", "final"}
    /\ ~mem.half
    /\ Keep([mem EXCEPT !.half = TRUE, !.rows = db.reports])
    /\ UNCHANGED <<targetVars, stage, late, fixed>>

\* Mutant: the reports are read after the projections.
ReportsTakenLate ==
    {[status |-> "PRESENT", reports |-> db.reports, documents |-> mem.rows,
      processed |-> mem.rows, published |-> published]}

\* The other SELECTs, or a read that failed somewhere.
ReportsTaken == {IF lost THEN LostReport ELSE ReportRows(mem.rows) : lost \in MayLose("db")}

ReadInjected ==
    /\ stage = "injected" /\ mem.half
    /\ \E taken \in ReportsTaken : Keep([mem EXCEPT !.injected = taken, !.half = FALSE])
    /\ Goto(IF Before THEN "restore" ELSE "ack")
    /\ UNCHANGED <<targetVars, late, fixed>>

-----------------------------------------------------------------------------
(* H-03: what the company sees, and three decision paths *)

Terminated == Dead \/ In("dropped") # {}
ShownByApi == IF flaw # "silent" /\ Terminated THEN "failed"
              ELSE IF db.reports > 0 THEN "ready" ELSE "queued"
ShownByPage == IF flaw # "silent" /\ Terminated THEN "final_failed"
               ELSE IF db.reports > 0 THEN "ready" ELSE "queued_only"

\* The decision capabilities are read once more: without them the Run ends.
ReadStatus ==
    /\ stage = "status"
    /\ \E noApi \in MayLose("api"), noPage \in MayLose("browser"), none \in MayLose("decision") :
         /\ Keep([mem EXCEPT !.api = IF noApi THEN "unread" ELSE ShownByApi,
                             !.ui = IF noPage THEN "unread" ELSE ShownByPage])
         /\ Goto(IF none THEN "unwind" ELSE "case")
    /\ UNCHANGED <<targetVars, late, fixed>>

EffectsTaken == {IF lost THEN LostEffects ELSE DecisionRows : lost \in MayLose("db")}

\* capture_reset_token and the effects before the attempt.
OpenCase ==
    /\ stage = "case"
    /\ \/ \E taken \in EffectsTaken :
            /\ Keep([mem EXCEPT !.token = hiring, !.case = [NoCase EXCEPT !.pre = taken]])
            /\ Goto("attempt")
       \/ outage = "db" /\ Goto("unwind") /\ UNCHANGED mem
    /\ UNCHANGED <<targetVars, late, fixed>>

\* A request whose answer is lost may have been handled.
Attempted(path, request) ==
    \/ Answer(path, request)
    \/ outage = "decision" /\ UNCHANGED hiring
Heard(lost) ==
    CASE lost -> "lost"
      [] ~lost /\ Accepts -> "accepted"
      [] ~lost /\ ~Accepts /\ flaw = "unexplained" -> "unexplained"
      [] OTHER -> "refused"

AttemptCase ==
    /\ stage = "attempt"
    /\ \E lost \in MayLose("decision") :
         /\ IF lost THEN Attempted(Paths[Len(mem.cases) + 1], 1)
                    ELSE Answer(Paths[Len(mem.cases) + 1], 1)
         /\ Keep([mem EXCEPT !.case.answer = Heard(lost)])
    /\ Goto("post")
    /\ UNCHANGED <<msg, db, receipts, marker, subject, flaw, late, fixed>>

ReadPost ==
    /\ stage = "post"
    /\ \E taken \in EffectsTaken : Keep([mem EXCEPT !.case.post = taken])
    /\ Goto("reset")
    /\ UNCHANGED <<targetVars, late, fixed>>

NextCase ==
    /\ Keep([mem EXCEPT !.cases = Append(@, mem.case), !.case = NoCase, !.token = NoDecision])
    /\ Goto(IF Len(mem.cases) + 1 = Len(Paths) THEN "restore" ELSE "case")

\* Mutant: the audits are selected once the reviews they name are gone.
ResetReviewsFirst ==
    /\ stage = "reset"
    /\ hiring' = [mem.token EXCEPT !.audits =
                    @ \cup {a \in hiring.audits : a[1] = "FINAL_DECISION"}]
    /\ NextCase
    /\ UNCHANGED <<msg, db, receipts, marker, subject, flaw, late, fixed>>

\* Rows the token does not know are deleted, the invitation set back.
ResetCase ==
    /\ stage = "reset"
    /\ \/ /\ hiring' = [reviews |-> hiring.reviews \cap mem.token.reviews,
                        audits |-> hiring.audits \cap mem.token.audits,
                        stage |-> mem.token.stage]
          /\ NextCase
       \/ outage = "db" /\ Goto("unwind") /\ UNCHANGED <<hiring, mem>>
    /\ UNCHANGED <<msg, db, receipts, marker, subject, flaw, late, fixed>>

-----------------------------------------------------------------------------
(* coordinate_reporting_recovery *)

\* Mutant: the marker is left in place when the health check fails.
RestoreIfHealthy ==
    /\ stage = "restore"
    /\ late' = (late \/ marker = "expired")
    /\ \E unhealthy \in MayLose("health") :
         /\ marker' = IF unhealthy THEN marker ELSE "none"
         /\ Keep([mem EXCEPT !.restored = IF unhealthy THEN "failed" ELSE "ok"])
         /\ Goto(IF /\ Before /\ ~unhealthy
                    /\ profile = "H03_DLQ_V2" => mem.dlq = "PRESENT"
                 THEN "send" ELSE "teardown")
    /\ UNCHANGED <<msg, db, receipts, hiring, subject, flaw, fixed>>

RestoreFault ==
    /\ stage = "restore"
    /\ marker' = "none"
    /\ late' = (late \/ marker = "expired")
    /\ \E unhealthy \in MayLose("health") :
         /\ Keep([mem EXCEPT !.restored = IF unhealthy THEN "failed" ELSE "ok"])
         /\ Goto(IF /\ Before /\ ~unhealthy
                    /\ profile = "H03_DLQ_V2" => mem.dlq = "PRESENT"
                 THEN "send" ELSE "teardown")
    /\ UNCHANGED <<msg, db, receipts, hiring, subject, flaw, fixed>>

\* Mutant: the dead letter is deleted even when the send failed.
SendOrDelete ==
    /\ stage = "send" /\ mem.dlq = "PRESENT"
    /\ \/ msg' = [msg EXCEPT !["again"] = [place |-> "ready", count |-> 0]]
       \/ outage = "send" /\ UNCHANGED msg
    /\ Goto("delete")
    /\ UNCHANGED <<db, receipts, marker, hiring, subject, flaw, mem, late, fixed>>

\* A redrive without a matched message is an error, not an observation.
SendAgain ==
    /\ stage = "send"
    /\ \/ mem.dlq # "PRESENT" /\ Goto("unwind") /\ UNCHANGED <<msg, mem>>
       \/ /\ mem.dlq = "PRESENT"
          /\ msg' = [msg EXCEPT !["again"] = [place |-> "ready", count |-> 0]]
          /\ Goto("delete")
          /\ UNCHANGED mem
       \/ /\ mem.dlq = "PRESENT" /\ outage = "send"
          /\ Keep([mem EXCEPT !.redrive = "unsent"]) /\ Goto("teardown")
          /\ UNCHANGED msg
    /\ UNCHANGED <<db, receipts, marker, hiring, subject, flaw, late, fixed>>

\* Mutant: the send and delete receipts are taken for the recovery.
DeleteAndLeave ==
    /\ stage = "delete"
    /\ Put("orig", "deleted")
    /\ Keep([mem EXCEPT !.redrive = "done"]) /\ Goto("teardown")
    /\ UNCHANGED <<db, receipts, marker, hiring, subject, flaw, late, fixed>>

DeleteDead ==
    /\ stage = "delete"
    /\ \/ /\ Put("orig", "deleted") /\ UNCHANGED late
          /\ Keep([mem EXCEPT !.redrive = "done"]) /\ Goto("recovered")
       \/ /\ outage = "delete" /\ UNCHANGED late
          /\ Put("orig", "deleted") \/ UNCHANGED msg
          /\ Keep([mem EXCEPT !.redrive = "undeleted"]) /\ Goto("teardown")
    /\ UNCHANGED <<db, receipts, marker, hiring, subject, flaw, fixed>>

AfterRecovery == IF profile = "H03_DLQ_V2" THEN "teardown" ELSE "judge"

PollRecovered ==
    /\ stage = "recovered" /\ mem.half
    /\ \E taken \in ReportsTaken :
         LET seen == [mem EXCEPT !.final = taken, !.half = FALSE]
         IN  IF Lost(taken) \/ taken.reports > 0
             THEN Found(AfterRecovery, seen)
             ELSE Again(seen) \/ Deadline(AfterRecovery, seen, TRUE)
    /\ UNCHANGED <<targetVars, fixed>>

-----------------------------------------------------------------------------
(* E-03 BEFORE: one human decision, sent twice under one key *)

JudgeRecovery ==
    /\ stage = "judge"
    /\ \/ RecoveredExactlyOnce(mem) = "PASS"
          /\ \E none \in MayLose("decision") : Goto(IF none THEN "unwind" ELSE "decide")
       \/ RecoveredExactlyOnce(mem) # "PASS" /\ Goto("teardown")
    /\ UNCHANGED <<targetVars, mem, late, fixed>>

Decide(at, request, answer, next) ==
    /\ stage = at
    /\ \E lost \in MayLose("decision") :
         /\ IF lost THEN Attempted(Paths[1], request) ELSE Answer(Paths[1], request)
         /\ Keep([mem EXCEPT ![answer] = Heard(lost)])
    /\ Goto(next)
    /\ UNCHANGED <<msg, db, receipts, marker, subject, flaw, late, fixed>>

ReadDecision(at, effects, next) ==
    /\ stage = at
    /\ \E taken \in EffectsTaken : Keep([mem EXCEPT ![effects] = taken])
    /\ Goto(next)
    /\ UNCHANGED <<targetVars, late, fixed>>

DecideFirst == Decide("decide", 1, "first", "decided")
DecideAgain == Decide("replay", 2, "replay", "replayed")
ReadFirst == ReadDecision("decided", "firstEffects", "replay")
ReadReplay == ReadDecision("replayed", "replayEffects", "teardown")

-----------------------------------------------------------------------------
(* E-03 AFTER: the duplicate delivery *)

PollAck ==
    /\ stage = "ack"
    /\ IF AckRead
       THEN Found("final", [mem EXCEPT !.ack = "read"])
       ELSE \/ Again(mem)
            \/ Deadline("final", mem, InFlight)
    /\ UNCHANGED <<targetVars, fixed>>

ReadFinal ==
    /\ stage = "final" /\ mem.half
    /\ \E taken \in ReportsTaken, lost \in MayLose("dlq") :
         Keep([mem EXCEPT !.final = taken, !.half = FALSE,
                          !.dlq = CASE lost -> "UNAVAILABLE"
                                    [] ~lost /\ Dead -> "PRESENT"
                                    [] OTHER -> "ABSENT"])
    /\ Goto("restore")
    /\ UNCHANGED <<targetVars, late, fixed>>

-----------------------------------------------------------------------------
(* The end *)

Teardown ==
    /\ stage = "teardown"
    /\ \/ subject' = FALSE /\ Goto("seal")
       \/ outage = "db" /\ Goto("raised") /\ UNCHANGED subject
    /\ UNCHANGED <<msg, db, receipts, marker, hiring, flaw, mem, late, fixed>>

Seal ==
    /\ stage = "seal"
    /\ verdict' = Verdict(Assertions(profile, mem), RestoredSafely(mem))
    /\ Goto("sealed")
    /\ UNCHANGED <<targetVars, profile, outage, mem, late>>
=============================================================================
