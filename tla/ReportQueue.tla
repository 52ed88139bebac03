---------------------------- MODULE ReportQueue -----------------------------
(***************************************************************************)
(* The target's reporting queue and worker, and the fault marker in it, as *)
(* far as the adapters of ControlProof touch them:                         *)
(*   engine/adapters/whyyou/queue.py, fault.py, effects.py.                *)
(*                                                                         *)
(* One report request is followed: its original message and the copy that  *)
(* a redrive sends.  flaw is what the product under test does wrong, fixed *)
(* for a behaviour: it is what the verdict of a Run should tell.           *)
(***************************************************************************)
EXTENDS Naturals, FiniteSets, Sequences

CONSTANTS
    MaxReceive,   \* receive count after which the queue gives a message up
    Polls         \* reads a poll makes before its deadline

\* config.py takes no other count than 3; a queue that gave up at the first
\* failure would leave an AFTER Run no redelivery to see.
ASSUME QueueAssumption == MaxReceive \in Nat \ {0, 1} /\ Polls \in Nat \ {0}

VARIABLES
    msg,        \* the two copies of the message
    db,         \* durable reporting effects
    published,  \* the publish status of the event's outbox row
    receipts,   \* the receipt file the worker's hook writes
    marker,     \* the fault marker
    hiring,     \* what the product recorded as decided about the applicant
    subject,    \* the synthetic applicant is in the database
    flaw        \* what is wrong with the product

targetVars == <<msg, db, receipts, marker, hiring, subject, flaw>>

Copies == {"orig", "again"}

\* "early": writes before the boundary.  "repeats": no processed-message check.
\* "partial": a report without its projection.  "drops": no dead-letter queue.
\* "silent": a final failure looks queued.  "accepts": decides with no report.
\* "leaks": refuses, yet moves the stage.  "unexplained": refuses, no reason.
\* "redecides": no idempotency.  "machine": decides by itself on a request.
Flaws == {"none", "early", "repeats", "partial", "drops", "silent", "accepts",
          "leaks", "unexplained", "redecides", "machine"}

NoDecision == [reviews |-> {}, audits |-> {}, stage |-> "initial"]

TargetInit ==
    /\ msg = [c \in Copies |-> [place |-> "none", count |-> 0]]
    /\ db = [reports |-> 0, documents |-> 0, processed |-> 0]
    /\ published = FALSE
    /\ receipts = {}
    /\ marker = "none"
    /\ hiring = NoDecision
    /\ subject = FALSE
    /\ flaw \in Flaws

In(place) == {c \in Copies : msg[c].place = place}

Put(c, where) == msg' = [msg EXCEPT ![c].place = where]

-----------------------------------------------------------------------------
(* The product *)

\* One transaction: report, projection and processed-message key.
Committed ==
    [reports |-> db.reports + 1,
     documents |-> IF flaw = "partial" THEN db.documents ELSE db.documents + 1,
     processed |-> 1]

Publish ==
    /\ msg["orig"].place = "outbox"
    /\ Put("orig", "ready")
    /\ UNCHANGED <<db, receipts, marker, hiring, subject, flaw>>

\* The publisher commits the row's status once it has sent the message.
MarkPublished ==
    /\ msg["orig"].place \notin {"none", "outbox"}
    /\ ~published
    /\ published' = TRUE
    /\ UNCHANGED targetVars

GivesUp(c) ==
    /\ msg[c].place = "ready"
    /\ msg[c].count = MaxReceive
    /\ Put(c, IF flaw = "drops" THEN "dropped" ELSE "dlq")
    /\ UNCHANGED <<db, receipts, marker, hiring, subject, flaw>>

Received(c) ==
    /\ msg[c].place = "ready"
    /\ msg[c].count < MaxReceive

\* The message stays in the queue, invisible until its timeout.
Unacknowledged(c) ==
    msg' = [msg EXCEPT ![c] = [place |-> "hidden", count |-> @.count + 1]]

\* The hook of the BEFORE fault raises ahead of every effect.
FailsBefore(c) ==
    /\ Received(c)
    /\ marker = "before"
    /\ Unacknowledged(c)
    /\ receipts' = receipts \cup {[kind |-> "before", attempt |-> msg[c].count + 1]}
    /\ db' = IF flaw = "early" /\ db.reports = 0 THEN [db EXCEPT !.reports = 1] ELSE db
    /\ UNCHANGED <<marker, hiring, subject, flaw>>

\* The AFTER hook leaves one delivery unacknowledged once its effects are in.
FailsAfter(c) ==
    /\ Received(c)
    /\ marker = "after"
    /\ Unacknowledged(c)
    /\ db' = Committed
    /\ receipts' = receipts \cup {[kind |-> "after", attempt |-> msg[c].count + 1]}
    /\ marker' = "spent"
    /\ UNCHANGED <<hiring, subject, flaw>>

Handles(c) ==
    /\ Received(c)
    /\ marker \notin {"before", "after"}
    /\ subject
    /\ Put(c, "done")
    /\ IF db.processed = 1 /\ flaw # "repeats"
       THEN /\ receipts' = IF marker = "spent"
                           THEN receipts \cup {[kind |-> "ack", attempt |-> msg[c].count + 1]}
                           ELSE receipts
            /\ UNCHANGED db
       ELSE db' = Committed /\ UNCHANGED receipts
    /\ UNCHANGED <<marker, hiring, subject, flaw>>

\* With the applicant's rows gone the handler fails and the queue retries.
HandlesNobody(c) ==
    /\ Received(c)
    /\ marker \notin {"before", "after"}
    /\ ~subject
    /\ Unacknowledged(c)
    /\ UNCHANGED <<db, receipts, marker, hiring, subject, flaw>>

Reappears(c) ==
    /\ msg[c].place = "hidden"
    /\ Put(c, "ready")
    /\ UNCHANGED <<db, receipts, marker, hiring, subject, flaw>>

\* The worker's hook ignores a marker past its expires_at.
Expires ==
    /\ marker \in {"before", "after"}
    /\ marker' = "expired"
    /\ UNCHANGED <<msg, db, receipts, hiring, subject, flaw>>

WorkerStep ==
    \/ Publish
    \/ Expires
    \/ \E c \in Copies :
         GivesUp(c) \/ FailsBefore(c) \/ FailsAfter(c) \/ Handles(c)
           \/ HandlesNobody(c) \/ Reappears(c)

-----------------------------------------------------------------------------
(* The product's answer to a company user's decision request *)

Paths == <<"FINAL_DECISION", "BATCH_MOVE_FINAL_ACCEPT", "BATCH_MOVE_FINAL_REJECT">>

\* A final decision writes a review and its audit, a batch move only an audit.
Decided(who, path, request) ==
    [reviews |-> IF path = "FINAL_DECISION"
                 THEN hiring.reviews \cup {<<who, request>>} ELSE hiring.reviews,
     audits  |-> hiring.audits \cup {<<path, who, request>>},
     stage   |-> "final"]

Accepts == db.reports > 0 \/ flaw = "accepts"

\* The same key again is a no-op, unless the product ignores keys.
Answer(path, request) ==
    IF Accepts
    THEN hiring' = IF request = 2 /\ hiring # NoDecision /\ flaw # "redecides"
                   THEN hiring ELSE Decided("COMPANY_USER", path, request)
    ELSE hiring' = CASE flaw = "leaks"   -> [hiring EXCEPT !.stage = "final"]
                     [] flaw = "machine" -> Decided("UNKNOWN", path, request)
                     [] OTHER            -> hiring

-----------------------------------------------------------------------------
(* The adapters' reads *)

\* read_attempts: the BEFORE receipts of the file.
Attempts == {x.attempt : x \in {y \in receipts : y.kind = "before"}}

\* read_dlq: a message of the event in the dead-letter queue.
Dead == In("dlq") # {}

\* read_boundary_receipt: of AFTER receipts there must be exactly one.
BoundaryRead(variant) ==
    LET found == {x \in receipts : x.kind = variant}
    IN  IF variant = "after" THEN Cardinality(found) = 1 ELSE found # {}

\* read_duplicate_ack: an acknowledged redelivery that skipped the handler.
AckRead == \E x \in receipts : x.kind = "ack" /\ x.attempt >= 2

NoReport == [status |-> "missing", reports |-> 0, documents |-> 0, processed |-> 0,
             published |-> FALSE]
LostReport == [NoReport EXCEPT !.status = "UNAVAILABLE"]

\* The SELECTs of one read see later commits than its first one, of reports.
ReportRows(reports) ==
    [status |-> "PRESENT", reports |-> reports,
     documents |-> db.documents, processed |-> db.processed, published |-> published]

NoEffects == [status |-> "missing", rows |-> NoDecision]
LostEffects == [NoEffects EXCEPT !.status = "UNAVAILABLE"]
DecisionRows ==
    IF subject THEN [status |-> "PRESENT", rows |-> hiring]
               ELSE [NoEffects EXCEPT !.status = "ABSENT"]
=============================================================================
