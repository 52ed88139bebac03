------------------------------ MODULE Custody -------------------------------
(***************************************************************************)
(* What the recovery of a dead report event promises (specs/002: the DLQ   *)
(* message is sent back and only then deleted): the event is in the source *)
(* queue, in the dead-letter queue or handled, and when it is in none of   *)
(* them the product lost it, never the instrument.                         *)
(***************************************************************************)
VARIABLES held,   \* which queues hold the event
          fate    \* "open", "handled", or "lost" by the product

Queues == {"source", "dlq"}

Init == held = {} /\ fate = "open"

Publish == held = {} /\ fate = "open" /\ held' = {"source"} /\ UNCHANGED fate

Handle ==
    /\ "source" \in held
    /\ held' = held \ {"source"}
    /\ fate' = "handled"

\* Effects made durable while the message stays in its queue.
HandleUnacknowledged == "source" \in held /\ fate' = "handled" /\ UNCHANGED held

Die == "source" \in held /\ held' = {"dlq"} /\ UNCHANGED fate

Resend == held = {"dlq"} /\ held' = Queues /\ UNCHANGED fate

\* The dead letter may go only while another copy or the effect exists.
Discard ==
    /\ "dlq" \in held
    /\ "source" \in held \/ fate = "handled"
    /\ held' = held \ {"dlq"}
    /\ UNCHANGED fate

ProductLoses ==
    /\ held = {"source"}
    /\ held' = {}
    /\ fate' = IF fate = "handled" THEN "handled" ELSE "lost"

Next == Publish \/ Handle \/ HandleUnacknowledged \/ Die \/ Resend \/ Discard \/ ProductLoses

Spec == Init /\ [][Next]_<<held, fate>>
=============================================================================
