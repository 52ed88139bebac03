-------------------------- MODULE DeliveryVerdicts --------------------------
(***************************************************************************)
(* The judges of the queue profiles: engine/judges/e03.py, h03_dlq.py,     *)
(* common.py and the assertions and verdict of executors/sealed.py.        *)
(*                                                                         *)
(* m is what a Run collected.  An assertion is PASS, FAIL or one of the    *)
(* reasons of INCONCLUSIVE.                                                *)
(***************************************************************************)
EXTENDS ReportQueue

Reasons == {"EVIDENCE_CONFLICT", "ACCESS_LIMITED", "INSUFFICIENT_EVIDENCE"}

PassIf(condition) == IF condition THEN "PASS" ELSE "FAIL"
PassOrUnsure(condition) == IF condition THEN "PASS" ELSE "INSUFFICIENT_EVIDENCE"

\* The first reason that applies, or the outcome when none does.
Unless(access, missing, outcome) ==
    CASE access  -> "ACCESS_LIMITED"
      [] ~access /\ missing -> "INSUFFICIENT_EVIDENCE"
      [] OTHER   -> outcome

Lost(snapshot) == snapshot.status = "UNAVAILABLE"
Missing(snapshot) == snapshot.status = "missing"

AllAttempts == 1..MaxReceive

OneReportingSet(rows) ==
    rows.reports = 1 /\ rows.documents = 1 /\ rows.processed = 1

HasDurableEffect(rows) ==
    rows.reports > 0 \/ rows.documents > 0 \/ rows.processed > 0

RestoredSafely(m) == m.restored = "ok"

-----------------------------------------------------------------------------
(* E-03 BEFORE *)

Lineage(m) ==
    Unless(m.attemptsLost \/ m.dlq = "UNAVAILABLE" \/ Lost(m.final),
           ~m.boundary \/ m.redrive = "none" \/ Missing(m.final),
           PassIf(m.attempts # {} /\ m.dlq = "PRESENT"))

RetryTransition(m) ==
    Unless(m.attemptsLost \/ m.dlq = "UNAVAILABLE", FALSE,
           PassIf(m.attempts = AllAttempts /\ m.dlq = "PRESENT"))

InjectedAbsence(m) ==
    IF ~m.boundary THEN "INSUFFICIENT_EVIDENCE"
    ELSE Unless(Lost(m.injected), Missing(m.injected),
                PassIf(~HasDurableEffect(m.injected)))

RecoveredExactlyOnce(m) ==
    Unless(Lost(m.final), Missing(m.final), PassIf(OneReportingSet(m.final)))

SafeRecovery(m) == PassOrUnsure(RestoredSafely(m) /\ m.redrive = "done")

ExactHumanDecision(effects) ==
    /\ effects.rows.stage = "final"
    /\ Cardinality(effects.rows.reviews) = 1
    /\ \A review \in effects.rows.reviews : review[1] = "COMPANY_USER"
    /\ Cardinality(effects.rows.audits) = 1

\* compare_decision_replay: two answers that were read must be the same.
SameDecision(m) == "lost" \in {m.first, m.replay} \/ m.first = m.replay

DecisionReplay(m) ==
    LET read == Unless(Lost(m.firstEffects) \/ Lost(m.replayEffects), FALSE, "read")
    IN  IF Missing(m.firstEffects) \/ Missing(m.replayEffects)
        THEN "INSUFFICIENT_EVIDENCE"
        ELSE IF read # "read" THEN read
        ELSE PassIf(/\ SameDecision(m)
                    /\ m.replay = "accepted"
                    /\ m.first \in {"accepted", "lost"}
                    /\ ExactHumanDecision(m.firstEffects)
                    /\ m.firstEffects = m.replayEffects)

BeforeAssertions(m) ==
    <<Lineage(m), RetryTransition(m), InjectedAbsence(m), RecoveredExactlyOnce(m),
      DecisionReplay(m), SafeRecovery(m)>>

-----------------------------------------------------------------------------
(* E-03 AFTER *)

AfterLineage(m) ==
    Unless(m.dlq = "UNAVAILABLE" \/ Lost(m.final), ~m.boundary,
           PassIf(m.dlq = "ABSENT" /\ m.ack = "read"))

\* The two reads must be equal in all of their digest, publish status included.
AfterEffectsExact(m) ==
    IF ~m.boundary THEN "INSUFFICIENT_EVIDENCE"
    ELSE Unless(Lost(m.injected) \/ Lost(m.final), FALSE,
                PassIf(OneReportingSet(m.injected) /\ m.final = m.injected))

DuplicateShortCircuit(m) ==
    IF ~m.boundary THEN "INSUFFICIENT_EVIDENCE" ELSE PassIf(m.ack = "read")

AfterSafeRestore(m) ==
    IF ~m.boundary \/ m.dlq = "UNAVAILABLE" THEN "INSUFFICIENT_EVIDENCE"
    ELSE IF m.dlq = "PRESENT" THEN "FAIL" ELSE PassOrUnsure(RestoredSafely(m))

AfterAssertions(m) ==
    <<AfterLineage(m), AfterEffectsExact(m), DuplicateShortCircuit(m), AfterSafeRestore(m)>>

-----------------------------------------------------------------------------
(* H-03 with the dead-letter queue *)

Unchanged(case) == case.pre.rows = case.post.rows

ByOthers(case) ==
    \/ \E review \in case.post.rows.reviews : review[1] # "COMPANY_USER"
    \/ \E audit \in case.post.rows.audits : audit[2] # "COMPANY_USER"

DirectRisk(case) ==
    \/ case.answer = "accepted"
    \/ /\ ~Lost(case.pre) /\ ~Lost(case.post)
       /\ "ABSENT" \in {case.pre.status, case.post.status} \/ ~Unchanged(case)
    \/ ByOthers(case)

CaseLost(case) == case.answer = "lost" \/ Lost(case.pre) \/ Lost(case.post)

\* judge_h03_decisions: a direct risk counts even when other cases are lost.
DecisionPaths(m) ==
    LET every == {m.cases[i] : i \in DOMAIN m.cases}
    IN  IF \E case \in every : DirectRisk(case) THEN "FAIL"
        ELSE IF Len(m.cases) # Len(Paths) THEN "INSUFFICIENT_EVIDENCE"
        ELSE Unless(\E case \in every : CaseLost(case),
                    \E case \in every : case.answer = "unexplained", "PASS")

Preservation(m) ==
    Unless(m.attemptsLost \/ m.dlq = "UNAVAILABLE", FALSE,
           PassIf(m.dlq = "PRESENT" /\ m.attempts = AllAttempts))

Visibility(m) ==
    Unless(m.dlq = "UNAVAILABLE", m.ui = "unread" \/ m.api = "unread",
           PassIf(/\ m.dlq = "PRESENT" /\ m.ui = "final_failed"
                  /\ m.api \in {"failed", "final_failed"}))

\* _complete_h03_assertions: A2 to A5 know no third outcome.
FailureShown(m) == PassIf(m.ui = "final_failed" /\ m.api \in {"failed", "final_failed"})
FinalRefused(m) == PassIf(m.cases[1].answer = "refused")
NoPartialChange(m) == PassIf(Unchanged(m.cases[1]))
NoAutomaticDecision(m) ==
    PassIf(Unchanged(m.cases[1]) /\ \A i \in DOMAIN m.cases : ~ByOthers(m.cases[i]))

H03Assertions(m) ==
    <<PassOrUnsure(m.boundary), FailureShown(m), FinalRefused(m), NoPartialChange(m),
      NoAutomaticDecision(m), PassOrUnsure(RestoredSafely(m)), DecisionPaths(m),
      Preservation(m), Visibility(m)>>

-----------------------------------------------------------------------------
(* The verdict of a sealed profile *)

Assertions(profile, m) ==
    CASE profile = "E03_BEFORE_V2" -> BeforeAssertions(m)
      [] profile = "E03_AFTER_V2"  -> AfterAssertions(m)
      [] profile = "H03_DLQ_V2"    -> H03Assertions(m)

\* Mutant: an assertion without an answer does not stop a PASS.
VerdictOfFailures(results, safe) ==
    LET found == {results[i] : i \in DOMAIN results}
    IN  CASE ~safe            -> "INSUFFICIENT_EVIDENCE"
          [] safe /\ "FAIL" \in found -> "FAIL"
          [] OTHER            -> "PASS"

Verdict(results, safe) ==
    LET found == {results[i] : i \in DOMAIN results}
    IN  CASE ~safe -> "INSUFFICIENT_EVIDENCE"
          [] safe /\ "FAIL" \in found -> "FAIL"
          [] safe /\ "FAIL" \notin found /\ found \cap Reasons # {} ->
               IF "EVIDENCE_CONFLICT" \in found THEN "EVIDENCE_CONFLICT"
               ELSE Unless("ACCESS_LIMITED" \in found, TRUE, "PASS")
          [] OTHER -> "PASS"
=============================================================================
