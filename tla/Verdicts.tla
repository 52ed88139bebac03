------------------------------ MODULE Verdicts ------------------------------
(***************************************************************************)
(* One Run of a profile, from its first read to its verdict, beside a       *)
(* target that goes on working: what the profiles may claim of the target   *)
(* they tested.  A Run is drawn with one flaw of its target, or none, and   *)
(* one outage of its surroundings, or none.                                 *)
(***************************************************************************)
EXTENDS MinimalVerdict, PolicyVerdicts, BoundaryVerdicts, ReportVerdicts, DecisionVerdicts,
        SurfaceVerdicts

CONSTANT Topics    \* the profiles a Run is drawn from

ASSUME TopicsAssumption ==
    Topics \subseteq {"H-03", "N-01", "N-02", "N-03", "E-01", "E-02", "H-01", "H-01-stage-1",
                      "H-02"}

Init ==
    /\ topic \in Topics
    /\ CASE topic = "H-03" -> MinimalInit
         [] topic = "N-01" -> NoticeInit
         [] topic = "N-02" -> BoundaryInit
         [] topic = "N-03" -> StaleInit
         [] topic = "E-01" -> CitationInit
         [] topic = "E-02" -> FreezeInit
         [] topic \in {"H-01", "H-01-stage-1"} -> DecisionInit
         [] topic = "H-02" -> SurfaceInit

Next == \/ MinimalNext \/ NoticeNext \/ BoundaryNext \/ StaleNext \/ CitationNext \/ FreezeNext
        \/ DecisionNext \/ SurfaceNext

\* The process of the Run is scheduled, and so is the worker it waits for.
Spec == Init /\ [][Next]_vars /\ WF_vars(Next)

-----------------------------------------------------------------------------

\* A PASS is true of the target at the end, whatever it did between two reads of
\* the Run and whatever was out of reach.  Six holes are known: N-02 without its
\* receipts, N-02 when the processing precedes the consent (EarlyStartIsFailed),
\* N-03 when a server error stands for a refusal, E-01 when its records could
\* not be read (UnreadRecordsAreNoPass), and H-01 and H-02 when the target writes
\* after the one read that follows a request.
PassIsTrue ==
    verdict = "PASS" =>
        CASE topic = "H-03" -> MinimalHolds
          [] topic = "N-02" -> BoundaryHolds \/ outage = "receipts" \/ flaw = "early"
          [] topic = "N-03" -> Sound \/ outage = "refusing"
          [] topic = "E-01" -> Sound \/ outage = "records"
          [] topic = "E-02" -> FreezeHolds
          [] topic \in {"H-01", "H-01-stage-1"} -> DecisionsHold \/ flaw = "late"
          [] topic = "H-02" -> SurfaceHolds \/ flaw = "backfills-late"
          [] OTHER -> Sound

\* A FAIL names a target that is at fault: no order of the target's steps and of
\* the reads of the Run accuses a sound one.  The outages listed are those that
\* the judges take for an answer of the target.
FailIsProductFault ==
    verdict = "FAIL" =>
        \/ ~Sound
        \/ topic = "H-03" /\ outage = "report"
        \/ topic = "N-01" /\ outage = "rotation"
        \/ topic = "N-02" /\ outage \in {"transport", "server"}
        \/ topic = "E-01" /\ outage \in {"fixture", "api", "records"}
        \/ topic = "E-02" /\ outage = "api"
        \/ topic = "H-01" /\ outage = "server"

\* The worker was so slow that the Run saw none of what it waits for.
WorkerWasSlow ==
    CASE topic = "H-03" -> Latest(seen, "effect") # "true"
      [] topic = "N-02" -> \/ ~Last(seen.cases).effects.refused
                        \/ \E case \in ToSet(seen.normal) : ~Chained(case)
      [] OTHER -> FALSE

\* A sound target that answered every read is passed: the profiles are of use.
SoundIsPassed ==
    Ended /\ Sound /\ outage = "none" => verdict = "PASS" \/ WorkerWasSlow

\* What the memory of a Run says of its target: the invariant of its profile.
ProfileInv ==
    /\ topic \in {"H-03", "N-01", "N-02", "N-03", "E-01", "E-02", "H-02"} \cup DecisionTopics
    /\ topic = "H-03" => MinimalInv
    /\ topic = "N-01" => NoticeInv
    /\ topic = "N-02" => BoundaryInv
    /\ topic = "N-03" => StaleInv
    /\ topic = "E-01" => CitationInv
    /\ topic = "E-02" => FreezeInv
    /\ topic \in DecisionTopics => DecisionInv
    /\ topic = "H-02" => SurfaceInv

-----------------------------------------------------------------------------
(* Disagreements *)

\* specs/003-n02-consent-order/spec.md, table of N-02, A5: processing that was
\* requested, started or done before the consent is a direct FAIL.
EarlyStartIsFailed ==
    topic = "N-02" /\ Ended /\ outage = "none" /\ world.early => verdict = "FAIL"

\* specs/003-n02-consent-order/contracts/whyyou-n02-adapter.md:162: a source that
\* gets out of reach during a Run makes it INCONCLUSIVE.
LostPathIsNoFail ==
    topic = "N-02" /\ verdict = "FAIL" /\ outage = "transport" => ~Sound

\* specs/004-e01-e02-score-evidence/contracts/scenario-profile-v4.md, verdict
\* precedence: required evidence that is unavailable makes a Run INCONCLUSIVE.
UnreadRecordsAreNoPass ==
    topic = "E-01" /\ verdict = "PASS" => Unavailable \notin {seen.preRecord, seen.postRecord}

\* specs/006-h01-human-decision/data-model.md: denied or error responses with
\* changed owned business state are FAIL.
ChangedStateIsFailed ==
    topic = "H-01" /\ Ended /\ flaw # "late" /\ outage = "helper" /\ world.wrong # {}
        => verdict = "FAIL"
=============================================================================
