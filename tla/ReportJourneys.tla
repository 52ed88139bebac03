--------------------------- MODULE ReportJourneys ---------------------------
(***************************************************************************)
(* The journeys of the E-01 and the E-02 Run, each from its seed to its    *)
(* teardown.                                                               *)
(***************************************************************************)
EXTENDS ReportRun

-----------------------------------------------------------------------------
(* E01Executor._journey with the evidence mutation adapter: a transcript   *)
(* segment is removed and reinserted, then the axes of a report item are   *)
(* rewritten and rewritten back, and a finally repeats what is still open  *)
(* before the teardown.  Exceptions of a step become facts (_guarded);     *)
(* interrupts pass through the finally.                                    *)

citationFrame == <<rootVars, pair, others, resultVars>>

BodyStages    == {"removal", "undo-removal", "probe", "undo-probe"}
FinallyStages == {"last-removal", "last-probe", "teardown"}

\* _citation: the lanes are seeded, or the seed transaction rolled back and
\* the journey goes on without any; an interrupt before the lanes are noted
\* finds nothing to tear down.
Citation(r) ==
    /\ stage[r] = "citation"
    /\ \/ rows' = rows \cup {r} /\ GoTo(r, "removal") /\ UNCHANGED failed
       \/ GoTo(r, "last-removal") /\ UNCHANGED <<rows, failed>>
       \/ rows' \in {rows, rows \cup {r}} /\ Interrupted(r) /\ GoTo(r, "leave-cut")
    /\ UNCHANGED <<citationFrame, altered, injections, teardown>>

\* _removal: nothing, when the report is late or the adapter refuses; the
\* segment deleted and recorded; or deleted and, as the read that confirms
\* the absence raises, not recorded.
Removal(r) ==
    /\ stage[r] = "removal"
    /\ \/ UNCHANGED <<altered, injections>>
       \/ /\ r \in Reporting
          /\ Alter(r, "removal")
          /\ Note(r, "removal", "APPLIED") \/ UNCHANGED injections
    /\ GoTo(r, "undo-removal")
    /\ UNCHANGED <<citationFrame, rows, teardown, failed>>

\* restore_segment: inserts the preserved row and reads it back.  The insert
\* of a row that is there already fails; a read that raises or disagrees is a
\* failure over a row that is back.
ReinsertSegment(r, next) ==
    /\ injections[r]["removal"] = "APPLIED"
    /\ \/ /\ "removal" \in altered[r]
          /\ PutBack(r, "removal")
          /\ \E state \in {"RESTORED", "RESTORE_FAILED"} : Note(r, "removal", state)
       \/ Note(r, "removal", "RESTORE_FAILED") /\ UNCHANGED altered
    /\ GoTo(r, next)

\* restore_probe_axes: an update, which may be repeated.
RewriteAxes(r, next) ==
    /\ injections[r]["probe"] = "APPLIED"
    /\ \/ /\ PutBack(r, "probe")
          /\ \E state \in {"RESTORED", "RESTORE_FAILED"} : Note(r, "probe", state)
       \/ Note(r, "probe", "RESTORE_FAILED") /\ UNCHANGED altered
    /\ GoTo(r, next)

NothingOpen(r, i, next) ==
    /\ injections[r][i] # "APPLIED"
    /\ GoTo(r, next)
    /\ UNCHANGED <<altered, injections>>

RestoreRemoval(r) ==
    /\ \/ stage[r] = "undo-removal" /\ ReinsertSegment(r, "probe")
       \/ stage[r] = "undo-removal" /\ NothingOpen(r, "removal", "probe")
       \/ stage[r] = "last-removal" /\ ReinsertSegment(r, "last-probe")
       \/ stage[r] = "last-removal" /\ NothingOpen(r, "removal", "last-probe")
    /\ UNCHANGED <<citationFrame, rows, teardown, failed>>

\* _probe: nothing, or the axes written and recorded.
Probe(r) ==
    /\ stage[r] = "probe"
    /\ \/ UNCHANGED <<altered, injections>>
       \/ r \in Reporting /\ Alter(r, "probe") /\ Note(r, "probe", "APPLIED")
    /\ GoTo(r, "undo-probe")
    /\ UNCHANGED <<citationFrame, rows, teardown, failed>>

\* Mutant: the finally has no restore of the probe.
RestoreProbeOnce(r) ==
    /\ \/ stage[r] = "undo-probe" /\ RewriteAxes(r, "last-removal")
       \/ stage[r] = "undo-probe" /\ NothingOpen(r, "probe", "last-removal")
       \/ stage[r] = "last-probe" /\ GoTo(r, "teardown") /\ UNCHANGED <<altered, injections>>
    /\ UNCHANGED <<citationFrame, rows, teardown, failed>>

RestoreProbe(r) ==
    /\ \/ stage[r] = "undo-probe" /\ RewriteAxes(r, "last-removal")
       \/ stage[r] = "undo-probe" /\ NothingOpen(r, "probe", "last-removal")
       \/ stage[r] = "last-probe" /\ RewriteAxes(r, "teardown")
       \/ stage[r] = "last-probe" /\ NothingOpen(r, "probe", "teardown")
    /\ UNCHANGED <<citationFrame, rows, teardown, failed>>

\* An interrupt in the body, also between a commit of the adapter and the
\* journey's note of it.
InterruptBody(r) ==
    /\ stage[r] \in BodyStages
    /\ Interrupted(r)
    /\ \/ UNCHANGED altered
       \/ stage[r] = "removal" /\ r \in Reporting /\ Alter(r, "removal")
       \/ stage[r] = "undo-removal" /\ injections[r]["removal"] = "APPLIED" /\ PutBack(r, "removal")
       \/ stage[r] = "probe" /\ r \in Reporting /\ Alter(r, "probe")
       \/ stage[r] = "undo-probe" /\ injections[r]["probe"] = "APPLIED" /\ PutBack(r, "probe")
    /\ GoTo(r, "last-removal")
    /\ UNCHANGED <<citationFrame, rows, injections, teardown>>

\* An interrupt in the finally skips what is left of it.
InterruptFinally(r) ==
    /\ stage[r] \in FinallyStages
    /\ Interrupted(r)
    /\ GoTo(r, "leave-cut")
    /\ UNCHANGED <<citationFrame, targetVars, injections, teardown>>

\* Without a seeded lane there is nothing to tear down.
CitationTeardown(r) ==
    /\ stage[r] = "teardown"
    /\ \/ r \in rows /\ RemoveRows(r)
       \/ /\ r \notin rows
          /\ teardown' = [teardown EXCEPT ![r] = "ok"]
          /\ UNCHANGED targetVars
    /\ GoTo(r, "leave-lock")
    /\ UNCHANGED <<citationFrame, injections, failed>>

CitationStep(r) ==
    \/ Citation(r) \/ Removal(r) \/ RestoreRemoval(r) \/ Probe(r) \/ RestoreProbe(r)
    \/ InterruptBody(r) \/ InterruptFinally(r) \/ CitationTeardown(r)

-----------------------------------------------------------------------------
(* E02Executor._journey: a position of the Run is seeded, its criteria are *)
(* published and published again over a report, and the teardown removes   *)
(* the position.  The change counts as restored when the rows are gone and *)
(* the other positions read as before.                                     *)

freezeFrame == <<rootVars, pair, resultVars>>

\* seed_position and other_positions_digest: a failure goes to the finally; an
\* interrupt before the position is noted finds nothing to tear down.
SeedPosition(r) ==
    /\ stage[r] = "position"
    /\ \/ /\ rows' = rows \cup {r}
          /\ others' \in {others, [others EXCEPT ![r] = "read"]}
          /\ GoTo(r, "publish")
          /\ UNCHANGED failed
       \/ GoTo(r, "unwind") /\ UNCHANGED <<rows, others, failed>>
       \/ /\ rows' \in {rows, rows \cup {r}}
          /\ Interrupted(r)
          /\ GoTo(r, "leave-cut")
          /\ UNCHANGED others
    /\ UNCHANGED <<freezeFrame, altered, injections, teardown>>

\* The rest of _steps: stopped before the second publication; or it is there
\* and recorded; or it is there and the read after it stops the journey.
Publish(r) ==
    /\ stage[r] = "publish"
    /\ \/ UNCHANGED <<altered, injections>>
       \/ /\ r \in Reporting
          /\ Alter(r, "publish")
          /\ Note(r, "publish", "APPLIED") \/ UNCHANGED injections
    /\ failed' \in {failed, failed \cup {r}}
    /\ GoTo(r, "unwind")
    /\ UNCHANGED <<freezeFrame, rows, teardown, others>>

\* _teardown: nothing seeded returns at once.
FreezeTeardown(r) ==
    /\ stage[r] = "unwind"
    /\ \/ r \in rows /\ RemoveRows(r) /\ GoTo(r, "others")
       \/ /\ r \notin rows
          /\ teardown' = [teardown EXCEPT ![r] = "ok"]
          /\ GoTo(r, "leave-lock")
          /\ UNCHANGED targetVars
    /\ UNCHANGED <<freezeFrame, injections, others, failed>>

\* Mutant: the digest decides alone, the teardown is not looked at.
ReadOthersOnly(r) ==
    /\ stage[r] = "others"
    /\ others[r] = "read"
    /\ others' = [others EXCEPT ![r] = "unchanged"]
    /\ IF injections[r]["publish"] = "APPLIED"
       THEN Note(r, "publish", "RESTORED") ELSE UNCHANGED injections
    /\ GoTo(r, "leave-lock")
    /\ UNCHANGED <<freezeFrame, targetVars, teardown, failed>>

\* verify-other-positions-unchanged: equal to the digest read before, or not,
\* or one of the two is missing.
ReadOthers(r) ==
    /\ stage[r] = "others"
    /\ \E equal \in {others[r] = "read", FALSE} :
          /\ others' = [others EXCEPT ![r] = IF equal THEN "unchanged" ELSE "unknown"]
          /\ IF injections[r]["publish"] = "APPLIED"
             THEN Note(r, "publish",
                       IF equal /\ teardown[r] = "ok" THEN "RESTORED" ELSE "RESTORE_FAILED")
             ELSE UNCHANGED injections
    /\ GoTo(r, "leave-lock")
    /\ UNCHANGED <<freezeFrame, targetVars, teardown, failed>>

\* The digest read raises, or an interrupt, in the finally: it leaves the
\* lock without an outcome.
CutFreeze(r) ==
    /\ stage[r] \in {"unwind", "others"}
    /\ Interrupted(r)
    /\ GoTo(r, "leave-cut")
    /\ UNCHANGED <<freezeFrame, targetVars, injections, teardown, others>>

FreezeStep(r) ==
    \/ SeedPosition(r) \/ Publish(r) \/ FreezeTeardown(r) \/ ReadOthers(r) \/ CutFreeze(r)
=============================================================================
