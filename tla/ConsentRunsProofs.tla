-------------------------- MODULE ConsentRunsProofs --------------------------
(***************************************************************************)
(* Proofs about ConsentRuns, for any set of Runs and any set of them that   *)
(* may be disturbed.                                                        *)
(***************************************************************************)
EXTENDS ConsentRuns, TLAPS

USE NoneIsNoRun, DisturbedAssumption
USE DEF allVars, consentVars, processVars, targetVars, rootVars, resultVars, quietVars,
        Acquire, Release, WriteBlock, LockIsFree, Blocked

-----------------------------------------------------------------------------
(* Types *)

Stages   == Locked \cup Gone \cup {"idle", "opened", "conclude", "block", "write", "seal"}
Mems     == [applied : BOOLEAN, replied : BOOLEAN, receipt : BOOLEAN,
             zero : BOOLEAN, restore : {"none", "ok", "failed"},
             overlayOk : BOOLEAN, safe : BOOLEAN, durable : {"unread", "one", "other"}]
Records  == [safe : BOOLEAN, result : Statuses \cup {"none"}]
Ways     == {"no", "exception", "interrupt"}
Ends     == {"not run", "ok", "failed", "held"}
Outcomes == {"none", "COMPLETED", "RESTORE_FAILED"}
States   == {"ABSENT", "COMPLETED", "RESTORE_FAILED"}

\* The types, in the parts that steps change.
RootType    == lock \in Runs \cup {None} /\ block \in Runs \cup {None} /\ maintenance \subseteq Runs
LockType    == \A r \in Runs : stage[r] \in Locked <=> lock = r /\ stage[r] \notin Gone
StageType   == stage \in [Runs -> Stages]
FaultType   == marker \subseteq Runs /\ token \subseteq Runs /\ rows \subseteq Runs /\ overlays \subseteq Runs
RequestType ==
    /\ receipts \subseteq Runs
    /\ pending \in [Runs -> SUBSET Requests] /\ consents \in [Runs -> SUBSET Requests]
MemType     == mem \in [Runs -> Mems]
WayType     == started \subseteq Runs /\ leaving \in [Runs -> Ways]
RecordType  == recovery \in [Runs -> Records] /\ teardown \in [Runs -> Ends]
ResultType  ==
    /\ outcome \in [Runs -> Outcomes] /\ verdict \in [Runs -> Statuses \cup {"none"}]
    /\ runFile \in [Runs -> States] /\ verified \subseteq Runs

TypeInParts ==
    /\ RootType /\ LockType /\ StageType /\ FaultType /\ RequestType /\ MemType
    /\ WayType /\ RecordType /\ ResultType /\ confirm \in ConfirmSteps

\* The parts are the whole.
LEMMA TypeParts == (TypeOK <=> TypeInParts) /\ (TypeOK' <=> TypeInParts')
  BY DEF TypeOK, TypeInParts, RootType, LockType, StageType, Stages, FaultType, RequestType, MemType, Mems,
     WayType, Ways, RecordType, Records, Ends, ResultType, Outcomes, States

\* A process at one control point after another.
LEMMA Moves ==
    ASSUME StageType, NEW r \in Runs, NEW s \in Stages, GoTo(r, s)
    PROVE  StageType' /\ stage'[r] = s /\ \A q \in Runs \ {r} : stage'[q] = stage[q]
  BY DEF StageType, GoTo

\* The control points, in the order of the code.
Opening == {"opened", "entered", "seed", "slices", "apply", "refused", "raised", "leave", "handler"}
Body    == {"request", "await failed", "read failed", "restore", "probe", "undo", "safe", "retry",
            "await retry", "record", "finally"}
Closing == {"teardown", "handler", "handler rows", "handler block", "leave"}
Ending  == {"conclude", "block", "write", "seal", "done"} \cup Gone

\* They are the control points of the type.
LEMMA StagesOfCode ==
    /\ Opening \subseteq Stages /\ Body \subseteq Stages /\ Closing \subseteq Stages /\ Ending \subseteq Stages
    /\ Body \subseteq Locked /\ Closing \subseteq Locked
    /\ Locked \cap (Gone \cup {"idle", "opened", "conclude", "block", "write", "seal"}) = {}
  BY DEF Opening, Body, Closing, Ending, Stages, Locked, Gone, Ended

Enters(r)  == Open(r) \/ EnterLock(r) \/ CheckBlock(r) \/ SeedLanes(r) \/ CollectSlices(r)
Collects(r) ==
    \/ ApplyFault(r) \/ SendRequest(r) \/ AwaitFailed(r) \/ ReadFailed(r)
    \/ RestoreFirst(r) \/ ProbePath(r) \/ UndoPath(r) \/ SafeState(r) \/ ReadRecovered(r)
    \/ Record(r)
Closes(r)  ==
    Finally(r) \/ FinalTeardown(r) \/ HandlerRestore(r) \/ HandlerTeardown(r) \/ HandlerBlock(r)
Finishes(r)    ==
    \/ LeaveLock(r) \/ Conclude(r) \/ BlockAndJudge(r) \/ WriteRun(r) \/ SealBundle(r)
    \/ Stop(r) \/ Crash(r)

\* The steps of a Run, by the part of the code they are in.
LEMMA StepsOfRun ==
    ASSUME NEW r \in Runs
    PROVE  RunStep(r) \/ Crash(r) <=> Enters(r) \/ Collects(r) \/ Closes(r) \/ Finishes(r)
  BY DEF RunStep, Enters, Collects, Closes, Finishes

\* Where each step goes.
LEMMA EntersGoes ==
    ASSUME NEW r \in Runs, Enters(r) PROVE \E s \in Opening : GoTo(r, s)
  BY DEF Enters, Opening, Open, EnterLock, CheckBlock, SeedLanes, CollectSlices, Fail, Interrupt

\* The body goes on in the body or to its finally,
LEMMA CollectsGoes ==
    ASSUME NEW r \in Runs, Collects(r) PROVE \E s \in Body : GoTo(r, s)
  BY DEF Collects, Body, ApplyFault, SendRequest, AwaitFailed, ReadFailed, RestoreFirst, ProbePath, UndoPath,
     SafeState, ReadRecovered, Record, Fail, Interrupt

\* the ways out stay under the lock,
LEMMA ClosesGoes ==
    ASSUME NEW r \in Runs, Closes(r) PROVE \E s \in Closing : GoTo(r, s)
  BY DEF Closes, Closing, Finally, AfterFinally, FinalTeardown, HandlerRestore, HandlerTeardown,
     HandlerBlock, Interrupt

\* and what follows ends the Run.
LEMMA EndsGoes ==
    ASSUME NEW r \in Runs, Finishes(r) PROVE \E s \in Ending : GoTo(r, s)
  BY DEF Finishes, Ending, LeaveLock, Conclude, BlockAndJudge, WriteRun, SealBundle, Stop, Crash, Gone, Ended

\* The empty records.
LEMMA Empty ==
    /\ NoMem \in Mems /\ NoRecovery \in Records
    /\ ~NoMem.receipt /\ NoMem.restore # "ok" /\ NoMem.durable # "one" /\ ~NoMem.applied
    /\ ~NoRecovery.safe /\ NoRecovery.result = "none"
  BY DEF NoMem, Mems, NoRecovery, Records

\* A restore takes at most the marker and the token of one Run.
LEMMA Restoring ==
    ASSUME NEW r \in Runs, \E ok \in BOOLEAN : RestoreFault(r, ok)
    PROVE  marker' \in {marker, marker \ {r}} /\ token' \in {token, token \ {r}}
  BY DEF RestoreFault

\* A restore that says ok has taken the marker.
LEMMA Restored ==
    ASSUME NEW r \in Runs, RestoreFault(r, TRUE)
    PROVE  r \notin marker'
  BY DEF RestoreFault

\* Of the faults and rows a step touches those of its Run at most.
LEMMA FaultFrame ==
    ASSUME FaultType, NEW r \in Runs, RunStep(r) \/ Crash(r)
    PROVE  /\ marker' \in {marker, marker \cup {r}, marker \ {r}}
           /\ token' \in {token, token \ {r}}
           /\ rows' \in {rows, rows \cup {r}, rows \ {r}}
           /\ overlays' \in {overlays, overlays \cup {r}, overlays \ {r}}
           /\ receipts' = receipts /\ consents' = consents
<1>1. CASE Enters(r)
  BY <1>1 DEF Enters, Open, EnterLock, CheckBlock, SeedLanes, CollectSlices, SeedRows
<1>2. CASE Collects(r)
  <2>1. receipts' = receipts /\ consents' = consents /\ rows' = rows
    BY <1>2 DEF Collects, ApplyFault, SendRequest, AwaitFailed, ReadFailed, RestoreFirst, ProbePath,
       UndoPath, SafeState, ReadRecovered, Record
  <2>2. /\ marker' \in {marker, marker \cup {r}, marker \ {r}}
        /\ token' \in {token, token \ {r}}
    <3>1. CASE RestoreFirst(r)
      BY <3>1, Restoring DEF RestoreFirst
    <3>2. CASE ~RestoreFirst(r)
      BY <1>2, <3>2 DEF ApplyMarker, Collects, ApplyFault, SendRequest, AwaitFailed, ReadFailed,
         ProbePath, UndoPath, SafeState, ReadRecovered, Record
    <3> QED
      BY <3>1, <3>2
  <2>3. overlays' \in {overlays, overlays \cup {r}, overlays \ {r}}
    BY <1>2 DEF ApplyOverlay, RemoveOverlay, Collects, ApplyFault, SendRequest, AwaitFailed, ReadFailed,
       RestoreFirst, ProbePath, UndoPath, SafeState, ReadRecovered, Record
  <2> QED
    BY <2>1, <2>2, <2>3
<1>3. CASE Closes(r)
  <2>1. receipts' = receipts /\ consents' = consents
    BY <1>3 DEF Closes, Finally, FinalTeardown, HandlerRestore, HandlerTeardown, HandlerBlock
  <2>2. marker' \in {marker, marker \ {r}} /\ token' \in {token, token \ {r}}
    BY <1>3, Restoring DEF Closes, Finally, FinalTeardown, HandlerRestore, HandlerTeardown, HandlerBlock
  <2>3. rows' \in {rows, rows \ {r}} /\ overlays' \in {overlays, overlays \ {r}}
    BY <1>3 DEF Closes, Finally, FinalTeardown, HandlerRestore, HandlerTeardown, HandlerBlock,
       TeardownLanes, DeleteOwned
  <2> QED
    BY <2>1, <2>2, <2>3
<1>4. CASE Finishes(r)
  BY <1>4 DEF Finishes, LeaveLock, Conclude, BlockAndJudge, WriteRun, SealBundle, Stop, Crash
<1> QED
  BY <1>1, <1>2, <1>3, <1>4, StepsOfRun

\* So with its requests,
LEMMA RequestFrame ==
    ASSUME RequestType, NEW r \in Runs, RunStep(r) \/ Crash(r)
    PROVE  /\ pending' \in [Runs -> SUBSET Requests]
           /\ \A q \in Runs \ {r} : pending'[q] = pending[q]
<1>1. CASE UNCHANGED pending
  BY <1>1 DEF RequestType
<1>2. ASSUME NEW q \in Requests, Send(r, q)
      PROVE  /\ pending' \in [Runs -> SUBSET Requests]
             /\ \A p \in Runs \ {r} : pending'[p] = pending[p]
  <2>1. pending' = [pending EXCEPT ![r] = pending[r] \cup {q}]
    BY <1>2 DEF Send
  <2> QED
    BY <1>2, <2>1 DEF RequestType
<1>3. CASE pending' = [pending EXCEPT ![r] = {}]
  BY <1>3 DEF RequestType
<1>4. \/ UNCHANGED pending \/ pending' = [pending EXCEPT ![r] = {}]
      \/ \E q \in Requests : Send(r, q)
  <2>1. CASE Enters(r) \/ Finishes(r)
    BY <2>1 DEF Enters, Open, EnterLock, CheckBlock, SeedLanes, CollectSlices, Finishes, LeaveLock, Conclude,
       BlockAndJudge, WriteRun, SealBundle, Stop, Crash
  <2>2. CASE Collects(r)
    BY <2>2 DEF Requests, Collects, ApplyFault, SendRequest, AwaitFailed, ReadFailed, RestoreFirst,
       ProbePath, UndoPath, SafeState, ReadRecovered, Record
  <2>3. CASE Closes(r)
    BY <2>3 DEF Closes, Finally, FinalTeardown, HandlerRestore, HandlerTeardown, HandlerBlock,
       TeardownLanes, DeleteOwned
  <2> QED
    BY <2>1, <2>2, <2>3, StepsOfRun
<1> QED
  BY <1>2, <1>1, <1>3, <1>4

\* with what it has read,
LEMMA MemFrame ==
    ASSUME MemType, NEW r \in Runs, RunStep(r) \/ Crash(r)
    PROVE  MemType' /\ \A q \in Runs \ {r} : mem'[q] = mem[q]
<1>1. mem[r] \in Mems
  BY DEF MemType
<1>2. mem' = mem \/ \E m \in Mems : mem' = [mem EXCEPT ![r] = m]
  <2>1. CASE Enters(r) \/ Closes(r)
    BY <2>1 DEF Enters, Open, EnterLock, CheckBlock, SeedLanes, CollectSlices, Closes, Finally, FinalTeardown,
       HandlerRestore, HandlerTeardown, HandlerBlock
  <2>2. CASE Finishes(r)
    BY <2>2, Empty DEF Finishes, LeaveLock, Conclude, BlockAndJudge, WriteRun, SealBundle, Stop, Crash, Forget
  <2>3. CASE ApplyFault(r)
    <3>1. [mem[r] EXCEPT !.applied = TRUE] \in Mems
      BY <1>1 DEF Mems
    <3> QED
      BY <2>3, <3>1 DEF ApplyFault, Keep
  <2>4. CASE AwaitFailed(r)
    <3>1. \A b \in BOOLEAN : [mem[r] EXCEPT !.replied = b] \in Mems
      BY <1>1 DEF Mems
    <3> QED
      BY <2>4, <3>1 DEF AwaitFailed, Keep
  <2>5. CASE ReadFailed(r)
    <3>1. \A b, c \in BOOLEAN : [mem[r] EXCEPT !.receipt = b, !.zero = c] \in Mems
      BY <1>1 DEF Mems
    <3>2. StateIsZero(r) \in BOOLEAN
      BY DEF StateIsZero
    <3> QED
      BY <2>5, <3>1, <3>2 DEF ReadFailed, Keep
  <2>6. CASE RestoreFirst(r)
    <3>1. \A x \in {"ok", "failed"} : [mem[r] EXCEPT !.restore = x] \in Mems
      BY <1>1 DEF Mems
    <3> QED
      BY <2>6, <3>1 DEF RestoreFirst, Keep
  <2>7. CASE UndoPath(r)
    <3>1. [mem[r] EXCEPT !.overlayOk = FALSE] \in Mems
      BY <1>1 DEF Mems
    <3> QED
      BY <2>7, <3>1 DEF UndoPath, Keep
  <2>8. CASE SafeState(r)
    <3>1. [mem[r] EXCEPT !.safe = TRUE] \in Mems
      BY <1>1 DEF Mems
    <3> QED
      BY <2>8, <3>1 DEF SafeState, Keep
  <2>9. CASE ReadRecovered(r)
    <3>1. \A x \in {"one", "other"} : [mem[r] EXCEPT !.durable = x] \in Mems
      BY <1>1 DEF Mems
    <3> QED
      BY <2>9, <3>1 DEF ReadRecovered, Keep
  <2>10. CASE SendRequest(r) \/ ProbePath(r) \/ Record(r)
    BY <2>10 DEF SendRequest, ProbePath, Record
  <2> QED
    BY <2>1, <2>2, <2>3, <2>4, <2>5, <2>6, <2>7, <2>8, <2>9, <2>10, StepsOfRun DEF Collects
<1> QED
  BY <1>2 DEF MemType

\* with its way out,
LEMMA WayFrame ==
    ASSUME WayType, NEW r \in Runs, RunStep(r) \/ Crash(r)
    PROVE  WayType' /\ \A q \in Runs \ {r} : leaving'[q] = leaving[q] /\ (q \in started' <=> q \in started)
<1>1. started' \in {started, started \cup {r}, started \ {r}}
  <2>1. CASE Enters(r) \/ Closes(r) \/ Finishes(r)
    BY <2>1 DEF Enters, Open, EnterLock, CheckBlock, SeedLanes, CollectSlices, Closes, Finally, FinalTeardown,
       HandlerRestore, HandlerTeardown, HandlerBlock, Finishes, LeaveLock, Conclude, BlockAndJudge, WriteRun,
       SealBundle, Stop, Crash, Forget
  <2>2. CASE Collects(r)
    BY <2>2 DEF Collects, ApplyFault, SendRequest, AwaitFailed, ReadFailed, RestoreFirst,
       ProbePath, UndoPath, SafeState, ReadRecovered, Record
  <2> QED
    BY <2>1, <2>2, StepsOfRun
<1>2. leaving' = leaving \/ \E way \in Ways : leaving' = [leaving EXCEPT ![r] = way]
  <2>1. CASE Enters(r) \/ Closes(r) \/ Finishes(r)
    BY <2>1 DEF Ways, Enters, Open, EnterLock, CheckBlock, SeedLanes, CollectSlices, Closes, Finally,
       FinalTeardown, HandlerRestore, HandlerTeardown, HandlerBlock, Finishes, LeaveLock, Conclude,
       BlockAndJudge, WriteRun, SealBundle, Stop, Crash, Forget, Fail, Interrupt
  <2>2. CASE Collects(r)
    BY <2>2 DEF Ways, Collects, ApplyFault, SendRequest, AwaitFailed, ReadFailed, RestoreFirst,
       ProbePath, UndoPath, SafeState, ReadRecovered, Record, Fail, Interrupt
  <2> QED
    BY <2>1, <2>2, StepsOfRun
<1> QED
  BY <1>1, <1>2 DEF WayType

\* The assertions, and the worse of two of them, are results.
LEMMA Results ==
    /\ \A m \in Mems : \A probes : AssertA6(m, probes) \in Statuses
    /\ \A m \in Mems : \A safe \in BOOLEAN : \A order : AssertA7(m, safe, order) \in Statuses
    /\ \A results : Worst(results) \in Statuses
    /\ \A state : \A results : JudgeRun(state, results) \in Statuses
  BY DEF AssertA6, AssertA7, Worst, JudgeRun, Statuses

\* with its recovery record and teardown,
LEMMA RecordFrame ==
    ASSUME MemType, RecordType, NEW r \in Runs, RunStep(r) \/ Crash(r)
    PROVE  RecordType' /\ \A q \in Runs \ {r} : recovery'[q] = recovery[q] /\ teardown'[q] = teardown[q]
<1>1. mem[r] \in Mems
  BY DEF MemType
<1>2. recovery' = recovery \/ \E record \in Records : recovery' = [recovery EXCEPT ![r] = record]
  <2>1. CASE Enters(r) \/ Closes(r)
    BY <2>1 DEF Enters, Open, EnterLock, CheckBlock, SeedLanes, CollectSlices, Closes, Finally,
       FinalTeardown, HandlerRestore, HandlerTeardown, HandlerBlock
  <2>2. CASE Finishes(r)
    BY <2>2, Empty DEF Finishes, LeaveLock, Conclude, BlockAndJudge, WriteRun, SealBundle, Stop, Crash, Forget
  <2>3. CASE Record(r)
    <3>1. \A probes, order : RecordOf(mem[r], probes, order) \in Records
      <4>1. (mem[r].restore = "ok" /\ mem[r].overlayOk /\ mem[r].safe) \in BOOLEAN
        BY <1>1 DEF Mems
      <4> QED
        BY <4>1, Results DEF RecordOf, Records
    <3> QED
      BY <2>3, <3>1 DEF Record
  <2>4. CASE Collects(r) /\ ~Record(r)
    BY <2>4 DEF Collects, ApplyFault, SendRequest, AwaitFailed, ReadFailed, RestoreFirst,
       ProbePath, UndoPath, SafeState, ReadRecovered
  <2> QED
    BY <2>1, <2>2, <2>3, <2>4, StepsOfRun
<1>3. teardown' = teardown \/ \E end \in Ends : teardown' = [teardown EXCEPT ![r] = end]
  <2>1. CASE Enters(r) \/ Closes(r) \/ Finishes(r)
    BY <2>1 DEF Ends, Enters, Open, EnterLock, CheckBlock, SeedLanes, CollectSlices, Closes, Finally,
       FinalTeardown, HandlerRestore, HandlerTeardown, HandlerBlock, Finishes, LeaveLock, Conclude,
       BlockAndJudge, WriteRun, SealBundle, Stop, Crash, Forget
  <2>2. CASE Collects(r)
    BY <2>2 DEF Collects, ApplyFault, SendRequest, AwaitFailed, ReadFailed, RestoreFirst,
       ProbePath, UndoPath, SafeState, ReadRecovered, Record
  <2> QED
    BY <2>1, <2>2, StepsOfRun
<1> QED
  BY <1>2, <1>3 DEF RecordType

\* and with its result.
LEMMA ResultFrame ==
    ASSUME ResultType, NEW r \in Runs, ResultIsTrue(r), RunStep(r) \/ Crash(r)
    PROVE  /\ ResultType'
           /\ \A q \in Runs \ {r} :
                 /\ outcome'[q] = outcome[q] /\ verdict'[q] = verdict[q] /\ runFile'[q] = runFile[q]
                 /\ (q \in verified' <=> q \in verified)
<1>1. outcome' = outcome \/ \E state \in Outcomes : outcome' = [outcome EXCEPT ![r] = state]
  <2>1. CASE Enters(r) \/ Closes(r) \/ Finishes(r)
    BY <2>1 DEF Outcomes, Enters, Open, EnterLock, CheckBlock, SeedLanes, CollectSlices, Closes, Finally,
       FinalTeardown, HandlerRestore, HandlerTeardown, HandlerBlock, Finishes, LeaveLock, Conclude,
       BlockAndJudge, WriteRun, SealBundle, Stop, Crash, Forget
  <2>2. CASE Collects(r)
    BY <2>2 DEF Collects, ApplyFault, SendRequest, AwaitFailed, ReadFailed, RestoreFirst,
       ProbePath, UndoPath, SafeState, ReadRecovered, Record
  <2> QED
    BY <2>1, <2>2, StepsOfRun
<1>2. /\ verdict' = verdict \/ \E v \in Statuses : verdict' = [verdict EXCEPT ![r] = v]
      /\ runFile' = runFile \/ (stage[r] = "write" /\ runFile' = [runFile EXCEPT ![r] = outcome[r]])
      /\ verified' \in {verified, verified \cup {r}}
  <2>1. CASE Enters(r) \/ Closes(r)
    BY <2>1 DEF Enters, Open, EnterLock, CheckBlock, SeedLanes, CollectSlices, Closes, Finally,
       FinalTeardown, HandlerRestore, HandlerTeardown, HandlerBlock
  <2>2. CASE Collects(r)
    BY <2>2 DEF Collects, ApplyFault, SendRequest, AwaitFailed, ReadFailed, RestoreFirst,
       ProbePath, UndoPath, SafeState, ReadRecovered, Record
  <2>3. CASE Finishes(r)
    BY <2>3, Results DEF Finishes, LeaveLock, Conclude, BlockAndJudge, WriteRun, SealBundle, Stop, Crash
  <2> QED
    BY <2>1, <2>2, <2>3, StepsOfRun
<1>3. stage[r] = "write" => outcome[r] \in States
  BY DEF ResultIsTrue, ResultType, Outcomes, States
<1>4. outcome' \in [Runs -> Outcomes] /\ \A q \in Runs \ {r} : outcome'[q] = outcome[q]
  BY <1>1 DEF ResultType
<1>5. verdict' \in [Runs -> Statuses \cup {"none"}] /\ \A q \in Runs \ {r} : verdict'[q] = verdict[q]
  BY <1>2 DEF ResultType
<1>6. runFile' \in [Runs -> States] /\ \A q \in Runs \ {r} : runFile'[q] = runFile[q]
  BY <1>2, <1>3 DEF ResultType
<1> QED
  BY <1>2, <1>4, <1>5, <1>6 DEF ResultType

\* The shared files: a Run takes a free lock, gives its own back, and blocks the
\* target only with its own ID; no Run takes a block away.
LEMMA SharedFiles ==
    ASSUME TypeInParts, NEW r \in Runs, RunStep(r) \/ Crash(r)
    PROVE  /\ \/ lock' = lock \/ (lock = None /\ lock' = r /\ EnterLock(r))
              \/ (lock = r /\ lock' = None /\ LeaveLock(r))
           /\ block' \in {block, r} /\ maintenance' = maintenance /\ (Barred => Barred')
<1>1. CASE Enters(r)
  BY <1>1 DEF Barred, Enters, Open, EnterLock, CheckBlock, SeedLanes, CollectSlices
<1>2. CASE Collects(r)
  BY <1>2 DEF Barred, Collects, ApplyFault, SendRequest, AwaitFailed, ReadFailed, RestoreFirst,
     ProbePath, UndoPath, SafeState, ReadRecovered, Record
<1>3. CASE Closes(r)
  BY <1>3 DEF Barred, Closes, Finally, FinalTeardown, HandlerRestore, HandlerTeardown, HandlerBlock
<1>4. CASE LeaveLock(r)
  BY <1>4 DEF Barred, LeaveLock, TypeInParts, LockType, Locked
<1>5. CASE Finishes(r) /\ ~LeaveLock(r)
  BY <1>5 DEF Barred, Finishes, Conclude, BlockAndJudge, WriteRun, SealBundle, Stop, Crash
<1> QED
  BY <1>1, <1>2, <1>3, <1>4, <1>5, StepsOfRun

\* All steps of a Run together keep the types, and leave the other Runs alone.
LEMMA TypeStep ==
    ASSUME IInv, NEW r \in Runs, RunStep(r) \/ Crash(r), UNCHANGED confirm
    PROVE  TypeOK'
<1>1. TypeInParts /\ ResultIsTrue(r)
  BY TypeParts DEF IInv, RunHolds
<1>2. RootType'
  BY <1>1, SharedFiles DEF TypeInParts, RootType
<1>3. FaultType' /\ RequestType'
  BY <1>1, FaultFrame, RequestFrame DEF TypeInParts, FaultType, RequestType
<1>4. MemType' /\ WayType' /\ RecordType' /\ ResultType'
  BY <1>1, MemFrame, WayFrame, RecordFrame, ResultFrame DEF TypeInParts
<1>5. PICK s \in Stages : GoTo(r, s)
  BY EntersGoes, CollectsGoes, ClosesGoes, EndsGoes, StagesOfCode, StepsOfRun
<1>6. StageType' /\ stage'[r] = s /\ \A q \in Runs \ {r} : stage'[q] = stage[q]
  BY <1>1, <1>5, Moves DEF TypeInParts
<1>7. LockType'
  <2>1. stage[r] \notin Gone
    BY DEF RunStep, Open, EnterLock, CheckBlock, SeedLanes, CollectSlices, ApplyFault, SendRequest,
       AwaitFailed, ReadFailed, RestoreFirst, ProbePath, UndoPath, SafeState, ReadRecovered, Record,
       Finally, FinalTeardown, HandlerRestore, HandlerTeardown, HandlerBlock, LeaveLock, Conclude,
       BlockAndJudge, WriteRun, SealBundle, Stop, Crash, Gone, Ended
  <2>2. \/ lock' = lock /\ (stage'[r] \in Locked <=> stage[r] \in Locked /\ stage'[r] \notin Gone)
        \/ lock' = lock /\ stage'[r] \in Gone
        \/ lock = None /\ lock' = r /\ stage'[r] \in Locked /\ stage'[r] \notin Gone
        \/ lock = r /\ lock' = None /\ stage'[r] \notin Locked
    <3>1. CASE Open(r)
      <4>1. stage[r] \notin Locked /\ lock' = lock /\ \E e \in {"refused", "opened"} : GoTo(r, e)
        BY <3>1 DEF Open, Locked
      <4>2. stage'[r] \in {"refused", "opened"}
        BY <1>1, <4>1 DEF TypeInParts, StageType, GoTo
      <4> QED
        BY <4>1, <4>2 DEF Locked
    <3>2. CASE EnterLock(r)
      <4>1. CASE LockIsFree /\ Acquire(r) /\ GoTo(r, "entered")
        <5>1. lock = None /\ lock' = r
          BY <4>1
        <5>2. stage'[r] = "entered"
          BY <1>1, <4>1 DEF TypeInParts, StageType, GoTo
        <5> QED
          BY <5>1, <5>2 DEF Locked, Gone, Ended
      <4>2. CASE GoTo(r, "raised") /\ UNCHANGED lock
        BY <1>1, <4>2, Moves DEF Gone, Ended, TypeInParts, Stages
      <4> QED
        BY <3>2, <4>1, <4>2 DEF EnterLock
    <3>3. CASE LeaveLock(r)
      <4>1. \E e \in {"conclude", "raised", "interrupted"} : GoTo(r, e)
        BY <3>3 DEF LeaveLock
      <4>2. stage'[r] \in {"conclude", "raised", "interrupted"}
        BY <1>1, <4>1 DEF TypeInParts, StageType, GoTo
      <4>3. lock = r /\ lock' = None
        BY <1>1, <3>3 DEF LeaveLock, TypeInParts, LockType, Locked, Gone, Ended
      <4> QED
        BY <4>2, <4>3 DEF Locked
    <3>4. CASE CheckBlock(r) \/ SeedLanes(r) \/ CollectSlices(r)
      <4>1. \E e \in {"leave", "seed", "slices", "handler", "apply"} : GoTo(r, e)
        BY <3>4 DEF CheckBlock, SeedLanes, CollectSlices, Fail, Interrupt
      <4>2. stage'[r] \in {"leave", "seed", "slices", "handler", "apply"}
        BY <1>1, <4>1 DEF TypeInParts, StageType, GoTo
      <4>3. stage[r] \in Locked /\ lock' = lock
        BY <3>4 DEF CheckBlock, SeedLanes, CollectSlices, Locked
      <4> QED
        BY <4>2, <4>3 DEF Locked, Gone, Ended
    <3>5. CASE Collects(r)
      <4>1. stage[r] \in Locked /\ lock' = lock
        BY <3>5 DEF Locked, Collects, ApplyFault, SendRequest, AwaitFailed, ReadFailed, RestoreFirst,
           ProbePath, UndoPath, SafeState, ReadRecovered, Record
      <4>2. PICK e \in Body : GoTo(r, e)
        BY <3>5, CollectsGoes
      <4>3. stage'[r] \in Body
        BY <1>1, <4>2 DEF TypeInParts, StageType, GoTo
      <4> QED
        BY <4>1, <4>3, StagesOfCode
    <3>6. CASE Closes(r)
      <4>1. stage[r] \in Locked /\ lock' = lock
        BY <3>6 DEF Locked, Closes, Finally, FinalTeardown, HandlerRestore, HandlerTeardown, HandlerBlock
      <4>2. PICK e \in Closing : GoTo(r, e)
        BY <3>6, ClosesGoes
      <4>3. stage'[r] \in Closing
        BY <1>1, <4>2 DEF TypeInParts, StageType, GoTo
      <4> QED
        BY <4>1, <4>3, StagesOfCode
    <3>7. CASE Crash(r)
      <4>1. lock' = lock /\ GoTo(r, "crashed")
        BY <3>7 DEF Crash
      <4> QED
        BY <1>1, <4>1, Moves DEF Gone, Ended, TypeInParts, Stages
    <3>8. CASE Conclude(r) \/ BlockAndJudge(r) \/ WriteRun(r) \/ SealBundle(r) \/ Stop(r)
      <4>1. /\ stage[r] \in {"conclude", "block", "write", "seal"} /\ lock' = lock
            /\ \E e \in {"block", "write", "seal", "done", "stopped"} : GoTo(r, e)
        BY <3>8 DEF Conclude, BlockAndJudge, WriteRun, SealBundle, Stop
      <4>2. stage'[r] \in {"block", "write", "seal", "done", "stopped"}
        BY <1>1, <4>1 DEF TypeInParts, StageType, GoTo
      <4> QED
        BY <4>1, <4>2 DEF Locked, Gone, Ended
    <3> QED
      BY <3>1, <3>2, <3>3, <3>4, <3>5, <3>6, <3>7, <3>8, StepsOfRun DEF Enters, Finishes
  <2>3. stage[r] \in Locked <=> lock = r
    BY <1>1, <2>1 DEF TypeInParts, LockType
  <2>4. stage'[r] \in Locked <=> lock' = r /\ stage'[r] \notin Gone
    BY <2>1, <2>2, <2>3, StagesOfCode
  <2>5. ASSUME NEW q \in Runs \ {r}
        PROVE  stage'[q] \in Locked <=> lock' = q /\ stage'[q] \notin Gone
    BY <1>1, <1>6, <2>2 DEF TypeInParts, LockType
  <2> QED
    BY <2>4, <2>5 DEF LockType
<1> QED
  BY <1>1, <1>2, <1>3, <1>4, <1>6, <1>7, TypeParts DEF TypeInParts

\* The product answers requests of one Run at a time.
LEMMA ProductFrame ==
    ASSUME RequestType, FaultType, NEW r \in Runs, ProductMoves(r)
    PROVE  /\ RequestType' /\ FaultType'
           /\ receipts \subseteq receipts' /\ UNCHANGED <<marker, rows, overlays>>
           /\ \A q \in Runs \ {r} :
                 /\ pending'[q] = pending[q] /\ consents'[q] = consents[q]
                 /\ (q \in receipts' <=> q \in receipts)
<1>1. PICK q \in Requests : HookFires(r, q) \/ CommitsConsent(r, q) \/ RejectsRequest(r, q)
  BY DEF ProductMoves, ProductStep
<1>2. CASE HookFires(r, q) \/ RejectsRequest(r, q)
  <2>1. pending' = [pending EXCEPT ![r] = pending[r] \ {q}]
    BY <1>2 DEF HookFires, RejectsRequest, Handled
  <2>2. /\ receipts' \in {receipts, receipts \cup {r}} /\ token' \in {token, token \cup {r}}
        /\ UNCHANGED <<marker, rows, overlays, consents>>
    BY <1>2 DEF HookFires, RejectsRequest
  <2> QED
    BY <2>1, <2>2 DEF RequestType, FaultType
<1>3. CASE CommitsConsent(r, q)
  BY <1>3 DEF CommitsConsent, RequestType, FaultType
<1> QED
  BY <1>1, <1>2, <1>3

\* Neither the product nor the operator breaks a type.
LEMMA TypeAside ==
    ASSUME TypeOK, (\E r \in Runs : ProductMoves(r)) \/ ConfirmStep
    PROVE  TypeOK'
<1>1. TypeInParts
  BY TypeParts
<1>2. UNCHANGED <<processVars, runFile, verified>>
  BY DEF ProductMoves, ConfirmStep, ConfirmProbe, ConfirmRecord, ConfirmUnlink, ConfirmDies
<1>3. StageType' /\ MemType' /\ WayType' /\ RecordType' /\ ResultType'
  BY <1>1, <1>2 DEF TypeInParts, StageType, MemType, WayType, RecordType, ResultType
<1>4. RootType' /\ LockType' /\ confirm' \in ConfirmSteps
  BY <1>1, <1>2 DEF TypeInParts, RootType, LockType, ConfirmSteps, ProductMoves, ConfirmStep,
     ConfirmProbe, ConfirmRecord, ConfirmUnlink, ConfirmDies
<1>5. FaultType' /\ RequestType'
  <2>1. CASE ConfirmStep
    BY <1>1, <2>1 DEF TypeInParts, FaultType, RequestType, ConfirmStep, ConfirmProbe, ConfirmRecord,
       ConfirmUnlink, ConfirmDies
  <2>2. CASE \E r \in Runs : ProductMoves(r)
    BY <1>1, <2>2, ProductFrame DEF TypeInParts
  <2> QED
    BY <2>1, <2>2
<1> QED
  BY <1>3, <1>4, <1>5, TypeParts DEF TypeInParts

-----------------------------------------------------------------------------
(* The invariant *)

\* What holds of a Run is about its own entries, and a bar that stays.
LEMMA Untouched ==
    ASSUME NEW r \in Runs, RunHolds(r), Barred => Barred',
           stage'[r] = stage[r], mem'[r] = mem[r], leaving'[r] = leaving[r],
           recovery'[r] = recovery[r], teardown'[r] = teardown[r], outcome'[r] = outcome[r],
           verdict'[r] = verdict[r], runFile'[r] = runFile[r],
           pending'[r] = pending[r], consents'[r] = consents[r],
           r \in started' <=> r \in started, r \in marker' <=> r \in marker,
           r \in rows' <=> r \in rows, r \in overlays' <=> r \in overlays,
           r \in receipts' <=> r \in receipts
    PROVE  RunHolds(r)'
<1>1. StartsClean(r)' /\ LeavesKnown(r)'
  BY DEF RunHolds, StartsClean, LeavesKnown
<1>2. FaultIsKnown(r)'
  BY DEF RunHolds, FaultIsKnown, Residue
<1>3. RequestsInTurn(r)'
  BY DEF RunHolds, RequestsInTurn
<1>4. ResultIsTrue(r)'
  BY DEF RunHolds, ResultIsTrue, Residue
<1> QED
  BY <1>1, <1>2, <1>3, <1>4 DEF RunHolds

\* A step of one Run keeps what holds of another.
LEMMA OtherStep ==
    ASSUME IInv, NEW r \in Runs, RunStep(r) \/ Crash(r), NEW q \in Runs, q # r
    PROVE  RunHolds(q)'
<1>1. TypeInParts /\ RunHolds(q) /\ ResultIsTrue(r)
  BY TypeParts DEF IInv, RunHolds
<1>2. stage'[q] = stage[q]
  <2>1. PICK s \in Stages : GoTo(r, s)
    BY EntersGoes, CollectsGoes, ClosesGoes, EndsGoes, StagesOfCode, StepsOfRun
  <2> QED
    BY <1>1, <2>1, Moves DEF TypeInParts
<1>3. Barred => Barred'
  BY <1>1, SharedFiles
<1>4. /\ mem'[q] = mem[q] /\ leaving'[q] = leaving[q] /\ (q \in started' <=> q \in started)
      /\ recovery'[q] = recovery[q] /\ teardown'[q] = teardown[q]
  BY <1>1, MemFrame, WayFrame, RecordFrame DEF TypeInParts
<1>5. outcome'[q] = outcome[q] /\ verdict'[q] = verdict[q] /\ runFile'[q] = runFile[q]
  BY <1>1, ResultFrame DEF TypeInParts
<1>6. /\ (q \in marker' <=> q \in marker) /\ (q \in rows' <=> q \in rows)
      /\ (q \in overlays' <=> q \in overlays) /\ (q \in receipts' <=> q \in receipts)
      /\ consents'[q] = consents[q]
  BY <1>1, FaultFrame DEF TypeInParts
<1>7. pending'[q] = pending[q]
  BY <1>1, RequestFrame DEF TypeInParts
<1> QED
  BY <1>1, <1>2, <1>3, <1>4, <1>5, <1>6, <1>7, Untouched

\* An answer of the product, however late: one consent at most, and none of a
\* request whose receipt has been read over a state of zero.
LEMMA ProductHolds ==
    ASSUME IInv, NEW r \in Runs, ProductMoves(r), NEW p \in Runs
    PROVE  RunHolds(p)'
<1>1. TypeInParts /\ RunHolds(p)
  BY TypeParts DEF IInv
<1>2. UNCHANGED <<rootVars, processVars, runFile, verified>>
  BY DEF ProductMoves
<1>3. Barred => Barred'
  BY <1>2 DEF Barred
<1>4. CASE p # r
  BY <1>1, <1>2, <1>3, <1>4, ProductFrame, Untouched DEF TypeInParts
<1>5. CASE p = r
  <2>1. UNCHANGED <<marker, rows, overlays>> /\ receipts \subseteq receipts'
    BY <1>1, ProductFrame DEF TypeInParts
  <2>2. PICK q \in Requests : HookFires(r, q) \/ CommitsConsent(r, q) \/ RejectsRequest(r, q)
    BY DEF ProductMoves, ProductStep
  <2>3. /\ q \in pending[r]
        /\ \/ /\ pending'[r] = pending[r] \ {q} /\ consents'[r] = consents[r]
              /\ r \in marker /\ consents' = consents
           \/ pending'[r] = {} /\ consents[r] = {} /\ consents'[r] = {q} /\ receipts' = receipts
           \/ pending'[r] = pending[r] \ {q} /\ consents[r] # {} /\ consents'[r] = consents[r]
              /\ receipts' = receipts
    BY <1>1, <2>2 DEF HookFires, CommitsConsent, RejectsRequest, Handled, TypeInParts, RequestType
  <2>4. LeavesKnown(r)' /\ FaultIsKnown(r)'
    BY <1>1, <1>2, <1>3, <1>5, <2>1 DEF RunHolds, LeavesKnown, FaultIsKnown, Residue
  <2>5. StartsClean(r)'
    BY <1>1, <1>2, <1>5, <2>1, <2>3 DEF RunHolds, StartsClean
  <2>6. RequestsInTurn(r)'
    BY <1>1, <1>2, <1>5, <2>1, <2>3 DEF RunHolds, RequestsInTurn, FaultIsKnown, Requests
  <2>7. ResultIsTrue(r)'
    BY <1>1, <1>2, <1>3, <1>5, <2>1, <2>3 DEF RunHolds, ResultIsTrue, Residue
  <2> QED
    BY <1>5, <2>4, <2>5, <2>6, <2>7 DEF RunHolds
<1> QED
  BY <1>4, <1>5

\* The operator takes a block only after a record.
LEMMA ConfirmHolds ==
    ASSUME IInv, ConfirmStep
    PROVE  /\ \A r \in Runs : RunHolds(r)'
           /\ confirm' = "recorded" => maintenance' # {}
<1>1. UNCHANGED <<targetVars, processVars, runFile, verified>>
  BY DEF ConfirmStep, ConfirmProbe, ConfirmRecord, ConfirmUnlink, ConfirmDies
<1>2. (Barred => Barred') /\ (confirm' = "recorded" => maintenance' # {})
  BY DEF IInv, TypeOK, Barred, ConfirmStep, ConfirmProbe, ConfirmRecord, ConfirmUnlink, ConfirmDies
<1>3. \A r \in Runs : RunHolds(r)'
  BY <1>1, <1>2, Untouched DEF IInv
<1> QED
  BY <1>2, <1>3

\* Up to the end of the lock nothing is reported.
LEMMA NothingReported ==
    ASSUME NEW r \in Runs, ResultIsTrue(r), UNCHANGED <<outcome, verdict, runFile>>,
           stage[r] \in Locked \cup {"idle", "opened", "conclude"},
           stage'[r] \notin {"block", "write", "seal"}
    PROVE  ResultIsTrue(r)'
<1>1. outcome[r] = "none" /\ verdict[r] # "PASS" /\ runFile[r] = "ABSENT"
  BY DEF ResultIsTrue, Locked, Gone, Ended
<1> QED
  BY <1>1 DEF ResultIsTrue

\* The start of a Run, up to the slices.
LEMMA EntersHolds ==
    ASSUME IInv, NEW r \in Runs, Enters(r)
    PROVE  RunHolds(r)'
<1>1. TypeInParts /\ RunHolds(r)
  BY TypeParts DEF IInv
<1>2. /\ stage[r] \in {"idle", "opened", "entered", "seed", "slices"}
      /\ UNCHANGED <<marker, receipts, overlays, pending, consents, mem, resultVars, block, maintenance>>
  BY DEF Enters, Open, EnterLock, CheckBlock, SeedLanes, CollectSlices
<1>3. stage'[r] \in Opening
  BY <1>1, EntersGoes DEF TypeInParts, StageType, GoTo
<1>4. ResultIsTrue(r)'
  BY <1>1, <1>2, <1>3, NothingReported DEF RunHolds, Opening, Locked
<1>5. r \notin marker /\ r \notin receipts /\ pending[r] = {} /\ consents[r] = {} /\ mem[r] = NoMem
  BY <1>1, <1>2 DEF RunHolds, StartsClean
<1>6. leaving[r] = "no" /\ recovery[r] = NoRecovery /\ teardown[r] = "not run"
  BY <1>1, <1>2 DEF RunHolds, LeavesKnown, FaultIsKnown
<1>7. stage[r] # "slices" => r \notin started
  BY <1>1, <1>2 DEF RunHolds, StartsClean
<1>8. stage[r] \in {"idle", "opened", "entered", "seed"} => r \notin rows
  BY <1>1 DEF RunHolds, StartsClean
<1>9. \/ /\ stage'[r] \in {"refused", "opened", "entered", "raised", "seed"}
         /\ leaving'[r] = "no" /\ r \notin rows' /\ r \notin started'
      \/ stage'[r] = "slices" /\ leaving'[r] = "no" /\ r \notin started'
      \/ stage'[r] = "apply" /\ leaving'[r] = "no" /\ r \in started'
      \/ stage'[r] = "leave" /\ leaving'[r] = "exception" /\ r \notin rows'
      \/ stage'[r] = "handler" /\ leaving'[r] = "exception"
      \/ stage'[r] = "leave" /\ leaving'[r] = "interrupt"
  <2>1. CASE Open(r) \/ EnterLock(r)
    BY <1>1, <1>6, <1>7, <1>8, <2>1 DEF Open, EnterLock, TypeInParts, StageType, GoTo
  <2>2. CASE CheckBlock(r)
    BY <1>1, <1>6, <1>7, <1>8, <2>2 DEF CheckBlock, TypeInParts, StageType, WayType, GoTo
  <2>3. CASE SeedLanes(r)
    BY <1>1, <1>6, <1>7, <2>3 DEF SeedLanes, Fail, Interrupt, TypeInParts, StageType, WayType, GoTo
  <2>4. CASE CollectSlices(r)
    BY <1>1, <1>6, <2>4 DEF CollectSlices, Fail, Interrupt, TypeInParts, StageType, WayType, GoTo
  <2> QED
    BY <2>1, <2>2, <2>3, <2>4 DEF Enters
<1>10. /\ r \notin marker' /\ r \notin receipts' /\ pending'[r] = {} /\ consents'[r] = {}
       /\ mem'[r] = NoMem /\ recovery'[r] = NoRecovery /\ teardown'[r] = "not run"
  BY <1>2, <1>5, <1>6
<1>11. StartsClean(r)'
  BY <1>9, <1>10, Empty DEF StartsClean
<1>12. LeavesKnown(r)'
  BY <1>9, <1>10 DEF LeavesKnown
<1>13. FaultIsKnown(r)'
  BY <1>9, <1>10, Empty DEF FaultIsKnown, Residue
<1>14. RequestsInTurn(r)'
  BY <1>9, <1>10, Empty DEF RequestsInTurn
<1> QED
  BY <1>4, <1>11, <1>12, <1>13, <1>14 DEF RunHolds

\* The body of collect_us3: what it has read of the requests stays true while
\* the product goes on answering.
LEMMA CollectsHolds ==
    ASSUME IInv, NEW r \in Runs, Collects(r)
    PROVE  RunHolds(r)'
<1>1. TypeInParts /\ RunHolds(r)
  BY TypeParts DEF IInv
<1>2. /\ stage[r] \in Body \cup {"apply"} /\ stage[r] # "finally"
      /\ UNCHANGED <<receipts, rows, consents, started, teardown, outcome, verdict, runFile, block, maintenance>>
  BY DEF Body, Collects, ApplyFault, SendRequest, AwaitFailed, ReadFailed, RestoreFirst, ProbePath, UndoPath,
     SafeState, ReadRecovered, Record
<1>3. stage'[r] \in Body
  BY <1>1, CollectsGoes DEF TypeInParts, StageType, GoTo
<1>4. ResultIsTrue(r)'
  BY <1>1, <1>2, <1>3, NothingReported DEF RunHolds, Body, Locked
<1>5. leaving[r] = "no" /\ recovery[r] = NoRecovery /\ teardown[r] = "not run"
  BY <1>1, <1>2 DEF RunHolds, LeavesKnown, FaultIsKnown, Body
<1>6. CASE Record(r)
  <2>1. PICK probes \in {"denied", "leak", "gap"},
             order \in IF mem[r].durable = "one" THEN Statuses ELSE {"none"} :
             recovery' = [recovery EXCEPT ![r] = RecordOf(mem[r], probes, order)]
    BY <1>6 DEF Record
  <2>2. /\ stage[r] = "record" /\ stage'[r] = "finally"
        /\ UNCHANGED <<marker, overlays, pending, mem, leaving>>
        /\ recovery'[r] = RecordOf(mem[r], probes, order)
    BY <1>1, <1>6, <2>1 DEF Record, TypeInParts, StageType, RecordType, GoTo
  <2>3. /\ recovery'[r].safe => mem[r].restore = "ok"
        /\ recovery'[r].result # "none"
        /\ recovery'[r].result = "PASS" => mem[r].receipt /\ mem[r].zero /\ mem[r].durable = "one"
    <3> DEFINE safe == mem[r].restore = "ok" /\ mem[r].overlayOk /\ mem[r].safe
               a6   == AssertA6(mem[r], probes)
               a7   == AssertA7(mem[r], safe, order)
    <3>1. recovery'[r].safe = safe /\ recovery'[r].result = Worst({a6, a7})
      BY <2>2 DEF RecordOf
    <3>2. mem[r] \in Mems /\ safe \in BOOLEAN
      BY <1>1 DEF TypeInParts, MemType, Mems
    <3>3. a6 \in Statuses /\ a7 \in Statuses
      BY <3>2, Results
    <3>4. a6 = "PASS" => mem[r].receipt /\ mem[r].zero
      BY <3>2 DEF AssertA6, Mems
    <3>5. a7 = "PASS" => mem[r].durable = "one"
      BY <2>1 DEF AssertA7
    <3> HIDE DEF a6, a7
    <3>6. Worst({a6, a7}) \in Statuses /\ (Worst({a6, a7}) = "PASS" => a6 = "PASS" /\ a7 = "PASS")
      BY <3>3 DEF Worst, Statuses
    <3> QED
      BY <3>1, <3>4, <3>5, <3>6 DEF Statuses
  <2>4. StartsClean(r)' /\ LeavesKnown(r)'
    BY <1>5, <2>2, <2>3 DEF StartsClean, LeavesKnown
  <2>5. FaultIsKnown(r)'
    BY <1>1, <1>2, <1>5, <2>2, <2>3 DEF RunHolds, FaultIsKnown, Locked
  <2>6. RequestsInTurn(r)'
    BY <1>1, <1>2, <2>2, <2>3 DEF RunHolds, RequestsInTurn, Requests
  <2> QED
    BY <1>4, <2>4, <2>5, <2>6 DEF RunHolds
<1>7. CASE ~Record(r)
  <2>1. UNCHANGED recovery
    BY <1>7 DEF Collects, ApplyFault, SendRequest, AwaitFailed, ReadFailed, RestoreFirst, ProbePath, UndoPath,
       SafeState, ReadRecovered
  <2>2. \/ stage'[r] = "finally" /\ leaving'[r] \in {"exception", "interrupt"}
        \/ stage'[r] # "finally" /\ leaving'[r] = "no"
    <3>1. CASE ApplyFault(r) \/ SendRequest(r) \/ AwaitFailed(r) \/ ReadFailed(r) \/ RestoreFirst(r)
      BY <1>1, <1>5, <3>1 DEF ApplyFault, SendRequest, AwaitFailed, ReadFailed, RestoreFirst,
         Fail, Interrupt, TypeInParts, StageType, WayType, GoTo
    <3>2. CASE ProbePath(r) \/ UndoPath(r) \/ SafeState(r) \/ ReadRecovered(r)
      BY <1>1, <1>5, <3>2 DEF ProbePath, UndoPath, SafeState, ReadRecovered,
         Fail, Interrupt, TypeInParts, StageType, WayType, GoTo
    <3> QED
      BY <1>7, <3>1, <3>2 DEF Collects
  <2>3. LeavesKnown(r)'
    BY <1>3, <1>5, <2>1, <2>2 DEF LeavesKnown, Body
  <2>4. CASE ApplyFault(r)
    <3>1. /\ stage[r] = "apply" /\ UNCHANGED pending
          /\ stage'[r] \in {"request", "finally"}
          /\ mem'[r].receipt = mem[r].receipt /\ mem'[r].restore = mem[r].restore
          /\ mem'[r].durable = mem[r].durable
      BY <1>1, <2>4 DEF ApplyFault, Fail, Interrupt, Keep, TypeInParts, StageType, MemType, Mems, GoTo
    <3>2. mem[r] = NoMem /\ r \in started /\ r \notin receipts /\ pending[r] = {} /\ consents[r] = {}
      BY <1>1, <3>1 DEF RunHolds, StartsClean, FaultIsKnown
    <3>3. StartsClean(r)'
      BY <1>2, <3>1, <3>2, Empty DEF StartsClean
    <3>4. FaultIsKnown(r)'
      BY <1>2, <1>5, <2>1, <3>1, <3>2, Empty DEF FaultIsKnown
    <3>5. RequestsInTurn(r)'
      BY <1>5, <2>1, <3>1, <3>2, Empty DEF RequestsInTurn
    <3> QED
      BY <1>4, <2>3, <3>3, <3>4, <3>5 DEF RunHolds
  <2>5. CASE ~ApplyFault(r)
    <3>1. StartsClean(r)'
      <4>1. stage'[r] # "request" /\ stage[r] # "apply"
        BY <1>1, <1>7, <2>5 DEF Collects, SendRequest, AwaitFailed, ReadFailed, RestoreFirst, ProbePath,
           UndoPath, SafeState, ReadRecovered, Fail, Interrupt, TypeInParts, StageType, GoTo
      <4> QED
        BY <1>3, <4>1 DEF StartsClean, Body
    <3>2. r \in marker' => r \in marker
      BY <1>7, <2>5, Restoring DEF Collects, SendRequest, AwaitFailed, ReadFailed, RestoreFirst, ProbePath,
         UndoPath, SafeState, ReadRecovered
    <3>3. mem'[r].restore = "ok" => r \notin marker'
      <4>1. CASE RestoreFirst(r)
        <5>1. PICK ok \in BOOLEAN :
                /\ RestoreFault(r, ok)
                /\ \/ mem' = [mem EXCEPT ![r] = [mem[r] EXCEPT !.restore = IF ok THEN "ok" ELSE "failed"]]
                   \/ UNCHANGED mem
          BY <4>1 DEF RestoreFirst, Keep
        <5>2. CASE UNCHANGED mem
          BY <1>1, <3>2, <5>2 DEF RunHolds, FaultIsKnown
        <5>3. CASE mem' = [mem EXCEPT ![r] = [mem[r] EXCEPT !.restore = IF ok THEN "ok" ELSE "failed"]]
          <6>1. mem'[r].restore = IF ok THEN "ok" ELSE "failed"
            BY <1>1, <5>3 DEF TypeInParts, MemType, Mems
          <6>2. ok = TRUE \/ ok = FALSE
            BY <5>1
          <6> QED
            BY <5>1, <6>1, <6>2, Restored
        <5> QED
          BY <5>1, <5>2, <5>3
      <4>2. CASE ~RestoreFirst(r)
        <5>1. mem'[r].restore = mem[r].restore
          BY <1>1, <1>7, <2>5, <4>2 DEF Collects, SendRequest, AwaitFailed, ReadFailed, ProbePath,
             UndoPath, SafeState, ReadRecovered, Keep, TypeInParts, MemType, Mems
        <5> QED
          BY <1>1, <3>2, <5>1 DEF RunHolds, FaultIsKnown
      <4> QED
        BY <4>1, <4>2
    <3>4. FaultIsKnown(r)'
      <4>1. r \in marker => r \in started
        BY <1>1, <1>2 DEF RunHolds, FaultIsKnown, Body, Locked
      <4> QED
        BY <1>2, <1>3, <1>5, <2>1, <3>2, <3>3, <4>1, Empty DEF FaultIsKnown, Body
    <3>5. RequestsInTurn(r)'
      <4>1. RequestsInTurn(r)
        BY <1>1 DEF RunHolds
      <4>2. /\ recovery'[r] = recovery[r] /\ consents'[r] = consents[r]
            /\ (r \in receipts' <=> r \in receipts)
        BY <1>2, <2>1
      <4>3. CASE SendRequest(r)
        <5>1. \/ /\ stage[r] = "request" /\ stage'[r] = "await failed"
                 /\ pending'[r] = pending[r] \cup {"failed"}
              \/ /\ stage[r] = "retry" /\ stage'[r] = "await retry"
                 /\ pending'[r] = pending[r] \cup {"retry"}
          BY <1>1, <4>3 DEF SendRequest, Send, TypeInParts, StageType, RequestType, GoTo
        <5>2. stage[r] = "request" => r \notin receipts /\ pending[r] = {} /\ ~mem[r].receipt
          BY <1>1 DEF RunHolds, StartsClean
        <5>3. mem' = mem
          BY <4>3 DEF SendRequest
        <5> QED
          BY <4>1, <4>2, <5>1, <5>2, <5>3 DEF RequestsInTurn
      <4>4. CASE ReadFailed(r)
        <5>1. /\ stage[r] = "read failed" /\ stage'[r] \in {"restore", "finally"} /\ UNCHANGED pending
          BY <1>1, <4>4 DEF ReadFailed, Fail, Interrupt, TypeInParts, StageType, GoTo
        <5>2. CASE mem' = mem
          BY <4>1, <4>2, <5>1, <5>2 DEF RequestsInTurn
        <5>3. ASSUME NEW seen \in BOOLEAN, seen => r \in receipts,
                     Keep(r, [mem[r] EXCEPT !.receipt = seen, !.zero = StateIsZero(r)])
              PROVE  RequestsInTurn(r)'
          <6>1. /\ mem'[r].durable = mem[r].durable /\ (mem'[r].receipt = seen)
                /\ (mem'[r].zero = StateIsZero(r))
            BY <1>1, <5>3 DEF Keep, TypeInParts, MemType, Mems
          <6>2. mem'[r].receipt => r \in receipts /\ pending[r] = {}
            BY <4>1, <5>1, <5>3, <6>1 DEF RequestsInTurn
          <6>3. mem'[r].zero => consents[r] = {}
            BY <6>1 DEF StateIsZero
          <6> QED
            BY <4>1, <4>2, <5>1, <6>1, <6>2, <6>3 DEF RequestsInTurn
        <5> QED
          BY <4>4, <5>2, <5>3 DEF ReadFailed
      <4>5. CASE ReadRecovered(r)
        <5>1. stage'[r] \in {"record", "finally"} /\ UNCHANGED pending
          BY <1>1, <4>5 DEF ReadRecovered, Fail, Interrupt, TypeInParts, StageType, GoTo
        <5>2. CASE mem' = mem
          BY <4>1, <4>2, <5>1, <5>2 DEF RequestsInTurn
        <5>3. CASE Keep(r, [mem[r] EXCEPT !.durable = IF ConsentIsDurable(r) THEN "one" ELSE "other"])
          <6>1. /\ mem'[r].receipt = mem[r].receipt /\ mem'[r].zero = mem[r].zero
                /\ mem'[r].durable = "one" => ConsentIsDurable(r)
            BY <1>1, <5>3 DEF Keep, TypeInParts, MemType, Mems
          <6> QED
            BY <4>1, <4>2, <5>1, <6>1 DEF RequestsInTurn, ConsentIsDurable
        <5> QED
          BY <4>5, <5>2, <5>3 DEF ReadRecovered
      <4>6. CASE AwaitFailed(r) \/ RestoreFirst(r) \/ ProbePath(r) \/ UndoPath(r) \/ SafeState(r)
        <5>1. /\ stage[r] \in {"await failed", "restore", "probe", "undo", "safe"}
              /\ UNCHANGED pending
          BY <4>6 DEF AwaitFailed, RestoreFirst, ProbePath, UndoPath, SafeState
        <5>2. /\ mem'[r].receipt = mem[r].receipt /\ mem'[r].zero = mem[r].zero
              /\ mem'[r].durable = mem[r].durable
          <6>1. mem \in [Runs -> Mems]
            BY <1>1 DEF TypeInParts, MemType
          <6>2. CASE mem' = mem
            BY <6>2
          <6>3. ASSUME NEW x, \/ Keep(r, [mem[r] EXCEPT !.replied = x])
                              \/ Keep(r, [mem[r] EXCEPT !.restore = x])
                              \/ Keep(r, [mem[r] EXCEPT !.overlayOk = x])
                              \/ Keep(r, [mem[r] EXCEPT !.safe = x])
                PROVE  <5>2!1 /\ <5>2!2
            BY <6>1, <6>3 DEF Keep, Mems
          <6>4. CASE AwaitFailed(r)
            BY <4>6, <6>3, <6>4 DEF AwaitFailed
          <6>5. CASE RestoreFirst(r)
            BY <4>6, <6>2, <6>3, <6>5 DEF RestoreFirst
          <6>6. CASE ProbePath(r) \/ UndoPath(r) \/ SafeState(r)
            BY <4>6, <6>2, <6>3, <6>6 DEF ProbePath, UndoPath, SafeState
          <6> QED
            BY <4>6, <6>4, <6>5, <6>6
        <5>3. pending'[r] \subseteq {"failed"} /\ (r \in receipts' => pending'[r] = {})
          BY <4>1, <4>2, <5>1 DEF RequestsInTurn
        <5>4. /\ mem'[r].receipt => r \in receipts'
              /\ mem'[r].receipt /\ mem'[r].zero => "failed" \notin pending'[r] \cup consents'[r]
          BY <4>1, <4>2, <5>1, <5>2 DEF RequestsInTurn
        <5>5. /\ mem'[r].durable = "one" => \E q \in Requests : consents'[r] = {q}
              /\ recovery'[r].result = "PASS" => r \in receipts' /\ consents'[r] = {"retry"}
          BY <4>1, <4>2, <5>2 DEF RequestsInTurn
        <5> QED
          BY <5>3, <5>4, <5>5 DEF RequestsInTurn
      <4> QED
        BY <1>7, <2>5, <4>3, <4>4, <4>5, <4>6 DEF Collects
    <3> QED
      BY <1>4, <2>3, <3>1, <3>4, <3>5 DEF RunHolds
  <2> QED
    BY <2>4, <2>5
<1> QED
  BY <1>6, <1>7

\* The ways out under the lock: nobody passes them over a marker that may still
\* be there without a block.
LEMMA ClosesHolds ==
    ASSUME IInv, NEW r \in Runs, Closes(r)
    PROVE  RunHolds(r)'
<1>1. TypeInParts /\ RunHolds(r)
  BY TypeParts DEF IInv
<1>2. /\ stage[r] \in Closing \cup {"finally"} /\ stage[r] # "leave"
      /\ UNCHANGED <<mem, started, receipts, consents, recovery, outcome, verdict, runFile, maintenance>>
  BY DEF Closing, Closes, Finally, FinalTeardown, HandlerRestore, HandlerTeardown, HandlerBlock
<1>3. stage'[r] \in Closing
  BY <1>1, ClosesGoes DEF TypeInParts, StageType, GoTo
<1>4. ResultIsTrue(r)'
  BY <1>1, <1>2, <1>3, NothingReported DEF RunHolds, Closing, Locked
<1>5. StartsClean(r)'
  BY <1>3 DEF StartsClean, Closing
<1>6. /\ r \in marker' => r \in marker
      /\ r \in rows' => r \in rows
      /\ pending'[r] \subseteq pending[r]
  BY <1>1, Restoring DEF Closes, Finally, FinalTeardown, HandlerRestore, HandlerTeardown, HandlerBlock,
     TeardownLanes, DeleteOwned, TypeInParts, RequestType
<1>7. RequestsInTurn(r)'
  BY <1>1, <1>2, <1>3, <1>6 DEF RunHolds, RequestsInTurn, Closing
<1>8. r \in marker => r \in started
  BY <1>1, <1>2 DEF RunHolds, FaultIsKnown, Closing, Locked
<1>9. CASE Finally(r)
  <2>1. /\ stage[r] = "finally" /\ UNCHANGED <<leaving, teardown>>
        /\ stage'[r] = AfterFinally(r)
    BY <1>1, <1>9 DEF Finally, TypeInParts, StageType, GoTo
  <2>2. leaving[r] \in Ways /\ teardown[r] = "not run"
    BY <1>1, <2>1 DEF RunHolds, FaultIsKnown, TypeInParts, WayType
  <2>3. LeavesKnown(r)'
    BY <1>1, <1>2, <2>1, <2>2 DEF RunHolds, LeavesKnown, AfterFinally, Ways
  <2>4. FaultIsKnown(r)'
    BY <1>1, <1>2, <1>6, <1>8, <2>1, <2>2 DEF RunHolds, FaultIsKnown, AfterFinally, Ways
  <2> QED
    BY <1>4, <1>5, <1>7, <2>3, <2>4 DEF RunHolds
<1>10. CASE FinalTeardown(r)
  <2>1. /\ stage[r] = "teardown" /\ stage'[r] = "leave"
        /\ leaving'[r] \in {leaving[r], "interrupt"} /\ UNCHANGED marker
    BY <1>1, <1>10 DEF FinalTeardown, Interrupt, TypeInParts, StageType, WayType, GoTo
  <2>2. leaving[r] = "no"
    BY <1>1, <2>1 DEF RunHolds, LeavesKnown
  <2>3. LeavesKnown(r)'
    BY <1>1, <1>2, <2>1, <2>2 DEF RunHolds, LeavesKnown
  <2>4. teardown'[r] = "ok" => r \notin rows' \cup overlays'
    BY <1>1, <1>10 DEF FinalTeardown, TeardownLanes, DeleteOwned, Interrupt, RunHolds, FaultIsKnown,
       TypeInParts, RecordType
  <2>5. FaultIsKnown(r)'
    BY <1>1, <1>2, <1>6, <1>8, <2>1, <2>2, <2>4 DEF RunHolds, FaultIsKnown
  <2> QED
    BY <1>4, <1>5, <1>7, <2>3, <2>5 DEF RunHolds
<1>11. CASE HandlerRestore(r) \/ HandlerTeardown(r) \/ HandlerBlock(r)
  <2>1. /\ stage[r] \in {"handler", "handler rows", "handler block"} /\ UNCHANGED <<leaving, teardown>>
        /\ stage'[r] \in {"handler rows", "handler block", "leave"}
    BY <1>1, <1>11 DEF HandlerRestore, HandlerTeardown, HandlerBlock, TypeInParts, StageType, GoTo
  <2>2. leaving[r] = "exception" /\ teardown[r] = "not run"
    BY <1>1, <2>1 DEF RunHolds, LeavesKnown, FaultIsKnown
  <2>3. LeavesKnown(r)'
    BY <1>1, <1>2, <2>1, <2>2 DEF RunHolds, LeavesKnown
  <2>4. stage'[r] = "handler rows" => r \notin marker'
    BY <1>1, <1>8, <1>11, Restored DEF HandlerRestore, HandlerTeardown, HandlerBlock, TypeInParts, StageType, GoTo
  <2>5. stage'[r] = "leave" => r \notin Residue' \/ Barred'
    <3>1. CASE HandlerBlock(r)
      BY <3>1 DEF HandlerBlock, Barred
    <3>2. CASE HandlerTeardown(r) /\ stage'[r] = "leave"
      <4>1. TeardownLanes(r, TRUE) /\ UNCHANGED marker /\ stage[r] = "handler rows"
        BY <1>1, <3>2 DEF HandlerTeardown, TypeInParts, StageType, GoTo
      <4> QED
        BY <1>1, <4>1 DEF TeardownLanes, DeleteOwned, Residue, RunHolds, FaultIsKnown
    <3>3. CASE HandlerRestore(r)
      BY <1>1, <3>3 DEF HandlerRestore, TypeInParts, StageType, GoTo
    <3> QED
      BY <1>11, <3>1, <3>2, <3>3
  <2>6. FaultIsKnown(r)'
    BY <1>1, <1>2, <1>6, <1>8, <2>1, <2>2, <2>4, <2>5 DEF RunHolds, FaultIsKnown
  <2> QED
    BY <1>4, <1>5, <1>7, <2>3, <2>6 DEF RunHolds
<1> QED
  BY <1>9, <1>10, <1>11 DEF Closes

\* The end of a process takes its memory; what it has written is still true.
LEMMA EndHolds ==
    ASSUME IInv, NEW r \in Runs, Forget(r),
           UNCHANGED <<block, maintenance, targetVars, verdict, runFile>>,
           stage'[r] \in Gone,
           stage'[r] = "raised" => stage[r] = "leave" /\ leaving[r] = "exception"
    PROVE  RunHolds(r)'
<1>1. TypeInParts /\ RunHolds(r)
  BY TypeParts DEF IInv
<1>2. /\ mem'[r] = NoMem /\ r \notin started' /\ leaving'[r] = "no" /\ recovery'[r] = NoRecovery
      /\ teardown'[r] = "not run" /\ outcome'[r] = "none"
  BY <1>1 DEF Forget, TypeInParts, MemType, WayType, RecordType, ResultType
<1>3. StartsClean(r)' /\ LeavesKnown(r)'
  BY <1>2 DEF StartsClean, LeavesKnown, Gone, Ended
<1>4. FaultIsKnown(r)'
  <2>1. stage'[r] = "raised" => r \notin Residue' \/ Barred'
    BY <1>1 DEF RunHolds, FaultIsKnown, Residue, Barred
  <2> QED
    BY <1>2, <2>1, Empty DEF FaultIsKnown, Gone, Ended, Locked
<1>5. RequestsInTurn(r)'
  BY <1>2, Empty DEF RequestsInTurn, Gone, Ended
<1>6. ResultIsTrue(r)'
  BY <1>1, <1>2 DEF RunHolds, ResultIsTrue, Residue, Barred, Gone, Ended
<1> QED
  BY <1>3, <1>4, <1>5, <1>6 DEF RunHolds

\* From the lock to the sealed bundle, or out of the process.
LEMMA FinishesHolds ==
    ASSUME IInv, NEW r \in Runs, Finishes(r)
    PROVE  RunHolds(r)'
<1>1. TypeInParts /\ RunHolds(r)
  BY TypeParts DEF IInv
<1>2. CASE Stop(r) \/ Crash(r) \/ SealBundle(r)
  <2>1. /\ Forget(r) /\ UNCHANGED <<block, maintenance, targetVars, verdict, runFile>>
        /\ \E s \in {"stopped", "crashed", "done"} : GoTo(r, s)
    BY <1>2 DEF Stop, Crash, SealBundle
  <2>2. stage'[r] \in {"stopped", "crashed", "done"}
    BY <1>1, <2>1 DEF TypeInParts, StageType, GoTo
  <2> QED
    BY <2>1, <2>2, EndHolds DEF Gone, Ended
<1>3. CASE LeaveLock(r)
  <2>1. stage[r] = "leave" /\ UNCHANGED <<block, maintenance, targetVars, verdict, runFile>>
    BY <1>3 DEF LeaveLock
  <2>2. CASE /\ Forget(r)
             /\ \/ leaving[r] = "exception" /\ GoTo(r, "raised")
                \/ GoTo(r, "interrupted")
    <3>1. (leaving[r] = "exception" /\ stage'[r] = "raised") \/ stage'[r] = "interrupted"
      BY <1>1, <2>2 DEF TypeInParts, StageType, GoTo
    <3> QED
      BY <2>1, <2>2, <3>1, EndHolds DEF Gone, Ended
  <2>3. CASE /\ leaving[r] = "no" /\ GoTo(r, "conclude")
             /\ UNCHANGED <<mem, started, leaving, recovery, teardown, outcome>>
    <3>1. stage'[r] = "conclude"
      BY <1>1, <2>3 DEF TypeInParts, StageType, GoTo
    <3>2. ResultIsTrue(r)'
      BY <1>1, <2>1, <2>3, <3>1, NothingReported DEF RunHolds, Locked
    <3>3. StartsClean(r)' /\ LeavesKnown(r)' /\ RequestsInTurn(r)'
      BY <1>1, <2>1, <2>3, <3>1 DEF RunHolds, StartsClean, LeavesKnown, RequestsInTurn
    <3>4. FaultIsKnown(r)'
      BY <1>1, <2>1, <2>3, <3>1 DEF RunHolds, FaultIsKnown, Locked
    <3> QED
      BY <3>2, <3>3, <3>4 DEF RunHolds
  <2> QED
    BY <1>3, <2>2, <2>3 DEF LeaveLock
<1>4. CASE Conclude(r)
  <2>1. /\ stage[r] = "conclude" /\ stage'[r] = "block"
        /\ UNCHANGED <<rootVars, targetVars, mem, started, leaving, recovery, teardown, verdict, runFile>>
    BY <1>1, <1>4 DEF Conclude, TypeInParts, StageType, GoTo
  <2>2. /\ outcome'[r] \in {"COMPLETED", "RESTORE_FAILED"}
        /\ outcome'[r] = "COMPLETED" => recovery[r].safe /\ teardown[r] = "ok"
    BY <1>1, <1>4 DEF Conclude, TypeInParts, ResultType
  <2>3. StartsClean(r)' /\ LeavesKnown(r)' /\ RequestsInTurn(r)'
    BY <1>1, <2>1 DEF RunHolds, StartsClean, LeavesKnown, RequestsInTurn
  <2>4. FaultIsKnown(r)'
    BY <1>1, <2>1 DEF RunHolds, FaultIsKnown, Locked
  <2>5. ResultIsTrue(r)'
    <3>1. outcome'[r] = "COMPLETED" => r \notin Residue' /\ r \notin overlays'
      BY <1>1, <2>1, <2>2 DEF RunHolds, FaultIsKnown, Residue
    <3>2. verdict[r] # "PASS" /\ runFile[r] = "ABSENT"
      BY <1>1, <2>1 DEF RunHolds, ResultIsTrue, Gone, Ended
    <3> QED
      BY <2>1, <2>2, <3>1, <3>2 DEF ResultIsTrue
  <2> QED
    BY <2>3, <2>4, <2>5 DEF RunHolds
<1>5. CASE BlockAndJudge(r)
  <2>1. /\ stage[r] = "block" /\ stage'[r] = "write" /\ UNCHANGED <<targetVars, leaving, outcome, runFile>>
        /\ mem'[r] = NoMem /\ recovery'[r] = NoRecovery /\ teardown'[r] = "not run"
    BY <1>1, <1>5 DEF BlockAndJudge, TypeInParts, StageType, MemType, RecordType, GoTo
  <2>2. \E slices \in Statuses : verdict'[r] = JudgeRun(outcome[r], {slices, recovery[r].result})
    BY <1>1, <1>5 DEF BlockAndJudge, TypeInParts, ResultType
  <2>3. /\ outcome[r] \in {"COMPLETED", "RESTORE_FAILED"}
        /\ outcome[r] = "COMPLETED" => r \notin Residue /\ r \notin overlays
        /\ outcome[r] = "RESTORE_FAILED" => Barred'
    BY <1>1, <1>5, <2>1 DEF BlockAndJudge, Barred, RunHolds, ResultIsTrue, TypeInParts, ResultType, Outcomes
  <2>4. leaving[r] = "no" /\ recovery[r].result \in Statuses
    BY <1>1, <2>1 DEF RunHolds, LeavesKnown, TypeInParts, RecordType, Records
  <2>5. verdict'[r] = "PASS" => outcome[r] = "COMPLETED" /\ recovery[r].result = "PASS"
    BY <2>2, <2>3, <2>4 DEF JudgeRun, Worst, Statuses
  <2>6. StartsClean(r)' /\ LeavesKnown(r)' /\ RequestsInTurn(r)'
    BY <2>1, <2>4, Empty DEF StartsClean, LeavesKnown, RequestsInTurn
  <2>7. FaultIsKnown(r)'
    BY <2>1, Empty DEF FaultIsKnown, Locked
  <2>8. ResultIsTrue(r)'
    <3>1. verdict'[r] = "PASS" => r \in receipts /\ consents[r] = {"retry"}
      BY <1>1, <2>5 DEF RunHolds, RequestsInTurn
    <3>2. runFile[r] = "ABSENT"
      BY <1>1, <2>1 DEF RunHolds, ResultIsTrue, Gone, Ended
    <3>3. Residue' = Residue
      BY <2>1 DEF Residue
    <3> QED
      BY <2>1, <2>3, <2>5, <3>1, <3>2, <3>3 DEF ResultIsTrue
  <2> QED
    BY <2>6, <2>7, <2>8 DEF RunHolds
<1>6. CASE WriteRun(r)
  <2>1. /\ stage[r] = "write" /\ stage'[r] = "seal" /\ runFile'[r] = outcome[r]
        /\ UNCHANGED <<rootVars, targetVars, mem, started, leaving, recovery, teardown, outcome, verdict>>
    BY <1>1, <1>6 DEF WriteRun, TypeInParts, StageType, ResultType, GoTo
  <2>2. StartsClean(r)' /\ LeavesKnown(r)' /\ RequestsInTurn(r)'
    BY <1>1, <2>1 DEF RunHolds, StartsClean, LeavesKnown, RequestsInTurn
  <2>3. FaultIsKnown(r)'
    BY <1>1, <2>1 DEF RunHolds, FaultIsKnown, Locked
  <2>4. ResultIsTrue(r)'
    BY <1>1, <2>1 DEF RunHolds, ResultIsTrue, Residue, Barred
  <2> QED
    BY <2>2, <2>3, <2>4 DEF RunHolds
<1> QED
  BY <1>2, <1>3, <1>4, <1>5, <1>6 DEF Finishes

\* The empty run root satisfies the invariant,
LEMMA InitHolds == SystemInit => IInv
<1> SUFFICES ASSUME SystemInit PROVE IInv
  OBVIOUS
<1> USE DEF SystemInit, ConsentInit, RootInit, TargetInit
<1>1. TypeOK
  <2>1. RootType /\ FaultType /\ RequestType /\ confirm \in ConfirmSteps
    BY DEF RootType, FaultType, RequestType, ConfirmSteps
  <2>2. StageType /\ LockType
    BY DEF StageType, Stages, LockType, Locked
  <2>3. MemType /\ RecordType
    BY Empty DEF MemType, RecordType, Ends
  <2>4. WayType /\ ResultType
    BY DEF WayType, Ways, ResultType, Outcomes, States
  <2> QED
    BY <2>1, <2>2, <2>3, <2>4, TypeParts DEF TypeInParts
<1>2. ASSUME NEW r \in Runs PROVE RunHolds(r)
  <2>1. mem[r] = NoMem /\ recovery[r] = NoRecovery
    OBVIOUS
  <2>2. StartsClean(r) /\ LeavesKnown(r) /\ RequestsInTurn(r)
    BY <2>1, Empty DEF StartsClean, LeavesKnown, RequestsInTurn
  <2>3. FaultIsKnown(r) /\ ResultIsTrue(r)
    BY <2>1, Empty DEF FaultIsKnown, ResultIsTrue
  <2> QED
    BY <2>2, <2>3 DEF RunHolds
<1> QED
  BY <1>1, <1>2 DEF IInv

\* and every step keeps it.
LEMMA NextHolds == IInv /\ [SystemNext]_allVars => IInv'
<1> SUFFICES ASSUME IInv, [SystemNext]_allVars PROVE IInv'
  OBVIOUS
<1>1. ASSUME NEW r \in Runs, UNCHANGED confirm, RunStep(r) \/ Crash(r) PROVE IInv'
  <2>1. TypeOK'
    BY <1>1, TypeStep
  <2>2. RunHolds(r)'
    BY <1>1, EntersHolds, CollectsHolds, ClosesHolds, FinishesHolds, StepsOfRun
  <2>3. \A q \in Runs : RunHolds(q)'
    BY <1>1, <2>2, OtherStep
  <2>4. confirm' = "recorded" => maintenance' # {}
    BY <1>1, SharedFiles, TypeParts DEF IInv
  <2> QED
    BY <2>1, <2>3, <2>4 DEF IInv
<1>2. ASSUME NEW r \in Runs, ProductMoves(r) PROVE IInv'
  <2>1. TypeOK' /\ \A q \in Runs : RunHolds(q)'
    BY <1>2, TypeAside, ProductHolds DEF IInv
  <2>2. UNCHANGED <<maintenance, confirm>>
    BY <1>2 DEF ProductMoves
  <2> QED
    BY <2>1, <2>2 DEF IInv
<1>3. CASE ConfirmStep
  BY <1>3, TypeAside, ConfirmHolds DEF IInv
<1>4. CASE UNCHANGED allVars
  <2>1. TypeOK'
    BY <1>4 DEF IInv, TypeOK
  <2>2. \A r \in Runs : RunHolds(r)'
    BY <1>4, Untouched DEF IInv, Barred
  <2> QED
    BY <1>4, <2>1, <2>2 DEF IInv
<1> QED
  BY <1>1, <1>2, <1>3, <1>4 DEF SystemNext

\* The inductive invariant of N02Executor.execute, the product's answers and
\* cleanup-confirm, for any set of Runs.
THEOREM Invariance == SystemSpec => []IInv
  BY InitHolds, NextHolds, PTL DEF SystemSpec

\* Every variable keeps its type, and the lock file names the Run that is under
\* the lock.
THEOREM TypeCorrect == SystemSpec => []TypeOK
<1>1. IInv => TypeOK
  BY DEF IInv
<1> QED
  BY <1>1, Invariance, PTL

\* An exception out of a collector leaves a target that is clean or barred.
THEOREM CollectorsBarred == SystemSpec => []CollectorFailureIsBarred
<1>1. IInv => CollectorFailureIsBarred
  BY DEF IInv, TypeOK, RunHolds, FaultIsKnown, Residue, CollectorFailureIsBarred
<1> QED
  BY <1>1, Invariance, PTL

\* A PASS stands on a fault that fired, a retry that was committed and a target
\* without the Run's marker, overlay and lanes, and goes on standing on it.
THEOREM PassEarned == SystemSpec => []PassIsEarned
<1>1. IInv => PassIsEarned
  BY DEF IInv, TypeOK, RunHolds, ResultIsTrue, PassIsEarned
<1> QED
  BY <1>1, Invariance, PTL

-----------------------------------------------------------------------------
(* Refinement: the Runs and the operator implement the promise of FaultWindow *)

Reported(r) == CASE runFile[r] = "COMPLETED"      -> "clean"
                 [] runFile[r] = "RESTORE_FAILED" -> "unsafe"
                 [] OTHER                         -> "open"

Reports == [r \in Runs |-> Reported(r)]

\* A step of a Run seeds, applies, takes away or bars, or writes a run.json that
\* is true.
LEMMA RefineRun ==
    ASSUME IInv, NEW r \in Runs, RunStep(r) \/ Crash(r)
    PROVE  FW!FWNext \/ UNCHANGED FW!fwVars
<1>1. TypeInParts /\ RunHolds(r)
  BY TypeParts DEF IInv
<1>2. CASE WriteRun(r)
  <2>1. /\ stage[r] = "write" /\ UNCHANGED <<marker, rows, block, maintenance>>
        /\ runFile' = [runFile EXCEPT ![r] = outcome[r]]
    BY <1>2 DEF WriteRun
  <2>2. outcome[r] \in {"COMPLETED", "RESTORE_FAILED"} /\ runFile[r] = "ABSENT"
    BY <1>1, <2>1 DEF RunHolds, ResultIsTrue, TypeInParts, ResultType, Outcomes, Gone, Ended
  <2>3. Reports[r] = "open" /\ Residue' = Residue
    BY <2>1, <2>2 DEF Reports, Reported, Residue
  <2>4. CASE outcome[r] = "COMPLETED"
    <3>1. r \notin Residue
      BY <1>1, <2>4 DEF RunHolds, ResultIsTrue
    <3>2. Reports' = [Reports EXCEPT ![r] = "clean"]
      BY <1>1, <2>1, <2>4 DEF Reports, Reported, TypeInParts, ResultType
    <3>3. FW!Report(r)
      BY <2>1, <2>3, <3>1, <3>2 DEF FW!Report, Reports, Reported
    <3> QED
      BY <3>3 DEF FW!FWNext
  <2>5. CASE outcome[r] = "RESTORE_FAILED"
    <3>1. Blocked \/ maintenance # {}
      BY <1>1, <2>1, <2>5 DEF RunHolds, ResultIsTrue, Barred
    <3>2. Reports' = [Reports EXCEPT ![r] = "unsafe"]
      BY <1>1, <2>1, <2>5 DEF Reports, Reported, TypeInParts, ResultType
    <3>3. FW!Report(r)
      BY <2>1, <2>3, <3>1, <3>2 DEF FW!Report, Reports, Reported
    <3> QED
      BY <3>3 DEF FW!FWNext
  <2> QED
    BY <2>2, <2>4, <2>5
<1>3. CASE SeedLanes(r) \/ ApplyFault(r)
  <2>1. UNCHANGED <<block, maintenance, runFile>> /\ stage[r] \in {"seed", "apply"}
    BY <1>3 DEF SeedLanes, ApplyFault
  <2>2. Residue' \in {Residue, Residue \cup {r}}
    BY <1>3 DEF SeedLanes, ApplyFault, SeedRows, ApplyMarker, Residue
  <2>3. runFile[r] = "ABSENT"
    BY <1>1, <2>1 DEF RunHolds, ResultIsTrue, Gone, Ended
  <2>4. Reports' = Reports /\ Reports[r] = "open"
    BY <2>1, <2>3 DEF Reports, Reported
  <2>5. FW!Inject(r) \/ UNCHANGED FW!fwVars
    BY <2>1, <2>2, <2>4 DEF FW!Inject, FW!fwVars, Reports, Reported
  <2> QED
    BY <2>5 DEF FW!FWNext
<1>4. CASE ~WriteRun(r) /\ ~SeedLanes(r) /\ ~ApplyFault(r)
  <2>1. marker' \in {marker, marker \ {r}} /\ rows' \in {rows, rows \ {r}}
    BY <1>4, Restoring DEF RunStep, Crash, Open, EnterLock, CheckBlock, CollectSlices, SendRequest,
       AwaitFailed, ReadFailed, RestoreFirst, ProbePath, UndoPath, SafeState, ReadRecovered, Record,
       Finally, FinalTeardown, HandlerRestore, HandlerTeardown, HandlerBlock, LeaveLock, Conclude,
       BlockAndJudge, SealBundle, Stop, TeardownLanes, DeleteOwned
  <2>2. runFile' = runFile
    BY <1>4 DEF RunStep, Crash, Open, EnterLock, CheckBlock, CollectSlices, SendRequest,
       AwaitFailed, ReadFailed, RestoreFirst, ProbePath, UndoPath, SafeState, ReadRecovered, Record,
       Finally, FinalTeardown, HandlerRestore, HandlerTeardown, HandlerBlock, LeaveLock, Conclude,
       BlockAndJudge, SealBundle, Stop
  <2>3. block' \in {block, r} /\ maintenance' = maintenance
    BY <1>1, SharedFiles
  <2>4. Reports' = Reports
    BY <2>2 DEF Reports, Reported
  <2>5. Residue' \in {Residue, Residue \ {r}}
    <3>1. CASE r \in Residue'
      <4>1. Residue' = Residue
        BY <2>1, <3>1 DEF Residue
      <4> QED
        BY <4>1
    <3>2. CASE r \notin Residue'
      <4>1. Residue' = Residue \ {r}
        BY <2>1, <3>2 DEF Residue
      <4> QED
        BY <4>1
    <3> QED
      BY <3>1, <3>2
  <2>6. FW!Withdraw(r)
    BY <2>2, <2>3, <2>4, <2>5 DEF FW!Withdraw, Reports, Reported
  <2> QED
    BY <2>6 DEF FW!FWNext
<1> QED
  BY <1>2, <1>3, <1>4

\* A step of cleanup-confirm is one of the promise too.
LEMMA RefineOperator ==
    ASSUME IInv, ConfirmStep
    PROVE  FW!FWNext \/ UNCHANGED FW!fwVars
<1>1. CASE ConfirmRecord
  <2>1. UNCHANGED <<marker, rows, block, runFile>> /\ maintenance' # {} /\ Blocked
    BY <1>1 DEF ConfirmRecord
  <2> QED
    BY <2>1 DEF FW!FWNext, FW!Confirm, Residue
<1>2. CASE ConfirmUnlink
  <2>1. UNCHANGED <<marker, rows, maintenance, runFile>> /\ maintenance # {} /\ ~Blocked'
    BY <1>2 DEF ConfirmUnlink, IInv
  <2> QED
    BY <2>1 DEF FW!FWNext, FW!Lift, Residue
<1>3. CASE ConfirmProbe \/ ConfirmDies
  <2>1. UNCHANGED <<marker, rows, block, maintenance, runFile>>
    BY <1>3 DEF ConfirmProbe, ConfirmDies
  <2> QED
    BY <2>1 DEF FW!fwVars, Residue
<1> QED
  BY <1>1, <1>2, <1>3 DEF ConfirmStep

\* The empty run root has reported nothing.
LEMMA RefineInit == SystemInit => FW!FWInit
  BY DEF SystemInit, ConsentInit, RootInit, TargetInit, FW!FWInit, Residue

\* The product reports nothing, and what is no step changes nothing.
LEMMA RefineNext == IInv /\ [SystemNext]_allVars => [FW!FWNext]_(FW!fwVars)
<1> SUFFICES ASSUME IInv, [SystemNext]_allVars PROVE FW!FWNext \/ UNCHANGED FW!fwVars
  OBVIOUS
<1>1. CASE UNCHANGED allVars
  BY <1>1 DEF FW!fwVars, Residue
<1>2. ASSUME NEW r \in Runs, ProductMoves(r) PROVE UNCHANGED FW!fwVars
  <2>1. UNCHANGED <<marker, rows, block, maintenance, runFile>>
    BY <1>2, ProductFrame, TypeParts DEF ProductMoves, IInv, TypeInParts
  <2> QED
    BY <2>1 DEF FW!fwVars, Residue
<1> QED
  BY <1>1, <1>2, RefineRun, RefineOperator DEF SystemNext

\* Every behaviour of the N-02 Runs, the product and the operator is one the
\* promise allows.
THEOREM Implementation == SystemSpec => ImplementsFaultWindow
  BY RefineInit, RefineNext, Invariance, PTL DEF SystemSpec, ImplementsFaultWindow, FW!FWSpec
=============================================================================
