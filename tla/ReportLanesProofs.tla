-------------------------- MODULE ReportLanesProofs --------------------------
(***************************************************************************)
(* Proofs about ReportLanes, for any set of Runs and any set of them whose  *)
(* reports appear in time to be changed.                                    *)
(***************************************************************************)
EXTENDS ReportLanes, TLAPS

USE NoneIsNoRun, ReportingAssumption
USE DEF allVars, reportVars, rootVars, targetVars, journeyVars, resultVars, citationFrame,
        freezeFrame, GoTo, Acquire, Release, WriteBlock, LockIsFree, Blocked

-----------------------------------------------------------------------------
(* Types *)

States     == {"none", "APPLIED", "RESTORED", "RESTORE_FAILED"}
Stages     == Locked \cup Ended \cup {"idle", "conclude", "write", "seal"}
DiskStates == {"ABSENT", "COMPLETED", "RESTORE_FAILED"}

\* The types, in the parts that steps change.
RootType == lock \in Runs \cup {None} /\ block \in Runs \cup {None} /\ maintenance \subseteq Runs
StageType == stage \in [Runs -> Stages]
TargetType ==
    /\ rows \subseteq Runs /\ altered \in [Runs -> SUBSET Kinds]
    /\ \A r \in Runs : r \notin rows => altered[r] = {}
ChangeType == injections \in [Runs -> [Kinds -> States]]
JourneyType ==
    /\ teardown \in [Runs -> {"not run", "ok", "failed"}]
    /\ others \in [Runs -> {"unread", "read", "unchanged", "unknown"}]
    /\ failed \subseteq Runs
ResultType ==
    /\ outcome \in [Runs -> {"none", "COMPLETED", "RESTORE_FAILED"}]
    /\ verdict \in [Runs -> Statuses \cup {"none"}]
    /\ runFile \in [Runs -> DiskStates] /\ verified \subseteq Runs

TypeInParts ==
    /\ RootType /\ StageType /\ TargetType /\ ChangeType /\ JourneyType /\ ResultType
    /\ pair \in {"E01", "E02"} /\ confirm \in ConfirmSteps

\* The type invariant, split into the parts the lemmas below keep one by one.
LEMMA TypeParts == (TypeOK <=> TypeInParts) /\ (TypeOK' <=> TypeInParts')
  BY DEF TypeInParts, TypeOK, RootType, StageType, Stages, TargetType, ChangeType, States, JourneyType,
     ResultType, DiskStates

\* A process that moves to a control point of the code stays at one.
LEMMA Moves ==
    ASSUME StageType, NEW r \in Runs, NEW s \in Stages, GoTo(r, s)
    PROVE  StageType' /\ stage'[r] = s /\ \A q \in Runs \ {r} : stage'[q] = stage[q]
  BY DEF StageType

\* A note is about one change of one Run.
LEMMA NoteSets ==
    ASSUME TypeOK, NEW r \in Runs, NEW i \in Kinds, NEW state \in States, Note(r, i, state)
    PROVE  /\ injections' \in [Runs -> [Kinds -> States]]
           /\ injections'[r][i] = state
           /\ \A j \in Kinds \ {i} : injections'[r][j] = injections[r][j]
           /\ \A q \in Runs \ {r} : injections'[q] = injections[q]
<1>1. injections \in [Runs -> [Kinds -> States]]
  BY DEF TypeOK, States
<1>2. injections' = [injections EXCEPT ![r] = [injections[r] EXCEPT ![i] = state]]
  BY DEF Note
<1>3. [injections[r] EXCEPT ![i] = state] \in [Kinds -> States]
  BY <1>1
<1> QED
  BY <1>1, <1>2, <1>3

\* A change is among the rows of one Run, as is what puts it back.
LEMMA AlterSets ==
    ASSUME TypeOK, NEW r \in Runs, NEW i \in Kinds, Alter(r, i) \/ PutBack(r, i)
    PROVE  /\ altered' \in [Runs -> SUBSET Kinds]
           /\ Alter(r, i) => altered'[r] = altered[r] \cup {i}
           /\ PutBack(r, i) => altered'[r] = altered[r] \ {i}
           /\ \A q \in Runs \ {r} : altered'[q] = altered[q]
<1>1. altered \in [Runs -> SUBSET Kinds]
  BY DEF TypeOK
<1>2. CASE Alter(r, i)
  <2>1. altered' = [altered EXCEPT ![r] = altered[r] \cup {i}]
    BY <1>2 DEF Alter
  <2>2. CASE PutBack(r, i)
    <3>1. altered' = [altered EXCEPT ![r] = altered[r] \ {i}]
      BY <2>2 DEF PutBack
    <3> QED
      BY <1>1, <2>1, <3>1
  <2>3. CASE ~PutBack(r, i)
    BY <1>1, <2>1, <2>3
  <2> QED
    BY <2>2, <2>3
<1>3. CASE PutBack(r, i) /\ ~Alter(r, i)
  <2>1. altered' = [altered EXCEPT ![r] = altered[r] \ {i}]
    BY <1>3 DEF PutBack
  <2> QED
    BY <1>1, <1>3, <2>1
<1> QED
  BY <1>2, <1>3

\* What a step of E-01 does to the change it is about: nothing, or its rows, or
\* its rows and its record.
Touched(r, i) ==
    /\ altered' = altered \/ Alter(r, i) \/ PutBack(r, i)
    /\ injections' = injections \/ \E state \in States \ {"none"} : Note(r, i, state)

\* What a step adds to the rows and the notes stays within their types.
LEMMA TouchedSets ==
    ASSUME TypeOK, NEW r \in Runs, NEW i \in Kinds, Touched(r, i)
    PROVE  /\ altered' \in [Runs -> SUBSET Kinds]
           /\ altered'[r] \subseteq altered[r] \cup {i}
           /\ injections' \in [Runs -> [Kinds -> States]]
           /\ \A j \in Kinds \ {i} : injections'[r][j] = injections[r][j]
           /\ \A q \in Runs \ {r} : injections'[q] = injections[q] /\ altered'[q] = altered[q]
<1>1. /\ altered' \in [Runs -> SUBSET Kinds]
      /\ altered'[r] \subseteq altered[r] \cup {i}
      /\ \A q \in Runs \ {r} : altered'[q] = altered[q]
  <2>1. CASE altered' = altered
    BY <2>1 DEF TypeOK
  <2>2. CASE Alter(r, i) \/ PutBack(r, i)
    BY <2>2, AlterSets
  <2> QED
    BY <2>1, <2>2 DEF Touched
<1>2. /\ injections' \in [Runs -> [Kinds -> States]]
      /\ \A j \in Kinds \ {i} : injections'[r][j] = injections[r][j]
      /\ \A q \in Runs \ {r} : injections'[q] = injections[q]
  <2>1. CASE injections' = injections
    BY <2>1 DEF TypeOK, States
  <2>2. ASSUME NEW state \in States \ {"none"}, Note(r, i, state) PROVE <1>2!1 /\ <1>2!2 /\ <1>2!3
    BY <2>2, NoteSets
  <2> QED
    BY <2>1, <2>2 DEF Touched
<1> QED
  BY <1>1, <1>2

\* The end of a process keeps the types.
LEMMA ForgetSets ==
    ASSUME TypeOK, NEW r \in Runs, Forget(r)
    PROVE  /\ injections' \in [Runs -> [Kinds -> States]]
           /\ \A i \in Kinds : injections'[r][i] = "none"
           /\ teardown' \in [Runs -> {"not run", "ok", "failed"}] /\ teardown'[r] = "not run"
           /\ others' \in [Runs -> {"unread", "read", "unchanged", "unknown"}]
           /\ failed' \subseteq Runs
           /\ outcome' \in [Runs -> {"none", "COMPLETED", "RESTORE_FAILED"}] /\ outcome'[r] = "none"
           /\ verdict' \in [Runs -> Statuses \cup {"none"}] /\ verdict'[r] = "none"
           /\ \A q \in Runs \ {r} :
                 /\ injections'[q] = injections[q] /\ teardown'[q] = teardown[q]
                 /\ others'[q] = others[q] /\ (q \in failed' <=> q \in failed)
                 /\ outcome'[q] = outcome[q] /\ verdict'[q] = verdict[q]
<1>1. [i \in Kinds |-> "none"] \in [Kinds -> States]
  BY DEF States
<1>2. injections \in [Runs -> [Kinds -> States]]
  BY DEF TypeOK, States
<1>3. /\ injections' \in [Runs -> [Kinds -> States]]
      /\ \A i \in Kinds : injections'[r][i] = "none"
      /\ \A q \in Runs \ {r} : injections'[q] = injections[q]
  BY <1>1, <1>2 DEF Forget
<1>4. JourneyType /\ ResultType
  BY TypeParts DEF TypeInParts
<1>5. /\ teardown' \in [Runs -> {"not run", "ok", "failed"}] /\ teardown'[r] = "not run"
      /\ others' \in [Runs -> {"unread", "read", "unchanged", "unknown"}]
      /\ failed' \subseteq Runs
      /\ \A q \in Runs \ {r} : /\ teardown'[q] = teardown[q] /\ others'[q] = others[q]
                              /\ (q \in failed' <=> q \in failed)
  BY <1>4 DEF JourneyType, Forget
<1>6. /\ outcome' \in [Runs -> {"none", "COMPLETED", "RESTORE_FAILED"}] /\ outcome'[r] = "none"
      /\ verdict' \in [Runs -> Statuses \cup {"none"}] /\ verdict'[r] = "none"
      /\ \A q \in Runs \ {r} : outcome'[q] = outcome[q] /\ verdict'[q] = verdict[q]
  BY <1>4 DEF ResultType, Forget
<1> QED
  BY <1>3, <1>5, <1>6

\* The steps that change what was seeded.
LEMMA Touching ==
    ASSUME NEW r \in Runs
    PROVE  /\ Removal(r) \/ RestoreRemoval(r) => Touched(r, "removal")
           /\ Probe(r) \/ RestoreProbe(r) => Touched(r, "probe")
           /\ Publish(r) => Touched(r, "publish")
           /\ ReadOthers(r) => Touched(r, "publish") /\ altered' = altered
<1> USE DEF Touched, States
<1>1. Removal(r) => Touched(r, "removal")
  BY DEF Removal
<1>2. RestoreRemoval(r) => Touched(r, "removal")
  BY DEF RestoreRemoval, ReinsertSegment, NothingOpen
<1>3. Probe(r) => Touched(r, "probe")
  BY DEF Probe
<1>4. RestoreProbe(r) => Touched(r, "probe")
  BY DEF RestoreProbe, RewriteAxes, NothingOpen
<1>5. Publish(r) => Touched(r, "publish")
  BY DEF Publish
<1>6. ReadOthers(r) => Touched(r, "publish") /\ altered' = altered
  BY DEF ReadOthers
<1> QED
  BY <1>1, <1>2, <1>3, <1>4, <1>5, <1>6

\* The teardown takes all rows of its Run, or none.
LEMMA RemoveSets ==
    ASSUME TypeOK, NEW r \in Runs, RemoveRows(r)
    PROVE  /\ rows' \subseteq Runs /\ altered' \in [Runs -> SUBSET Kinds]
           /\ teardown' \in [Runs -> {"not run", "ok", "failed"}]
           /\ teardown'[r] = "ok" => r \notin rows'
           /\ rows' \in {rows, rows \ {r}}
           /\ \A q \in Runs : q \notin rows' => altered'[q] = {}
           /\ \A q \in Runs \ {r} :
                 (q \in rows' <=> q \in rows) /\ altered'[q] = altered[q] /\ teardown'[q] = teardown[q]
<1>0. TargetType /\ JourneyType
  BY TypeParts DEF TypeInParts
<1>1. CASE /\ rows' = rows \ {r}
           /\ altered' = [altered EXCEPT ![r] = {}]
           /\ teardown' = [teardown EXCEPT ![r] = "ok"]
  <2>1. /\ rows' \subseteq Runs /\ altered' \in [Runs -> SUBSET Kinds]
        /\ teardown' \in [Runs -> {"not run", "ok", "failed"}]
    BY <1>0, <1>1 DEF TargetType, JourneyType
  <2>2. /\ altered'[r] = {} /\ \A q \in Runs \ {r} : altered'[q] = altered[q]
        /\ \A q \in Runs \ {r} : teardown'[q] = teardown[q]
    BY <1>0, <1>1 DEF TargetType, JourneyType
  <2>3. \A q \in Runs : q \notin rows => altered[q] = {}
    BY <1>0 DEF TargetType
  <2> QED
    BY <1>1, <2>1, <2>2, <2>3
<1>2. CASE teardown' = [teardown EXCEPT ![r] = "failed"] /\ UNCHANGED targetVars
  BY <1>0, <1>2 DEF TargetType, JourneyType, targetVars
<1> QED
  BY <1>1, <1>2 DEF RemoveRows

\* Every step of the envelope, and a crash, keep the types.
LEMMA TypeEnvelope ==
    ASSUME TypeOK, NEW r \in Runs, OutcomeIsTrue(r), EnvelopeStep(r) \/ Crash(r), UNCHANGED confirm
    PROVE  TypeOK'
<1> DEFINE Here == {"idle", "entered", "citation", "position", "leave-lock", "conclude", "write",
                    "seal"} \cup Ended
<1>1. /\ RootType /\ StageType /\ TargetType /\ ChangeType /\ JourneyType /\ ResultType
      /\ pair \in {"E01", "E02"} /\ confirm \in ConfirmSteps
  BY TypeParts DEF TypeInParts
<1>2. StageType'
  <2>1. Here \subseteq Stages
    BY DEF Stages, Locked
  <2>2. \E s \in Here : GoTo(r, s)
    BY DEF EnvelopeStep, EnterLock, CheckBlock, LeaveLock, Conclude, WriteRun, SealBundle,
       Raise, Crash, Ended
  <2> QED
    BY <1>1, <2>1, <2>2, Moves
<1>3. TargetType' /\ pair' \in {"E01", "E02"} /\ confirm' \in ConfirmSteps
  <2>1. UNCHANGED <<rows, altered, pair, confirm>>
    BY DEF EnvelopeStep, EnterLock, CheckBlock, LeaveLock, Conclude, WriteRun, SealBundle,
       Raise, Crash
  <2> QED
    BY <1>1, <2>1 DEF TargetType
<1>4. CASE EnterLock(r) \/ CheckBlock(r)
  <2>1. RootType' /\ ChangeType' /\ JourneyType' /\ ResultType'
    BY <1>1, <1>4 DEF EnterLock, CheckBlock, RootType, ChangeType, JourneyType, ResultType
  <2> QED
    BY <1>2, <1>3, <2>1, TypeParts DEF TypeInParts
<1>5. CASE WriteRun(r) \/ SealBundle(r)
  <2>1. RootType' /\ ChangeType' /\ JourneyType'
    BY <1>1, <1>5 DEF WriteRun, SealBundle, RootType, ChangeType, JourneyType
  <2>2. CASE WriteRun(r)
    <3>1. outcome[r] \in DiskStates
      BY <1>1, <2>2 DEF WriteRun, OutcomeIsTrue, ResultType, DiskStates
    <3>2. ResultType'
      BY <1>1, <2>2, <3>1 DEF WriteRun, ResultType
    <3> QED
      BY <1>2, <1>3, <2>1, <3>2, TypeParts DEF TypeInParts
  <2>3. CASE SealBundle(r)
    <3>1. ResultType'
      BY <1>1, <2>3 DEF SealBundle, ResultType
    <3> QED
      BY <1>2, <1>3, <2>1, <3>1, TypeParts DEF TypeInParts
  <2> QED
    BY <1>5, <2>2, <2>3
<1>6. ASSUME Forget(r), lock' \in {lock, None}, UNCHANGED <<block, maintenance>> PROVE TypeOK'
  <2>1. RootType'
    BY <1>1, <1>6 DEF RootType
  <2>2. ChangeType' /\ JourneyType'
    BY <1>6, ForgetSets DEF ChangeType, JourneyType
  <2>3. ResultType'
    <3>1. UNCHANGED <<runFile, verified>>
      BY <1>6 DEF Forget
    <3> QED
      BY <1>1, <1>6, <3>1, ForgetSets DEF ResultType
  <2> QED
    BY <1>2, <1>3, <2>1, <2>2, <2>3, TypeParts DEF TypeInParts
<1>7. CASE LeaveLock(r)
  <2>1. CASE Forget(r)
    BY <1>6, <1>7, <2>1 DEF LeaveLock
  <2>2. CASE UNCHANGED <<journeyVars, resultVars>>
    <3>1. RootType' /\ ChangeType' /\ JourneyType' /\ ResultType'
      BY <1>1, <1>7, <2>2 DEF LeaveLock, RootType, ChangeType, JourneyType, ResultType
    <3> QED
      BY <1>2, <1>3, <3>1, TypeParts DEF TypeInParts
  <2> QED
    BY <1>7, <2>1, <2>2 DEF LeaveLock
<1>8. CASE Raise(r) \/ Crash(r)
  BY <1>6, <1>8 DEF Raise, Crash
<1>9. CASE Conclude(r)
  <2>1. PICK state \in {"COMPLETED", "RESTORE_FAILED"} :
          /\ outcome' = [outcome EXCEPT ![r] = state]
          /\ \E v \in Verdicts(state) : verdict' = [verdict EXCEPT ![r] = v]
    BY <1>9 DEF Conclude
  <2>2. Verdicts(state) \subseteq Statuses
    BY DEF Verdicts, Statuses
  <2>3. ResultType'
    BY <1>1, <1>9, <2>1, <2>2 DEF Conclude, ResultType
  <2>4. RootType'
    BY <1>1, <1>9 DEF Conclude, RootType
  <2>5. ChangeType' /\ JourneyType'
    BY <1>1, <1>9 DEF Conclude, Consumed, ChangeType, JourneyType
  <2> QED
    BY <1>2, <1>3, <2>3, <2>4, <2>5, TypeParts DEF TypeInParts
<1> QED
  BY <1>4, <1>5, <1>7, <1>8, <1>9 DEF EnvelopeStep

\* So do the steps of the two journeys: rows change only while they are there.
LEMMA TypeJourney ==
    ASSUME TypeOK, NEW r \in Runs, RowsStand(r), CitationStep(r) \/ FreezeStep(r), UNCHANGED confirm
    PROVE  TypeOK'
<1> DEFINE Here == BodyStages \cup FinallyStages \cup {"publish", "unwind", "others", "leave-lock",
                    "leave-cut"}
<1>1. TypeInParts
  BY TypeParts
<1>2. StageType'
  <2>1. Here \subseteq Stages
    BY DEF Stages, Locked
  <2>2. CASE CitationStep(r)
    <3>1. \E s \in Here : GoTo(r, s)
      BY <2>2 DEF CitationStep, Citation, Removal, RestoreRemoval, ReinsertSegment, Probe, RestoreProbe,
         RewriteAxes, NothingOpen, InterruptBody, InterruptFinally, CitationTeardown, BodyStages,
         FinallyStages
    <3> QED
      BY <1>1, <2>1, <3>1, Moves DEF TypeInParts
  <2>3. CASE FreezeStep(r)
    <3>1. \E s \in Here : GoTo(r, s)
      BY <2>3 DEF FreezeStep, SeedPosition, Publish, FreezeTeardown, ReadOthers, CutFreeze
    <3> QED
      BY <1>1, <2>1, <3>1, Moves DEF TypeInParts
  <2> QED
    BY <2>2, <2>3
<1>3. RootType' /\ ResultType' /\ pair' \in {"E01", "E02"} /\ confirm' \in ConfirmSteps
  <2>1. UNCHANGED <<rootVars, resultVars, pair, confirm>>
    BY DEF CitationStep, Citation, Removal, RestoreRemoval, Probe, RestoreProbe, InterruptBody,
       InterruptFinally, CitationTeardown, FreezeStep, SeedPosition, Publish, FreezeTeardown,
       ReadOthers, CutFreeze
  <2> QED
    BY <1>1, <2>1 DEF TypeInParts, RootType, ResultType
<1>4. JourneyType'
  <2>1. CASE CitationTeardown(r) \/ FreezeTeardown(r)
    <3>1. UNCHANGED <<others, failed>>
      BY <2>1 DEF CitationTeardown, FreezeTeardown
    <3>2. teardown' \in [Runs -> {"not run", "ok", "failed"}]
      BY <1>1, <2>1, RemoveSets
        DEF CitationTeardown, FreezeTeardown, TypeInParts, JourneyType
    <3> QED
      BY <1>1, <3>1, <3>2 DEF TypeInParts, JourneyType
  <2>2. CASE Citation(r) \/ Removal(r) \/ RestoreRemoval(r) \/ Probe(r) \/ RestoreProbe(r)
             \/ InterruptBody(r) \/ InterruptFinally(r)
    <3>1. UNCHANGED <<teardown, others>> /\ failed' \in {failed, failed \cup {r}}
      BY <2>2 DEF Citation, Removal, RestoreRemoval, Probe, RestoreProbe, InterruptBody,
         InterruptFinally, Interrupted
    <3> QED
      BY <1>1, <3>1 DEF TypeInParts, JourneyType
  <2>3. CASE SeedPosition(r) \/ Publish(r) \/ CutFreeze(r)
    <3>1. UNCHANGED teardown /\ others' \in {others, [others EXCEPT ![r] = "read"]}
          /\ failed' \in {failed, failed \cup {r}}
      BY <2>3 DEF SeedPosition, Publish, CutFreeze, Interrupted
    <3> QED
      BY <1>1, <3>1 DEF TypeInParts, JourneyType
  <2>4. CASE ReadOthers(r)
    <3>1. UNCHANGED <<teardown, failed>>
          /\ others' \in {[others EXCEPT ![r] = "unchanged"], [others EXCEPT ![r] = "unknown"]}
      BY <2>4 DEF ReadOthers
    <3> QED
      BY <1>1, <3>1 DEF TypeInParts, JourneyType
  <2> QED
    BY <2>1, <2>2, <2>3, <2>4 DEF CitationStep, FreezeStep
<1>5. CASE CitationTeardown(r) \/ FreezeTeardown(r)
  <2>1. ChangeType'
    BY <1>1, <1>5 DEF CitationTeardown, FreezeTeardown, TypeInParts, ChangeType
  <2>2. TargetType'
    <3>1. CASE RemoveRows(r)
      BY <3>1, RemoveSets DEF TargetType
    <3>2. CASE UNCHANGED targetVars
      BY <1>1, <3>2 DEF TypeInParts, TargetType
    <3> QED
      BY <1>5, <3>1, <3>2 DEF CitationTeardown, FreezeTeardown
  <2> QED
    BY <1>2, <1>3, <1>4, <2>1, <2>2, TypeParts DEF TypeInParts
<1>6. CASE Citation(r) \/ SeedPosition(r) \/ InterruptFinally(r) \/ CutFreeze(r)
  <2>1. UNCHANGED <<altered, injections>> /\ rows' \in {rows, rows \cup {r}}
    BY <1>6 DEF Citation, SeedPosition, InterruptFinally, CutFreeze
  <2>2. TargetType' /\ ChangeType'
    BY <1>1, <2>1 DEF TypeInParts, TargetType, ChangeType
  <2> QED
    BY <1>2, <1>3, <1>4, <2>2, TypeParts DEF TypeInParts
<1>7. ASSUME UNCHANGED rows, altered' \in [Runs -> SUBSET Kinds],
             r \in rows \/ altered'[r] \subseteq altered[r],
             \A q \in Runs \ {r} : altered'[q] = altered[q]
      PROVE  TargetType'
  <2>1. altered'[r] \in SUBSET Kinds
    BY <1>7
  <2> QED
    BY <1>1, <1>7, <2>1 DEF TypeInParts, TargetType
<1>8. CASE InterruptBody(r)
  <2>1. r \in rows /\ UNCHANGED <<rows, injections>>
    BY <1>8 DEF InterruptBody, RowsStand
  <2>2. TargetType'
    <3>1. CASE UNCHANGED altered
      BY <1>1, <2>1, <3>1 DEF TypeInParts, TargetType
    <3>2. ASSUME NEW i \in Kinds, Alter(r, i) \/ PutBack(r, i) PROVE TargetType'
      BY <1>7, <2>1, <3>2, AlterSets
    <3> QED
      BY <1>8, <3>1, <3>2 DEF InterruptBody, Kinds
  <2> QED
    BY <1>1, <1>2, <1>3, <1>4, <2>1, <2>2, TypeParts DEF TypeInParts, ChangeType
<1>9. CASE \/ Removal(r) \/ RestoreRemoval(r) \/ Probe(r) \/ RestoreProbe(r) \/ Publish(r)
           \/ ReadOthers(r)
  <2>1. PICK i \in Kinds : Touched(r, i)
    BY <1>9, Touching DEF Kinds
  <2>2. r \in rows \/ altered'[r] \subseteq altered[r]
    <3>1. CASE Removal(r) \/ Probe(r) \/ Publish(r)
      BY <3>1 DEF Removal, Probe, Publish, RowsStand, BodyStages
    <3>2. CASE RestoreRemoval(r) \/ RestoreProbe(r) \/ ReadOthers(r)
      <4>1. altered' = altered \/ \E j \in Kinds : PutBack(r, j)
        BY <3>2 DEF RestoreRemoval, RestoreProbe, ReadOthers, ReinsertSegment, RewriteAxes,
           NothingOpen, Kinds
      <4> QED
        BY <4>1, AlterSets
    <3> QED
      BY <1>9, <3>1, <3>2
  <2>3. UNCHANGED rows
    BY <1>9 DEF Removal, RestoreRemoval, Probe, RestoreProbe, Publish, ReadOthers
  <2>4. ChangeType' /\ TargetType'
    BY <1>7, <2>1, <2>2, <2>3, TouchedSets DEF ChangeType
  <2> QED
    BY <1>2, <1>3, <1>4, <2>4, TypeParts DEF TypeInParts
<1> QED
  BY <1>5, <1>6, <1>8, <1>9 DEF CitationStep, FreezeStep

\* The operator's steps too.
LEMMA TypeConfirm == ASSUME TypeOK, ConfirmStep PROVE TypeOK'
<1>1. TypeInParts
  BY TypeParts
<1>2. UNCHANGED <<stage, pair, targetVars, journeyVars, resultVars>> /\ confirm' \in ConfirmSteps
  BY DEF ConfirmStep, ConfirmProbe, ConfirmRecord, ConfirmUnlink, ConfirmDies, ConfirmSteps
<1>3. RootType'
  BY <1>1 DEF TypeInParts, RootType, ConfirmStep, ConfirmProbe, ConfirmRecord, ConfirmUnlink,
     ConfirmDies
<1> QED
  BY <1>1, <1>2, <1>3, TypeParts
    DEF TypeInParts, StageType, TargetType, ChangeType, JourneyType, ResultType

-----------------------------------------------------------------------------
(* The invariant *)

\* A step of one Run leaves the other Runs alone.
LEMMA OthersStay ==
    ASSUME IInv, NEW r \in Runs, EnvelopeStep(r) \/ CitationStep(r) \/ FreezeStep(r) \/ Crash(r),
           NEW q \in Runs, q # r
    PROVE  /\ stage'[q] = stage[q] /\ (q \in rows' <=> q \in rows)
           /\ injections'[q] = injections[q] /\ teardown'[q] = teardown[q]
           /\ (q \in failed' <=> q \in failed)
           /\ outcome'[q] = outcome[q] /\ verdict'[q] = verdict[q] /\ runFile'[q] = runFile[q]
           /\ (q \in verified' <=> q \in verified)
<1>1. TypeOK /\ TypeInParts
  BY TypeParts DEF IInv
<1>2. stage'[q] = stage[q]
  <2>1. CASE EnvelopeStep(r) \/ Crash(r)
    BY <1>1, <2>1 DEF TypeInParts, StageType, EnvelopeStep, EnterLock, CheckBlock, LeaveLock, Conclude,
       WriteRun, SealBundle, Raise, Crash
  <2>2. CASE CitationStep(r)
    BY <1>1, <2>2 DEF TypeInParts, StageType, CitationStep, Citation, Removal, RestoreRemoval,
       ReinsertSegment, Probe, RestoreProbe, RewriteAxes, NothingOpen, InterruptBody,
       InterruptFinally, CitationTeardown
  <2>3. CASE FreezeStep(r)
    BY <1>1, <2>3 DEF TypeInParts, StageType, FreezeStep, SeedPosition, Publish, FreezeTeardown,
       ReadOthers, CutFreeze
  <2> QED
    BY <2>1, <2>2, <2>3
<1>3. CASE Forget(r) /\ (EnvelopeStep(r) \/ Crash(r))
  <2>1. UNCHANGED <<rows, runFile, verified>>
    BY <1>3 DEF Forget, EnvelopeStep, EnterLock, CheckBlock, LeaveLock, Conclude, WriteRun,
       SealBundle, Raise, Crash
  <2>2. TypeOK /\ Forget(r) /\ q \in Runs \ {r}
    BY <1>1, <1>3
  <2>3. \A p \in Runs \ {r} :
          /\ injections'[p] = injections[p] /\ teardown'[p] = teardown[p]
          /\ others'[p] = others[p] /\ (p \in failed' <=> p \in failed)
          /\ outcome'[p] = outcome[p] /\ verdict'[p] = verdict[p]
    BY <2>2, ForgetSets
  <2> QED
    BY <1>2, <2>1, <2>2, <2>3
<1>4. CASE EnvelopeStep(r) /\ ~Forget(r)
  <2>1. UNCHANGED <<rows, injections>>
    BY <1>4 DEF EnvelopeStep, EnterLock, CheckBlock, LeaveLock, Conclude, Consumed, WriteRun,
       SealBundle, Raise
  <2>2. teardown'[q] = teardown[q] /\ (q \in failed' <=> q \in failed)
    BY <1>1, <1>4 DEF TypeInParts, JourneyType, EnvelopeStep, EnterLock, CheckBlock, LeaveLock,
       Conclude, Consumed, WriteRun, SealBundle, Raise
  <2>3. CASE Conclude(r)
    <3>1. \E state \in {"COMPLETED", "RESTORE_FAILED"} : outcome' = [outcome EXCEPT ![r] = state]
      BY <2>3 DEF Conclude
    <3>2. \E v : verdict' = [verdict EXCEPT ![r] = v]
      BY <2>3 DEF Conclude
    <3>3. UNCHANGED <<runFile, verified>>
      BY <2>3 DEF Conclude
    <3> QED
      BY <1>1, <1>2, <2>1, <2>2, <3>1, <3>2, <3>3 DEF TypeInParts, ResultType
  <2>4. CASE ~Conclude(r)
    <3>1. /\ outcome'[q] = outcome[q] /\ verdict'[q] = verdict[q] /\ runFile'[q] = runFile[q]
          /\ (q \in verified' <=> q \in verified)
      BY <1>1, <1>4, <2>4 DEF TypeInParts, ResultType, EnvelopeStep, EnterLock, CheckBlock, LeaveLock,
         WriteRun, SealBundle, Raise
    <3> QED
      BY <1>2, <2>1, <2>2, <3>1
  <2> QED
    BY <2>3, <2>4
<1>5. CASE CitationStep(r) \/ FreezeStep(r)
  <2>1. UNCHANGED resultVars
    BY <1>5 DEF CitationStep, Citation, Removal, RestoreRemoval, Probe, RestoreProbe, InterruptBody,
       InterruptFinally, CitationTeardown, FreezeStep, SeedPosition, Publish, FreezeTeardown,
       ReadOthers, CutFreeze
  <2>2. q \in failed' <=> q \in failed
    BY <1>5 DEF Interrupted, CitationStep, Citation, Removal, RestoreRemoval, Probe, RestoreProbe,
       InterruptBody, InterruptFinally, CitationTeardown, FreezeStep, SeedPosition, Publish,
       FreezeTeardown, ReadOthers, CutFreeze
  <2>3. injections'[q] = injections[q]
    <3>1. CASE UNCHANGED injections
      BY <3>1
    <3>2. CASE \E i \in Kinds : Touched(r, i)
      BY <1>1, <3>2, TouchedSets
    <3> QED
      BY <1>5, <3>1, <3>2, Touching DEF Kinds, CitationStep, Citation, InterruptBody,
         InterruptFinally, CitationTeardown, FreezeStep, SeedPosition, FreezeTeardown, CutFreeze
  <2>4. (q \in rows' <=> q \in rows) /\ teardown'[q] = teardown[q]
    <3>1. CASE CitationTeardown(r) \/ FreezeTeardown(r)
      BY <1>1, <3>1, RemoveSets DEF CitationTeardown, FreezeTeardown, TypeInParts, JourneyType
    <3>2. CASE ~CitationTeardown(r) /\ ~FreezeTeardown(r)
      BY <1>5, <3>2 DEF CitationStep, Citation, Removal, RestoreRemoval, Probe, RestoreProbe,
         InterruptBody, InterruptFinally, FreezeStep, SeedPosition, Publish, ReadOthers, CutFreeze
    <3> QED
      BY <3>1, <3>2
  <2> QED
    BY <1>2, <2>1, <2>2, <2>3, <2>4
<1> QED
  BY <1>3, <1>4, <1>5 DEF Crash

\* A Run adds a block at most: what is barred stays barred.
LEMMA SharedFiles ==
    ASSUME NEW r \in Runs, EnvelopeStep(r) \/ CitationStep(r) \/ FreezeStep(r) \/ Crash(r)
    PROVE  block' \in {block, r} /\ maintenance' = maintenance /\ (Barred => Barred')
<1>1. block' \in {block, r} /\ maintenance' = maintenance
  BY DEF EnvelopeStep, EnterLock, CheckBlock, LeaveLock, Conclude, WriteRun, SealBundle, Raise, Crash,
     CitationStep, Citation, Removal, RestoreRemoval, Probe, RestoreProbe, InterruptBody,
     InterruptFinally, CitationTeardown, FreezeStep, SeedPosition, Publish, FreezeTeardown,
     ReadOthers, CutFreeze
<1> QED
  BY <1>1 DEF Barred

\* Another Run's step keeps what holds of a Run.
LEMMA OtherStep ==
    ASSUME IInv, NEW r \in Runs, EnvelopeStep(r) \/ CitationStep(r) \/ FreezeStep(r) \/ Crash(r),
           NEW q \in Runs, q # r
    PROVE  RunHolds(q)'
<1>1. RunHolds(q)
  BY DEF IInv
<1>2. /\ stage'[q] = stage[q] /\ (q \in rows' <=> q \in rows)
      /\ injections'[q] = injections[q] /\ teardown'[q] = teardown[q]
      /\ (q \in failed' <=> q \in failed)
      /\ outcome'[q] = outcome[q] /\ verdict'[q] = verdict[q] /\ runFile'[q] = runFile[q]
      /\ (q \in verified' <=> q \in verified)
  BY OthersStay
<1>3. Barred => Barred'
  BY SharedFiles
<1>4. Recorded(q)' = Recorded(q) /\ NoneOpen(q)' = NoneOpen(q) /\ AllBack(q)' = AllBack(q)
  BY <1>2 DEF Recorded, NoneOpen, AllBack
<1>5. RowsStand(q)' /\ ChangesInTurn(q)'
  BY <1>1, <1>2, <1>4 DEF RunHolds, RowsStand, ChangesInTurn
<1>6. OutcomeIsTrue(q)' /\ FilesAreTrue(q)'
  BY <1>1, <1>2, <1>3, <1>4 DEF RunHolds, OutcomeIsTrue, FilesAreTrue
<1> QED
  BY <1>5, <1>6 DEF RunHolds

\* Under the lock nothing is written.
LEMMA NothingWritten ==
    ASSUME IInv, NEW r \in Runs, UNCHANGED <<outcome, verdict, runFile, verified>>,
           stage[r] \notin {"write", "seal"} \cup Ended, stage'[r] \notin {"write", "seal"}
    PROVE  OutcomeIsTrue(r)' /\ FilesAreTrue(r)'
<1>1. OutcomeIsTrue(r) /\ FilesAreTrue(r)
  BY DEF IInv, RunHolds
<1>2. outcome[r] = "none" /\ runFile[r] = "ABSENT" /\ r \notin verified
  BY <1>1 DEF OutcomeIsTrue, FilesAreTrue
<1> QED
  BY <1>2 DEF OutcomeIsTrue, FilesAreTrue

\* The start of a Run: what it seeds it has not changed yet.
LEMMA EnteringHolds ==
    ASSUME IInv, NEW r \in Runs,
           EnterLock(r) \/ CheckBlock(r) \/ Citation(r) \/ SeedPosition(r)
    PROVE  RunHolds(r)'
<1>1. TypeInParts /\ RunHolds(r)
  BY TypeParts DEF IInv
<1>2. /\ stage[r] \in {"idle", "entered", "citation", "position"}
      /\ UNCHANGED <<injections, teardown, outcome, verdict, runFile, verified>>
  BY DEF EnterLock, CheckBlock, Citation, SeedPosition
<1>3. stage'[r] \in {"entered", "raised", "leave-lock", "citation", "position", "removal",
                      "last-removal", "leave-cut", "publish", "unwind"}
  BY <1>1 DEF TypeInParts, StageType, EnterLock, CheckBlock, Citation, SeedPosition
<1>4. OutcomeIsTrue(r)' /\ FilesAreTrue(r)'
  BY <1>2, <1>3, NothingWritten DEF Ended
<1>5. r \notin rows /\ teardown[r] = "not run" /\ Recorded(r) = {}
  BY <1>1, <1>2 DEF RunHolds, RowsStand
<1>6. \A i \in Kinds : injections'[r][i] = "none"
  BY <1>2, <1>5 DEF Recorded
<1>7. /\ stage'[r] \in {"entered", "citation", "position"} => r \notin rows'
      /\ stage'[r] \in {"removal", "publish"} => r \in rows'
      /\ stage'[r] = "leave-cut" => r \in failed'
  BY <1>1, <1>5 DEF TypeInParts, StageType, JourneyType, EnterLock, CheckBlock, Citation,
     SeedPosition, Interrupted
<1>8. RowsStand(r)'
  BY <1>2, <1>3, <1>5, <1>6, <1>7 DEF RowsStand, Recorded, BodyStages
<1>9. ChangesInTurn(r)'
  BY <1>3, <1>6, <1>7 DEF ChangesInTurn, NoneOpen, Kinds
<1> QED
  BY <1>4, <1>8, <1>9 DEF RunHolds

\* E-01 settles a change before it makes the next.
LEMMA CitationHolds ==
    ASSUME IInv, NEW r \in Runs,
           \/ Removal(r) \/ RestoreRemoval(r) \/ Probe(r) \/ RestoreProbe(r)
           \/ InterruptBody(r) \/ InterruptFinally(r) \/ CitationTeardown(r)
    PROVE  RunHolds(r)'
<1> DEFINE open(i) == injections[r][i] = "APPLIED"
<1>1. TypeOK /\ TypeInParts /\ RunHolds(r)
  BY TypeParts DEF IInv
<1> USE DEF Kinds, States
<1>2. /\ stage[r] \in BodyStages \cup FinallyStages
      /\ UNCHANGED <<outcome, verdict, runFile, verified>>
  BY DEF Removal, RestoreRemoval, Probe, RestoreProbe, InterruptBody, InterruptFinally,
     CitationTeardown, BodyStages, FinallyStages
<1>3. ~open("publish")
  BY <1>1, <1>2 DEF RunHolds, ChangesInTurn
<1>4. ASSUME stage'[r] \in BodyStages \cup FinallyStages \cup {"leave-lock", "leave-cut"}
      PROVE  OutcomeIsTrue(r)' /\ FilesAreTrue(r)'
  BY <1>2, <1>4, NothingWritten DEF BodyStages, FinallyStages, Ended
<1>5. CASE Removal(r) \/ RestoreRemoval(r)
  <2>1. UNCHANGED <<rows, teardown, failed>> /\ Touched(r, "removal")
    BY <1>5, Touching DEF Removal, RestoreRemoval
  <2>2. injections'[r]["probe"] = injections[r]["probe"] /\ ~(injections'[r]["publish"] = "APPLIED")
    BY <1>1, <1>3, <2>1, TouchedSets
  <2>3. CASE Removal(r)
    <3>1. stage[r] = "removal" /\ stage'[r] = "undo-removal"
      BY <1>1, <2>3 DEF Removal, TypeInParts, StageType
    <3>2. ~open("probe")
      BY <1>1, <3>1 DEF RunHolds, ChangesInTurn, NoneOpen
    <3>3. RowsStand(r)' /\ ChangesInTurn(r)'
      BY <1>1, <2>1, <2>2, <3>1, <3>2
        DEF RunHolds, RowsStand, ChangesInTurn, BodyStages, FinallyStages, Ended
    <3> QED
      BY <1>4, <3>1, <3>3 DEF RunHolds, BodyStages
  <2>4. CASE RestoreRemoval(r)
    <3>1. \/ stage[r] = "undo-removal" /\ stage'[r] = "probe"
          \/ stage[r] = "last-removal" /\ stage'[r] = "last-probe"
      <4>1. \/ stage[r] = "undo-removal" /\ GoTo(r, "probe")
            \/ stage[r] = "last-removal" /\ GoTo(r, "last-probe")
        BY <2>4 DEF RestoreRemoval, ReinsertSegment, NothingOpen
      <4> QED
        BY <1>1, <4>1 DEF TypeInParts, StageType
    <3>2. injections'[r]["removal"] # "APPLIED"
      <4>1. CASE injections[r]["removal"] # "APPLIED" /\ UNCHANGED injections
        BY <4>1
      <4>2. ASSUME NEW state \in {"RESTORED", "RESTORE_FAILED"}, Note(r, "removal", state)
            PROVE  injections'[r]["removal"] # "APPLIED"
        BY <1>1, <4>2, NoteSets
      <4> QED
        BY <2>4, <4>1, <4>2 DEF RestoreRemoval, ReinsertSegment, NothingOpen
    <3>3. stage[r] = "undo-removal" => ~open("probe") /\ r \in rows /\ teardown[r] = "not run"
      BY <1>1 DEF RunHolds, ChangesInTurn, RowsStand, BodyStages
    <3>4. RowsStand(r)' /\ ChangesInTurn(r)'
      BY <1>1, <2>1, <2>2, <3>1, <3>2, <3>3
        DEF RunHolds, RowsStand, ChangesInTurn, BodyStages, FinallyStages, Ended
    <3> QED
      BY <1>4, <3>1, <3>4 DEF RunHolds, BodyStages, FinallyStages
  <2> QED
    BY <1>5, <2>3, <2>4
<1>6. CASE Probe(r) \/ RestoreProbe(r)
  <2>1. UNCHANGED <<rows, teardown, failed>> /\ Touched(r, "probe")
    BY <1>6, Touching DEF Probe, RestoreProbe
  <2>2. injections'[r]["removal"] = injections[r]["removal"] /\ ~(injections'[r]["publish"] = "APPLIED")
    BY <1>1, <1>3, <2>1, TouchedSets
  <2>3. CASE Probe(r)
    <3>1. stage[r] = "probe" /\ stage'[r] = "undo-probe"
      BY <1>1, <2>3 DEF Probe, TypeInParts, StageType
    <3>2. ~open("removal")
      BY <1>1, <3>1 DEF RunHolds, ChangesInTurn
    <3>3. RowsStand(r)' /\ ChangesInTurn(r)'
      BY <1>1, <2>1, <2>2, <3>1, <3>2
        DEF RunHolds, RowsStand, ChangesInTurn, BodyStages, FinallyStages, Ended
    <3> QED
      BY <1>4, <3>1, <3>3 DEF RunHolds, BodyStages
  <2>4. CASE RestoreProbe(r)
    <3>1. \/ stage[r] = "undo-probe" /\ stage'[r] = "last-removal"
          \/ stage[r] = "last-probe" /\ stage'[r] = "teardown"
      <4>1. \/ stage[r] = "undo-probe" /\ GoTo(r, "last-removal")
            \/ stage[r] = "last-probe" /\ GoTo(r, "teardown")
        BY <2>4 DEF RestoreProbe, RewriteAxes, NothingOpen
      <4> QED
        BY <1>1, <4>1 DEF TypeInParts, StageType
    <3>2. injections'[r]["probe"] # "APPLIED"
      <4>1. CASE injections[r]["probe"] # "APPLIED" /\ UNCHANGED injections
        BY <4>1
      <4>2. ASSUME NEW state \in {"RESTORED", "RESTORE_FAILED"}, Note(r, "probe", state)
            PROVE  injections'[r]["probe"] # "APPLIED"
        BY <1>1, <4>2, NoteSets
      <4> QED
        BY <2>4, <4>1, <4>2 DEF RestoreProbe, RewriteAxes, NothingOpen
    <3>3. ~open("removal")
      BY <1>1, <3>1 DEF RunHolds, ChangesInTurn
    <3>4. RowsStand(r)' /\ ChangesInTurn(r)'
      BY <1>1, <2>1, <2>2, <3>1, <3>2, <3>3
        DEF RunHolds, RowsStand, ChangesInTurn, BodyStages, FinallyStages, Ended
    <3> QED
      BY <1>4, <3>1, <3>4 DEF RunHolds, FinallyStages
  <2> QED
    BY <1>6, <2>3, <2>4
<1>7. CASE InterruptBody(r) \/ InterruptFinally(r)
  <2>1. UNCHANGED <<rows, teardown, injections>> /\ r \in failed'
    BY <1>7 DEF InterruptBody, InterruptFinally, Interrupted
  <2>2. stage'[r] \in {"last-removal", "leave-cut"}
    BY <1>1, <1>7 DEF InterruptBody, InterruptFinally, TypeInParts, StageType
  <2>3. RowsStand(r)' /\ ChangesInTurn(r)'
    BY <1>1, <1>3, <2>1, <2>2
      DEF RunHolds, RowsStand, ChangesInTurn, BodyStages, FinallyStages, Ended
  <2> QED
    BY <1>4, <2>2, <2>3 DEF RunHolds, FinallyStages
<1>8. CASE CitationTeardown(r)
  <2>1. stage[r] = "teardown" /\ stage'[r] = "leave-lock" /\ UNCHANGED <<injections, failed>>
    BY <1>1, <1>8 DEF CitationTeardown, TypeInParts, StageType
  <2>2. teardown'[r] = "ok" => r \notin rows'
    <3>1. CASE RemoveRows(r)
      BY <1>1, <3>1, RemoveSets
    <3> QED
      BY <1>8, <3>1 DEF CitationTeardown
  <2>3. ~open("removal") /\ ~open("probe")
    BY <1>1, <2>1 DEF RunHolds, ChangesInTurn
  <2>4. RowsStand(r)' /\ ChangesInTurn(r)'
    BY <1>3, <2>1, <2>2, <2>3 DEF RowsStand, ChangesInTurn, NoneOpen, BodyStages, FinallyStages, Ended
  <2> QED
    BY <1>4, <2>1, <2>4 DEF RunHolds
<1> QED
  BY <1>5, <1>6, <1>7, <1>8

\* E-02 leaves the lock over a publication that its teardown has settled.
LEMMA FreezeHolds ==
    ASSUME IInv, NEW r \in Runs,
           Publish(r) \/ FreezeTeardown(r) \/ ReadOthers(r) \/ CutFreeze(r)
    PROVE  RunHolds(r)'
<1> DEFINE open(i) == injections[r][i] = "APPLIED"
<1>1. TypeOK /\ TypeInParts /\ RunHolds(r)
  BY TypeParts DEF IInv
<1> USE DEF Kinds, States
<1>2. /\ stage[r] \in {"publish", "unwind", "others"}
      /\ UNCHANGED <<outcome, verdict, runFile, verified>>
  BY DEF Publish, FreezeTeardown, ReadOthers, CutFreeze
<1>3. stage'[r] \in {"unwind", "others", "leave-lock", "leave-cut"}
  BY <1>1 DEF Publish, FreezeTeardown, ReadOthers, CutFreeze, TypeInParts, StageType
<1>4. OutcomeIsTrue(r)' /\ FilesAreTrue(r)'
  BY <1>2, <1>3, NothingWritten DEF Ended
<1>5. ~open("removal") /\ ~open("probe")
  BY <1>1, <1>2 DEF RunHolds, ChangesInTurn, NoneOpen
<1>6. CASE Publish(r)
  <2>1. stage[r] = "publish" /\ stage'[r] = "unwind" /\ UNCHANGED <<rows, teardown>>
        /\ Touched(r, "publish")
    BY <1>1, <1>6, Touching DEF Publish, TypeInParts, StageType
  <2>2. r \in rows /\ teardown[r] = "not run"
    BY <1>1, <2>1 DEF RunHolds, RowsStand
  <2>3. \A i \in {"removal", "probe"} : injections'[r][i] # "APPLIED"
    BY <1>1, <1>5, <2>1, TouchedSets
  <2>4. RowsStand(r)' /\ ChangesInTurn(r)'
    BY <2>1, <2>2, <2>3 DEF RowsStand, ChangesInTurn, BodyStages, FinallyStages, Ended
  <2> QED
    BY <1>4, <2>4 DEF RunHolds
<1>7. CASE FreezeTeardown(r)
  <2>1. stage[r] = "unwind" /\ UNCHANGED <<injections, failed>>
        /\ stage'[r] \in {"others", "leave-lock"}
    BY <1>1, <1>7 DEF FreezeTeardown, TypeInParts, StageType
  <2>2. teardown'[r] = "ok" => r \notin rows'
    <3>1. CASE RemoveRows(r)
      BY <1>1, <3>1, RemoveSets
    <3> QED
      BY <1>7, <3>1 DEF FreezeTeardown
  <2>3. stage'[r] = "leave-lock" => ~open("publish")
    <3>1. stage'[r] = "leave-lock" => r \notin rows
      BY <1>1, <1>7 DEF FreezeTeardown, TypeInParts, StageType
    <3> QED
      BY <1>1, <2>1, <3>1 DEF RunHolds, ChangesInTurn
  <2>4. RowsStand(r)' /\ ChangesInTurn(r)'
    BY <1>5, <2>1, <2>2, <2>3 DEF RowsStand, ChangesInTurn, NoneOpen, BodyStages, FinallyStages, Ended
  <2> QED
    BY <1>4, <2>4 DEF RunHolds
<1>8. CASE ReadOthers(r)
  <2>1. stage'[r] = "leave-lock" /\ UNCHANGED <<rows, teardown, failed>> /\ Touched(r, "publish")
    BY <1>1, <1>8, Touching DEF ReadOthers, TypeInParts, StageType
  <2>2. injections'[r]["publish"] # "APPLIED"
    <3>1. CASE ~open("publish") /\ UNCHANGED injections
      BY <3>1
    <3>2. ASSUME NEW state \in {"RESTORED", "RESTORE_FAILED"}, Note(r, "publish", state)
          PROVE  injections'[r]["publish"] # "APPLIED"
      BY <1>1, <3>2, NoteSets
    <3> QED
      BY <1>8, <3>1, <3>2 DEF ReadOthers
  <2>3. \A i \in {"removal", "probe"} : injections'[r][i] # "APPLIED"
    BY <1>1, <1>5, <2>1, TouchedSets
  <2>4. RowsStand(r)' /\ ChangesInTurn(r)'
    BY <1>1, <2>1, <2>2, <2>3
      DEF RunHolds, RowsStand, ChangesInTurn, NoneOpen, BodyStages, FinallyStages, Ended
  <2> QED
    BY <1>4, <2>4 DEF RunHolds
<1>9. CASE CutFreeze(r)
  <2>1. stage'[r] = "leave-cut" /\ r \in failed' /\ UNCHANGED <<rows, teardown, injections>>
    BY <1>1, <1>9 DEF CutFreeze, Interrupted, TypeInParts, StageType
  <2>2. RowsStand(r)' /\ ChangesInTurn(r)'
    BY <1>1, <1>5, <2>1 DEF RunHolds, RowsStand, ChangesInTurn, BodyStages, FinallyStages, Ended
  <2> QED
    BY <1>4, <2>2 DEF RunHolds
<1> QED
  BY <1>6, <1>7, <1>8, <1>9

\* The end of a process leaves files that were true before.
LEMMA EndHolds ==
    ASSUME IInv, NEW r \in Runs, Forget(r), UNCHANGED <<rows, block, maintenance>>,
           stage[r] \notin Ended \cup {"idle"}, stage'[r] \in Ended
    PROVE  RunHolds(r)'
<1>1. TypeOK /\ RunHolds(r)
  BY DEF IInv
<1>2. /\ \A i \in Kinds : injections'[r][i] = "none"
      /\ teardown'[r] = "not run" /\ outcome'[r] = "none" /\ verdict'[r] = "none"
  BY <1>1, ForgetSets
<1>3. UNCHANGED <<runFile, verified>> /\ r \notin verified
  BY <1>1 DEF Forget, RunHolds, FilesAreTrue
<1>4. RowsStand(r)' /\ ChangesInTurn(r)'
  BY <1>2 DEF RowsStand, ChangesInTurn, NoneOpen, BodyStages, FinallyStages, Ended, Kinds
<1>5. OutcomeIsTrue(r)'
  BY <1>2 DEF OutcomeIsTrue, Ended
<1>6. FilesAreTrue(r)'
  BY <1>1, <1>2, <1>3 DEF RunHolds, FilesAreTrue, Barred, Ended
<1> QED
  BY <1>4, <1>5, <1>6 DEF RunHolds

\* Back from the lock to the sealed bundle, or out of the process.
LEMMA EndingHolds ==
    ASSUME IInv, NEW r \in Runs,
           LeaveLock(r) \/ Conclude(r) \/ WriteRun(r) \/ SealBundle(r) \/ Raise(r) \/ Crash(r)
    PROVE  RunHolds(r)'
<1>1. TypeOK /\ TypeInParts /\ RunHolds(r)
  BY TypeParts DEF IInv
<1>2. CASE Raise(r) \/ Crash(r)
  <2>1. /\ Forget(r) /\ UNCHANGED <<rows, block, maintenance>>
        /\ stage[r] \notin Ended \cup {"idle"} /\ stage'[r] \in Ended
    BY <1>1, <1>2 DEF Raise, Crash, Ended, TypeInParts, StageType
  <2> QED
    BY <2>1, EndHolds
<1>3. CASE LeaveLock(r)
  <2>1. stage[r] \in {"leave-lock", "leave-cut"} /\ UNCHANGED <<rows, block, maintenance>>
    BY <1>3 DEF LeaveLock
  <2>2. CASE r \in failed /\ GoTo(r, "raised") /\ Forget(r)
    BY <1>1, <2>1, <2>2, EndHolds DEF Ended, TypeInParts, StageType
  <2>3. CASE r \notin failed /\ GoTo(r, "conclude") /\ UNCHANGED <<journeyVars, resultVars>>
    <3>1. stage[r] = "leave-lock" /\ stage'[r] = "conclude"
      BY <1>1, <2>1, <2>3 DEF RunHolds, ChangesInTurn, TypeInParts, StageType
    <3>2. OutcomeIsTrue(r)' /\ FilesAreTrue(r)'
      BY <2>3, <3>1, NothingWritten DEF Ended
    <3>3. RowsStand(r)' /\ ChangesInTurn(r)'
      BY <1>1, <2>1, <2>3, <3>1
        DEF RunHolds, RowsStand, ChangesInTurn, NoneOpen, BodyStages, FinallyStages, Ended, Kinds
    <3> QED
      BY <3>2, <3>3 DEF RunHolds
  <2> QED
    BY <1>3, <2>2, <2>3 DEF LeaveLock
<1>4. CASE Conclude(r)
  <2>1. /\ stage[r] = "conclude" /\ stage'[r] = "write"
        /\ UNCHANGED <<rows, injections, maintenance, runFile, verified>>
        /\ teardown'[r] = "not run"
    BY <1>1, <1>4 DEF Conclude, Consumed, TypeInParts, StageType, JourneyType
  <2>2. PICK state \in {"COMPLETED", "RESTORE_FAILED"} :
          /\ state = "COMPLETED" => RestoreOk(r)
          /\ outcome' = [outcome EXCEPT ![r] = state]
          /\ state # "COMPLETED" => block' = r
          /\ \E v \in Verdicts(state) : verdict' = [verdict EXCEPT ![r] = v]
    BY <1>4 DEF Conclude
  <2>3. outcome'[r] = state /\ verdict'[r] \in Verdicts(state)
    BY <1>1, <2>2 DEF TypeInParts, ResultType
  <2>4. state = "COMPLETED" => r \notin rows /\ AllBack(r)
    BY <1>1, <2>2 DEF RestoreOk, AllBack, RunHolds, RowsStand
  <2>5. AllBack(r)' = AllBack(r) /\ NoneOpen(r)
    BY <1>1, <2>1 DEF AllBack, Recorded, RunHolds, ChangesInTurn
  <2>6. OutcomeIsTrue(r)'
    <3>1. state = "RESTORE_FAILED" => verdict'[r] = "INCONCLUSIVE" /\ Barred'
      BY <2>2, <2>3 DEF Verdicts, Barred
    <3> QED
      BY <2>1, <2>3, <2>4, <2>5, <3>1 DEF OutcomeIsTrue
  <2>7. FilesAreTrue(r)'
    BY <1>1, <2>1 DEF RunHolds, FilesAreTrue, Ended
  <2>8. RowsStand(r)' /\ ChangesInTurn(r)'
    BY <2>1, <2>5 DEF RowsStand, ChangesInTurn, NoneOpen, BodyStages, FinallyStages, Ended, Kinds
  <2> QED
    BY <2>6, <2>7, <2>8 DEF RunHolds
<1>5. CASE WriteRun(r)
  <2>1. /\ stage[r] = "write" /\ stage'[r] = "seal" /\ runFile'[r] = outcome[r] /\ outcome'[r] = "none"
        /\ UNCHANGED <<rootVars, rows, injections, teardown, failed, verdict, verified>>
    BY <1>1, <1>5 DEF WriteRun, TypeInParts, StageType, ResultType
  <2>2. outcome[r] \in {"COMPLETED", "RESTORE_FAILED"}
    BY <1>1, <2>1 DEF RunHolds, OutcomeIsTrue, TypeInParts, ResultType
  <2>3. AllBack(r)' = AllBack(r) /\ NoneOpen(r)
    BY <1>1, <2>1 DEF AllBack, Recorded, RunHolds, ChangesInTurn
  <2>4. OutcomeIsTrue(r)'
    BY <2>1 DEF OutcomeIsTrue
  <2>5. FilesAreTrue(r)'
    BY <1>1, <2>1, <2>2, <2>3 DEF RunHolds, OutcomeIsTrue, FilesAreTrue, Barred, Ended
  <2>6. RowsStand(r)' /\ ChangesInTurn(r)'
    BY <1>1, <2>1, <2>3
      DEF RunHolds, RowsStand, ChangesInTurn, NoneOpen, BodyStages, FinallyStages, Ended, Kinds
  <2> QED
    BY <2>4, <2>5, <2>6 DEF RunHolds
<1>6. CASE SealBundle(r)
  <2>1. /\ stage[r] = "seal" /\ stage'[r] \in {"done", "raised"}
        /\ UNCHANGED <<rootVars, rows, injections, teardown, failed, outcome, verdict, runFile>>
    BY <1>1, <1>6 DEF SealBundle, TypeInParts, StageType
  <2>2. AllBack(r)' = AllBack(r) /\ NoneOpen(r)
    BY <1>1, <2>1 DEF AllBack, Recorded, RunHolds, ChangesInTurn
  <2>3. OutcomeIsTrue(r)'
    BY <1>1, <2>1 DEF RunHolds, OutcomeIsTrue
  <2>4. FilesAreTrue(r)'
    BY <1>1, <2>1, <2>2 DEF RunHolds, FilesAreTrue, Barred, Ended
  <2>5. RowsStand(r)' /\ ChangesInTurn(r)'
    BY <1>1, <2>1, <2>2
      DEF RunHolds, RowsStand, ChangesInTurn, NoneOpen, BodyStages, FinallyStages, Ended, Kinds
  <2> QED
    BY <2>3, <2>4, <2>5 DEF RunHolds
<1> QED
  BY <1>2, <1>3, <1>4, <1>5, <1>6

\* A step beside the Runs keeps what holds of them, if it lifts no bar unseen.
LEMMA AsideHolds ==
    ASSUME IInv, UNCHANGED <<stage, pair, targetVars, journeyVars, resultVars>>, Barred => Barred'
    PROVE  \A r \in Runs : RunHolds(r)'
<1> SUFFICES ASSUME NEW r \in Runs PROVE RunHolds(r)'
  OBVIOUS
<1>1. RunHolds(r)
  BY DEF IInv
<1>2. Recorded(r)' = Recorded(r) /\ NoneOpen(r)' = NoneOpen(r) /\ AllBack(r)' = AllBack(r)
  BY DEF Recorded, NoneOpen, AllBack
<1>3. RowsStand(r)' /\ ChangesInTurn(r)'
  BY <1>1, <1>2 DEF RunHolds, RowsStand, ChangesInTurn
<1>4. OutcomeIsTrue(r)' /\ FilesAreTrue(r)'
  BY <1>1, <1>2 DEF RunHolds, OutcomeIsTrue, FilesAreTrue
<1> QED
  BY <1>3, <1>4 DEF RunHolds

\* The operator takes a block only after a record.
LEMMA ConfirmHolds ==
    ASSUME IInv, ConfirmStep
    PROVE  /\ \A r \in Runs : RunHolds(r)'
           /\ confirm' = "recorded" => maintenance' # {}
<1>1. UNCHANGED <<stage, pair, targetVars, journeyVars, resultVars>>
  BY DEF ConfirmStep, ConfirmProbe, ConfirmRecord, ConfirmUnlink, ConfirmDies
<1>2. (Barred => Barred') /\ (confirm' = "recorded" => maintenance' # {})
  BY DEF IInv, TypeOK, Barred, ConfirmStep, ConfirmProbe, ConfirmRecord, ConfirmUnlink, ConfirmDies
<1> QED
  BY <1>1, <1>2, AsideHolds

\* The empty run root satisfies the invariant,
LEMMA InitHolds == SystemInit => IInv
<1> SUFFICES ASSUME SystemInit PROVE IInv
  OBVIOUS
<1> USE DEF SystemInit, ReportInit, RootInit
<1>1. TypeOK
  <2>1. RootType /\ TargetType /\ JourneyType /\ ResultType /\ pair \in {"E01", "E02"}
        /\ confirm \in ConfirmSteps
    BY DEF RootType, TargetType, JourneyType, ResultType, DiskStates, ConfirmSteps
  <2>2. StageType
    BY DEF StageType, Stages
  <2>3. ChangeType
    BY DEF ChangeType, States
  <2> QED
    BY <2>1, <2>2, <2>3, TypeParts DEF TypeInParts
<1>2. ASSUME NEW r \in Runs PROVE RunHolds(r)
  <2>1. RowsStand(r) /\ ChangesInTurn(r)
    BY DEF RowsStand, ChangesInTurn, Recorded, NoneOpen, BodyStages, FinallyStages, Ended, Kinds
  <2>2. OutcomeIsTrue(r) /\ FilesAreTrue(r)
    BY DEF OutcomeIsTrue, FilesAreTrue
  <2> QED
    BY <2>1, <2>2 DEF RunHolds
<1> QED
  BY <1>1, <1>2 DEF IInv

\* and every step keeps it.
LEMMA NextHolds == IInv /\ [SystemNext]_allVars => IInv'
<1> SUFFICES ASSUME IInv, [SystemNext]_allVars PROVE IInv'
  OBVIOUS
<1>1. ASSUME NEW r \in Runs, UNCHANGED confirm,
             EnvelopeStep(r) \/ CitationStep(r) \/ FreezeStep(r) \/ Crash(r)
      PROVE  IInv'
  <2>1. TypeOK'
    BY <1>1, TypeEnvelope, TypeJourney DEF IInv, RunHolds
  <2>2. RunHolds(r)'
    BY <1>1, EnteringHolds, CitationHolds, FreezeHolds, EndingHolds
      DEF EnvelopeStep, CitationStep, FreezeStep
  <2>3. \A q \in Runs : RunHolds(q)'
    BY <1>1, <2>2, OtherStep
  <2>4. confirm' = "recorded" => maintenance' # {}
    BY <1>1, SharedFiles DEF IInv
  <2> QED
    BY <2>1, <2>3, <2>4 DEF IInv
<1>2. CASE ConfirmStep
  BY <1>2, TypeConfirm, ConfirmHolds DEF IInv
<1>3. CASE UNCHANGED allVars
  <2>1. TypeOK'
    BY <1>3 DEF IInv, TypeOK
  <2>2. \A r \in Runs : RunHolds(r)'
    BY <1>3, AsideHolds DEF Barred
  <2> QED
    BY <1>3, <2>1, <2>2 DEF IInv
<1> QED
  BY <1>1, <1>2, <1>3 DEF SystemNext, RunStep

\* The inductive invariant of Spec004LaneExecutor.execute, its two journeys and
\* cleanup-confirm, for any set of Runs.
THEOREM Invariance == SystemSpec => []IInv
  BY InitHolds, NextHolds, PTL DEF SystemSpec

\* Every variable keeps its type; a row is altered only while it is there.
THEOREM TypeCorrect == SystemSpec => []TypeOK
<1>1. IInv => TypeOK
  BY DEF IInv
<1> QED
  BY <1>1, Invariance, PTL

\* A bundle of E-01 or E-02 that verifies leaves no change open, and its PASS or
\* FAIL stands on changes that all came back and rows that are gone.
THEOREM VerdictsNeedRestore == SystemSpec => []VerdictNeedsRestore
<1>1. IInv => VerdictNeedsRestore
  BY DEF IInv, TypeOK, RunHolds, ChangesInTurn, NoneOpen, FilesAreTrue, AllBack, VerdictNeedsRestore
<1> QED
  BY <1>1, Invariance, PTL

-----------------------------------------------------------------------------
(* Steps *)

\* RESTORED is only recorded over a row that is back, or, of a publication, over
\* a position that is gone.
THEOREM RestoredBack == SystemSpec => RestoredMeansBack
<1> DEFINE Back(r, i) ==
      injections[r][i] # "RESTORED" /\ injections'[r][i] = "RESTORED" =>
          i \notin altered'[r] /\ (i = "publish" => r \notin rows')
<1>1. ASSUME IInv, [SystemNext]_allVars PROVE \A r \in Runs : \A i \in Kinds : Back(r, i)
  <2>1. TypeOK
    BY <1>1 DEF IInv
  <2>2. CASE UNCHANGED allVars \/ ConfirmStep
    <3>1. UNCHANGED injections
      BY <2>2 DEF ConfirmStep, ConfirmProbe, ConfirmRecord, ConfirmUnlink, ConfirmDies
    <3> QED
      BY <3>1
  <2>3. ASSUME NEW q \in Runs, EnvelopeStep(q) \/ CitationStep(q) \/ FreezeStep(q) \/ Crash(q)
        PROVE  \A r \in Runs : \A i \in Kinds : Back(r, i)
    <3>1. \A r \in Runs \ {q} : injections'[r] = injections[r]
      BY <1>1, <2>3, OthersStay
    <3>2. ASSUME NEW i \in Kinds PROVE Back(q, i)
      <4>1. CASE \/ EnvelopeStep(q) \/ Crash(q) \/ Citation(q) \/ SeedPosition(q) \/ InterruptBody(q)
                 \/ InterruptFinally(q) \/ CitationTeardown(q) \/ FreezeTeardown(q) \/ CutFreeze(q)
        <5>1. UNCHANGED injections \/ Forget(q)
          BY <4>1 DEF EnvelopeStep, EnterLock, CheckBlock, LeaveLock, Conclude, Consumed, WriteRun,
             SealBundle, Raise, Crash, Citation, SeedPosition, InterruptBody, InterruptFinally,
             CitationTeardown, FreezeTeardown, CutFreeze
        <5> QED
          BY <2>1, <5>1, ForgetSets
      <4>2. ASSUME NEW j \in Kinds, Removal(q) \/ Probe(q) \/ Publish(q), Touched(q, j)
            PROVE  Back(q, i)
        <5>1. CASE UNCHANGED injections
          BY <5>1
        <5>2. ASSUME NEW k \in Kinds, Note(q, k, "APPLIED") PROVE Back(q, i)
          BY <2>1, <5>2, NoteSets DEF States
        <5> QED
          BY <4>2, <5>1, <5>2 DEF Removal, Probe, Publish, Kinds
      <4>3. ASSUME NEW j \in {"removal", "probe"}, NEW state \in {"RESTORED", "RESTORE_FAILED"},
                   PutBack(q, j) \/ state # "RESTORED", Note(q, j, state)
            PROVE  Back(q, i)
        <5>1. injections'[q][j] = state /\ \A k \in Kinds \ {j} : injections'[q][k] = injections[q][k]
          BY <2>1, <4>3, NoteSets DEF Kinds, States
        <5>2. PutBack(q, j) => j \notin altered'[q]
          BY <2>1, AlterSets DEF Kinds
        <5> QED
          BY <4>3, <5>1, <5>2
      <4>4. CASE RestoreRemoval(q)
        <5>1. \/ UNCHANGED injections
              \/ \E state \in {"RESTORED", "RESTORE_FAILED"} :
                    (PutBack(q, "removal") \/ state # "RESTORED") /\ Note(q, "removal", state)
          BY <4>4 DEF RestoreRemoval, ReinsertSegment, NothingOpen
        <5> QED
          BY <4>3, <5>1
      <4>5. CASE RestoreProbe(q)
        <5>1. \/ UNCHANGED injections
              \/ \E state \in {"RESTORED", "RESTORE_FAILED"} :
                    (PutBack(q, "probe") \/ state # "RESTORED") /\ Note(q, "probe", state)
          BY <4>5 DEF RestoreProbe, RewriteAxes, NothingOpen
        <5> QED
          BY <4>3, <5>1
      <4>6. CASE ReadOthers(q)
        <5>1. UNCHANGED <<rows, altered, teardown>>
          BY <4>6 DEF ReadOthers
        <5>2. CASE UNCHANGED injections
          BY <5>2
        <5>3. ASSUME NEW state \in {"RESTORED", "RESTORE_FAILED"},
                     state = "RESTORED" => teardown[q] = "ok", Note(q, "publish", state)
              PROVE  Back(q, i)
          <6>1. /\ injections'[q]["publish"] = state
                /\ \A k \in Kinds \ {"publish"} : injections'[q][k] = injections[q][k]
            BY <2>1, <5>3, NoteSets DEF Kinds, States
          <6>2. teardown[q] = "ok" => q \notin rows /\ altered[q] = {}
            BY <1>1, <2>1 DEF IInv, RunHolds, RowsStand, TypeOK
          <6> QED
            BY <5>1, <5>3, <6>1, <6>2
        <5> QED
          BY <4>6, <5>2, <5>3 DEF ReadOthers
      <4> QED
        BY <2>3, <4>1, <4>2, <4>4, <4>5, <4>6, Touching DEF CitationStep, FreezeStep, Kinds
    <3> QED
      BY <3>1, <3>2
  <2> QED
    BY <1>1, <2>2, <2>3 DEF SystemNext, RunStep
<1>2. IInv /\ [SystemNext]_allVars =>
        [\A r \in Runs : \A i \in Kinds :
            injections[r][i] # "RESTORED" /\ injections'[r][i] = "RESTORED" =>
                /\ i \notin altered'[r]
                /\ i = "publish" => r \notin rows']_allVars
  BY <1>1
<1> QED
  BY <1>2, Invariance, PTL DEF SystemSpec, RestoredMeansBack

-----------------------------------------------------------------------------
(* Refinement: the Runs and the operator implement the promise of FaultWindow *)

Reported(r) == CASE runFile[r] = "COMPLETED"      -> "clean"
                 [] runFile[r] = "RESTORE_FAILED" -> "unsafe"
                 [] OTHER                         -> "open"

Reports == [r \in Runs |-> Reported(r)]

\* A step of a Run seeds, tears down or bars, or writes a run.json that is true.
LEMMA RefineRun ==
    ASSUME IInv, NEW r \in Runs, EnvelopeStep(r) \/ CitationStep(r) \/ FreezeStep(r) \/ Crash(r)
    PROVE  FW!FWNext \/ UNCHANGED FW!fwVars
<1>1. TypeOK /\ TypeInParts /\ RunHolds(r)
  BY TypeParts DEF IInv
<1>2. CASE Citation(r) \/ SeedPosition(r)
  <2>1. UNCHANGED <<block, maintenance, runFile>> /\ stage[r] \in {"citation", "position"}
        /\ rows' \in {rows, rows \cup {r}}
    BY <1>2 DEF Citation, SeedPosition
  <2>2. runFile[r] = "ABSENT"
    BY <1>1, <2>1 DEF RunHolds, FilesAreTrue, Ended
  <2>3. Reports' = Reports /\ Reports[r] = "open"
    BY <2>1, <2>2 DEF Reports, Reported
  <2>4. FW!Inject(r) \/ UNCHANGED FW!fwVars
    BY <2>1, <2>3 DEF FW!Inject, FW!fwVars, Reports, Reported
  <2> QED
    BY <2>4 DEF FW!FWNext
<1>3. CASE CitationTeardown(r) \/ FreezeTeardown(r) \/ Conclude(r)
  <2>1. UNCHANGED <<maintenance, runFile>> /\ (Blocked => Blocked')
    BY <1>3 DEF CitationTeardown, FreezeTeardown, Conclude
  <2>2. rows' \in {rows, rows \ {r}}
    BY <1>1, <1>3, RemoveSets DEF CitationTeardown, FreezeTeardown, Conclude
  <2>3. Reports' = Reports
    BY <2>1 DEF Reports, Reported
  <2>4. FW!Withdraw(r)
    BY <2>1, <2>2, <2>3 DEF FW!Withdraw, Reports, Reported
  <2> QED
    BY <2>4 DEF FW!FWNext
<1>4. CASE WriteRun(r)
  <2>1. /\ stage[r] = "write" /\ UNCHANGED <<rows, block, maintenance>>
        /\ runFile' = [runFile EXCEPT ![r] = outcome[r]]
    BY <1>4 DEF WriteRun
  <2>2. outcome[r] \in {"COMPLETED", "RESTORE_FAILED"} /\ runFile[r] = "ABSENT"
    BY <1>1, <2>1 DEF RunHolds, OutcomeIsTrue, FilesAreTrue, TypeInParts, ResultType, Ended
  <2>3. Reports[r] = "open"
    BY <2>2 DEF Reports, Reported
  <2>4. CASE outcome[r] = "COMPLETED"
    <3>1. r \notin rows
      BY <1>1, <2>4 DEF RunHolds, OutcomeIsTrue
    <3>2. Reports' = [Reports EXCEPT ![r] = "clean"]
      BY <1>1, <2>1, <2>4 DEF Reports, Reported, TypeInParts, ResultType
    <3>3. FW!Report(r)
      BY <2>1, <2>3, <3>1, <3>2 DEF FW!Report, Reports, Reported
    <3> QED
      BY <3>3 DEF FW!FWNext
  <2>5. CASE outcome[r] = "RESTORE_FAILED"
    <3>1. Blocked \/ maintenance # {}
      BY <1>1, <2>5 DEF RunHolds, OutcomeIsTrue, Barred
    <3>2. Reports' = [Reports EXCEPT ![r] = "unsafe"]
      BY <1>1, <2>1, <2>5 DEF Reports, Reported, TypeInParts, ResultType
    <3>3. FW!Report(r)
      BY <2>1, <2>3, <3>1, <3>2 DEF FW!Report, Reports, Reported
    <3> QED
      BY <3>3 DEF FW!FWNext
  <2> QED
    BY <2>2, <2>4, <2>5
<1>5. CASE \/ EnterLock(r) \/ CheckBlock(r) \/ LeaveLock(r) \/ SealBundle(r) \/ Raise(r) \/ Crash(r)
           \/ Removal(r) \/ RestoreRemoval(r) \/ Probe(r) \/ RestoreProbe(r)
           \/ InterruptBody(r) \/ InterruptFinally(r)
           \/ Publish(r) \/ ReadOthers(r) \/ CutFreeze(r)
  <2>1. UNCHANGED <<rows, block, maintenance, runFile>>
    BY <1>5 DEF EnterLock, CheckBlock, LeaveLock, SealBundle, Raise, Crash, Forget, Removal,
       RestoreRemoval, Probe, RestoreProbe, InterruptBody, InterruptFinally, Publish, ReadOthers,
       CutFreeze
  <2> QED
    BY <2>1 DEF FW!fwVars
<1> QED
  BY <1>2, <1>3, <1>4, <1>5 DEF EnvelopeStep, CitationStep, FreezeStep

\* A step of cleanup-confirm is one of the promise too.
LEMMA RefineOperator ==
    ASSUME IInv, ConfirmStep
    PROVE  FW!FWNext \/ UNCHANGED FW!fwVars
<1>1. CASE ConfirmRecord
  <2>1. UNCHANGED <<rows, block, runFile>> /\ maintenance' # {} /\ Blocked
    BY <1>1 DEF ConfirmRecord
  <2> QED
    BY <2>1 DEF FW!FWNext, FW!Confirm
<1>2. CASE ConfirmUnlink
  <2>1. UNCHANGED <<rows, maintenance, runFile>> /\ maintenance # {} /\ ~Blocked'
    BY <1>2 DEF ConfirmUnlink, IInv
  <2> QED
    BY <2>1 DEF FW!FWNext, FW!Lift
<1>3. CASE ConfirmProbe \/ ConfirmDies
  <2>1. UNCHANGED <<rows, block, maintenance, runFile>>
    BY <1>3 DEF ConfirmProbe, ConfirmDies
  <2> QED
    BY <2>1 DEF FW!fwVars
<1> QED
  BY <1>1, <1>2, <1>3 DEF ConfirmStep

\* The empty run root has reported nothing.
LEMMA RefineInit == SystemInit => FW!FWInit
  BY DEF SystemInit, ReportInit, RootInit, FW!FWInit

\* What is no step of a Run or of the operator changes nothing.
LEMMA RefineNext == IInv /\ [SystemNext]_allVars => [FW!FWNext]_(FW!fwVars)
<1> SUFFICES ASSUME IInv, [SystemNext]_allVars PROVE FW!FWNext \/ UNCHANGED FW!fwVars
  OBVIOUS
<1>1. CASE UNCHANGED allVars
  BY <1>1 DEF FW!fwVars
<1> QED
  BY <1>1, RefineRun, RefineOperator DEF SystemNext, RunStep

\* Every behaviour of the Runs of E-01 or E-02 and the operator is one the
\* promise allows.
THEOREM Implementation == SystemSpec => ImplementsFaultWindow
  BY RefineInit, RefineNext, Invariance, PTL DEF SystemSpec, ImplementsFaultWindow, FW!FWSpec
=============================================================================
