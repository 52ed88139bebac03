------------------------- MODULE DecisionRunsProofs -------------------------
(***************************************************************************)
(* Proofs about DecisionRuns, for any set of Runs, either profile, any      *)
(* number of cases and any set of Runs that may be disturbed.               *)
(***************************************************************************)
EXTENDS DecisionRuns, TLAPS

USE NoneIsNoRun, CasesAssumption
USE DEF allVars, decisionVars, rootVars, targetVars, memoryVars, bundleVars, Intact,
        GoTo, Acquire, Release, WriteBlock, LockIsFree, Blocked, Mutable, ScriptAt,
        ScriptGoesTo

-----------------------------------------------------------------------------
(* Types *)

\* A verdict is one of the three statuses, whatever the cases showed.
LEMMA AggregateIsAStatus == \A outcomes : Aggregate(outcomes) \in Statuses
  BY DEF Aggregate, Statuses

\* The end of a process keeps the types.
LEMMA ForgetType ==
    ASSUME TypeOK, NEW r \in Runs, Forget(r)
    PROVE  /\ at' \in [Runs -> 1..(Cases + 1)]
           /\ recovery' \in [Runs -> {"none", "SUCCEEDED", "FAILED"}]
           /\ verdict' \in [Runs -> Statuses \cup {"none"}]
           /\ flawed' \subseteq Runs /\ foreign' \subseteq Runs /\ failed' \subseteq Runs
  BY DEF TypeOK, Forget

\* What the checkpoints of a Run write is a journal.
LEMMA JournalType ==
    ASSUME NEW j \in Journals
    PROVE  /\ \A c \in 1..Cases :
                 [j EXCEPT !.phase = "CASES", !.cases = j.cases \cup {c}] \in Journals
           /\ \A c \in 1..Cases, status \in Statuses :
                 [j EXCEPT !.outcome[c] = status] \in Journals
           /\ [j EXCEPT !.phase = "CLEANUP_FINISHED"] \in Journals
<1>1. \A c \in 1..Cases :
          [j EXCEPT !.phase = "CASES", !.cases = j.cases \cup {c}] \in Journals
  BY DEF Journals
<1>2. \A c \in 1..Cases, status \in Statuses : [j EXCEPT !.outcome[c] = status] \in Journals
  BY DEF Journals
<1>3. [j EXCEPT !.phase = "CLEANUP_FINISHED"] \in Journals
  BY DEF Journals
<1> QED
  BY <1>1, <1>2, <1>3

\* Every step of a Run keeps the types; a Run at a case is within its cases.
LEMMA TypeRun ==
    ASSUME TypeOK, NEW r \in Runs, CasesAreNoted(r), DecisionStep(r),
           UNCHANGED <<script, confirm>>
    PROVE  TypeOK'
<1> USE DEF TypeOK, Stages, Locked, Ended
<1>1. CASE CheckBlock(r)
  BY <1>1 DEF CheckBlock
<1>2. CASE Register(r)
  BY <1>2 DEF Register, NoOutcome, Journals
<1>3. CASE Lock(r)
  <2>1. stage' \in [Runs -> Stages]
    <3>1. CASE GoTo(r, "case")
      BY <3>1
    <3>2. CASE GoTo(r, "raised")
      BY <3>2
    <3> QED
      BY <1>3, <3>1, <3>2 DEF Lock
  <2>2. lock' \in Runs \cup {None}
    BY <1>3 DEF Lock
  <2>3. UNCHANGED <<block, maintenance, targetVars, memoryVars, journal, bundleVars>>
    BY <1>3 DEF Lock
  <2> HIDE DEF Stages
  <2> QED
    BY <2>1, <2>2, <2>3
<1>4. CASE StartCase(r)
  <2>1. CASE at[r] <= Cases
    <3>1. at[r] \in 1..Cases
      BY <2>1
    <3>2. journal' = [journal EXCEPT ![r] = [journal[r] EXCEPT
                        !.phase = "CASES", !.cases = journal[r].cases \cup {at[r]}]]
      BY <1>4, <2>1 DEF StartCase
    <3>3. journal' \in [Runs -> Journals]
      BY <3>1, <3>2, JournalType
    <3> QED
      BY <1>4, <2>1, <3>3 DEF StartCase
  <2>2. CASE ~(at[r] <= Cases)
    BY <1>4, <2>2 DEF StartCase
  <2> QED
    BY <2>1, <2>2
<1>5. CASE Prepare(r)
  <2>1. at[r] \in 1..Cases
    BY <1>5 DEF Prepare, CasesAreNoted, Journals
  <2>2. rows' \in [Runs -> SUBSET (1..Cases)]
    BY <1>5, <2>1 DEF Prepare
  <2>3. CASE GoTo(r, "observe")
    BY <1>5, <2>2, <2>3 DEF Prepare
  <2>4. CASE GoTo(r, "cleanup")
    BY <1>5, <2>2, <2>4 DEF Prepare
  <2> QED
    BY <1>5, <2>3, <2>4 DEF Prepare
<1>6. CASE Observe(r)
  <2>1. at[r] \in 1..Cases
    BY <1>6 DEF Observe, CasesAreNoted, Journals
  <2>2. PICK status \in Statuses :
          journal' = [journal EXCEPT ![r] = [journal[r] EXCEPT !.outcome[at[r]] = status]]
    BY <1>6 DEF Observe, Statuses
  <2>3. journal' \in [Runs -> Journals]
    BY <2>1, <2>2, JournalType
  <2>4. at' \in [Runs -> 1..(Cases + 1)]
    BY <1>6, <2>1 DEF Observe
  <2>5. foreign' \subseteq Runs
    BY <1>6 DEF Observe
  <2> QED
    BY <1>6, <2>3, <2>4, <2>5 DEF Observe
<1>7. CASE BreakOff(r)
  BY <1>7 DEF BreakOff
<1>8. CASE DeleteRows(r)
  <2>1. rows' \in [Runs -> SUBSET (1..Cases)]
    BY <1>8 DEF DeleteRows
  <2>2. CASE GoTo(r, "teardown") /\ UNCHANGED recovery
    BY <1>8, <2>1, <2>2 DEF DeleteRows
  <2>3. CASE GoTo(r, "cleaned") /\ recovery' = [recovery EXCEPT ![r] = "FAILED"]
    BY <1>8, <2>1, <2>3 DEF DeleteRows
  <2> QED
    BY <1>8, <2>2, <2>3 DEF DeleteRows
<1>9. CASE Recount(r)
  BY <1>9 DEF Recount
<1>10. CASE CutCleanup(r)
  BY <1>10 DEF CutCleanup
<1>11. CASE FinishCleanup(r)
  <2>1. [journal[r] EXCEPT !.phase = "CLEANUP_FINISHED"] \in Journals
    BY JournalType
  <2>2. CASE UNCHANGED failed /\ journal' = [journal EXCEPT ![r].phase = "CLEANUP_FINISHED"]
    BY <1>11, <2>1, <2>2 DEF FinishCleanup
  <2>3. CASE UNCHANGED journal /\ failed' = failed \cup {r}
    BY <1>11, <2>3 DEF FinishCleanup
  <2> QED
    BY <1>11, <2>2, <2>3 DEF FinishCleanup
<1>12. CASE LeaveLock(r)
  <2>1. CASE Forget(r) /\ GoTo(r, "raised")
    BY <1>12, <2>1, ForgetType DEF LeaveLock
  <2>2. CASE UNCHANGED memoryVars /\ GoTo(r, "conclude")
    BY <1>12, <2>2 DEF LeaveLock
  <2> QED
    BY <1>12, <2>1, <2>2 DEF LeaveLock
<1>13. CASE Conclude(r)
  BY <1>13, AggregateIsAStatus DEF Conclude, Statuses
<1>14. CASE WriteRun(r)
  <2>1. CASE sealed[r] = "nobody"
    <3>1. runFile' \in [Runs -> [author : {"nobody", "run", "script"}, says : {"none", "COMPLETED", "RESTORE_FAILED"}]]
      BY <1>14, <2>1 DEF WriteRun
    <3>2. GoTo(r, "judge") /\ UNCHANGED memoryVars
      BY <1>14, <2>1 DEF WriteRun
    <3> QED
      BY <1>14, <3>1, <3>2 DEF WriteRun
  <2>2. CASE sealed[r] # "nobody"
    <3>1. UNCHANGED runFile /\ GoTo(r, "raised") /\ Forget(r)
      BY <1>14, <2>2 DEF WriteRun
    <3> QED
      BY <1>14, <3>1, ForgetType DEF WriteRun
  <2> QED
    BY <2>1, <2>2
<1>15. CASE WriteJudgement(r)
  <2>1. CASE sealed[r] = "nobody"
    <3>1. judged' \in [Runs -> [author : {"nobody", "run", "script"}, says : Statuses \cup {"none"}]]
      BY <1>15, <2>1 DEF WriteJudgement
    <3>2. GoTo(r, "seal") /\ UNCHANGED memoryVars
      BY <1>15, <2>1 DEF WriteJudgement
    <3> QED
      BY <1>15, <3>1, <3>2 DEF WriteJudgement
  <2>2. CASE sealed[r] # "nobody"
    <3>1. UNCHANGED judged /\ GoTo(r, "raised") /\ Forget(r)
      BY <1>15, <2>2 DEF WriteJudgement
    <3> QED
      BY <1>15, <3>1, ForgetType DEF WriteJudgement
  <2> QED
    BY <2>1, <2>2
<1>16. CASE Seal(r)
  BY <1>16, ForgetType DEF Seal
<1>17. CASE Raise(r)
  BY <1>17, ForgetType DEF Raise
<1> QED
  BY <1>1, <1>2, <1>3, <1>4, <1>5, <1>6, <1>7, <1>8, <1>9, <1>10, <1>11, <1>12,
     <1>13, <1>14, <1>15, <1>16, <1>17 DEF DecisionStep

\* So do a crash, the script and cleanup-confirm.
LEMMA TypeOther ==
    ASSUME TypeOK,
           \/ \E r \in Runs : Crash(r) /\ UNCHANGED <<script, confirm>>
           \/ ScriptStep
           \/ ConfirmStep
    PROVE  TypeOK'
<1> USE DEF TypeOK, Stages, Locked, Ended
<1>1. ASSUME NEW r \in Runs, Crash(r), UNCHANGED <<script, confirm>> PROVE TypeOK'
  BY <1>1, ForgetType DEF Crash
<1>2. CASE OpenJournal
  BY <1>2 DEF OpenJournal
<1>3. CASE RecoverRows
  BY <1>3 DEF RecoverRows
<1>4. CASE BindParent
  BY <1>4 DEF BindParent
<1>5. CASE RecoverRun
  BY <1>5 DEF RecoverRun
<1>6. CASE RecoverJudgement
  BY <1>6 DEF RecoverJudgement, Statuses
<1>7. CASE RecoverSeal
  BY <1>7 DEF RecoverSeal, NoScript
<1>8. CASE ScriptEnds
  BY <1>8 DEF ScriptEnds, NoScript
<1>9. CASE ConfirmStep
  BY <1>9 DEF ConfirmStep, ConfirmRecord, ConfirmUnlink, ConfirmDies
<1> QED
  BY <1>1, <1>2, <1>3, <1>4, <1>5, <1>6, <1>7, <1>8, <1>9 DEF ScriptStep

-----------------------------------------------------------------------------
(* The invariant *)

\* A step of one Run leaves what belongs to the others alone.
LEMMA OthersStay ==
    ASSUME TypeOK, NEW r \in Runs, DecisionStep(r) \/ Crash(r), NEW q \in Runs, q # r
    PROVE  /\ stage'[q] = stage[q] /\ rows'[q] = rows[q] /\ at'[q] = at[q]
           /\ journal'[q] = journal[q] /\ recovery'[q] = recovery[q]
           /\ verdict'[q] = verdict[q] /\ (q \in failed' <=> q \in failed)
           /\ runFile'[q] = runFile[q] /\ judged'[q] = judged[q] /\ sealed'[q] = sealed[q]
<1> USE DEF TypeOK, Forget
<1>1. CASE CheckBlock(r) \/ Register(r) \/ Lock(r) \/ StartCase(r)
  BY <1>1 DEF CheckBlock, Register, Lock, StartCase
<1>2. CASE Prepare(r) \/ Observe(r) \/ BreakOff(r)
  BY <1>2 DEF Prepare, Observe, BreakOff
<1>3. CASE DeleteRows(r) \/ Recount(r) \/ CutCleanup(r) \/ FinishCleanup(r)
  BY <1>3 DEF DeleteRows, Recount, CutCleanup, FinishCleanup
<1>4. CASE LeaveLock(r) \/ Conclude(r)
  BY <1>4 DEF LeaveLock, Conclude
<1>5. CASE WriteRun(r) \/ WriteJudgement(r)
  BY <1>5 DEF WriteRun, WriteJudgement
<1>6. CASE Seal(r) \/ Raise(r) \/ Crash(r)
  BY <1>6 DEF Seal, Raise, Crash
<1> QED
  BY <1>1, <1>2, <1>3, <1>4, <1>5, <1>6 DEF DecisionStep

\* The shared files: a Run takes a free lock, gives its own back, and only ever
\* adds a block.
LEMMA SharedFiles ==
    ASSUME TypeOK, JournalKnowsRows, NEW r \in Runs, DecisionStep(r) \/ Crash(r)
    PROVE  /\ lock' = lock \/ (lock = None /\ lock' = r) \/ (lock = r /\ lock' = None)
           /\ block' \in {block, r} /\ maintenance' = maintenance
<1>1. CASE Lock(r)
  BY <1>1 DEF Lock
<1>2. CASE LeaveLock(r)
  BY <1>2 DEF LeaveLock, JournalKnowsRows, Locked
<1>3. CASE Conclude(r)
  BY <1>3 DEF Conclude
<1>4. CASE Crash(r) \/ (DecisionStep(r) /\ ~Lock(r) /\ ~LeaveLock(r) /\ ~Conclude(r))
  BY <1>4 DEF DecisionStep, CheckBlock, Register, StartCase, Prepare, Observe, BreakOff,
     DeleteRows, Recount, CutCleanup, FinishCleanup, WriteRun, WriteJudgement, Seal, Raise, Crash
<1> QED
  BY <1>1, <1>2, <1>3, <1>4

\* What a Run's cleanup has finished does not come back.
LEMMA FinishedStays ==
    ASSUME TypeOK, NEW r \in Runs, CasesAreNoted(r), Finished(r), DecisionStep(r) \/ Crash(r)
    PROVE  Finished(r)' /\ Outcomes(r)' = Outcomes(r) /\ rows'[r] = rows[r]
<1>1. journal'[r].phase = "CLEANUP_FINISHED" /\ journal'[r].outcome = journal[r].outcome
      /\ rows'[r] = rows[r]
  BY DEF TypeOK, Finished, CasesAreNoted, Ended,
     DecisionStep, CheckBlock, Register, Lock, StartCase, Prepare, Observe, BreakOff,
     DeleteRows, Recount, CutCleanup, FinishCleanup, LeaveLock, Conclude, WriteRun,
     WriteJudgement, Seal, Raise, Crash
<1> QED
  BY <1>1 DEF Finished, Outcomes

\* What a Run needs of the other files: nothing but its block or a confirmation.
LEMMA BarredStays ==
    ASSUME TypeOK, JournalKnowsRows, NEW r \in Runs, DecisionStep(r) \/ Crash(r), Barred
    PROVE  Barred'
  BY SharedFiles DEF Barred, TypeOK

\* A step of a Run that only ends its process.
LEMMA EndHolds ==
    ASSUME TypeOK, NEW r \in Runs, RunHolds(r), Forget(r), stage'[r] \in Ended,
           rows'[r] = rows[r], journal'[r] = journal[r], runFile'[r] = runFile[r],
           judged'[r] = judged[r], Barred => Barred'
    PROVE  RunHolds(r)'
<1> USE DEF TypeOK, RunHolds, Ended, Forget
<1>1. recovery'[r] = "none" /\ Outcomes(r)' = Outcomes(r) /\ Finished(r)' = Finished(r)
  BY DEF Outcomes, Finished
<1>2. CasesAreNoted(r)'
  BY <1>1 DEF CasesAreNoted
<1>3. ResultHolds(r)'
  BY <1>1 DEF ResultHolds, CleanupVerified
<1>4. MemoryIsTrue(r)'
  BY DEF MemoryIsTrue
<1>5. RunFileIsTrue(r)'
  BY <1>1 DEF RunFileIsTrue
<1>6. JudgementIsTrue(r)'
  BY <1>1 DEF JudgementIsTrue
<1> QED
  BY <1>2, <1>3, <1>4, <1>5, <1>6

\* Among its cases a Run has written no document and has no result.
LEMMA CasesHold ==
    ASSUME IInv, NEW r \in Runs,
           \/ CheckBlock(r) \/ Register(r) \/ Lock(r) \/ StartCase(r) \/ Prepare(r)
           \/ Observe(r) \/ BreakOff(r)
    PROVE  RunHolds(r)' /\ rows'[r] \subseteq journal'[r].cases /\ (stage'[r] \in Locked => lock' = r)
<1> USE DEF IInv, TypeOK, JournalKnowsRows, RunHolds, Locked, Ended, Stages
<1>1. /\ stage[r] \in {"idle", "captured", "registered", "case", "prepare", "observe"}
      /\ stage'[r] \in {"refused", "raised", "captured", "registered", "case", "prepare",
                         "observe", "cleanup"}
      /\ UNCHANGED <<recovery, runFile, judged, block, maintenance>>
  BY DEF CheckBlock, Register, Lock, StartCase, Prepare, Observe, BreakOff
<1>2. recovery[r] = "none" /\ ~Finished(r) /\ runFile[r].author = "nobody"
      /\ judged[r].author # "run"
  BY <1>1 DEF ResultHolds, CasesAreNoted, RunFileIsTrue, JudgementIsTrue
<1>3. /\ journal'[r].phase # "CLEANUP_FINISHED" /\ rows'[r] \subseteq journal'[r].cases
      /\ stage'[r] \in {"prepare", "observe"} => at'[r] \in journal'[r].cases
      /\ stage'[r] = "captured" => rows'[r] = {}
  <2>1. CASE CheckBlock(r) \/ Lock(r) \/ BreakOff(r)
    BY <1>2, <2>1 DEF CheckBlock, Lock, BreakOff, CasesAreNoted, Finished
  <2>2. CASE Register(r)
    BY <2>2 DEF Register, CasesAreNoted
  <2>3. CASE StartCase(r)
    <3>1. CASE at[r] <= Cases
      <4>1. journal' = [journal EXCEPT ![r] = [journal[r] EXCEPT
                          !.phase = "CASES", !.cases = journal[r].cases \cup {at[r]}]]
        BY <2>3, <3>1 DEF StartCase
      <4>2. journal'[r].phase = "CASES" /\ journal'[r].cases = journal[r].cases \cup {at[r]}
        BY <4>1 DEF Journals
      <4> QED
        BY <2>3, <4>2 DEF StartCase
    <3>2. CASE ~(at[r] <= Cases)
      BY <1>2, <2>3, <3>2 DEF StartCase, Finished
    <3> QED
      BY <3>1, <3>2
  <2>4. CASE Prepare(r)
    <3>1. at[r] \in journal[r].cases /\ rows'[r] \subseteq rows[r] \cup {at[r]} /\ stage'[r] # "captured"
      BY <2>4 DEF Prepare, CasesAreNoted
    <3>2. UNCHANGED <<journal, at>>
      BY <2>4 DEF Prepare
    <3> QED
      BY <1>2, <3>1, <3>2 DEF Finished
  <2>5. CASE Observe(r)
    <3>1. PICK status : journal' = [journal EXCEPT ![r].outcome[at[r]] = status]
      BY <2>5 DEF Observe
    <3>2. journal'[r].phase = journal[r].phase /\ journal'[r].cases = journal[r].cases
      BY <3>1 DEF Journals
    <3> QED
      BY <1>2, <2>5, <3>2 DEF Observe, Finished
  <2> QED
    BY <2>1, <2>2, <2>3, <2>4, <2>5
<1>4. CasesAreNoted(r)'
  BY <1>1, <1>3 DEF CasesAreNoted, Finished
<1>5. ResultHolds(r)' /\ MemoryIsTrue(r)'
  BY <1>1, <1>2 DEF ResultHolds, MemoryIsTrue, CleanupVerified
<1>6. RunFileIsTrue(r)' /\ JudgementIsTrue(r)'
  BY <1>1, <1>2 DEF RunFileIsTrue, JudgementIsTrue
<1>7. stage'[r] \in Locked => lock' = r
  BY DEF CheckBlock, Register, Lock, StartCase, Prepare, Observe, BreakOff
<1> QED
  BY <1>3, <1>4, <1>5, <1>6, <1>7

\* The cleanup comes to a result that is true, and the Run keeps the lock until then.
LEMMA CleanupHolds ==
    ASSUME IInv, NEW r \in Runs,
           DeleteRows(r) \/ Recount(r) \/ CutCleanup(r) \/ FinishCleanup(r)
    PROVE  RunHolds(r)' /\ rows'[r] \subseteq journal'[r].cases /\ lock' = r
<1> USE DEF IInv, TypeOK, JournalKnowsRows, RunHolds, Locked, Ended, Stages
<1>1. /\ stage[r] \in {"cleanup", "teardown", "cleaned"}
      /\ stage'[r] \in {"teardown", "cleaned", "leave-lock", "leave-cut"}
      /\ UNCHANGED <<lock, runFile, judged, block, maintenance>>
  BY DEF DeleteRows, Recount, CutCleanup, FinishCleanup
<1>2. lock = r /\ ~Finished(r)
      /\ runFile[r].author = "nobody" /\ judged[r].author # "run"
  BY <1>1 DEF CasesAreNoted, RunFileIsTrue, JudgementIsTrue
<1>3. rows'[r] \subseteq journal'[r].cases
  <2>1. CASE DeleteRows(r) \/ Recount(r) \/ CutCleanup(r)
    BY <2>1 DEF DeleteRows, Recount, CutCleanup
  <2>2. CASE FinishCleanup(r)
    <3>1. journal'[r].cases = journal[r].cases /\ rows' = rows
      BY <2>2 DEF FinishCleanup, Journals
    <3> QED
      BY <3>1
  <2> QED
    BY <2>1, <2>2
<1>4. CasesAreNoted(r)'
  BY <1>1, <1>2 DEF CasesAreNoted, Finished, DeleteRows, Recount, CutCleanup, FinishCleanup
<1>5. ResultHolds(r)'
  <2>1. CASE DeleteRows(r) \/ CutCleanup(r)
    BY <2>1 DEF DeleteRows, CutCleanup, ResultHolds, CleanupVerified
  <2>2. CASE Recount(r)
    BY <2>2 DEF Recount, ResultHolds, CleanupVerified
  <2>3. CASE FinishCleanup(r)
    BY <2>3 DEF FinishCleanup, ResultHolds, CleanupVerified
  <2> QED
    BY <2>1, <2>2, <2>3
<1>6. MemoryIsTrue(r)'
  BY <1>1 DEF MemoryIsTrue
<1>7. RunFileIsTrue(r)' /\ JudgementIsTrue(r)'
  BY <1>1, <1>2 DEF RunFileIsTrue, JudgementIsTrue
<1> QED
  BY <1>1, <1>2, <1>3, <1>4, <1>5, <1>6, <1>7

\* From the lock to the sealed bundle: what is written is what the cleanup and the
\* cases came to, whatever the script does to the same files.
LEMMA BundleHolds ==
    ASSUME IInv, NEW r \in Runs,
           \/ LeaveLock(r) \/ Conclude(r) \/ WriteRun(r) \/ WriteJudgement(r) \/ Seal(r)
           \/ Raise(r) \/ Crash(r)
    PROVE  RunHolds(r)' /\ rows'[r] \subseteq journal'[r].cases /\ stage'[r] \notin Locked
<1> USE DEF IInv, TypeOK, JournalKnowsRows, RunHolds
<1>1. UNCHANGED <<rows, journal>> /\ stage'[r] \notin Locked
  BY DEF LeaveLock, Conclude, WriteRun, WriteJudgement, Seal, Raise, Crash, Locked, Ended, Stages
<1>2. Barred => Barred'
  BY BarredStays DEF DecisionStep
<1>3. Outcomes(r)' = Outcomes(r) /\ Finished(r)' = Finished(r)
  BY <1>1 DEF Outcomes, Finished
<1>4. CASE Seal(r) \/ Raise(r) \/ Crash(r)
  <2>1. Forget(r) /\ stage'[r] \in Ended /\ UNCHANGED <<runFile, judged>>
    BY <1>4 DEF Seal, Raise, Crash, Ended
  <2> QED
    BY <1>1, <1>2, <2>1, EndHolds
<1>5. CASE LeaveLock(r)
  <2>1. CASE Forget(r) /\ GoTo(r, "raised")
    BY <1>1, <1>2, <1>5, <2>1, EndHolds DEF LeaveLock, Ended
  <2>2. CASE UNCHANGED memoryVars /\ GoTo(r, "conclude") /\ r \notin failed
    <3>1. stage[r] = "leave-lock" /\ stage'[r] = "conclude"
      BY <1>5, <2>2 DEF LeaveLock, ResultHolds
    <3>2. runFile[r].author # "run" /\ judged[r].author # "run" /\ UNCHANGED <<runFile, judged>>
      BY <1>5, <3>1 DEF LeaveLock, RunFileIsTrue, JudgementIsTrue, Ended
    <3>3. CasesAreNoted(r)' /\ ResultHolds(r)' /\ MemoryIsTrue(r)'
      BY <1>1, <1>3, <2>2, <3>1 DEF CasesAreNoted, ResultHolds, MemoryIsTrue, CleanupVerified
    <3>4. RunFileIsTrue(r)' /\ JudgementIsTrue(r)'
      BY <1>1, <1>2, <1>3, <3>2 DEF RunFileIsTrue, JudgementIsTrue
    <3> QED
      BY <1>1, <3>3, <3>4
  <2> QED
    BY <1>5, <2>1, <2>2 DEF LeaveLock
<1>6. CASE Conclude(r)
  <2>1. stage[r] = "conclude" /\ stage'[r] = "write" /\ UNCHANGED <<runFile, judged, recovery, at, failed>>
    BY <1>6 DEF Conclude
  <2>2. runFile[r].author # "run" /\ judged[r].author # "run"
    BY <2>1 DEF RunFileIsTrue, JudgementIsTrue, Ended
  <2>3. CasesAreNoted(r)' /\ ResultHolds(r)'
    BY <1>1, <1>3, <2>1 DEF CasesAreNoted, ResultHolds, CleanupVerified
  <2>4. MemoryIsTrue(r)'
    <3>1. CASE CleanupVerified(r)
      <4>1. verdict'[r] = Aggregate(Outcomes(r) \cup IF r \in flawed THEN {"INCONCLUSIVE"} ELSE {})
        BY <1>6, <3>1 DEF Conclude
      <4>2. verdict'[r] = "PASS" => Outcomes(r) \subseteq {"PASS"}
        BY <4>1 DEF Aggregate
      <4>3. journal[r].outcome[1] \in Outcomes(r)
        BY DEF Outcomes
      <4> QED
        BY <1>3, <2>1, <3>1, <4>2, <4>3 DEF MemoryIsTrue, CleanupVerified
    <3>2. CASE ~CleanupVerified(r)
      BY <1>6, <2>1, <3>2 DEF Conclude, MemoryIsTrue, Barred
    <3> QED
      BY <3>1, <3>2
  <2>5. RunFileIsTrue(r)' /\ JudgementIsTrue(r)'
    BY <1>1, <1>2, <1>3, <2>1, <2>2 DEF RunFileIsTrue, JudgementIsTrue
  <2> QED
    BY <1>1, <2>3, <2>4, <2>5
<1>7. CASE WriteRun(r)
  <2>1. CASE ~Mutable(r)
    BY <1>1, <1>2, <1>7, <2>1, EndHolds DEF WriteRun, Ended
  <2>2. CASE Mutable(r)
    <3>1. /\ stage[r] = "write" /\ stage'[r] = "judge" /\ UNCHANGED <<judged, memoryVars, maintenance, block>>
          /\ runFile'[r].author = "run"
          /\ runFile'[r].says = IF CleanupVerified(r) THEN "COMPLETED" ELSE "RESTORE_FAILED"
      BY <1>7, <2>2 DEF WriteRun
    <3>2. judged[r].author # "run"
      BY <3>1 DEF JudgementIsTrue, Ended
    <3>3. CasesAreNoted(r)' /\ ResultHolds(r)' /\ MemoryIsTrue(r)'
      BY <1>1, <1>3, <3>1 DEF CasesAreNoted, ResultHolds, MemoryIsTrue, CleanupVerified, Barred
    <3>4. RunFileIsTrue(r)'
      BY <1>1, <1>2, <3>1 DEF RunFileIsTrue, CleanupVerified, ResultHolds, MemoryIsTrue
    <3>5. JudgementIsTrue(r)'
      BY <3>1, <3>2 DEF JudgementIsTrue
    <3> QED
      BY <1>1, <3>3, <3>4, <3>5
  <2> QED
    BY <2>1, <2>2
<1>8. CASE WriteJudgement(r)
  <2>1. CASE ~Mutable(r)
    BY <1>1, <1>2, <1>8, <2>1, EndHolds DEF WriteJudgement, Ended
  <2>2. CASE Mutable(r)
    <3>1. /\ stage[r] = "judge" /\ stage'[r] = "seal" /\ UNCHANGED <<runFile, memoryVars, maintenance, block>>
          /\ judged'[r].author = "run" /\ judged'[r].says = verdict[r]
      BY <1>8, <2>2 DEF WriteJudgement
    <3>2. CasesAreNoted(r)' /\ ResultHolds(r)' /\ MemoryIsTrue(r)'
      BY <1>1, <1>3, <3>1 DEF CasesAreNoted, ResultHolds, MemoryIsTrue, CleanupVerified, Barred
    <3>3. RunFileIsTrue(r)'
      BY <1>1, <1>2, <1>3, <3>1 DEF RunFileIsTrue, CleanupVerified
    <3>4. JudgementIsTrue(r)'
      BY <1>3, <3>1 DEF JudgementIsTrue, MemoryIsTrue, RunFileIsTrue
    <3> QED
      BY <1>1, <3>2, <3>3, <3>4
  <2> QED
    BY <2>1, <2>2
<1> QED
  BY <1>4, <1>5, <1>6, <1>7, <1>8

\* What a Run holds, its own step keeps.
LEMMA OwnStep ==
    ASSUME IInv, NEW r \in Runs, DecisionStep(r) \/ Crash(r)
    PROVE  /\ RunHolds(r)' /\ rows'[r] \subseteq journal'[r].cases
           /\ stage'[r] \in Locked => lock' = r
  BY CasesHold, CleanupHolds, BundleHolds DEF DecisionStep

\* And the steps of the other Runs.
LEMMA OtherStep ==
    ASSUME IInv, NEW r \in Runs, DecisionStep(r) \/ Crash(r), NEW q \in Runs, q # r
    PROVE  /\ RunHolds(q)' /\ rows'[q] \subseteq journal'[q].cases
           /\ stage'[q] \in Locked => lock' = q
<1> USE DEF IInv, RunHolds, JournalKnowsRows
<1>1. /\ stage'[q] = stage[q] /\ rows'[q] = rows[q] /\ at'[q] = at[q]
      /\ journal'[q] = journal[q] /\ recovery'[q] = recovery[q]
      /\ verdict'[q] = verdict[q] /\ (q \in failed' <=> q \in failed)
      /\ runFile'[q] = runFile[q] /\ judged'[q] = judged[q]
  BY OthersStay
<1>2. Barred => Barred'
  BY BarredStays
<1>3. Outcomes(q)' = Outcomes(q) /\ Finished(q)' = Finished(q)
      /\ CleanupVerified(q)' = CleanupVerified(q)
  BY <1>1 DEF Outcomes, Finished, CleanupVerified
<1>4. CasesAreNoted(q)' /\ ResultHolds(q)'
  BY <1>1, <1>3 DEF CasesAreNoted, ResultHolds
<1>5. MemoryIsTrue(q)' /\ RunFileIsTrue(q)' /\ JudgementIsTrue(q)'
  BY <1>1, <1>2, <1>3 DEF MemoryIsTrue, RunFileIsTrue, JudgementIsTrue
<1>6. stage'[q] \in Locked => lock' = q
  BY <1>1, SharedFiles
<1> QED
  BY <1>1, <1>4, <1>5, <1>6

\* A step of a Run keeps the invariant.
LEMMA RunKeeps ==
    ASSUME IInv, NEW r \in Runs, DecisionStep(r) \/ Crash(r), UNCHANGED <<script, confirm>>
    PROVE  IInv'
<1>1. TypeOK'
  BY TypeRun, TypeOther DEF IInv, RunHolds
<1>2. JournalKnowsRows' /\ \A q \in Runs : RunHolds(q)'
  BY OwnStep, OtherStep DEF JournalKnowsRows
<1>3. ScriptIsLate'
  <2> SUFFICES ASSUME script.run # None
               PROVE  /\ Finished(script.run)' /\ "FAIL" \in Outcomes(script.run)'
                      /\ script.step # "cleanup" => rows'[script.run] = {}
    BY DEF ScriptIsLate
  <2>1. script.run \in Runs
    BY DEF IInv, TypeOK
  <2>2. Finished(script.run) /\ CasesAreNoted(script.run)
    BY <2>1 DEF IInv, ScriptIsLate, RunHolds
  <2>3. CASE script.run = r
    BY <2>2, <2>3, FinishedStays DEF IInv, ScriptIsLate
  <2>4. CASE script.run # r
    BY <2>1, <2>2, <2>4, OthersStay DEF IInv, ScriptIsLate, Finished, Outcomes
  <2> QED
    BY <2>3, <2>4
<1>4. maintenance' = maintenance
  BY SharedFiles DEF IInv
<1> QED
  BY <1>1, <1>2, <1>3, <1>4 DEF IInv

\* A step of the script keeps it: the documents it writes are those of a failure
\* that was observed, over rows that are gone.
LEMMA ScriptKeeps ==
    ASSUME IInv, ScriptStep
    PROVE  IInv'
<1> USE DEF IInv, TypeOK, JournalKnowsRows, RunHolds
<1>1. TypeOK'
  BY TypeOther
<1>2. /\ UNCHANGED <<rootVars, stage, memoryVars, journal, confirm>>
      /\ \A q \in Runs : rows'[q] \in {rows[q], {}}
  BY DEF ScriptStep, OpenJournal, RecoverRows, BindParent, RecoverRun, RecoverJudgement,
     RecoverSeal, ScriptEnds
<1>3. \A q \in Runs : /\ Outcomes(q)' = Outcomes(q) /\ Finished(q)' = Finished(q)
                       /\ CleanupVerified(q)' = CleanupVerified(q)
  BY <1>2 DEF Outcomes, Finished, CleanupVerified
<1>4. Barred' = Barred
  BY <1>2 DEF Barred
<1>5. JournalKnowsRows'
  BY <1>2
<1>6. \A q \in Runs : CasesAreNoted(q)' /\ ResultHolds(q)' /\ MemoryIsTrue(q)'
  BY <1>2, <1>3, <1>4 DEF CasesAreNoted, ResultHolds, MemoryIsTrue
<1>7. ASSUME NEW q \in Runs PROVE RunFileIsTrue(q)'
  <2>1. CASE runFile' = runFile
    <3>1. /\ Outcomes(q)' = Outcomes(q) /\ Finished(q)' = Finished(q)
          /\ CleanupVerified(q)' = CleanupVerified(q)
          /\ rows'[q] \in {rows[q], {}} /\ stage'[q] = stage[q]
      BY <1>2, <1>3
    <3> QED
      BY <1>4, <2>1, <3>1 DEF RunFileIsTrue
  <2>2. CASE RecoverRun
    <3>1. script.run \in Runs /\ rows[script.run] = {} /\ rows' = rows
          /\ Finished(script.run) /\ "FAIL" \in Outcomes(script.run)
      BY <2>2 DEF RecoverRun, ScriptIsLate
    <3>2. runFile' = [runFile EXCEPT ![script.run] = [author |-> "script", says |-> "COMPLETED"]]
      BY <2>2 DEF RecoverRun
    <3> QED
      BY <1>2, <1>3, <1>4, <3>1, <3>2 DEF RunFileIsTrue
  <2> QED
    BY <2>1, <2>2 DEF ScriptStep, OpenJournal, RecoverRows, BindParent, RecoverJudgement,
       RecoverSeal, ScriptEnds
<1>8. ASSUME NEW q \in Runs PROVE JudgementIsTrue(q)'
  <2>1. CASE UNCHANGED <<runFile, judged>>
    BY <1>2, <1>3, <2>1 DEF JudgementIsTrue
  <2>2. CASE RecoverRun
    <3>1. runFile'[q] = runFile[q] \/ runFile'[q].author = "script"
      BY <2>2 DEF RecoverRun
    <3> QED
      BY <1>2, <1>3, <2>2, <3>1 DEF JudgementIsTrue, RecoverRun
  <2>3. CASE RecoverJudgement
    <3>1. judged'[q] = judged[q] \/ judged'[q] = [author |-> "script", says |-> "FAIL"]
      BY <2>3 DEF RecoverJudgement
    <3> QED
      BY <1>2, <1>3, <2>3, <3>1 DEF JudgementIsTrue, RecoverJudgement
  <2> QED
    BY <2>1, <2>2, <2>3 DEF ScriptStep, OpenJournal, RecoverRows, BindParent, RecoverSeal, ScriptEnds
<1>9. ScriptIsLate'
  <2>1. CASE OpenJournal
    BY <1>3, <2>1 DEF OpenJournal, ScriptIsLate, Finished, Aggregate
  <2>2. CASE RecoverRows
    BY <1>3, <2>2 DEF RecoverRows, ScriptIsLate
  <2>3. CASE BindParent \/ RecoverRun \/ RecoverJudgement
    BY <1>3, <2>3 DEF BindParent, RecoverRun, RecoverJudgement, ScriptIsLate
  <2>4. CASE RecoverSeal \/ ScriptEnds
    BY <2>4 DEF RecoverSeal, ScriptEnds, ScriptIsLate, NoScript
  <2> QED
    BY <2>1, <2>2, <2>3, <2>4 DEF ScriptStep
<1> QED
  BY <1>1, <1>2, <1>5, <1>6, <1>7, <1>8, <1>9

\* cleanup-confirm removes a block only behind a confirmation.
LEMMA ConfirmKeeps ==
    ASSUME IInv, ConfirmStep
    PROVE  IInv'
<1> USE DEF IInv, JournalKnowsRows, RunHolds
<1>1. TypeOK'
  BY TypeOther
<1>2. /\ UNCHANGED <<lock, stage, targetVars, memoryVars, journal, bundleVars, script>>
      /\ Barred => Barred'
      /\ confirm' = "recorded" => maintenance' # {}
  BY DEF ConfirmStep, ConfirmRecord, ConfirmUnlink, ConfirmDies, Barred
<1>3. \A q \in Runs : /\ Outcomes(q)' = Outcomes(q) /\ Finished(q)' = Finished(q)
                       /\ CleanupVerified(q)' = CleanupVerified(q)
  BY <1>2 DEF Outcomes, Finished, CleanupVerified
<1>4. \A q \in Runs : CasesAreNoted(q)' /\ ResultHolds(q)' /\ MemoryIsTrue(q)'
  BY <1>2, <1>3 DEF CasesAreNoted, ResultHolds, MemoryIsTrue
<1>5. \A q \in Runs : RunFileIsTrue(q)' /\ JudgementIsTrue(q)'
  BY <1>2, <1>3 DEF RunFileIsTrue, JudgementIsTrue
<1>6. ScriptIsLate'
  BY <1>2, <1>3 DEF ScriptIsLate, TypeOK
<1> QED
  BY <1>1, <1>2, <1>4, <1>5, <1>6

\* The empty run root satisfies it.
LEMMA IInvInit == SystemInit => IInv
<1> SUFFICES ASSUME SystemInit PROVE IInv
  OBVIOUS
<1> USE DEF SystemInit, DecisionInit, RootInit, Absent, NoOutcome, NoScript
<1>1. TypeOK
  BY DEF TypeOK, Stages, Locked, Ended, Journals, Statuses
<1>2. JournalKnowsRows
  BY DEF JournalKnowsRows, Locked
<1>3. \A r \in Runs : RunHolds(r)
  BY DEF RunHolds, CasesAreNoted, ResultHolds, MemoryIsTrue, RunFileIsTrue, JudgementIsTrue,
     CleanupVerified, Finished
<1>4. ScriptIsLate /\ confirm # "recorded"
  BY DEF ScriptIsLate
<1> QED
  BY <1>1, <1>2, <1>3, <1>4 DEF IInv

\* A step of the system is one of a Run, a crash, or one beside the Runs: each
\* keeps the invariant.
LEMMA IInvNext == IInv /\ [SystemNext]_allVars => IInv'
<1> SUFFICES ASSUME IInv, [SystemNext]_allVars PROVE IInv'
  OBVIOUS
<1>1. CASE UNCHANGED allVars
  <2>1. TypeOK' /\ JournalKnowsRows' /\ ScriptIsLate' /\ (confirm' = "recorded" => maintenance' # {})
    BY <1>1 DEF IInv, TypeOK, JournalKnowsRows, ScriptIsLate, Finished, Outcomes
  <2>2. ASSUME NEW q \in Runs PROVE RunHolds(q)'
    <3>1. RunHolds(q)
      BY DEF IInv
    <3>2. /\ Outcomes(q)' = Outcomes(q) /\ Finished(q)' = Finished(q)
          /\ CleanupVerified(q)' = CleanupVerified(q) /\ Barred' = Barred
      BY <1>1 DEF Outcomes, Finished, CleanupVerified, Barred
    <3>3. CasesAreNoted(q)' /\ ResultHolds(q)' /\ MemoryIsTrue(q)'
      BY <1>1, <3>1, <3>2 DEF RunHolds, CasesAreNoted, ResultHolds, MemoryIsTrue
    <3>4. RunFileIsTrue(q)' /\ JudgementIsTrue(q)'
      BY <1>1, <3>1, <3>2 DEF RunHolds, RunFileIsTrue, JudgementIsTrue
    <3> QED
      BY <3>3, <3>4 DEF RunHolds
  <2> QED
    BY <2>1, <2>2 DEF IInv
<1> QED
  BY <1>1, RunKeeps, ScriptKeeps, ConfirmKeeps DEF SystemNext, RunStep

\* The invariant behind the properties below holds of every behaviour.
THEOREM Invariance == SystemSpec => []IInv
  BY IInvInit, IInvNext, PTL DEF SystemSpec

-----------------------------------------------------------------------------
(* Safety *)

\* Every variable keeps its type.
THEOREM TypeCorrect == SystemSpec => []TypeOK
<1>1. IInv => TypeOK
  BY DEF IInv
<1> QED
  BY <1>1, Invariance, PTL

\* Rows in the database are always named by a journal on disk, and two Runs are
\* never among their cases at once.
THEOREM JournalsKnow == SystemSpec => []JournalKnowsRows
<1>1. IInv => JournalKnowsRows
  BY DEF IInv
<1> QED
  BY <1>1, Invariance, PTL

\* A bundle that verifies tells the truth although two writers that share no lock
\* write the same three files.
THEOREM BundlesHold == SystemSpec => []VerifiedBundleHolds
<1>1. IInv => VerifiedBundleHolds
  <2> SUFFICES ASSUME IInv, NEW r \in Runs, sealed[r] # "nobody", Verifies(r, sealed[r])
               PROVE  /\ judged[r].says \in {"PASS", "FAIL"} =>
                            rows[r] = {} /\ runFile[r].says = "COMPLETED"
                      /\ judged[r].says = "PASS" => sealed[r] = "run" /\ Outcomes(r) = {"PASS"}
                      /\ sealed[r] = "script" => "FAIL" \in Outcomes(r)
    BY DEF VerifiedBundleHolds
  <2>1. RunFileIsTrue(r) /\ JudgementIsTrue(r) /\ sealed[r] \in {"nobody", "run", "script"}
    BY DEF IInv, RunHolds, TypeOK
  <2>2. runFile[r].author = sealed[r] /\ judged[r].author = sealed[r]
    BY DEF Verifies
  <2>3. CASE sealed[r] = "run"
    BY <2>1, <2>2, <2>3 DEF RunFileIsTrue, JudgementIsTrue
  <2>4. CASE sealed[r] = "script"
    BY <2>1, <2>2, <2>4 DEF RunFileIsTrue, JudgementIsTrue
  <2> QED
    BY <2>1, <2>3, <2>4
<1> QED
  BY <1>1, Invariance, PTL

\* A Run gives the lock back only behind the result of its cleanup.
LEMMA UnlockStep ==
    IInv /\ [SystemNext]_allVars =>
        [\A r \in Runs : lock = r /\ lock' # r =>
            recovery[r] # "none" \/ stage[r] = "leave-cut"]_allVars
<1> SUFFICES ASSUME IInv, SystemNext, NEW q \in Runs, lock = q, lock' # q
             PROVE  recovery[q] # "none" \/ stage[q] = "leave-cut"
  OBVIOUS
<1>1. PICK r \in Runs : DecisionStep(r) \/ Crash(r)
  BY DEF SystemNext, RunStep, ScriptStep, OpenJournal, RecoverRows, BindParent, RecoverRun,
     RecoverJudgement, RecoverSeal, ScriptEnds, ConfirmStep, ConfirmRecord, ConfirmUnlink,
     ConfirmDies
<1>2. LeaveLock(r) \/ Lock(r) \/ UNCHANGED lock
  BY <1>1 DEF DecisionStep, CheckBlock, Register, StartCase, Prepare, Observe, BreakOff,
     DeleteRows, Recount, CutCleanup, FinishCleanup, Conclude, WriteRun, WriteJudgement, Seal,
     Raise, Crash
<1>3. LeaveLock(r)
  BY <1>2 DEF Lock
<1>4. stage[r] \in {"leave-lock", "leave-cut"} /\ r = q
  BY <1>3 DEF LeaveLock, IInv, JournalKnowsRows, Locked
<1> QED
  BY <1>4 DEF IInv, RunHolds, ResultHolds

\* However the cases ended, the pair is free again only behind a result of the
\* cleanup or a cleanup that was itself cut short.
THEOREM LocksOutlive == SystemSpec => LockOutlivesCleanup
  BY Invariance, UnlockStep, PTL DEF SystemSpec, LockOutlivesCleanup

-----------------------------------------------------------------------------
(* Refinement: the sealed bundles implement the promise of FaultWindow *)

Reported(r) ==
    CASE sealed[r] # "nobody" /\ runFile[r].says = "COMPLETED"      -> "clean"
      [] sealed[r] # "nobody" /\ runFile[r].says = "RESTORE_FAILED" -> "unsafe"
      [] OTHER -> "open"

Reports == [r \in Runs |-> Reported(r)]
Occupied == {r \in Runs : rows[r] # {}}

\* Sealing a directory reports what its run.json says, and it is true.
LEMMA SealReports ==
    ASSUME IInv, NEW r \in Runs, sealed[r] = "nobody",
           UNCHANGED <<rows, block, maintenance, runFile>>,
           sealed' = [sealed EXCEPT ![r] = "run"] \/ sealed' = [sealed EXCEPT ![r] = "script"]
    PROVE  FW!FWNext \/ UNCHANGED FW!fwVars
<1> USE DEF IInv, TypeOK, RunHolds
<1>0. sealed'[r] # "nobody" /\ \A q \in Runs \ {r} : sealed'[q] = sealed[q]
  OBVIOUS
<1>1. Reports[r] = "open"
  BY DEF Reports, Reported
<1>2. PICK said \in {"open", "clean", "unsafe"} :
          /\ said = CASE runFile[r].says = "COMPLETED" -> "clean"
                      [] runFile[r].says = "RESTORE_FAILED" -> "unsafe"
                      [] OTHER -> "open"
          /\ Reports' = [Reports EXCEPT ![r] = said]
  <2>1. CASE runFile[r].says = "COMPLETED"
    <3>1. Reports' = [Reports EXCEPT ![r] = "clean"]
      BY <1>0, <2>1 DEF Reports, Reported
    <3> QED
      BY <2>1, <3>1
  <2>2. CASE runFile[r].says = "RESTORE_FAILED"
    <3>1. Reports' = [Reports EXCEPT ![r] = "unsafe"]
      BY <1>0, <2>2 DEF Reports, Reported
    <3> QED
      BY <2>2, <3>1
  <2>3. CASE runFile[r].says \notin {"COMPLETED", "RESTORE_FAILED"}
    <3>1. Reports' = [Reports EXCEPT ![r] = "open"]
      BY <2>3 DEF Reports, Reported
    <3> QED
      BY <2>3, <3>1
  <2> QED
    BY <2>1, <2>2, <2>3
<1>3. UNCHANGED <<Occupied, block, maintenance>>
  BY DEF Occupied
<1>5. CASE runFile[r].says = "COMPLETED"
  <2>1. r \notin Occupied
    BY <1>5 DEF RunFileIsTrue, Occupied
  <2>2. FW!Report(r)
    BY <1>1, <1>2, <1>3, <1>5, <2>1 DEF FW!Report, Reports, Reported, Occupied
  <2> QED
    BY <2>2 DEF FW!FWNext
<1>6. CASE runFile[r].says = "RESTORE_FAILED"
  <2>1. Blocked \/ maintenance # {}
    BY <1>6 DEF RunFileIsTrue, Barred
  <2>2. FW!Report(r)
    BY <1>1, <1>2, <1>3, <1>6, <2>1 DEF FW!Report, Reports, Reported, Occupied
  <2> QED
    BY <2>2 DEF FW!FWNext
<1>7. CASE runFile[r].says \notin {"COMPLETED", "RESTORE_FAILED"}
  BY <1>1, <1>2, <1>3, <1>7 DEF FW!fwVars, Reports, Reported, Occupied
<1> QED
  BY <1>5, <1>6, <1>7

\* A step of a Run puts rows in place before anything is sealed, takes them away
\* or bars the pair, or seals its bundle.
LEMMA RefineRun ==
    ASSUME IInv, NEW r \in Runs, DecisionStep(r) \/ Crash(r)
    PROVE  FW!FWNext \/ UNCHANGED FW!fwVars
<1> USE DEF IInv, TypeOK, RunHolds
<1>1. CASE Prepare(r)
  <2>1. UNCHANGED <<block, maintenance, runFile, sealed>>
    BY <1>1 DEF Prepare
  <2>2. Reports' = Reports
    BY <2>1 DEF Reports, Reported
  <2>3. Reports[r] = "open"
    BY <1>1 DEF Prepare, Reports, Reported, RunFileIsTrue, CasesAreNoted, Ended
  <2>4. Occupied' = Occupied \/ Occupied' = Occupied \cup {r}
    BY <1>1 DEF Prepare, Occupied
  <2>5. FW!Inject(r) \/ UNCHANGED FW!fwVars
    BY <2>1, <2>2, <2>3, <2>4 DEF FW!Inject, FW!fwVars, Reports, Reported, Occupied
  <2> QED
    BY <2>5 DEF FW!FWNext
<1>2. CASE DeleteRows(r) \/ Conclude(r)
  <2>1. UNCHANGED <<maintenance, runFile, sealed>> /\ (Blocked => Blocked')
    BY <1>2 DEF DeleteRows, Conclude
  <2>2. Reports' = Reports
    BY <2>1 DEF Reports, Reported
  <2>3. Occupied' \in {Occupied, Occupied \ {r}}
    BY <1>2 DEF DeleteRows, Conclude, Occupied
  <2>4. FW!Withdraw(r)
    BY <2>1, <2>2, <2>3 DEF FW!Withdraw, Reports, Reported, Occupied
  <2> QED
    BY <2>4 DEF FW!FWNext
<1>3. CASE WriteRun(r)
  <2>1. UNCHANGED <<rows, block, maintenance, sealed>>
    BY <1>3 DEF WriteRun
  <2>2. runFile' = runFile \/ (sealed[r] = "nobody" /\ \A q \in Runs \ {r} : runFile'[q] = runFile[q])
    BY <1>3 DEF WriteRun
  <2>3. Reports' = Reports
    BY <2>1, <2>2 DEF Reports, Reported
  <2> QED
    BY <2>1, <2>3 DEF FW!fwVars, Reports, Reported
<1>4. CASE Seal(r) /\ sealed[r] = "nobody"
  BY <1>4, SealReports DEF Seal
<1>5. CASE \/ CheckBlock(r) \/ Register(r) \/ Lock(r) \/ StartCase(r) \/ Observe(r) \/ BreakOff(r)
           \/ Recount(r) \/ CutCleanup(r) \/ FinishCleanup(r) \/ LeaveLock(r) \/ WriteJudgement(r)
           \/ (Seal(r) /\ sealed[r] # "nobody") \/ Raise(r) \/ Crash(r)
  <2>1. UNCHANGED <<rows, block, maintenance, runFile, sealed>>
    BY <1>5 DEF CheckBlock, Register, Lock, StartCase, Observe, BreakOff, Recount, CutCleanup,
       FinishCleanup, LeaveLock, WriteJudgement, Seal, Raise, Crash
  <2> QED
    BY <2>1 DEF FW!fwVars
<1> QED
  BY <1>1, <1>2, <1>3, <1>4, <1>5 DEF DecisionStep

\* A step of the script or of cleanup-confirm is one too.
LEMMA RefineOther ==
    ASSUME IInv, ScriptStep \/ ConfirmStep
    PROVE  FW!FWNext \/ UNCHANGED FW!fwVars
<1> USE DEF IInv, TypeOK
<1>1. CASE RecoverRows
  <2>1. PICK r \in Runs : r = script.run
    BY <1>1 DEF RecoverRows
  <2>2. UNCHANGED <<block, maintenance, runFile, sealed>>
    BY <1>1 DEF RecoverRows
  <2>3. Reports' = Reports
    BY <2>2 DEF Reports, Reported
  <2>4. Occupied' = Occupied \ {r}
    BY <1>1, <2>1 DEF RecoverRows, Occupied
  <2>5. FW!Withdraw(r)
    BY <2>2, <2>3, <2>4 DEF FW!Withdraw, Reports, Reported, Occupied
  <2> QED
    BY <2>5 DEF FW!FWNext
<1>2. CASE RecoverRun
  <2>1. UNCHANGED <<rows, block, maintenance, sealed>>
    BY <1>2 DEF RecoverRun
  <2>2. sealed[script.run] = "nobody"
        /\ \A q \in Runs \ {script.run} : runFile'[q] = runFile[q]
    BY <1>2 DEF RecoverRun
  <2>3. Reports' = Reports
    BY <2>1, <2>2 DEF Reports, Reported
  <2> QED
    BY <2>1, <2>3 DEF FW!fwVars, Reports, Reported
<1>3. CASE RecoverSeal
  BY <1>3, SealReports DEF RecoverSeal
<1>4. CASE ConfirmRecord
  <2>1. UNCHANGED <<rows, block, runFile, sealed>> /\ maintenance' # {} /\ Blocked
    BY <1>4 DEF ConfirmRecord
  <2> QED
    BY <2>1 DEF FW!FWNext, FW!Confirm
<1>5. CASE ConfirmUnlink
  <2>1. UNCHANGED <<rows, maintenance, runFile, sealed>> /\ maintenance # {} /\ ~Blocked'
    BY <1>5 DEF ConfirmUnlink
  <2> QED
    BY <2>1 DEF FW!FWNext, FW!Lift
<1>6. CASE OpenJournal \/ BindParent \/ RecoverJudgement \/ ScriptEnds \/ ConfirmDies
  <2>1. UNCHANGED <<rows, block, maintenance, runFile, sealed>>
    BY <1>6 DEF OpenJournal, BindParent, RecoverJudgement, ScriptEnds, ConfirmDies
  <2> QED
    BY <2>1 DEF FW!fwVars
<1> QED
  BY <1>1, <1>2, <1>3, <1>4, <1>5, <1>6 DEF ScriptStep, ConfirmStep

\* The empty run root has reported nothing.
LEMMA RefineInit == SystemInit => FW!FWInit
  BY DEF SystemInit, DecisionInit, RootInit, Absent, FW!FWInit

\* Every step of the system is a step of the promise or leaves it unchanged.
LEMMA RefineNext == IInv /\ [SystemNext]_allVars => [FW!FWNext]_(FW!fwVars)
<1> SUFFICES ASSUME IInv, [SystemNext]_allVars PROVE FW!FWNext \/ UNCHANGED FW!fwVars
  OBVIOUS
<1>1. CASE UNCHANGED allVars
  BY <1>1 DEF FW!fwVars
<1> QED
  BY <1>1, RefineRun, RefineOther DEF SystemNext, RunStep

\* Every behaviour of the Runs, the script and the operator is one the promise
\* allows.
THEOREM Implementation == SystemSpec => ImplementsFaultWindow
  BY RefineInit, RefineNext, Invariance, PTL DEF SystemSpec, ImplementsFaultWindow, FW!FWSpec
=============================================================================
