------------------------- MODULE DeliveryRunsProofs -------------------------
(***************************************************************************)
(* Proofs about DeliveryRuns, for any receive count above one, any number  *)
(* of polls and any set of outages.                                        *)
(***************************************************************************)
EXTENDS DeliveryRuns, TLAPS, FiniteSetTheorems

USE QueueAssumption

-----------------------------------------------------------------------------
(* Types *)

LEMMA NoValuesType ==
    /\ NoDecision \in Decisions /\ NoEffects \in Effects /\ LostEffects \in Effects
    /\ NoCase \in Cases
    /\ NoReport \in Snapshots /\ LostReport \in Snapshots
<1>1. NoDecision \in Decisions
  BY DEF NoDecision, Decisions
<1>2. NoEffects \in Effects /\ LostEffects \in Effects
  BY <1>1 DEF NoEffects, LostEffects, Effects
<1>3. NoCase \in Cases
  BY <1>2 DEF NoCase, Cases, Answers
<1>4. NoReport \in Snapshots /\ LostReport \in Snapshots
  BY DEF NoReport, LostReport, Snapshots
<1> QED
  BY <1>1, <1>2, <1>3, <1>4

LEMMA NoMemType == NoMem \in Memories
<1>1. <<>> \in Seq(Cases) /\ {} \in SUBSET (1..MaxReceive) /\ 0 \in 0..Polls
  OBVIOUS
<1> QED
  BY <1>1, NoValuesType DEF NoMem, Memories, Answers

LEMMA InitType == Init => TypeOK
<1> SUFFICES ASSUME Init PROVE TypeOK
  OBVIOUS
<1>1. TargetType
  <2> USE DEF Init, TargetInit
  <2>1. msg \in [Copies -> [place : Places, count : 0..MaxReceive]]
    BY DEF Places
  <2>2. db \in [reports : Nat, documents : Nat, processed : {0, 1}]
    OBVIOUS
  <2> QED
    BY <2>1, <2>2, NoValuesType DEF TargetType
<1>2. RunType
  BY NoMemType DEF Init, RunType, StagesOf, Ahead
<1> QED
  BY <1>1, <1>2 DEF TypeOK

LEMMA ProductType == TypeOK /\ Product /\ UNCHANGED published => TypeOK'
<1> SUFFICES ASSUME TypeOK, Product, UNCHANGED published PROVE TypeOK'
  OBVIOUS
<1>1. RunType'
  BY DEF TypeOK, RunType, Product, runVars, StagesOf
<1> USE DEF TypeOK, TargetType
<1>2. CASE Publish
  BY <1>1, <1>2 DEF Publish, Put, Copies, Places
<1>3. CASE Expires
  BY <1>1, <1>3 DEF Expires
<1>4. ASSUME NEW c \in Copies, GivesUp(c) PROVE TargetType'
  BY <1>4 DEF GivesUp, Put, Places
<1>5. ASSUME NEW c \in Copies, FailsBefore(c) PROVE TargetType'
  BY <1>5 DEF FailsBefore, Received, Unacknowledged, Places, Receipts
<1>6. ASSUME NEW c \in Copies, FailsAfter(c) PROVE TargetType'
  BY <1>6 DEF FailsAfter, Received, Unacknowledged, Committed, Places, Receipts
<1>7. ASSUME NEW c \in Copies, Handles(c) PROVE TargetType'
  BY <1>7 DEF Handles, Received, Put, Committed, Places, Receipts
<1>8. ASSUME NEW c \in Copies, HandlesNobody(c) PROVE TargetType'
  BY <1>8 DEF HandlesNobody, Received, Unacknowledged, Places
<1>9. ASSUME NEW c \in Copies, Reappears(c) PROVE TargetType'
  BY <1>9 DEF Reappears, Put, Places
<1> QED
  BY <1>1, <1>2, <1>3, <1>4, <1>5, <1>6, <1>7, <1>8, <1>9 DEF Product, WorkerStep

-----------------------------------------------------------------------------
(* What one step of the Run does to what it knows *)

Fields == {"tries", "half", "rows", "boundary", "attempts", "attemptsLost", "dlq", "api", "ui",
           "token", "case", "cases", "injected", "final", "ack", "restored", "redrive", "first",
           "replay", "firstEffects", "replayEffects"}

\* n is m but for some fields.
Differ(m, n, some) == n \in Memories /\ \A f \in Fields \ some : n[f] = m[f]

\* A poll counts its reads in the memory that the read has changed.
LEMMA TriesSet ==
    ASSUME NEW m \in Memories, NEW n, NEW some, Differ(m, n, some), NEW k \in 0..Polls
    PROVE  /\ Differ(m, [n EXCEPT !.tries = k], some \cup {"tries"})
           /\ \A f \in Fields \ {"tries"} : [n EXCEPT !.tries = k][f] = n[f]
<1>1. n \in Memories /\ \A f \in Fields \ some : n[f] = m[f]
  BY DEF Differ
<1>2. \A f \in Fields \ {"tries"} : [n EXCEPT !.tries = k][f] = n[f]
  BY <1>1 DEF Memories, Fields
<1>3. [n EXCEPT !.tries = k] \in Memories
  BY <1>1 DEF Memories
<1> QED
  BY <1>1, <1>2, <1>3 DEF Differ

\* The next read or the end of a poll, whose read has changed some fields.
LEMMA PollDoes ==
    ASSUME TypeOK, NEW n, NEW some, Differ(mem, n, some), "tries" \notin some,
           NEW next, NEW unfinished,
           \/ Found(next, n) \/ Again(n) \/ Deadline(next, n, unfinished)
           \/ mem.tries + 1 < Polls /\ Keep([n EXCEPT !.tries = @ + 1])
    PROVE  /\ Differ(mem, mem', some \cup {"tries"})
           /\ \A f \in Fields \ {"tries"} : mem'[f] = n[f]
<1>1. mem \in Memories /\ mem.tries \in 0..Polls /\ n.tries = mem.tries
  BY DEF TypeOK, RunType, Memories, Differ, Fields
<1>2. CASE mem' = [n EXCEPT !.tries = 0]
  <2>1. /\ Differ(mem, [n EXCEPT !.tries = 0], some \cup {"tries"})
        /\ \A f \in Fields \ {"tries"} : [n EXCEPT !.tries = 0][f] = n[f]
    <3>1. 0 \in 0..Polls
      OBVIOUS
    <3> QED
      BY <1>1, <3>1, TriesSet
  <2> QED
    BY <1>2, <2>1
<1>3. CASE mem.tries + 1 < Polls /\ mem' = [n EXCEPT !.tries = n.tries + 1]
  <2> DEFINE k == n.tries + 1
  <2>1. k \in 0..Polls
    BY <1>1, <1>3
  <2>2. mem' = [n EXCEPT !.tries = k]
    BY <1>3
  <2> HIDE DEF k
  <2>3. /\ Differ(mem, [n EXCEPT !.tries = k], some \cup {"tries"})
        /\ \A f \in Fields \ {"tries"} : [n EXCEPT !.tries = k][f] = n[f]
    BY <1>1, <2>1, TriesSet
  <2> QED
    BY <2>2, <2>3
<1> QED
  BY <1>2, <1>3 DEF Found, Again, Deadline, Keep

USE DEF Goto, Keep, Found, Again, Deadline

\* What an action leaves alone when it only reads the target.
Reads == UNCHANGED <<targetVars, profile, outage, verdict>>

LEMMA PollBoundaryDoes ==
    ASSUME TypeOK, PollBoundary
    PROVE  /\ stage = "boundary" /\ Reads
           /\ Differ(mem, mem', {"boundary", "tries"})
           /\ LET next == IF Before THEN "terminal" ELSE "injected"
                  read == BoundaryRead(IF Before THEN "before" ELSE "after")
              IN  \/ read /\ mem'.boundary = TRUE /\ stage' = next /\ late' = late
                  \/ ~read /\ mem'.boundary = mem.boundary /\ stage' = stage /\ late' = late
                  \/ /\ ~read /\ mem'.boundary = mem.boundary /\ late' = TRUE
                     /\ stage' = IF Before THEN "unwind" ELSE next
<1>1. stage = "boundary" /\ Reads
  BY DEF PollBoundary, Reads, fixed
<1>2. mem \in Memories
  BY DEF TypeOK, RunType
<1> DEFINE m == [mem EXCEPT !.boundary = TRUE]
<1>3. Differ(mem, m, {"boundary"}) /\ m.boundary = TRUE /\ Differ(mem, mem, {})
  BY <1>2 DEF Differ, Memories, Fields
<1> HIDE DEF m
<1>4. CASE BoundaryRead(IF Before THEN "before" ELSE "after")
  <2>1. Found(IF Before THEN "terminal" ELSE "injected", m)
    BY <1>4 DEF PollBoundary, m
  <2>2. /\ Differ(mem, mem', {"boundary"} \cup {"tries"})
        /\ \A f \in Fields \ {"tries"} : mem'[f] = m[f]
    BY <1>3, <2>1, PollDoes
  <2> QED
    BY <1>1, <1>3, <1>4, <2>1, <2>2 DEF Differ, Fields
<1>5. CASE ~BoundaryRead(IF Before THEN "before" ELSE "after")
  <2>1. Again(mem) \/ Deadline(IF Before THEN "unwind" ELSE "injected", mem, TRUE)
    BY <1>5 DEF PollBoundary
  <2>2. Differ(mem, mem', {} \cup {"tries"})
    BY <1>3, <2>1, PollDoes
  <2> QED
    BY <1>1, <1>5, <2>1, <2>2 DEF Differ, Fields
<1> QED
  BY <1>4, <1>5

\* In a Run with another outage, or none, the source is there.
LEMMA MayLoseType ==
    ASSUME NEW what, NEW lost \in MayLose(what)
    PROVE  lost \in BOOLEAN /\ (lost => outage = what)
<1>1. CASE lost = FALSE
  BY <1>1
<1>2. CASE lost = (outage = what)
  BY <1>2, Zenon
<1> QED
  BY <1>1, <1>2 DEF MayLose

LEMMA AttemptsType == TypeOK => Attempts \in SUBSET (1..MaxReceive)
<1> SUFFICES ASSUME TypeOK, NEW x \in receipts, x.kind = "before" PROVE x.attempt \in 1..MaxReceive
  BY DEF Attempts
<1> QED
  BY DEF TypeOK, TargetType, Receipts

LEMMA PollAttemptsDoes ==
    ASSUME TypeOK, PollAttempts
    PROVE  /\ stage = "terminal" /\ stage' = "dlq" /\ Reads /\ late' = late
           /\ Differ(mem, mem', {"attempts", "attemptsLost"})
           /\ mem'.attemptsLost \in MayLose("receipts")
           /\ mem'.attempts = IF mem'.attemptsLost THEN {} ELSE Attempts
<1>1. PICK lost \in MayLose("receipts") :
        mem' = [mem EXCEPT !.attempts = IF lost THEN {} ELSE Attempts, !.attemptsLost = lost]
  BY DEF PollAttempts
<1>2. Attempts \in SUBSET (1..MaxReceive) /\ lost \in BOOLEAN
  BY AttemptsType, MayLoseType
<1>3. mem \in Memories
  BY DEF TypeOK, RunType
<1> DEFINE read == IF lost THEN {} ELSE Attempts
<1>4. read \in SUBSET (1..MaxReceive) /\ mem' = [mem EXCEPT !.attempts = read, !.attemptsLost = lost]
  BY <1>1, <1>2
<1>5. read = IF lost THEN {} ELSE Attempts
  OBVIOUS
<1> HIDE DEF read
<1>6. /\ Differ(mem, mem', {"attempts", "attemptsLost"})
      /\ mem'.attemptsLost = lost /\ mem'.attempts = read
  BY <1>2, <1>3, <1>4 DEF Differ, Memories, Fields
<1> QED
  BY <1>1, <1>5, <1>6 DEF PollAttempts, Reads, fixed

LEMMA PollDlqDoes ==
    ASSUME TypeOK, PollDlq
    PROVE  /\ stage = "dlq" /\ Reads
           /\ Differ(mem, mem', {"dlq", "tries"})
           /\ \/ /\ stage' = AfterTerminal /\ late' = late
                 /\ \/ outage = "dlq" /\ mem'.dlq = "UNAVAILABLE"
                    \/ Dead /\ mem'.dlq = "PRESENT"
              \/ ~Dead /\ mem'.dlq = mem.dlq /\ stage' = "terminal" /\ late' = late
              \/ /\ ~Dead /\ mem'.dlq = mem.dlq /\ stage' = AfterTerminal
                 /\ late' = (late \/ InFlight)
<1>1. stage = "dlq" /\ Reads
  BY DEF PollDlq, Reads, fixed
<1>2. mem \in Memories
  BY DEF TypeOK, RunType
<1>3. PICK lost \in MayLose("dlq") :
        IF lost \/ Dead
        THEN Found(AfterTerminal, [mem EXCEPT !.dlq = IF lost THEN "UNAVAILABLE" ELSE "PRESENT"])
        ELSE \/ /\ mem.tries + 1 < Polls
                /\ Keep([mem EXCEPT !.tries = @ + 1])
                /\ Goto("terminal")
                /\ UNCHANGED late
             \/ Deadline(AfterTerminal, mem, InFlight)
  BY DEF PollDlq
<1>4. lost => outage = "dlq"
  BY <1>3, MayLoseType
<1> DEFINE m == [mem EXCEPT !.dlq = IF lost THEN "UNAVAILABLE" ELSE "PRESENT"]
<1>5. Differ(mem, m, {"dlq"}) /\ m.dlq = (IF lost THEN "UNAVAILABLE" ELSE "PRESENT")
      /\ Differ(mem, mem, {})
  BY <1>2 DEF Differ, Memories, Fields
<1> HIDE DEF m
<1>6. CASE lost \/ Dead
  <2>1. Found(AfterTerminal, m)
    BY <1>3, <1>6 DEF m
  <2>2. /\ Differ(mem, mem', {"dlq"} \cup {"tries"})
        /\ \A f \in Fields \ {"tries"} : mem'[f] = m[f]
    BY <1>5, <2>1, PollDoes
  <2>3. mem'.dlq = IF lost THEN "UNAVAILABLE" ELSE "PRESENT"
    BY <1>5, <2>2 DEF Fields
  <2> QED
    <3>1. Differ(mem, mem', {"dlq", "tries"})
      BY <2>2 DEF Differ
    <3>2. CASE lost
      BY <1>1, <1>4, <2>1, <2>3, <3>1, <3>2
    <3>3. CASE ~lost
      BY <1>1, <1>6, <2>1, <2>3, <3>1, <3>3
    <3> QED
      BY <3>2, <3>3
<1>7. CASE ~lost /\ ~Dead
  <2>1. \/ /\ mem.tries + 1 < Polls
           /\ Keep([mem EXCEPT !.tries = @ + 1])
           /\ Goto("terminal")
           /\ UNCHANGED late
        \/ Deadline(AfterTerminal, mem, InFlight)
    BY <1>3, <1>7
  <2>2. Differ(mem, mem', {} \cup {"tries"})
    BY <1>5, <2>1, PollDoes
  <2> QED
    BY <1>1, <1>7, <2>1, <2>2 DEF Differ, Fields
<1> QED
  BY <1>6, <1>7

\* A read of the effects fails, or returns what is there.
LEMMA ReportsTakenAre ==
    ASSUME TypeOK, NEW taken \in ReportsTaken
    PROVE  /\ taken \in Snapshots
           /\ (outage = "db" /\ taken = LostReport) \/ taken = ReportRows(mem.rows)
<1>1. PICK lost \in MayLose("db") : taken = IF lost THEN LostReport ELSE ReportRows(mem.rows)
  BY DEF ReportsTaken
<1>2. lost => outage = "db"
  BY <1>1, MayLoseType
<1>3. LostReport \in Snapshots
  BY NoValuesType
<1>4. ReportRows(mem.rows) \in Snapshots
  BY DEF TypeOK, TargetType, RunType, Memories, ReportRows, Snapshots
<1> QED
  BY <1>1, <1>2, <1>3, <1>4

LEMMA EffectsTakenAre ==
    ASSUME TypeOK, NEW taken \in EffectsTaken
    PROVE  /\ taken \in Effects
           /\ (outage = "db" /\ taken = LostEffects) \/ taken = DecisionRows
<1>1. PICK lost \in MayLose("db") : taken = IF lost THEN LostEffects ELSE DecisionRows
  BY DEF EffectsTaken
<1>2. lost => outage = "db"
  BY <1>1, MayLoseType
<1>3. LostEffects \in Effects
  BY NoValuesType
<1>4. DecisionRows \in Effects
  BY NoValuesType DEF TypeOK, TargetType, DecisionRows, NoEffects, Effects
<1> QED
  BY <1>1, <1>2, <1>3, <1>4

LEMMA ReadReportsDoes ==
    ASSUME TypeOK, ReadReports
    PROVE  /\ stage \in {"injected", "recovered", "final"} /\ stage' = stage /\ late' = late
           /\ Reads /\ ~mem.half
           /\ Differ(mem, mem', {"half", "rows"}) /\ mem'.half = TRUE /\ mem'.rows = db.reports
<1>1. mem \in Memories /\ db.reports \in Nat
  BY DEF TypeOK, RunType, TargetType
<1>2. Differ(mem, mem', {"half", "rows"}) /\ mem'.half = TRUE /\ mem'.rows = db.reports
  BY <1>1 DEF ReadReports, Differ, Memories, Fields
<1> QED
  BY <1>2 DEF ReadReports, Reads, fixed

LEMMA ReadInjectedDoes ==
    ASSUME TypeOK, ReadInjected
    PROVE  /\ stage = "injected" /\ stage' = (IF Before THEN "restore" ELSE "ack")
           /\ late' = late /\ Reads /\ mem.half = TRUE
           /\ Differ(mem, mem', {"injected", "half"}) /\ mem'.half = FALSE
           /\ mem'.injected \in ReportsTaken
<1>1. PICK taken \in ReportsTaken : mem' = [mem EXCEPT !.injected = taken, !.half = FALSE]
  BY DEF ReadInjected
<1>2. taken \in Snapshots /\ mem \in Memories
  BY ReportsTakenAre DEF TypeOK, RunType
<1>3. Differ(mem, mem', {"injected", "half"}) /\ mem'.half = FALSE /\ mem'.injected = taken
  BY <1>1, <1>2 DEF Differ, Memories, Fields
<1>4. mem.half = TRUE
  BY <1>2 DEF ReadInjected, Memories
<1> QED
  BY <1>1, <1>3, <1>4 DEF ReadInjected, Reads, fixed

LEMMA ReadStatusDoes ==
    ASSUME TypeOK, ReadStatus
    PROVE  /\ stage = "status" /\ late' = late /\ Reads
           /\ Differ(mem, mem', {"api", "ui"})
           /\ mem'.api = ShownByApi \/ outage = "api"
           /\ mem'.ui = ShownByPage \/ (outage = "browser" /\ mem'.ui = "unread")
           /\ stage' = "case" \/ (outage = "decision" /\ stage' = "unwind")
<1>1. PICK noApi \in MayLose("api"), noPage \in MayLose("browser"), none \in MayLose("decision") :
        /\ mem' = [mem EXCEPT !.api = IF noApi THEN "unread" ELSE ShownByApi,
                              !.ui = IF noPage THEN "unread" ELSE ShownByPage]
        /\ stage' = IF none THEN "unwind" ELSE "case"
  BY DEF ReadStatus
<1> DEFINE a == IF noApi THEN "unread" ELSE ShownByApi
           u == IF noPage THEN "unread" ELSE ShownByPage
<1>2. /\ a \in {"unread", "failed", "ready", "queued"} /\ (a = ShownByApi \/ outage = "api")
      /\ u \in {"unread", "final_failed", "ready", "queued_only"}
      /\ u = ShownByPage \/ (outage = "browser" /\ u = "unread")
  BY <1>1, MayLoseType DEF ShownByApi, ShownByPage
<1>3. mem' = [mem EXCEPT !.api = a, !.ui = u]
  BY <1>1
<1>4. stage' = "case" \/ (outage = "decision" /\ stage' = "unwind")
  BY <1>1, MayLoseType
<1> HIDE DEF a, u
<1>5. mem \in Memories
  BY DEF TypeOK, RunType
<1>6. Differ(mem, mem', {"api", "ui"}) /\ mem'.api = a /\ mem'.ui = u
  <2> DEFINE half == [mem EXCEPT !.api = a]
  <2>1. mem' = [half EXCEPT !.ui = u]
    BY <1>3, <1>5 DEF Memories
  <2>2. half \in Memories /\ half.api = a
    BY <1>2, <1>5 DEF Memories
  <2>3. \A f \in Fields \ {"api"} : half[f] = mem[f]
    BY <1>5 DEF Memories, Fields
  <2> HIDE DEF half
  <2>4. mem' \in Memories /\ mem'.ui = u
    BY <1>2, <2>1, <2>2 DEF Memories
  <2>5. \A f \in Fields \ {"ui"} : mem'[f] = half[f]
    BY <2>1, <2>2 DEF Memories, Fields
  <2> QED
    BY <2>2, <2>3, <2>4, <2>5 DEF Differ, Fields
<1> QED
  BY <1>2, <1>4, <1>6 DEF ReadStatus, Reads, fixed

LEMMA OpenCaseDoes ==
    ASSUME TypeOK, OpenCase
    PROVE  /\ stage = "case" /\ late' = late /\ Reads
           /\ \/ /\ stage' = "attempt"
                 /\ Differ(mem, mem', {"token", "case"})
                 /\ mem'.token = hiring
                 /\ mem'.case.pre \in EffectsTaken /\ mem'.case.answer = "none"
              \/ outage = "db" /\ stage' = "unwind" /\ mem' = mem
<1>1. CASE outage = "db" /\ stage' = "unwind" /\ mem' = mem
  BY <1>1 DEF OpenCase, Reads, fixed
<1>2. CASE \E taken \in EffectsTaken :
             /\ mem' = [mem EXCEPT !.token = hiring, !.case = [NoCase EXCEPT !.pre = taken]]
             /\ stage' = "attempt"
  <2>1. PICK taken \in EffectsTaken :
             /\ mem' = [mem EXCEPT !.token = hiring, !.case = [NoCase EXCEPT !.pre = taken]]
             /\ stage' = "attempt"
    BY <1>2
  <2> DEFINE new == [NoCase EXCEPT !.pre = taken]
  <2>2. new \in Cases /\ new.pre = taken /\ new.answer = "none"
    BY NoValuesType, EffectsTakenAre DEF Cases, NoCase, Answers
  <2>3. mem' = [mem EXCEPT !.token = hiring, !.case = new]
    BY <2>1
  <2> HIDE DEF new
  <2>4. mem \in Memories /\ hiring \in Decisions
    BY DEF TypeOK, RunType, TargetType
  <2>5. Differ(mem, mem', {"token", "case"}) /\ mem'.token = hiring /\ mem'.case = new
    BY <2>2, <2>3, <2>4 DEF Differ, Memories, Fields
  <2> QED
    BY <2>1, <2>2, <2>5 DEF OpenCase, Reads, fixed
<1> QED
  BY <1>1, <1>2 DEF OpenCase

\* The product's answer to a decision request is a decision.
LEMMA AnswerType ==
    ASSUME TypeOK, NEW i \in 1..3, NEW request \in {1, 2}, Attempted(Paths[i], request)
    PROVE  hiring' \in Decisions
<1>1. hiring \in Decisions
  BY DEF TypeOK, TargetType
<1>2. Paths[i] \in {Paths[j] : j \in 1..3}
  OBVIOUS
<1>3. ASSUME NEW who \in {"COMPANY_USER", "UNKNOWN"} PROVE Decided(who, Paths[i], request) \in Decisions
  <2>1. <<who, request>> \in {"COMPANY_USER", "UNKNOWN"} \X {1, 2}
    OBVIOUS
  <2>2. <<Paths[i], who, request>> \in {Paths[j] : j \in 1..3} \X {"COMPANY_USER", "UNKNOWN"} \X {1, 2}
    BY <1>2
  <2> QED
    BY <1>1, <2>1, <2>2 DEF Decided, Decisions
<1>4. [hiring EXCEPT !.stage = "final"] \in Decisions
  BY <1>1 DEF Decisions
<1> QED
  BY <1>1, <1>3, <1>4 DEF Attempted, Answer

\* What a request does to the target, when its answer may be lost.
Request(path, request, lost) ==
    /\ lost \in BOOLEAN /\ (lost => outage = "decision")
    /\ IF lost THEN Attempted(path, request) ELSE Answer(path, request)

LEMMA HeardType == ASSUME NEW lost \in BOOLEAN PROVE Heard(lost) \in Answers
BY DEF Heard, Answers

LEMMA AttemptCaseDoes ==
    ASSUME TypeOK, AttemptCase
    PROVE  /\ stage = "attempt" /\ stage' = "post" /\ late' = late
           /\ UNCHANGED <<msg, db, receipts, marker, subject, flaw, profile, outage, verdict>>
           /\ Differ(mem, mem', {"case"})
           /\ mem'.case.pre = mem.case.pre
           /\ \E lost \in BOOLEAN :
                mem'.case.answer = Heard(lost) /\ Request(Paths[Len(mem.cases) + 1], 1, lost)
<1>1. PICK lost \in MayLose("decision") :
        /\ IF lost THEN Attempted(Paths[Len(mem.cases) + 1], 1)
                   ELSE Answer(Paths[Len(mem.cases) + 1], 1)
        /\ mem' = [mem EXCEPT !.case.answer = Heard(lost)]
  BY DEF AttemptCase
<1>2. lost \in BOOLEAN /\ (lost => outage = "decision")
  BY MayLoseType
<1> DEFINE new == [mem.case EXCEPT !.answer = Heard(lost)]
<1>3. mem \in Memories /\ mem.case \in Cases
  BY DEF TypeOK, RunType, Memories
<1>4. new \in Cases /\ new.pre = mem.case.pre /\ new.answer = Heard(lost)
  BY <1>2, <1>3, HeardType DEF Cases
<1>5. mem' = [mem EXCEPT !.case = new]
  BY <1>1
<1> HIDE DEF new
<1>6. Differ(mem, mem', {"case"}) /\ mem'.case = new
  BY <1>3, <1>4, <1>5 DEF Differ, Memories, Fields
<1> QED
  BY <1>1, <1>2, <1>4, <1>6 DEF AttemptCase, fixed, Request

LEMMA ReadPostDoes ==
    ASSUME TypeOK, ReadPost
    PROVE  /\ stage = "post" /\ stage' = "reset" /\ late' = late /\ Reads
           /\ Differ(mem, mem', {"case"})
           /\ mem'.case.pre = mem.case.pre /\ mem'.case.answer = mem.case.answer
           /\ mem'.case.post \in EffectsTaken
<1>1. PICK taken \in EffectsTaken : mem' = [mem EXCEPT !.case.post = taken]
  BY DEF ReadPost
<1> DEFINE new == [mem.case EXCEPT !.post = taken]
<1>3. mem \in Memories /\ mem.case \in Cases /\ taken \in Effects
  BY EffectsTakenAre DEF TypeOK, RunType, Memories
<1>4. /\ new \in Cases /\ new.pre = mem.case.pre
      /\ new.answer = mem.case.answer /\ new.post = taken
  BY <1>3 DEF Cases
<1>5. mem' = [mem EXCEPT !.case = new]
  BY <1>1
<1> HIDE DEF new
<1>6. Differ(mem, mem', {"case"}) /\ mem'.case = new
  BY <1>3, <1>4, <1>5 DEF Differ, Memories, Fields
<1> QED
  BY <1>1, <1>4, <1>6 DEF ReadPost, Reads, fixed

LEMMA ResetCaseDoes ==
    ASSUME TypeOK, ResetCase
    PROVE  /\ stage = "reset" /\ late' = late
           /\ UNCHANGED <<msg, db, receipts, marker, subject, flaw, profile, outage, verdict>>
           /\ \/ /\ stage' = IF Len(mem.cases) = 2 THEN "restore" ELSE "case"
                 /\ hiring' \in Decisions
                 /\ mem.token = NoDecision => hiring' = NoDecision
                 /\ Differ(mem, mem', {"cases", "case", "token"})
                 /\ mem'.cases = Append(mem.cases, mem.case) /\ mem'.case = NoCase
                 /\ mem'.token = NoDecision
              \/ outage = "db" /\ stage' = "unwind" /\ mem' = mem /\ hiring' = hiring
<1>1. CASE outage = "db" /\ stage' = "unwind" /\ mem' = mem /\ hiring' = hiring
  BY <1>1 DEF ResetCase, fixed
<1>2. CASE /\ hiring' = [reviews |-> hiring.reviews \cap mem.token.reviews,
                         audits |-> hiring.audits \cap mem.token.audits,
                         stage |-> mem.token.stage]
           /\ NextCase
  <2>1. mem \in Memories /\ mem.case \in Cases /\ mem.cases \in Seq(Cases) /\ mem.token \in Decisions
        /\ hiring \in Decisions
    BY DEF TypeOK, RunType, TargetType, Memories
  <2>2. hiring' \in Decisions /\ (mem.token = NoDecision => hiring' = NoDecision)
    <3>1. hiring' = [reviews |-> hiring.reviews \cap mem.token.reviews,
                     audits |-> hiring.audits \cap mem.token.audits,
                     stage |-> mem.token.stage]
      BY <1>2
    <3>2. hiring' \in Decisions
      BY <2>1, <3>1 DEF Decisions
    <3>3. mem.token = NoDecision => hiring' = NoDecision
      BY <3>1 DEF NoDecision
    <3> QED
      BY <3>2, <3>3
  <2>3. Len(Paths) = 3 /\ Len(mem.cases) \in Nat
    <3>1. Len(mem.cases) \in Nat
      BY <2>1
    <3> QED
      BY <3>1 DEF Paths
  <2>4. stage' = IF Len(mem.cases) = 2 THEN "restore" ELSE "case"
    <3>1. Goto(IF Len(mem.cases) + 1 = Len(Paths) THEN "restore" ELSE "case")
      BY <1>2 DEF NextCase
    <3> DEFINE n == Len(mem.cases)
    <3>2. n + 1 = 3 <=> n = 2
      <4>1. n \in Nat
        BY <2>3
      <4> HIDE DEF n
      <4> QED
        BY <4>1
    <3> QED
      BY <2>3, <3>1, <3>2
  <2>5. Append(mem.cases, mem.case) \in Seq(Cases) /\ NoCase \in Cases /\ NoDecision \in Decisions
    BY <2>1, NoValuesType
  <2> DEFINE all == Append(mem.cases, mem.case)
  <2>6. mem' = [mem EXCEPT !.cases = all, !.case = NoCase, !.token = NoDecision]
    BY <1>2 DEF NextCase
  <2>7. all \in Seq(Cases)
    BY <2>5
  <2> HIDE DEF all
  <2>8. /\ Differ(mem, mem', {"cases", "case", "token"})
        /\ mem'.cases = all /\ mem'.case = NoCase /\ mem'.token = NoDecision
    BY <2>1, <2>5, <2>6, <2>7 DEF Differ, Memories, Fields
  <2> QED
    BY <2>2, <2>4, <2>8 DEF ResetCase, fixed, all
<1> QED
  BY <1>1, <1>2 DEF ResetCase

LEMMA RestoreFaultDoes ==
    ASSUME TypeOK, RestoreFault
    PROVE  /\ stage = "restore" /\ marker' = "none" /\ late' = (late \/ marker = "expired")
           /\ UNCHANGED <<msg, db, receipts, hiring, subject, flaw, profile, outage, verdict>>
           /\ Differ(mem, mem', {"restored"}) /\ mem'.restored \in {"ok", "failed"}
           /\ stage' \in {"send", "teardown"}
           /\ mem'.restored = "ok" \/ (outage = "health" /\ stage' = "teardown")
           /\ stage' = "send" =>
                Before /\ (profile = "H03_DLQ_V2" => mem.dlq = "PRESENT")
           /\ Before /\ stage' = "teardown" /\ mem'.restored = "ok" =>
                profile = "H03_DLQ_V2" /\ mem.dlq # "PRESENT"
<1>1. PICK unhealthy \in MayLose("health") :
        /\ mem' = [mem EXCEPT !.restored = IF unhealthy THEN "failed" ELSE "ok"]
        /\ stage' = IF /\ Before /\ ~unhealthy
                       /\ profile = "H03_DLQ_V2" => mem.dlq = "PRESENT"
                    THEN "send" ELSE "teardown"
  BY DEF RestoreFault
<1>2. unhealthy \in BOOLEAN /\ (unhealthy => outage = "health")
  BY MayLoseType
<1> DEFINE r == IF unhealthy THEN "failed" ELSE "ok"
<1>3. r \in {"ok", "failed"} /\ mem' = [mem EXCEPT !.restored = r] /\ (r = "ok" <=> ~unhealthy)
  BY <1>1, <1>2
<1> HIDE DEF r
<1>4. mem \in Memories
  BY DEF TypeOK, RunType
<1>5. Differ(mem, mem', {"restored"}) /\ mem'.restored = r
  BY <1>3, <1>4, SMTT(30) DEF Differ, Memories, Fields
<1>6. /\ stage = "restore" /\ marker' = "none" /\ late' = (late \/ marker = "expired")
      /\ UNCHANGED <<msg, db, receipts, hiring, subject, flaw, profile, outage, verdict>>
  BY DEF RestoreFault, fixed
<1>7. /\ stage' \in {"send", "teardown"}
      /\ stage' = "send" => Before /\ (profile = "H03_DLQ_V2" => mem.dlq = "PRESENT")
      /\ Before /\ stage' = "teardown" /\ ~unhealthy =>
           profile = "H03_DLQ_V2" /\ mem.dlq # "PRESENT"
      /\ unhealthy => stage' = "teardown"
  BY <1>1, <1>2
<1> QED
  BY <1>2, <1>3, <1>5, <1>6, <1>7

LEMMA SendAgainDoes ==
    ASSUME TypeOK, SendAgain
    PROVE  /\ stage = "send" /\ late' = late
           /\ UNCHANGED <<db, receipts, marker, hiring, subject, flaw, profile, outage, verdict>>
           /\ \/ mem.dlq # "PRESENT" /\ stage' = "unwind" /\ UNCHANGED <<msg, mem>>
              \/ /\ mem.dlq = "PRESENT" /\ stage' = "delete" /\ mem' = mem
                 /\ msg' = [msg EXCEPT !["again"] = [place |-> "ready", count |-> 0]]
              \/ /\ mem.dlq = "PRESENT" /\ outage = "send" /\ stage' = "teardown" /\ msg' = msg
                 /\ Differ(mem, mem', {"redrive"}) /\ mem'.redrive = "unsent"
<1>1. mem \in Memories
  BY DEF TypeOK, RunType
<1>2. CASE mem' = [mem EXCEPT !.redrive = "unsent"]
  <2>1. Differ(mem, mem', {"redrive"}) /\ mem'.redrive = "unsent"
    BY <1>1, <1>2 DEF Differ, Memories, Fields
  <2> QED
    BY <2>1 DEF SendAgain, fixed
<1>3. CASE mem' # [mem EXCEPT !.redrive = "unsent"]
  BY <1>3 DEF SendAgain, fixed
<1> QED
  BY <1>2, <1>3

LEMMA DeleteDeadDoes ==
    ASSUME TypeOK, DeleteDead
    PROVE  /\ stage = "delete" /\ late' = late
           /\ UNCHANGED <<db, receipts, marker, hiring, subject, flaw, profile, outage, verdict>>
           /\ Differ(mem, mem', {"redrive"})
           /\ \/ /\ msg' = [msg EXCEPT !["orig"].place = "deleted"]
                 /\ mem'.redrive = "done" /\ stage' = "recovered"
              \/ /\ outage = "delete" /\ mem'.redrive = "undeleted" /\ stage' = "teardown"
                 /\ msg' = msg \/ msg' = [msg EXCEPT !["orig"].place = "deleted"]
<1>1. mem \in Memories
  BY DEF TypeOK, RunType
<1>2. PICK r \in {"done", "undeleted"} :
        /\ mem' = [mem EXCEPT !.redrive = r]
        /\ \/ /\ msg' = [msg EXCEPT !["orig"].place = "deleted"]
              /\ r = "done" /\ stage' = "recovered"
           \/ /\ outage = "delete" /\ r = "undeleted" /\ stage' = "teardown"
              /\ msg' = msg \/ msg' = [msg EXCEPT !["orig"].place = "deleted"]
  BY DEF DeleteDead, Put
<1>3. Differ(mem, mem', {"redrive"}) /\ mem'.redrive = r
  BY <1>1, <1>2 DEF Differ, Memories, Fields
<1> QED
  BY <1>2, <1>3 DEF DeleteDead, fixed

LEMMA PollRecoveredDoes ==
    ASSUME TypeOK, PollRecovered
    PROVE  /\ stage = "recovered" /\ Reads /\ mem.half = TRUE
           /\ Differ(mem, mem', {"final", "half", "tries"}) /\ mem'.half = FALSE
           /\ mem'.final \in ReportsTaken
           /\ \/ /\ Lost(mem'.final) \/ mem'.final.reports > 0
                 /\ stage' = AfterRecovery /\ late' = late
              \/ stage' = stage /\ late' = late
              \/ stage' = AfterRecovery /\ late' = TRUE
<1>1. PICK taken \in ReportsTaken :
        LET seen == [mem EXCEPT !.final = taken, !.half = FALSE]
        IN  IF Lost(taken) \/ taken.reports > 0
            THEN Found(AfterRecovery, seen)
            ELSE Again(seen) \/ Deadline(AfterRecovery, seen, TRUE)
  BY DEF PollRecovered
<1>2. taken \in Snapshots /\ mem \in Memories
  BY ReportsTakenAre DEF TypeOK, RunType
<1> DEFINE m == [mem EXCEPT !.final = taken, !.half = FALSE]
<1>3. Differ(mem, m, {"final", "half"}) /\ m.final = taken /\ m.half = FALSE
  BY <1>2 DEF Differ, Memories, Fields
<1>4. /\ Found(AfterRecovery, m) \/ Again(m) \/ Deadline(AfterRecovery, m, TRUE)
      /\ Lost(taken) \/ taken.reports > 0 \/ Again(m) \/ Deadline(AfterRecovery, m, TRUE)
  BY <1>1
<1> HIDE DEF m
<1>5. /\ Differ(mem, mem', {"final", "half"} \cup {"tries"})
      /\ \A f \in Fields \ {"tries"} : mem'[f] = m[f]
  BY <1>3, <1>4, PollDoes DEF Fields
<1>6. mem'.final = taken /\ mem'.half = FALSE
  BY <1>3, <1>5 DEF Fields
<1>7. Differ(mem, mem', {"final", "half", "tries"})
  BY <1>5 DEF Differ
<1>8. stage = "recovered" /\ Reads /\ mem.half = TRUE
  BY <1>2 DEF PollRecovered, Reads, fixed, Memories
<1> QED
  BY <1>4, <1>6, <1>7, <1>8

LEMMA DecideDoes ==
    ASSUME TypeOK, NEW answer \in {"first", "replay"}, NEW at, NEW request, NEW next,
           Decide(at, request, answer, next)
    PROVE  /\ stage = at /\ stage' = next /\ late' = late
           /\ UNCHANGED <<msg, db, receipts, marker, subject, flaw, profile, outage, verdict>>
           /\ Differ(mem, mem', {answer})
           /\ \E lost \in BOOLEAN :
                mem'[answer] = Heard(lost) /\ Request(Paths[1], request, lost)
<1>1. PICK lost \in MayLose("decision") :
        /\ IF lost THEN Attempted(Paths[1], request) ELSE Answer(Paths[1], request)
        /\ mem' = [mem EXCEPT ![answer] = Heard(lost)]
  BY DEF Decide
<1>2. lost \in BOOLEAN /\ (lost => outage = "decision")
  BY MayLoseType
<1>3. mem \in Memories /\ Heard(lost) \in Answers
  BY <1>2, HeardType DEF TypeOK, RunType
<1> DEFINE heard == Heard(lost)
<1>4. heard \in Answers /\ mem' = [mem EXCEPT ![answer] = heard]
  BY <1>1, <1>3
<1> HIDE DEF heard
<1>5. Differ(mem, mem', {answer}) /\ mem'[answer] = heard
  <2>1. CASE answer = "first"
    BY <1>3, <1>4, <2>1 DEF Differ, Memories, Fields
  <2>2. CASE answer = "replay"
    BY <1>3, <1>4, <2>2 DEF Differ, Memories, Fields
  <2> QED
    BY <2>1, <2>2
<1> QED
  BY <1>1, <1>2, <1>5 DEF Decide, fixed, Request, heard

LEMMA ReadDecisionDoes ==
    ASSUME TypeOK, NEW effects \in {"firstEffects", "replayEffects"}, NEW at, NEW next,
           ReadDecision(at, effects, next)
    PROVE  /\ stage = at /\ stage' = next /\ late' = late /\ Reads
           /\ Differ(mem, mem', {effects}) /\ mem'[effects] \in EffectsTaken
<1>1. PICK taken \in EffectsTaken : mem' = [mem EXCEPT ![effects] = taken]
  BY DEF ReadDecision
<1>2. mem \in Memories /\ taken \in Effects
  BY EffectsTakenAre DEF TypeOK, RunType
<1>3. Differ(mem, mem', {effects}) /\ mem'[effects] = taken
  <2>1. CASE effects = "firstEffects"
    BY <1>1, <1>2, <2>1 DEF Differ, Memories, Fields
  <2>2. CASE effects = "replayEffects"
    BY <1>1, <1>2, <2>2 DEF Differ, Memories, Fields
  <2> QED
    BY <2>1, <2>2
<1> QED
  BY <1>3 DEF ReadDecision, Reads, fixed

LEMMA PollAckDoes ==
    ASSUME TypeOK, PollAck
    PROVE  /\ stage = "ack" /\ Reads
           /\ Differ(mem, mem', {"ack", "tries"})
           /\ \/ AckRead /\ mem'.ack = "read" /\ stage' = "final" /\ late' = late
              \/ ~AckRead /\ mem'.ack = mem.ack /\ stage' = stage /\ late' = late
              \/ /\ ~AckRead /\ mem'.ack = mem.ack /\ stage' = "final"
                 /\ late' = (late \/ InFlight)
<1>1. stage = "ack" /\ Reads
  BY DEF PollAck, Reads, fixed
<1>2. mem \in Memories
  BY DEF TypeOK, RunType
<1> DEFINE m == [mem EXCEPT !.ack = "read"]
<1>3. Differ(mem, m, {"ack"}) /\ m.ack = "read" /\ Differ(mem, mem, {})
  BY <1>2 DEF Differ, Memories, Fields
<1> HIDE DEF m
<1>4. CASE AckRead
  <2>1. Found("final", m)
    BY <1>4 DEF PollAck, m
  <2>2. /\ Differ(mem, mem', {"ack"} \cup {"tries"})
        /\ \A f \in Fields \ {"tries"} : mem'[f] = m[f]
    BY <1>3, <2>1, PollDoes
  <2> QED
    BY <1>1, <1>3, <1>4, <2>1, <2>2 DEF Differ, Fields
<1>5. CASE ~AckRead
  <2>1. Again(mem) \/ Deadline("final", mem, InFlight)
    BY <1>5 DEF PollAck
  <2>2. Differ(mem, mem', {} \cup {"tries"})
    BY <1>3, <2>1, PollDoes
  <2> QED
    BY <1>1, <1>5, <2>1, <2>2 DEF Differ, Fields
<1> QED
  BY <1>4, <1>5

LEMMA ReadFinalDoes ==
    ASSUME TypeOK, ReadFinal
    PROVE  /\ stage = "final" /\ stage' = "restore" /\ late' = late /\ Reads /\ mem.half = TRUE
           /\ Differ(mem, mem', {"final", "half", "dlq"}) /\ mem'.half = FALSE
           /\ mem'.final \in ReportsTaken
           /\ \/ outage = "dlq" /\ mem'.dlq = "UNAVAILABLE"
              \/ mem'.dlq = IF Dead THEN "PRESENT" ELSE "ABSENT"
<1>1. PICK taken \in ReportsTaken, lost \in MayLose("dlq") :
        mem' = [mem EXCEPT !.final = taken, !.half = FALSE,
                           !.dlq = CASE lost -> "UNAVAILABLE"
                                     [] ~lost /\ Dead -> "PRESENT"
                                     [] OTHER -> "ABSENT"]
  BY DEF ReadFinal
<1>2. taken \in Snapshots /\ mem \in Memories /\ lost \in BOOLEAN /\ (lost => outage = "dlq")
  BY ReportsTakenAre, MayLoseType DEF TypeOK, RunType
<1> DEFINE d == CASE lost -> "UNAVAILABLE" [] ~lost /\ Dead -> "PRESENT" [] OTHER -> "ABSENT"
<1>3. /\ d \in {"ABSENT", "PRESENT", "UNAVAILABLE"}
      /\ (outage = "dlq" /\ d = "UNAVAILABLE") \/ d = IF Dead THEN "PRESENT" ELSE "ABSENT"
  BY <1>2
<1>4. mem' = [mem EXCEPT !.final = taken, !.half = FALSE, !.dlq = d]
  BY <1>1
<1> HIDE DEF d
<1>5. /\ Differ(mem, mem', {"final", "half", "dlq"})
      /\ mem'.half = FALSE /\ mem'.final = taken /\ mem'.dlq = d
  BY <1>2, <1>3, <1>4 DEF Differ, Memories, Fields
<1>6. mem.half = TRUE
  BY <1>2 DEF ReadFinal, Memories
<1> QED
  BY <1>1, <1>3, <1>5, <1>6 DEF ReadFinal, Reads, fixed

-----------------------------------------------------------------------------
(* A step keeps the types *)

\* The stages that an action leads to are stages of the Run's profile.
LEMMA NextStage ==
    ASSUME TypeOK, CasesHold, RunStep
    PROVE  stage' \in StagesOf
<1> USE DEF TypeOK, RunType, StagesOf, Ahead, Deciding, Attempting, Settled, Broken,
            Profiles, Before, AfterTerminal, AfterRecovery
<1>1. CASE Seed \/ ApplyFault \/ Trigger \/ LoseReceipts \/ JudgeRecovery
  BY <1>1 DEF Seed, ApplyFault, Trigger, LoseReceipts, JudgeRecovery
<1>2. CASE PollBoundary
  BY <1>2, PollBoundaryDoes
<1>3. CASE PollAttempts \/ PollDlq
  BY <1>3, PollAttemptsDoes, PollDlqDoes
<1>4. CASE ReadReports \/ ReadInjected
  BY <1>4, ReadReportsDoes, ReadInjectedDoes
<1>5. CASE ReadStatus \/ OpenCase
  BY <1>5, ReadStatusDoes, OpenCaseDoes
<1>6. CASE AttemptCase \/ ReadPost
  BY <1>6, AttemptCaseDoes, ReadPostDoes
<1>7. CASE ResetCase
  <2>1. stage = "reset" /\ stage' \in {"restore", "case", "unwind"}
    BY <1>7, ResetCaseDoes
  <2> QED
    BY <2>1
<1>8. CASE RestoreFault
  BY <1>8, RestoreFaultDoes
<1>9. CASE SendAgain \/ DeleteDead
  BY <1>9, SendAgainDoes, DeleteDeadDoes
<1>10. CASE PollRecovered
  BY <1>10, PollRecoveredDoes
<1>11. CASE DecideFirst \/ DecideAgain
  BY <1>11 DEF DecideFirst, DecideAgain, Decide
<1>12. CASE ReadFirst \/ ReadReplay
  BY <1>12 DEF ReadFirst, ReadReplay, ReadDecision
<1>13. CASE PollAck \/ ReadFinal
  BY <1>13, PollAckDoes, ReadFinalDoes
<1>14. CASE Unwind \/ Teardown \/ Seal
  BY <1>14 DEF Unwind, Teardown, Seal
<1> QED
  BY <1>1, <1>2, <1>3, <1>4, <1>5, <1>6, <1>7, <1>8, <1>9, <1>10, <1>11, <1>12, <1>13, <1>14
     DEF RunStep

\* What no action but the last changes of a Run.
LEMMA RunFixed ==
    ASSUME TypeOK, RunStep
    PROVE  /\ UNCHANGED <<profile, outage, flaw>>
           /\ late' \in BOOLEAN /\ (late => late')
           /\ ~Seal => UNCHANGED verdict
<1> USE DEF TypeOK, RunType
<1>1. CASE Seed \/ ApplyFault \/ Trigger \/ LoseReceipts \/ JudgeRecovery
  BY <1>1 DEF Seed, ApplyFault, Trigger, LoseReceipts, JudgeRecovery, fixed, targetVars
<1>2. CASE PollBoundary
  BY <1>2 DEF PollBoundary, fixed, targetVars
<1>3. CASE PollAttempts \/ PollDlq
  BY <1>3, PollAttemptsDoes, PollDlqDoes DEF Reads, targetVars
<1>4. CASE ReadReports \/ ReadInjected \/ ReadStatus \/ OpenCase \/ ReadPost
  BY <1>4 DEF ReadReports, ReadInjected, ReadStatus, OpenCase, ReadPost, fixed, targetVars
<1>5. CASE AttemptCase \/ ResetCase \/ RestoreFault \/ SendAgain \/ DeleteDead
  BY <1>5, RestoreFaultDoes DEF AttemptCase, ResetCase, SendAgain, DeleteDead, fixed, targetVars
<1>6. CASE PollRecovered \/ PollAck \/ ReadFinal
  BY <1>6, PollRecoveredDoes, PollAckDoes, ReadFinalDoes DEF Reads, targetVars
<1>7. CASE DecideFirst \/ DecideAgain \/ ReadFirst \/ ReadReplay
  BY <1>7 DEF DecideFirst, DecideAgain, ReadFirst, ReadReplay, Decide, ReadDecision, fixed, targetVars
<1>8. CASE Unwind \/ Teardown \/ Seal
  BY <1>8 DEF Unwind, Teardown, Seal, fixed, targetVars
<1> QED
  BY <1>1, <1>2, <1>3, <1>4, <1>5, <1>6, <1>7, <1>8 DEF RunStep

LEMMA VerdictType ==
    ASSUME NEW results, NEW safe \in BOOLEAN
    PROVE  Verdict(results, safe) \in {"PASS", "FAIL"} \cup Reasons
BY DEF Verdict, Unless, Reasons

LEMMA NextMemory ==
    ASSUME TypeOK, RunStep
    PROVE  mem' \in Memories
<1>1. mem \in Memories
  BY DEF TypeOK, RunType
<1>2. CASE Seed \/ ApplyFault \/ Trigger \/ LoseReceipts \/ JudgeRecovery \/ Unwind \/ Teardown \/ Seal
  BY <1>1, <1>2 DEF Seed, ApplyFault, Trigger, LoseReceipts, JudgeRecovery, Unwind, Teardown, Seal
<1> USE DEF Differ
<1>3. CASE PollBoundary \/ PollAttempts \/ PollDlq
  BY <1>3, PollBoundaryDoes, PollAttemptsDoes, PollDlqDoes
<1>4. CASE ReadReports \/ ReadInjected \/ ReadStatus \/ OpenCase \/ ReadPost
  BY <1>1, <1>4, ReadReportsDoes, ReadInjectedDoes, ReadStatusDoes, OpenCaseDoes, ReadPostDoes
<1>5. CASE AttemptCase \/ ResetCase \/ RestoreFault \/ SendAgain \/ DeleteDead
  BY <1>1, <1>5, AttemptCaseDoes, ResetCaseDoes, RestoreFaultDoes, SendAgainDoes, DeleteDeadDoes
<1>6. CASE PollRecovered \/ PollAck \/ ReadFinal
  BY <1>6, PollRecoveredDoes, PollAckDoes, ReadFinalDoes
<1>7. CASE DecideFirst \/ DecideAgain
  BY <1>7, DecideDoes DEF DecideFirst, DecideAgain
<1>8. CASE ReadFirst \/ ReadReplay
  BY <1>8, ReadDecisionDoes DEF ReadFirst, ReadReplay
<1> QED
  BY <1>2, <1>3, <1>4, <1>5, <1>6, <1>7, <1>8 DEF RunStep

\* The actions of a Run that change the target.
Acts == \/ Seed \/ ApplyFault \/ Trigger \/ AttemptCase \/ ResetCase \/ RestoreFault
        \/ SendAgain \/ DeleteDead \/ DecideFirst \/ DecideAgain \/ Unwind \/ Teardown

LEMMA OthersRead ==
    ASSUME TypeOK, RunStep, ~Acts
    PROVE  UNCHANGED targetVars
<1>1. CASE LoseReceipts \/ JudgeRecovery \/ Seal \/ ReadFirst \/ ReadReplay
  BY <1>1 DEF LoseReceipts, JudgeRecovery, Seal, ReadFirst, ReadReplay, ReadDecision
<1>2. CASE PollBoundary \/ PollAttempts \/ PollDlq
  BY <1>2 DEF PollBoundary, PollAttempts, PollDlq
<1>3. CASE ReadReports \/ ReadInjected \/ ReadStatus \/ OpenCase \/ ReadPost
  BY <1>3 DEF ReadReports, ReadInjected, ReadStatus, OpenCase, ReadPost
<1>4. CASE PollRecovered \/ PollAck \/ ReadFinal
  BY <1>4 DEF PollRecovered, PollAck, ReadFinal
<1> QED
  BY <1>1, <1>2, <1>3, <1>4 DEF RunStep, Acts

LEMMA RequestType ==
    ASSUME TypeOK, NEW i \in 1..3, NEW request \in {1, 2}, NEW lost, Request(Paths[i], request, lost)
    PROVE  hiring' \in Decisions
<1>1. Attempted(Paths[i], request)
  BY DEF Request, Attempted
<1> QED
  BY <1>1, AnswerType

LEMMA NextTarget ==
    ASSUME TypeOK, CasesHold, RunStep, UNCHANGED published
    PROVE  TargetType'
<1>1. TargetType /\ flaw' = flaw
  BY RunFixed DEF TypeOK
<1>2. CASE ~Acts
  BY <1>1, <1>2, OthersRead DEF TargetType, targetVars
<1>3. CASE Seed \/ ApplyFault \/ Unwind \/ Teardown \/ RestoreFault
  BY <1>1, <1>3 DEF Seed, ApplyFault, Unwind, Teardown, RestoreFault, TargetType
<1>4. CASE Trigger
  BY <1>1, <1>4 DEF Trigger, Put, TargetType, Copies, Places
<1>5. CASE SendAgain
  BY <1>1, <1>5 DEF SendAgain, TargetType, Copies, Places
<1>6. CASE DeleteDead
  BY <1>1, <1>6 DEF DeleteDead, Put, TargetType, Copies, Places
<1>7. CASE AttemptCase
  <2>1. Len(mem.cases) + 1 \in 1..3
    <3>1. stage = "attempt"
      BY <1>7 DEF AttemptCase
    <3> DEFINE n == Len(mem.cases)
    <3>2. n \in 0..2
      BY <3>1 DEF CasesHold, Attempting
    <3> HIDE DEF n
    <3>3. n + 1 \in 1..3
      BY <3>2
    <3> QED
      BY <3>3 DEF n
  <2>2. hiring' \in Decisions
    BY <1>7, <2>1, AttemptCaseDoes, RequestType
  <2> QED
    BY <1>1, <1>7, <2>2 DEF AttemptCase, TargetType
<1>8. CASE ResetCase
  <2>1. hiring' \in Decisions
    BY <1>1, <1>8, ResetCaseDoes DEF TargetType
  <2> QED
    BY <1>1, <1>8, <2>1 DEF ResetCase, TargetType
<1>9. CASE DecideFirst \/ DecideAgain
  <2>1. hiring' \in Decisions
    BY <1>9, DecideDoes, RequestType DEF DecideFirst, DecideAgain
  <2> QED
    BY <1>1, <1>9, <2>1 DEF DecideFirst, DecideAgain, Decide, TargetType
<1> QED
  BY <1>2, <1>3, <1>4, <1>5, <1>6, <1>7, <1>8, <1>9 DEF Acts

LEMMA RunStepType ==
    ASSUME TypeOK, CasesHold, RunStep, UNCHANGED published
    PROVE  TypeOK'
<1>1. stage' \in StagesOf /\ mem' \in Memories /\ TargetType'
  BY NextStage, NextMemory, NextTarget
<1>2. UNCHANGED <<profile, outage>> /\ late' \in BOOLEAN
  BY RunFixed
<1>3. StagesOf' = StagesOf
  BY <1>2 DEF StagesOf
<1>4. verdict' \in {"none", "PASS", "FAIL"} \cup Reasons
  <2>1. CASE Seal
    <3>1. RestoredSafely(mem) \in BOOLEAN
      BY DEF RestoredSafely
    <3>2. Verdict(Assertions(profile, mem), RestoredSafely(mem)) \in {"PASS", "FAIL"} \cup Reasons
      BY <3>1, VerdictType
    <3> QED
      BY <2>1, <3>2 DEF Seal
  <2>2. CASE ~Seal
    BY <2>2, RunFixed DEF TypeOK, RunType
  <2> QED
    BY <2>1, <2>2
<1> QED
  BY <1>1, <1>2, <1>3, <1>4 DEF TypeOK, RunType

-----------------------------------------------------------------------------
(* Which stage a Run changes what at, and where it goes on *)

\* What a step leaves as it is, by the stage it is taken at.
Keeps ==
    /\ UNCHANGED <<profile, outage, db, receipts, flaw>>
    /\ stage \notin {"trigger", "send", "delete"} => UNCHANGED msg
    /\ stage \notin {"apply", "restore", "unwind"} => UNCHANGED marker
    /\ stage \notin {"attempt", "reset", "decide", "replay"} => UNCHANGED hiring
    /\ stage \notin {"seed", "teardown"} => UNCHANGED subject
    /\ stage \notin {"boundary", "dlq", "restore", "recovered", "ack"} => UNCHANGED late
    /\ stage # "seal" => UNCHANGED verdict

Remembers ==
    /\ stage # "boundary" => mem'.boundary = mem.boundary
    /\ stage # "terminal" =>
         mem'.attempts = mem.attempts /\ mem'.attemptsLost = mem.attemptsLost
    /\ stage \notin {"dlq", "final"} => mem'.dlq = mem.dlq
    /\ stage # "status" => mem'.api = mem.api /\ mem'.ui = mem.ui
    /\ stage \notin {"case", "reset"} => mem'.token = mem.token
    /\ stage \notin Attempting => mem'.case = mem.case
    /\ stage # "reset" => mem'.cases = mem.cases
    /\ stage # "injected" => mem'.injected = mem.injected
    /\ stage \notin {"recovered", "final"} => mem'.final = mem.final
    /\ stage # "ack" => mem'.ack = mem.ack
    /\ stage # "restore" => mem'.restored = mem.restored
    /\ stage \notin {"send", "delete"} => mem'.redrive = mem.redrive
    /\ stage # "decide" => mem'.first = mem.first
    /\ stage # "decided" => mem'.firstEffects = mem.firstEffects
    /\ stage # "replay" => mem'.replay = mem.replay
    /\ stage # "replayed" => mem'.replayEffects = mem.replayEffects
    /\ stage \notin {"injected", "recovered", "final"} =>
         mem'.half = mem.half /\ mem'.rows = mem.rows

LEMMA StepKeeps == ASSUME TypeOK, RunStep PROVE Keeps
<1>1. CASE Seed \/ ApplyFault \/ Trigger \/ LoseReceipts \/ JudgeRecovery \/ Unwind \/ Teardown \/ Seal
  BY <1>1 DEF Seed, ApplyFault, Trigger, LoseReceipts, JudgeRecovery, Unwind, Teardown, Seal,
              fixed, targetVars, Keeps
<1>2. CASE PollBoundary \/ PollAttempts \/ PollDlq
  BY <1>2, PollBoundaryDoes, PollAttemptsDoes, PollDlqDoes DEF Reads, targetVars, Keeps
<1>3. CASE ReadReports \/ ReadInjected \/ ReadStatus \/ OpenCase \/ ReadPost
  BY <1>3, ReadReportsDoes, ReadInjectedDoes, ReadStatusDoes, OpenCaseDoes, ReadPostDoes
     DEF Reads, targetVars, Keeps
<1>4. CASE AttemptCase \/ ResetCase \/ RestoreFault \/ SendAgain \/ DeleteDead
  BY <1>4, AttemptCaseDoes, ResetCaseDoes, RestoreFaultDoes, SendAgainDoes, DeleteDeadDoes DEF Keeps
<1>5. CASE PollRecovered \/ PollAck \/ ReadFinal
  BY <1>5, PollRecoveredDoes, PollAckDoes, ReadFinalDoes DEF Reads, targetVars, Keeps
<1>6. CASE DecideFirst \/ DecideAgain
  BY <1>6, DecideDoes DEF DecideFirst, DecideAgain, Keeps
<1>7. CASE ReadFirst \/ ReadReplay
  BY <1>7, ReadDecisionDoes DEF ReadFirst, ReadReplay, Reads, targetVars, Keeps
<1> QED
  BY <1>1, <1>2, <1>3, <1>4, <1>5, <1>6, <1>7 DEF RunStep

LEMMA StepRemembers == ASSUME TypeOK, RunStep PROVE Remembers
<1> USE DEF Differ, Fields, Remembers, Attempting
<1>1. CASE Seed \/ ApplyFault \/ Trigger \/ LoseReceipts \/ JudgeRecovery \/ Unwind \/ Teardown \/ Seal
  BY <1>1 DEF Seed, ApplyFault, Trigger, LoseReceipts, JudgeRecovery, Unwind, Teardown, Seal
<1>2. CASE PollBoundary \/ PollAttempts \/ PollDlq
  BY <1>2, PollBoundaryDoes, PollAttemptsDoes, PollDlqDoes
<1>3. CASE ReadReports \/ ReadInjected \/ ReadStatus
  BY <1>3, ReadReportsDoes, ReadInjectedDoes, ReadStatusDoes
<1>4. CASE OpenCase \/ ReadPost
  BY <1>4, OpenCaseDoes, ReadPostDoes
<1>5. CASE AttemptCase \/ ResetCase
  BY <1>5, AttemptCaseDoes, ResetCaseDoes
<1>6. CASE RestoreFault \/ SendAgain \/ DeleteDead
  BY <1>6, RestoreFaultDoes, SendAgainDoes, DeleteDeadDoes
<1>7. CASE PollRecovered \/ PollAck \/ ReadFinal
  BY <1>7, PollRecoveredDoes, PollAckDoes, ReadFinalDoes
<1>8. CASE DecideFirst \/ DecideAgain
  BY <1>8, DecideDoes DEF DecideFirst, DecideAgain
<1>9. CASE ReadFirst \/ ReadReplay
  BY <1>9, ReadDecisionDoes DEF ReadFirst, ReadReplay
<1> QED
  BY <1>1, <1>2, <1>3, <1>4, <1>5, <1>6, <1>7, <1>8, <1>9 DEF RunStep

\* The order of the stages.
Moves ==
    \/ stage = "seed" /\ stage' = "apply"
    \/ stage = "apply" /\ stage' = "trigger"
    \/ stage = "trigger" /\ stage' \in {"boundary", "unwind"}
    \/ stage = "boundary" /\ stage' = "unwind"
    \/ stage = "boundary" /\ Before /\ stage' \in {"boundary", "terminal"}
    \/ stage = "boundary" /\ ~Before /\ stage' \in {"boundary", "injected"}
    \/ stage = "terminal" /\ stage' = "dlq"
    \/ stage = "dlq" /\ stage' \in {"terminal", AfterTerminal}
    \/ stage = "injected" /\ stage' \in {"injected", IF Before THEN "restore" ELSE "ack"}
    \/ stage = "status" /\ stage' \in {"case", "unwind"}
    \/ stage = "case" /\ stage' \in {"attempt", "unwind"}
    \/ stage = "attempt" /\ stage' = "post"
    \/ stage = "post" /\ stage' = "reset"
    \/ stage = "reset" /\ stage' \in {"case", "restore", "unwind"}
    \/ stage = "restore" /\ stage' = "teardown"
    \/ stage = "restore" /\ Before /\ stage' = "send"
    \/ stage = "send" /\ stage' \in {"delete", "teardown", "unwind"}
    \/ stage = "delete" /\ stage' \in {"recovered", "teardown"}
    \/ stage = "recovered" /\ stage' \in {"recovered", AfterRecovery}
    \/ stage = "judge" /\ stage' \in {"decide", "teardown", "unwind"}
    \/ stage = "decide" /\ stage' = "decided"
    \/ stage = "decided" /\ stage' = "replay"
    \/ stage = "replay" /\ stage' = "replayed"
    \/ stage = "replayed" /\ stage' = "teardown"
    \/ stage = "ack" /\ stage' \in {"ack", "final", "unwind"}
    \/ stage = "final" /\ stage' \in {"final", "restore"}
    \/ stage = "teardown" /\ stage' \in {"seal", "raised"}
    \/ stage = "seal" /\ stage' = "sealed"
    \/ stage = "unwind" /\ stage' = "raised"

LEMMA StepMoves == ASSUME TypeOK, RunStep PROVE Moves
<1> USE DEF Moves
<1>1. CASE Seed \/ ApplyFault \/ Trigger \/ LoseReceipts \/ JudgeRecovery
  BY <1>1 DEF Seed, ApplyFault, Trigger, LoseReceipts, JudgeRecovery
<1>2. CASE Unwind \/ Teardown \/ Seal
  BY <1>2 DEF Unwind, Teardown, Seal
<1>3. CASE PollBoundary \/ PollAttempts \/ PollDlq
  BY <1>3, PollBoundaryDoes, PollAttemptsDoes, PollDlqDoes
<1>4. CASE ReadReports \/ ReadInjected \/ ReadStatus \/ OpenCase \/ ReadPost
  BY <1>4, ReadReportsDoes, ReadInjectedDoes, ReadStatusDoes, OpenCaseDoes, ReadPostDoes
<1>5. CASE AttemptCase \/ ResetCase
  BY <1>5, AttemptCaseDoes, ResetCaseDoes
<1>6. CASE RestoreFault \/ SendAgain \/ DeleteDead
  BY <1>6, RestoreFaultDoes, SendAgainDoes, DeleteDeadDoes
<1>7. CASE PollRecovered \/ PollAck \/ ReadFinal
  BY <1>7, PollRecoveredDoes, PollAckDoes, ReadFinalDoes
<1>8. CASE DecideFirst \/ DecideAgain \/ ReadFirst \/ ReadReplay
  BY <1>8, DecideDoes, ReadDecisionDoes DEF DecideFirst, DecideAgain, ReadFirst, ReadReplay
<1> QED
  BY <1>1, <1>2, <1>3, <1>4, <1>5, <1>6, <1>7, <1>8 DEF RunStep

LEMMA BeforeKept == ASSUME UNCHANGED profile PROVE Before' = Before
BY DEF Before

\* The actions that change the target are taken at a stage of their own.
LEMMA StepStage ==
    ASSUME TypeOK, RunStep
    PROVE  /\ stage = "seed" => Seed
           /\ stage = "apply" => ApplyFault
           /\ stage = "trigger" => Trigger
           /\ stage = "attempt" => AttemptCase
           /\ stage = "reset" => ResetCase
           /\ stage = "restore" => RestoreFault
           /\ stage = "send" => SendAgain
           /\ stage = "delete" => DeleteDead
           /\ stage = "decide" => DecideFirst
           /\ stage = "replay" => DecideAgain
           /\ stage = "unwind" => Unwind
           /\ stage = "teardown" => Teardown
           /\ stage = "seal" => Seal
           /\ stage = "boundary" => PollBoundary \/ LoseReceipts
           /\ stage = "terminal" => PollAttempts
           /\ stage = "dlq" => PollDlq
           /\ stage = "injected" => ReadReports \/ ReadInjected
           /\ stage = "status" => ReadStatus
           /\ stage = "case" => OpenCase
           /\ stage = "post" => ReadPost
           /\ stage = "recovered" => ReadReports \/ PollRecovered
           /\ stage = "judge" => JudgeRecovery
           /\ stage = "decided" => ReadFirst
           /\ stage = "replayed" => ReadReplay
           /\ stage = "ack" => PollAck \/ LoseReceipts
           /\ stage = "final" => ReadReports \/ ReadFinal
<1>1. /\ Seed => stage = "seed"
      /\ ApplyFault => stage = "apply"
      /\ Trigger => stage = "trigger"
      /\ PollBoundary => stage = "boundary"
      /\ LoseReceipts => stage \in {"boundary", "ack"}
      /\ PollAttempts => stage = "terminal"
      /\ PollDlq => stage = "dlq"
      /\ ReadReports => stage \in {"injected", "recovered", "final"}
      /\ ReadInjected => stage = "injected"
      /\ ReadStatus => stage = "status"
      /\ OpenCase => stage = "case"
      /\ AttemptCase => stage = "attempt"
      /\ ReadPost => stage = "post"
      /\ ResetCase => stage = "reset"
  BY DEF Seed, ApplyFault, Trigger, PollBoundary, LoseReceipts, PollAttempts, PollDlq, ReadReports,
         ReadInjected, ReadStatus, OpenCase, AttemptCase, ReadPost, ResetCase
<1>2. /\ RestoreFault => stage = "restore"
      /\ SendAgain => stage = "send"
      /\ DeleteDead => stage = "delete"
      /\ PollRecovered => stage = "recovered"
      /\ JudgeRecovery => stage = "judge"
      /\ DecideFirst => stage = "decide"
      /\ ReadFirst => stage = "decided"
      /\ DecideAgain => stage = "replay"
      /\ ReadReplay => stage = "replayed"
      /\ PollAck => stage = "ack"
      /\ ReadFinal => stage = "final"
      /\ Unwind => stage = "unwind"
      /\ Teardown => stage = "teardown"
      /\ Seal => stage = "seal"
  BY DEF RestoreFault, SendAgain, DeleteDead, PollRecovered, JudgeRecovery, DecideFirst, Decide,
         ReadFirst, ReadDecision, DecideAgain, ReadReplay, PollAck, ReadFinal, Unwind, Teardown, Seal
<1> QED
  BY <1>1, <1>2 DEF RunStep

-----------------------------------------------------------------------------
(* The fault *)

LEMMA MarkerInit == Init => MarkerHolds
BY DEF Init, TargetInit, NoMem, MarkerHolds, Unfaulted, Redriven, Deciding, Settled, Broken

LEMMA MarkerProduct ==
    ASSUME MarkerHolds, Product
    PROVE  MarkerHolds'
<1>1. /\ UNCHANGED <<stage, mem, subject, profile>>
      /\ \/ marker' = marker
         \/ marker = "after" /\ marker' = "spent"
         \/ marker \in {"before", "after"} /\ marker' = "expired"
  BY DEF Product, runVars, WorkerStep, Publish, Expires, GivesUp, FailsBefore, FailsAfter,
         Handles, HandlesNobody, Reappears
<1> QED
  BY <1>1 DEF MarkerHolds, Before, Profiles

LEMMA MarkerRun ==
    ASSUME TypeOK, MarkerHolds, RunStep
    PROVE  MarkerHolds'
<1> USE DEF MarkerHolds, Unfaulted, Redriven, Deciding, Settled, Broken, Attempting, Ahead
<1>1. Keeps /\ Moves /\ Before' = Before /\ mem'.restored \in {"none", "ok", "failed"}
  BY StepKeeps, StepMoves, NextMemory, BeforeKept DEF Keeps, Memories
<1>2. stage # "restore" => mem'.restored = mem.restored
  BY StepRemembers DEF Remembers
<1>3. CASE Seed \/ ApplyFault
  BY <1>1, <1>2, <1>3 DEF Seed, ApplyFault
<1>4. CASE RestoreFault
  BY <1>1, <1>4, RestoreFaultDoes
<1>5. CASE Unwind \/ Teardown
  BY <1>1, <1>2, <1>5 DEF Unwind, Teardown
<1>6. CASE stage \notin {"seed", "apply", "restore", "unwind", "teardown"}
  <2>1. UNCHANGED <<marker, subject>> /\ mem'.restored = mem.restored
    BY <1>1, <1>2, <1>6 DEF Keeps
  <2> QED
    BY <1>1, <1>6, <2>1 DEF Moves, AfterTerminal, AfterRecovery
<1>7. stage \in {"seed", "apply", "restore", "unwind", "teardown"} =>
        Seed \/ ApplyFault \/ RestoreFault \/ Unwind \/ Teardown
  BY StepStage
<1> QED
  BY <1>3, <1>4, <1>5, <1>6, <1>7

-----------------------------------------------------------------------------
(* The copies of the message *)

\* What one step of the queue or the worker does to the two copies.
LEMMA CopyMoves ==
    ASSUME TypeOK, NEW c \in Copies, NEW where, NEW count,
           msg' = [msg EXCEPT ![c] = [place |-> where, count |-> count]]
    PROVE  /\ c = "orig" => orig'.place = where /\ orig'.count = count /\ again' = again
           /\ c = "again" => again'.place = where /\ again'.count = count /\ orig' = orig
BY DEF TypeOK, TargetType, Copies, orig, again

LEMMA CopyPut ==
    ASSUME TypeOK, NEW c \in Copies, NEW where, Put(c, where)
    PROVE  /\ c = "orig" => orig'.place = where /\ orig'.count = orig.count /\ again' = again
           /\ c = "again" => again'.place = where /\ again'.count = again.count /\ orig' = orig
BY DEF TypeOK, TargetType, Copies, orig, again, Put

LEMMA CopyTypes ==
    ASSUME TypeOK
    PROVE  /\ orig.place \in Places /\ orig.count \in 0..MaxReceive
           /\ again.place \in Places /\ again.count \in 0..MaxReceive
BY DEF TypeOK, TargetType, Copies, orig, again

\* The step of one copy: mine is its copy, other the other one.
Step(mine, newMine) ==
    \/ /\ mine.place = "ready" /\ mine.count = MaxReceive
       /\ newMine.place = (IF flaw = "drops" THEN "dropped" ELSE "dlq") /\ newMine.count = mine.count
       /\ UNCHANGED <<db, receipts, marker>>
    \/ /\ mine.place = "ready" /\ mine.count < MaxReceive /\ marker = "before"
       /\ newMine.place = "hidden" /\ newMine.count = mine.count + 1
       /\ receipts' = receipts \cup {[kind |-> "before", attempt |-> mine.count + 1]}
       /\ db' = IF flaw = "early" /\ db.reports = 0 THEN [db EXCEPT !.reports = 1] ELSE db
       /\ UNCHANGED marker
    \/ /\ mine.place = "ready" /\ mine.count < MaxReceive /\ marker = "after"
       /\ newMine.place = "hidden" /\ newMine.count = mine.count + 1
       /\ receipts' = receipts \cup {[kind |-> "after", attempt |-> mine.count + 1]}
       /\ db' = Committed /\ marker' = "spent"
    \/ /\ mine.place = "ready" /\ mine.count < MaxReceive /\ marker \notin {"before", "after"}
       /\ subject
       /\ newMine.place = "done" /\ newMine.count = mine.count
       /\ \/ /\ db.processed = 1 /\ flaw # "repeats" /\ db' = db
             /\ receipts' = IF marker = "spent"
                            THEN receipts \cup {[kind |-> "ack", attempt |-> mine.count + 1]}
                            ELSE receipts
          \/ ~(db.processed = 1 /\ flaw # "repeats") /\ db' = Committed /\ receipts' = receipts
       /\ UNCHANGED marker
    \/ /\ mine.place = "ready" /\ mine.count < MaxReceive /\ marker \notin {"before", "after"}
       /\ ~subject
       /\ newMine.place = "hidden" /\ newMine.count = mine.count + 1
       /\ UNCHANGED <<db, receipts, marker>>
    \/ /\ mine.place = "hidden" /\ newMine.place = "ready" /\ newMine.count = mine.count
       /\ UNCHANGED <<db, receipts, marker>>

LEMMA ProductDoes ==
    ASSUME TypeOK, Product
    PROVE  /\ UNCHANGED <<hiring, subject, flaw, profile, outage, stage, mem, late, verdict>>
           /\ \/ /\ orig.place = "outbox" /\ orig'.place = "ready" /\ orig'.count = orig.count
                 /\ UNCHANGED <<again, db, receipts, marker>>
              \/ /\ marker \in {"before", "after"} /\ marker' = "expired"
                 /\ UNCHANGED <<orig, again, db, receipts>>
              \/ Step(orig, orig') /\ again' = again
              \/ Step(again, again') /\ orig' = orig
<1>1. UNCHANGED <<hiring, subject, flaw, profile, outage, stage, mem, late, verdict>>
  BY DEF Product, WorkerStep, runVars, Publish, Expires, GivesUp, FailsBefore, FailsAfter, Handles,
         HandlesNobody, Reappears
<1>2. CASE Publish
  <2>1. Put("orig", "ready")
    BY <1>2 DEF Publish
  <2>2. orig'.place = "ready" /\ orig'.count = orig.count /\ again' = again
    BY <2>1, CopyPut DEF Copies
  <2> QED
    BY <1>1, <1>2, <2>2 DEF Publish, orig
<1>3. CASE Expires
  BY <1>1, <1>3 DEF Expires, orig, again
<1>4. ASSUME NEW c \in Copies,
             GivesUp(c) \/ FailsBefore(c) \/ FailsAfter(c) \/ Handles(c) \/ HandlesNobody(c)
               \/ Reappears(c)
      PROVE  (Step(orig, orig') /\ again' = again) \/ (Step(again, again') /\ orig' = orig)
  <2> DEFINE mine == msg[c]
             lone(x, y) == c = "orig" /\ orig'.place = x /\ orig'.count = y /\ again' = again
             twin(x, y) == c = "again" /\ again'.place = x /\ again'.count = y /\ orig' = orig
  <2>1. c = "orig" \/ c = "again"
    BY DEF Copies
  <2>2. (c = "orig" => msg[c] = orig) /\ (c = "again" => msg[c] = again)
    BY DEF orig, again
  <2>3. ASSUME Unacknowledged(c)
        PROVE  lone("hidden", orig.count + 1) \/ twin("hidden", again.count + 1)
    <3>1. msg' = [msg EXCEPT ![c] = [place |-> "hidden", count |-> msg[c].count + 1]]
      BY <2>3 DEF Unacknowledged
    <3> QED
      BY <2>1, <2>2, <3>1, CopyMoves
  <2>4. ASSUME NEW where, Put(c, where)
        PROVE  lone(where, orig.count) \/ twin(where, again.count)
    BY <2>1, <2>4, CopyPut
  <2>5. CASE GivesUp(c)
    <3>1. Put(c, IF flaw = "drops" THEN "dropped" ELSE "dlq")
      BY <2>5 DEF GivesUp
    <3>2. \/ lone(IF flaw = "drops" THEN "dropped" ELSE "dlq", orig.count)
          \/ twin(IF flaw = "drops" THEN "dropped" ELSE "dlq", again.count)
      BY <2>4, <3>1
    <3> QED
      BY <2>2, <2>5, <3>2 DEF GivesUp, Step
  <2>6. CASE FailsBefore(c)
    <3>1. lone("hidden", orig.count + 1) \/ twin("hidden", again.count + 1)
      BY <2>3, <2>6 DEF FailsBefore
    <3> QED
      BY <2>2, <2>6, <3>1 DEF FailsBefore, Received, Step
  <2>7. CASE FailsAfter(c)
    <3>1. lone("hidden", orig.count + 1) \/ twin("hidden", again.count + 1)
      BY <2>3, <2>7 DEF FailsAfter
    <3> QED
      BY <2>2, <2>7, <3>1 DEF FailsAfter, Received, Step
  <2>8. CASE Handles(c)
    <3>1. lone("done", orig.count) \/ twin("done", again.count)
      BY <2>4, <2>8 DEF Handles
    <3> QED
      BY <2>2, <2>8, <3>1 DEF Handles, Received, Step
  <2>9. CASE HandlesNobody(c)
    <3>1. lone("hidden", orig.count + 1) \/ twin("hidden", again.count + 1)
      BY <2>3, <2>9 DEF HandlesNobody
    <3> QED
      BY <2>2, <2>9, <3>1 DEF HandlesNobody, Received, Step
  <2>10. CASE Reappears(c)
    <3>1. lone("ready", orig.count) \/ twin("ready", again.count)
      BY <2>4, <2>10 DEF Reappears
    <3> QED
      BY <2>2, <2>10, <3>1 DEF Reappears, Step
  <2> QED
    BY <1>4, <2>5, <2>6, <2>7, <2>8, <2>9, <2>10
<1> QED
  BY <1>1, <1>2, <1>3, <1>4 DEF Product, WorkerStep

LEMMA CopiesInit == Init => CopiesHold
<1> SUFFICES ASSUME Init PROVE CopiesHold
  OBVIOUS
<1>1. orig = [place |-> "none", count |-> 0] /\ again = [place |-> "none", count |-> 0]
  BY DEF Init, TargetInit, Copies, orig, again
<1>2. db = NoRows /\ receipts = {} /\ stage = "seed" /\ mem.dlq = "ABSENT" /\ mem.redrive = "none"
  BY DEF Init, TargetInit, NoRows, NoMem
<1> QED
  BY <1>1, <1>2 DEF CopiesHold, Redriven, Deciding

LEMMA CopiesProduct ==
    ASSUME TypeOK, MarkerHolds, CopiesHold, Product
    PROVE  CopiesHold'
<1>1. /\ UNCHANGED <<hiring, subject, flaw, profile, outage, stage, mem, late, verdict>>
      /\ \/ /\ orig.place = "outbox" /\ orig'.place = "ready" /\ orig'.count = orig.count
            /\ UNCHANGED <<again, db, receipts, marker>>
         \/ /\ marker \in {"before", "after"} /\ marker' = "expired"
            /\ UNCHANGED <<orig, again, db, receipts>>
         \/ Step(orig, orig') /\ again' = again
         \/ Step(again, again') /\ orig' = orig
  BY ProductDoes
<1>2. Before' = Before /\ subject \in BOOLEAN
  BY <1>1, BeforeKept DEF TypeOK, TargetType
<1>3. again.place # "none" => marker = "none"
  BY DEF CopiesHold, MarkerHolds
<1>4. /\ orig.place \in Places /\ orig.count \in 0..MaxReceive
      /\ again.place \in Places /\ again.count \in 0..MaxReceive
  BY CopyTypes
<1>5. CASE Step(orig, orig') /\ again' = again
  <2>1. /\ orig.place \in {"ready", "hidden"}
        /\ orig'.place \in {"ready", "hidden", "done", "dlq", "dropped"}
        /\ orig'.place \in {"dlq", "dropped"} =>
             orig'.count = MaxReceive /\ orig'.place = IF flaw = "drops" THEN "dropped" ELSE "dlq"
    BY <1>5 DEF Step
  <2> QED
    BY <1>1, <1>2, <1>5, <2>1 DEF CopiesHold
<1>6. CASE Step(again, again') /\ orig' = orig
  <2>1. again.place \in {"ready", "hidden"}
    BY <1>6 DEF Step
  <2>2. marker = "none" /\ mem.dlq = "PRESENT" /\ flaw # "drops" /\ orig.place # "none"
        /\ (subject => again.count = 0 /\ again.place = "ready")
    BY <1>3, <2>1 DEF CopiesHold
  <2>3. /\ again'.place \in {"ready", "hidden", "dlq", "done"}
        /\ subject => again'.place = "done" /\ again'.count = 0
    BY <1>4, <1>6, <2>2 DEF Step
  <2> QED
    BY <1>1, <1>2, <1>6, <2>1, <2>2, <2>3 DEF CopiesHold
<1>7. CASE UNCHANGED <<again, db, receipts, marker>> /\ orig.place = "outbox" /\ orig'.place = "ready"
           /\ orig'.count = orig.count
  BY <1>1, <1>2, <1>7 DEF CopiesHold
<1>8. CASE UNCHANGED <<orig, again, db, receipts>>
  BY <1>1, <1>2, <1>8 DEF CopiesHold
<1> QED
  BY <1>1, <1>5, <1>6, <1>7, <1>8

LEMMA CopiesRun ==
    ASSUME TypeOK, MarkerHolds, CopiesHold, RunStep
    PROVE  CopiesHold'
<1>1. Keeps /\ Moves /\ Remembers /\ Before' = Before
  BY StepKeeps, StepMoves, StepRemembers, BeforeKept DEF Keeps
<1>2. /\ orig.place \in Places /\ orig.count \in 0..MaxReceive
      /\ again.place \in Places /\ again.count \in 0..MaxReceive
  BY CopyTypes
<1> USE DEF CopiesHold, Redriven, Deciding, Settled, Broken
<1>3. CASE stage \notin {"trigger", "send", "delete", "dlq", "final", "restore"}
  <2>1. orig' = orig /\ again' = again /\ mem'.dlq = mem.dlq /\ mem'.redrive = mem.redrive
        /\ mem'.restored = mem.restored /\ UNCHANGED <<db, receipts, flaw>>
    BY <1>1, <1>3 DEF Keeps, Remembers, orig, again
  <2>2. subject' => subject \/ stage = "seed"
    <3>1. CASE stage = "teardown"
      BY <3>1, StepStage DEF Teardown
    <3>2. CASE stage # "teardown"
      BY <1>1, <3>2 DEF Keeps
    <3> QED
      BY <3>1, <3>2
  <2>3. /\ stage' \in {"seed", "apply", "trigger"} => stage \in {"seed", "apply"}
        /\ stage' \notin Redriven \cup Settled \cup Broken =>
             stage \notin Redriven \cup Settled \cup Broken
        /\ stage' \in Redriven => stage \in Redriven
        /\ stage' \notin {"send", "delete"}
    BY <1>1, <1>3 DEF Moves, AfterTerminal, AfterRecovery
  <2>4. stage = "seed" => again.place = "none"
    <3>1. stage = "seed" => ~subject /\ mem.restored = "none"
      BY DEF MarkerHolds, Unfaulted
    <3> QED
      BY <3>1
  <2> QED
    BY <1>1, <2>1, <2>2, <2>3, <2>4
<1>4. CASE stage = "trigger"
  <2>1. Trigger
    BY <1>4, StepStage
  <2>2. UNCHANGED <<db, receipts, subject, flaw, mem>> /\ stage' \in {"boundary", "unwind"}
    BY <2>1 DEF Trigger
  <2>3. again' = again /\ orig'.count = orig.count /\ orig'.place \in {"none", "outbox"}
    <3>1. CASE msg' = msg
      BY <1>4, <3>1 DEF orig, again
    <3>2. CASE Put("orig", "outbox")
      BY <3>2, CopyPut DEF Copies
    <3> QED
      BY <2>1, <3>1, <3>2 DEF Trigger
  <2> QED
    BY <1>1, <1>4, <2>2, <2>3
<1>5. CASE stage = "send"
  <2>1. /\ UNCHANGED <<db, receipts, subject, flaw>>
        /\ \/ mem.dlq # "PRESENT" /\ stage' = "unwind" /\ UNCHANGED <<msg, mem>>
           \/ /\ mem.dlq = "PRESENT" /\ stage' = "delete" /\ mem' = mem
              /\ msg' = [msg EXCEPT !["again"] = [place |-> "ready", count |-> 0]]
           \/ /\ mem.dlq = "PRESENT" /\ outage = "send" /\ stage' = "teardown" /\ msg' = msg
              /\ Differ(mem, mem', {"redrive"}) /\ mem'.redrive = "unsent"
    BY <1>5, StepStage, SendAgainDoes
  <2>2. CASE msg' = msg /\ stage' \in {"unwind", "teardown"} /\ mem'.dlq = mem.dlq
             /\ mem'.restored = mem.restored /\ mem'.redrive \in {mem.redrive, "unsent"}
    <3>1. orig' = orig /\ again' = again
      BY <2>2 DEF orig, again
    <3> QED
      BY <1>1, <1>5, <2>1, <2>2, <3>1
  <2>3. CASE /\ mem.dlq = "PRESENT" /\ stage' = "delete" /\ mem' = mem
             /\ msg' = [msg EXCEPT !["again"] = [place |-> "ready", count |-> 0]]
    <3>1. orig' = orig /\ again'.place = "ready" /\ again'.count = 0
      BY <2>3, CopyMoves DEF Copies
    <3>2. Before /\ mem.restored # "none"
      BY <1>5 DEF TypeOK, RunType, StagesOf, Before, Profiles, Ahead, MarkerHolds, Unfaulted
    <3> QED
      BY <1>1, <1>5, <2>1, <2>3, <3>1, <3>2
  <2> QED
    BY <2>1, <2>2, <2>3 DEF Differ, Fields
<1>6. CASE stage = "delete"
  <2>1. /\ UNCHANGED <<db, receipts, subject, flaw>>
        /\ Differ(mem, mem', {"redrive"})
        /\ \/ /\ msg' = [msg EXCEPT !["orig"].place = "deleted"]
              /\ mem'.redrive = "done" /\ stage' = "recovered"
           \/ /\ outage = "delete" /\ mem'.redrive = "undeleted" /\ stage' = "teardown"
              /\ msg' = msg \/ msg' = [msg EXCEPT !["orig"].place = "deleted"]
    BY <1>6, StepStage, DeleteDeadDoes
  <2>2. mem'.dlq = mem.dlq /\ mem'.restored = mem.restored
    BY <2>1 DEF Differ, Fields
  <2>3. CASE msg' = msg
    <3>1. orig' = orig /\ again' = again
      BY <2>3 DEF orig, again
    <3>2. orig.place # "deleted" /\ mem.redrive = "none"
      BY <1>6
    <3>3. mem'.redrive = "undeleted" /\ stage' = "teardown"
      <4>1. msg' = [msg EXCEPT !["orig"].place = "deleted"] => orig'.place = "deleted"
        BY CopyPut DEF Put, Copies
      <4> QED
        BY <2>1, <3>1, <3>2, <4>1
    <3> QED
      BY <1>1, <1>6, <2>1, <2>2, <3>1, <3>2, <3>3
  <2>4. CASE msg' = [msg EXCEPT !["orig"].place = "deleted"]
    <3>1. orig'.place = "deleted" /\ orig'.count = orig.count /\ again' = again
      BY <2>4, CopyPut DEF Put, Copies
    <3>2. /\ mem.dlq = "PRESENT" /\ Before /\ flaw # "drops" /\ orig.place = "dlq"
          /\ mem.redrive = "none"
      BY <1>6
    <3>3. mem'.redrive \in {"done", "undeleted"} /\ stage' \in {"recovered", "teardown"}
          /\ (stage' = "recovered" => mem'.redrive = "done")
      BY <2>1
    <3> QED
      BY <1>1, <1>6, <2>1, <2>2, <3>1, <3>2, <3>3
  <2> QED
    BY <2>1, <2>3, <2>4
<1>7. CASE stage \in {"dlq", "final"}
  <2>1. orig' = orig /\ again' = again /\ mem'.redrive = mem.redrive
        /\ mem'.restored = mem.restored /\ UNCHANGED <<db, receipts, flaw, subject>>
    BY <1>1, <1>7 DEF Keeps, Remembers, orig, again
  <2>2. again.place = "none"
    BY <1>7 DEF MarkerHolds, Unfaulted
  <2>3. mem'.dlq = "PRESENT" => orig.place \in {"dlq", "deleted"}
    <3>1. mem'.dlq = "PRESENT" => mem.dlq = "PRESENT" \/ Dead
      <4>1. CASE PollDlq
        BY <4>1, PollDlqDoes
      <4>2. CASE ReadFinal
        BY <4>2, ReadFinalDoes
      <4>3. CASE ReadReports
        BY <4>3, ReadReportsDoes DEF Differ, Fields
      <4> QED
        BY <1>7, <4>1, <4>2, <4>3, StepStage
    <3>2. Dead => orig.place = "dlq"
      BY <2>2 DEF Dead, In, Copies, orig, again
    <3> QED
      BY <3>1, <3>2
  <2>4. stage' \notin {"seed", "apply", "trigger", "send", "delete"} \cup Redriven \cup Settled \cup Broken
    BY <1>1, <1>7 DEF Moves, AfterTerminal
  <2> QED
    BY <1>1, <1>7, <2>1, <2>2, <2>3, <2>4
<1>8. CASE stage = "restore"
  <2>1. orig' = orig /\ again' = again /\ mem'.redrive = mem.redrive /\ mem'.dlq = mem.dlq
        /\ UNCHANGED <<db, receipts, flaw, subject>>
    BY <1>1, <1>8 DEF Keeps, Remembers, orig, again
  <2>2. again.place = "none"
    BY <1>8 DEF MarkerHolds, Unfaulted
  <2>3. stage' \in {"send", "teardown"}
    BY <1>1, <1>8 DEF Moves
  <2> QED
    BY <1>1, <1>8, <2>1, <2>2, <2>3
<1> QED
  BY <1>3, <1>4, <1>5, <1>6, <1>7, <1>8

-----------------------------------------------------------------------------
(* The effects of a delivery *)

\* A BEFORE receipt adds its attempt, no other receipt does.
LEMMA AttemptsGrow ==
    /\ UNCHANGED receipts => Attempts' = Attempts
    /\ \A n : receipts' = receipts \cup {[kind |-> "before", attempt |-> n]} =>
                Attempts' = Attempts \cup {n}
<1>1. UNCHANGED receipts => Attempts' = Attempts
  BY DEF Attempts
<1>2. ASSUME NEW n, receipts' = receipts \cup {[kind |-> "before", attempt |-> n]}
      PROVE  Attempts' = Attempts \cup {n}
  <2> DEFINE new == [kind |-> "before", attempt |-> n]
  <2>1. new.kind = "before" /\ new.attempt = n /\ receipts' = receipts \cup {new}
    BY <1>2
  <2> HIDE DEF new
  <2>2. ASSUME NEW a PROVE a \in Attempts' <=> a \in Attempts \/ a = n
    BY <2>1 DEF Attempts
  <2> QED
    BY <2>2
<1> QED
  BY <1>1, <1>2

\* No step of a Run counts a delivery or handles a copy.
LEMMA RunCopies ==
    ASSUME TypeOK, CopiesHold, RunStep
    PROVE  /\ orig'.count = orig.count
           /\ orig'.place = "done" <=> orig.place = "done"
           /\ again'.place = "done" <=> again.place = "done"
<1>1. CASE stage \notin {"trigger", "send", "delete"}
  BY <1>1, StepKeeps DEF Keeps, orig, again
<1>2. CASE stage = "trigger"
  <2>1. msg' = msg \/ Put("orig", "outbox")
    BY <1>2, StepStage DEF Trigger
  <2>2. orig.place = "none"
    BY <1>2 DEF CopiesHold
  <2> QED
    BY <2>1, <2>2, CopyPut DEF orig, again, Copies
<1>3. CASE stage = "send"
  <2>1. msg' = msg \/ msg' = [msg EXCEPT !["again"] = [place |-> "ready", count |-> 0]]
    BY <1>3, StepStage, SendAgainDoes
  <2>2. again.place = "none"
    BY <1>3 DEF CopiesHold
  <2> QED
    BY <2>1, <2>2, CopyMoves DEF orig, again, Copies
<1>4. CASE stage = "delete"
  <2>1. msg' = msg \/ Put("orig", "deleted")
    BY <1>4, StepStage DEF DeleteDead
  <2>2. orig.place \in {"dlq", "deleted"}
    BY <1>4 DEF CopiesHold
  <2> QED
    BY <2>1, <2>2, CopyPut DEF orig, again, Copies
<1> QED
  BY <1>1, <1>2, <1>3, <1>4

LEMMA BeforeInit == Init => BeforeHolds
<1> SUFFICES ASSUME Init PROVE BeforeHolds
  OBVIOUS
<1>1. orig = [place |-> "none", count |-> 0] /\ again = [place |-> "none", count |-> 0]
  BY DEF Init, TargetInit, Copies, orig, again
<1>2. Attempts = {} /\ db = NoRows
  BY DEF Init, TargetInit, Attempts, NoRows
<1> QED
  BY <1>1, <1>2 DEF BeforeHolds, NoRows

LEMMA CommittedAre ==
    ASSUME TypeOK
    PROVE  /\ Committed.reports = db.reports + 1 /\ Committed.processed = 1
           /\ Committed.documents = IF flaw = "partial" THEN db.documents ELSE db.documents + 1
BY DEF Committed, TypeOK, TargetType

LEMMA BeforeProduct ==
    ASSUME TypeOK, MarkerHolds, CopiesHold, BeforeHolds, Product
    PROVE  BeforeHolds'
<1>1. /\ UNCHANGED <<hiring, subject, flaw, profile, outage, stage, mem, late, verdict>>
      /\ \/ /\ orig.place = "outbox" /\ orig'.place = "ready" /\ orig'.count = orig.count
            /\ UNCHANGED <<again, db, receipts, marker>>
         \/ /\ marker \in {"before", "after"} /\ marker' = "expired"
            /\ UNCHANGED <<orig, again, db, receipts>>
         \/ Step(orig, orig') /\ again' = again
         \/ Step(again, again') /\ orig' = orig
  BY ProductDoes
<1>2. Before' = Before
  BY <1>1, BeforeKept
<1> SUFFICES ASSUME Before PROVE BeforeHolds'
  BY <1>2 DEF BeforeHolds
<1>3. marker \in {"none", "before", "expired"}
  BY DEF MarkerHolds
<1>4. /\ orig.place \in Places /\ orig.count \in 0..MaxReceive
      /\ again.place \in Places /\ again.count \in 0..MaxReceive
      /\ db.reports \in Nat /\ db.documents \in Nat /\ db.processed \in {0, 1}
  BY CopyTypes DEF TypeOK, TargetType
<1>5. again.place # "none" => marker = "none" /\ orig.place \in {"dlq", "deleted"}
  BY DEF CopiesHold, MarkerHolds
<1>6. CASE Step(orig, orig') /\ again' = again
  <2>1. orig.place \in {"ready", "hidden"} /\ again.place = "none"
    BY <1>5, <1>6 DEF Step
  <2>2. CASE marker = "before" /\ orig'.count = orig.count + 1
             /\ orig'.place = "hidden"
             /\ receipts' = receipts \cup {[kind |-> "before", attempt |-> orig.count + 1]}
             /\ db' = IF flaw = "early" /\ db.reports = 0 THEN [db EXCEPT !.reports = 1] ELSE db
    <3>1. Attempts' = Attempts \cup {orig.count + 1}
      BY <2>2, AttemptsGrow
    <3>2. (1..orig.count) \cup {orig.count + 1} = 1..(orig.count + 1)
      BY <1>4
    <3>3. /\ db'.processed = db.processed /\ db'.documents = db.documents
          /\ flaw # "early" => db'.reports = db.reports
          /\ flaw = "early" => db'.reports > 0
      BY <1>4, <2>2 DEF TypeOK, TargetType
    <3> QED
      BY <1>1, <1>2, <1>6, <2>1, <2>2, <3>1, <3>2, <3>3 DEF BeforeHolds
  <2>3. CASE UNCHANGED <<db, receipts>> /\ orig'.place # "done"
             /\ (subject => orig'.count = orig.count)
    BY <1>1, <1>2, <1>6, <2>1, <2>3, AttemptsGrow DEF BeforeHolds
  <2>4. CASE orig'.place = "done" /\ orig'.count = orig.count /\ receipts' = receipts /\ db' = Committed
    BY <1>1, <1>2, <1>4, <1>6, <2>1, <2>4, AttemptsGrow, CommittedAre DEF BeforeHolds
  <2>5. db.processed = 0
    BY <2>1 DEF BeforeHolds
  <2> QED
    BY <1>3, <1>6, <2>2, <2>3, <2>4, <2>5 DEF Step
<1>7. CASE Step(again, again') /\ orig' = orig
  <2>1. again.place \in {"ready", "hidden"} /\ orig.place # "done" /\ marker = "none"
    BY <1>5, <1>7 DEF Step
  <2>2. CASE UNCHANGED <<db, receipts>> /\ again'.place # "done"
    BY <1>1, <1>2, <1>7, <2>1, <2>2, AttemptsGrow DEF BeforeHolds
  <2>3. CASE again'.place = "done" /\ receipts' = receipts /\ db' = Committed
    BY <1>1, <1>2, <1>4, <1>7, <2>1, <2>3, AttemptsGrow, CommittedAre DEF BeforeHolds
  <2>4. db.processed = 0
    BY <2>1 DEF BeforeHolds
  <2> QED
    BY <1>7, <2>1, <2>2, <2>3, <2>4 DEF Step
<1>8. CASE UNCHANGED <<again, db, receipts, marker>> /\ orig.place = "outbox" /\ orig'.place = "ready"
           /\ orig'.count = orig.count
  BY <1>1, <1>2, <1>8, AttemptsGrow DEF BeforeHolds
<1>9. CASE UNCHANGED <<orig, again, db, receipts>>
  BY <1>1, <1>2, <1>9, AttemptsGrow DEF BeforeHolds
<1> QED
  BY <1>1, <1>6, <1>7, <1>8, <1>9

LEMMA BeforeRun ==
    ASSUME TypeOK, MarkerHolds, CopiesHold, BeforeHolds, RunStep
    PROVE  BeforeHolds'
<1>1. Keeps /\ Before' = Before
  BY StepKeeps, BeforeKept DEF Keeps
<1>2. UNCHANGED <<db, receipts, flaw>> /\ Attempts' = Attempts
  BY <1>1, AttemptsGrow DEF Keeps
<1>3. subject' => subject \/ stage = "seed"
  <2>1. CASE stage = "teardown"
    BY <2>1, StepStage DEF Teardown
  <2>2. CASE stage # "teardown"
    BY <1>1, <2>2 DEF Keeps
  <2> QED
    BY <2>1, <2>2
<1>4. stage = "seed" => Attempts = 1..orig.count
  <2>1. stage = "seed" => orig.count = 0 /\ Attempts = {}
    BY DEF CopiesHold, Attempts
  <2> QED
    BY <2>1
<1> QED
  BY <1>1, <1>2, <1>3, <1>4, RunCopies DEF BeforeHolds

LEMMA AfterInit == Init => AfterHolds
<1> SUFFICES ASSUME Init PROVE AfterHolds
  OBVIOUS
<1>1. marker = "none" /\ receipts = {}
  BY DEF Init, TargetInit
<1> QED
  BY <1>1 DEF AfterHolds, AckRead

\* An acknowledgement is read as long as the receipt file keeps it.
LEMMA AckStays ==
    /\ UNCHANGED receipts => (AckRead' <=> AckRead)
    /\ receipts = {} => ~AckRead
    /\ receipts \subseteq receipts' => (AckRead => AckRead')
BY DEF AckRead

LEMMA AfterProduct ==
    ASSUME TypeOK, MarkerHolds, CopiesHold, AfterHolds, Product
    PROVE  AfterHolds'
<1>1. /\ UNCHANGED <<hiring, subject, flaw, profile, outage, stage, mem, late, verdict>>
      /\ \/ /\ orig.place = "outbox" /\ orig'.place = "ready" /\ orig'.count = orig.count
            /\ UNCHANGED <<again, db, receipts, marker>>
         \/ /\ marker \in {"before", "after"} /\ marker' = "expired"
            /\ UNCHANGED <<orig, again, db, receipts>>
         \/ Step(orig, orig') /\ again' = again
         \/ Step(again, again') /\ orig' = orig
  BY ProductDoes
<1>2. Before' = Before
  BY <1>1, BeforeKept
<1> SUFFICES ASSUME ~Before PROVE AfterHolds'
  BY <1>2 DEF AfterHolds
<1>3. marker \in {"none", "after", "spent", "expired"} /\ again.place = "none" /\ subject \in BOOLEAN
      /\ (marker # "none" => subject)
  BY DEF MarkerHolds, CopiesHold, TypeOK, TargetType
<1>4. orig.place \in Places /\ orig.count \in 0..MaxReceive
  BY CopyTypes
<1>5. CASE Step(orig, orig') /\ again' = again
  <2>1. orig.place \in {"ready", "hidden"}
    BY <1>5 DEF Step
  <2>2. ~AckRead
    BY <2>1 DEF AfterHolds
  <2>3. CASE marker = "after" /\ orig'.place = "hidden" /\ orig'.count = orig.count + 1
             /\ receipts' = receipts \cup {[kind |-> "after", attempt |-> orig.count + 1]}
             /\ db' = Committed /\ marker' = "spent"
    <3>1. receipts = {} /\ db = NoRows /\ orig.count = 0
      BY <2>3 DEF AfterHolds
    <3>2. receipts' = {FirstReceipt}
      BY <2>3, <3>1 DEF FirstReceipt
    <3>3. ~AckRead'
      BY <3>2 DEF AckRead, FirstReceipt
    <3>4. /\ db'.reports = 1 /\ db'.processed = 1
          /\ db'.documents = IF flaw = "partial" THEN 0 ELSE 1
      BY <2>3, <3>1, CommittedAre DEF NoRows
    <3> QED
      BY <1>1, <1>2, <2>3, <3>1, <3>2, <3>3, <3>4 DEF AfterHolds
  <2>4. CASE marker = "spent" /\ orig'.place = "done" /\ orig'.count = orig.count
             /\ marker' = marker /\ flaw # "repeats" /\ db' = db
             /\ receipts' = receipts \cup {[kind |-> "ack", attempt |-> orig.count + 1]}
    <3>1. orig.count = 1 /\ FirstReceipt \in receipts
      BY <2>4 DEF AfterHolds
    <3> DEFINE r == [kind |-> "ack", attempt |-> orig.count + 1]
    <3>2. r.kind = "ack" /\ r.attempt >= 2 /\ receipts' = receipts \cup {r}
      BY <2>4, <3>1
    <3> HIDE DEF r
    <3>3. AckRead'
      BY <3>2 DEF AckRead
    <3>4. \A x \in receipts' : x.kind = "after" => x = FirstReceipt
      BY <3>2 DEF AfterHolds
    <3>5. FirstReceipt \in receipts'
      BY <3>1, <3>2
    <3> QED
      BY <1>1, <1>2, <2>4, <3>1, <3>3, <3>4, <3>5 DEF AfterHolds
  <2>5. CASE marker = "spent" /\ orig'.place = "done" /\ orig'.count = orig.count
             /\ marker' = marker /\ flaw = "repeats" /\ receipts' = receipts
    BY <1>1, <1>2, <2>2, <2>5, AckStays DEF AfterHolds
  <2>6. CASE UNCHANGED <<db, receipts, marker>> /\ orig'.place # "none"
             /\ (marker = "after" => orig'.place = "ready" /\ orig'.count = orig.count)
             /\ (marker = "spent" => orig'.place \in {"hidden", "ready"} /\ orig'.count = orig.count)
    BY <1>1, <1>2, <2>2, <2>6, AckStays DEF AfterHolds
  <2>7. CASE marker \in {"none", "expired"} /\ marker' = marker
             /\ (db' = db \/ (db' = Committed /\ ~(db.processed = 1 /\ flaw # "repeats")))
             /\ receipts' = receipts
    <3>1. FirstReceipt \in receipts /\ flaw # "repeats" => db' = db
      BY <2>7 DEF AfterHolds
    <3> QED
      BY <1>1, <1>2, <2>2, <2>7, <3>1, AckStays DEF AfterHolds
  <2>8. marker = "after" => orig.count = 0 /\ orig.place = "ready"
    BY <2>1 DEF AfterHolds
  <2>9. marker = "spent" => orig.count = 1 /\ (flaw # "repeats" => db.processed = 1)
    BY DEF AfterHolds
  <2> QED
    BY <1>3, <1>4, <1>5, <2>1, <2>3, <2>4, <2>5, <2>6, <2>7, <2>8, <2>9 DEF Step
<1>6. ~Step(again, again')
  BY <1>3 DEF Step
<1>7. CASE UNCHANGED <<again, db, receipts, marker>> /\ orig.place = "outbox" /\ orig'.place = "ready"
           /\ orig'.count = orig.count
  BY <1>1, <1>2, <1>7, AckStays DEF AfterHolds
<1>8. CASE UNCHANGED <<orig, again, db, receipts>> /\ marker' = "expired"
  BY <1>1, <1>2, <1>8, AckStays DEF AfterHolds
<1> QED
  BY <1>1, <1>5, <1>6, <1>7, <1>8

LEMMA AfterRun ==
    ASSUME TypeOK, MarkerHolds, CopiesHold, AfterHolds, RunStep
    PROVE  AfterHolds'
<1>1. Keeps /\ Before' = Before
  BY StepKeeps, BeforeKept DEF Keeps
<1> SUFFICES ASSUME ~Before PROVE AfterHolds'
  BY <1>1 DEF AfterHolds
<1>2. UNCHANGED <<db, receipts, flaw>> /\ (AckRead' <=> AckRead)
  BY <1>1, AckStays DEF Keeps
<1>3. CASE stage \notin {"apply", "trigger", "restore", "unwind"}
  <2>1. stage \notin {"send", "delete"}
    BY DEF TypeOK, RunType, StagesOf, Ahead, Settled, Broken, Before, Profiles
  <2>2. UNCHANGED <<msg, marker>> /\ orig' = orig
    BY <1>1, <1>3, <2>1 DEF Keeps, orig
  <2> QED
    BY <1>1, <1>2, <1>3, <2>2 DEF AfterHolds
<1>4. CASE stage = "apply"
  <2>1. marker' = "after" /\ UNCHANGED msg
    BY <1>4, StepStage DEF ApplyFault
  <2>2. orig' = orig /\ orig.place = "none" /\ receipts = {} /\ db = NoRows /\ orig.count = 0
    BY <1>4, <2>1 DEF CopiesHold, orig
  <2> QED
    BY <1>1, <1>2, <2>1, <2>2, AckStays DEF AfterHolds
<1>5. CASE stage = "trigger"
  <2>1. UNCHANGED marker /\ (msg' = msg \/ Put("orig", "outbox"))
    BY <1>5, StepStage DEF Trigger
  <2>2. orig.place = "none" /\ receipts = {} /\ db = NoRows /\ orig.count = 0
    BY <1>5 DEF CopiesHold
  <2>3. orig'.count = 0 /\ orig'.place \in {"none", "outbox"}
    BY <2>1, <2>2, CopyPut DEF Copies, orig
  <2> QED
    BY <1>1, <1>2, <2>1, <2>2, <2>3, AckStays DEF AfterHolds
<1>6. CASE stage \in {"restore", "unwind"}
  <2>1. marker' = "none" /\ UNCHANGED msg
    BY <1>6, StepStage, RestoreFaultDoes DEF Unwind
  <2>2. orig' = orig
    BY <2>1 DEF orig
  <2> QED
    BY <1>1, <1>2, <2>1, <2>2 DEF AfterHolds
<1> QED
  BY <1>3, <1>4, <1>5, <1>6

-----------------------------------------------------------------------------
(* What the Run has read *)

LEMMA ReadsInit == Init => ReadsHold
<1> SUFFICES ASSUME Init PROVE ReadsHold
  OBVIOUS
<1>1. /\ mem.half = FALSE /\ mem.rows = 0 /\ mem.boundary = FALSE /\ mem.ack = "none"
      /\ mem.final = NoReport /\ mem.injected = NoReport /\ mem.ui = "unread"
      /\ stage = "seed" /\ db = NoRows
  BY DEF Init, TargetInit, NoMem, NoRows
<1> QED
  BY <1>1 DEF ReadsHold, NoReport, NoRows, Ahead

\* The target's durable effects only grow.
LEMMA ProductGrows ==
    ASSUME TypeOK, Product
    PROVE  /\ db.reports <= db'.reports /\ db.processed <= db'.processed
           /\ flaw = "partial" => db'.documents = db.documents
           /\ receipts \subseteq receipts' /\ (Attempts # {} => Attempts' # {})
<1>1. \/ UNCHANGED <<db, receipts>>
      \/ Step(orig, orig')
      \/ Step(again, again')
  BY ProductDoes
<1>2. db.reports \in Nat /\ db.processed \in {0, 1}
  BY DEF TypeOK, TargetType
<1>3. db' = db \/ db' = Committed \/ (flaw = "early" /\ db.reports = 0 /\ db' = [db EXCEPT !.reports = 1])
  BY <1>1 DEF Step
<1>4. receipts \subseteq receipts'
  BY <1>1 DEF Step
<1>5. Attempts # {} => Attempts' # {}
  BY <1>4 DEF Attempts
<1>6. /\ db.reports <= db'.reports /\ db.processed <= db'.processed
      /\ flaw = "partial" => db'.documents = db.documents
  <2>1. CASE db' = db
    BY <1>2, <2>1
  <2>2. CASE db' = Committed
    BY <1>2, <2>2, CommittedAre
  <2>3. CASE flaw = "early" /\ db.reports = 0 /\ db' = [db EXCEPT !.reports = 1]
    BY <1>2, <2>3 DEF TypeOK, TargetType
  <2> QED
    BY <1>3, <2>1, <2>2, <2>3
<1> QED
  BY <1>4, <1>5, <1>6

LEMMA ReadsProduct ==
    ASSUME TypeOK, ReadsHold, Product, UNCHANGED published
    PROVE  ReadsHold'
<1>1. UNCHANGED <<flaw, profile, stage, mem>>
  BY ProductDoes
<1>2. Before' = Before
  BY <1>1, BeforeKept
<1>3. /\ mem.rows \in Nat /\ db.reports \in Nat /\ db.processed \in {0, 1}
      /\ db'.reports \in Nat /\ db'.processed \in {0, 1} /\ mem.final.processed \in {0, 1}
  <2>1. TypeOK'
    BY ProductType
  <2> QED
    BY <2>1 DEF TypeOK, TargetType, RunType, Memories, Snapshots
<1>4. mem.rows <= db'.reports /\ mem.final.processed <= db'.processed
  BY <1>3, ProductGrows DEF ReadsHold
<1>5. /\ mem.boundary => IF Before THEN Attempts' # {} ELSE FirstReceipt \in receipts'
      /\ mem.ack = "read" => AckRead'
  BY ProductGrows, AckStays DEF ReadsHold
<1> QED
  BY <1>1, <1>2, <1>4, <1>5, ProductGrows DEF ReadsHold

\* A boundary is read from a receipt of its variant.
LEMMA BoundaryIsThere ==
    ASSUME AfterHolds, BoundaryRead(IF Before THEN "before" ELSE "after")
    PROVE  IF Before THEN Attempts # {} ELSE FirstReceipt \in receipts
<1>1. CASE Before
  BY <1>1 DEF BoundaryRead, Attempts
<1>2. CASE ~Before
  <2> DEFINE found == {x \in receipts : x.kind = "after"}
  <2>1. Cardinality(found) = 1
    BY <1>2 DEF BoundaryRead
  <2>2. found # {}
    BY <2>1, FS_EmptySet
  <2>3. \A x \in receipts : x.kind = "after" => x = FirstReceipt
    BY <1>2 DEF AfterHolds
  <2> QED
    BY <1>2, <2>2, <2>3
<1> QED
  BY <1>1, <1>2

LEMMA ReportRowsAre ==
    /\ LostReport.status = "UNAVAILABLE" /\ LostReport.documents = 0 /\ LostReport.processed = 0
    /\ LostReport.reports = 0
    /\ \A n : /\ ReportRows(n).status = "PRESENT" /\ ReportRows(n).reports = n
              /\ ReportRows(n).documents = db.documents /\ ReportRows(n).processed = db.processed
BY DEF LostReport, NoReport, ReportRows

LEMMA ReadsRun ==
    ASSUME TypeOK, MarkerHolds, CopiesHold, BeforeHolds, AfterHolds, ReadsHold, RunStep
    PROVE  ReadsHold'
<1>1. Keeps /\ Moves /\ Remembers /\ Before' = Before
  BY StepKeeps, StepMoves, StepRemembers, BeforeKept DEF Keeps
<1>2. UNCHANGED <<db, receipts, flaw, profile>> /\ Attempts' = Attempts /\ (AckRead' <=> AckRead)
  BY <1>1, AttemptsGrow, AckStays DEF Keeps
<1>3. /\ mem.rows \in Nat /\ db.reports \in Nat /\ db.processed \in {0, 1} /\ db.documents \in Nat
      /\ mem.final \in Snapshots /\ mem.injected \in Snapshots /\ mem.half \in BOOLEAN
      /\ mem.boundary \in BOOLEAN
  BY DEF TypeOK, TargetType, RunType, Memories
<1>4. CASE stage \notin {"boundary", "injected", "recovered", "final", "ack", "status"}
  <2>1. /\ mem'.half = mem.half /\ mem'.rows = mem.rows /\ mem'.boundary = mem.boundary
        /\ mem'.ack = mem.ack /\ mem'.final = mem.final /\ mem'.injected = mem.injected
        /\ mem'.ui = mem.ui
    BY <1>1, <1>4 DEF Remembers
  <2>2. stage' \notin Ahead \cup Broken => stage \notin Ahead \cup Broken
    BY <1>1, <1>4 DEF Moves, Ahead, Broken, AfterTerminal, AfterRecovery
  <2>3. ~mem.half
    BY <1>4 DEF ReadsHold
  <2> QED
    BY <1>1, <1>2, <2>1, <2>2, <2>3 DEF ReadsHold
<1>5. CASE stage = "boundary"
  <2>1. /\ mem'.half = mem.half /\ mem'.rows = mem.rows
        /\ mem'.ack = mem.ack /\ mem'.final = mem.final /\ mem'.injected = mem.injected
        /\ mem'.ui = mem.ui
    BY <1>1, <1>5 DEF Remembers
  <2>2. ~mem.half
    BY <1>5 DEF ReadsHold
  <2>3. CASE LoseReceipts
    BY <1>1, <1>2, <1>5, <2>2, <2>3 DEF ReadsHold, LoseReceipts, Broken
  <2>4. CASE PollBoundary
    <3>1. \/ /\ BoundaryRead(IF Before THEN "before" ELSE "after")
             /\ mem'.boundary = TRUE
          \/ mem'.boundary = mem.boundary /\ stage' = stage
          \/ mem'.boundary = mem.boundary /\ (Before => stage' = "unwind")
      BY <2>4, PollBoundaryDoes
    <3>2. CASE BoundaryRead(IF Before THEN "before" ELSE "after") /\ mem'.boundary = TRUE
      <4>1. IF Before THEN Attempts # {} ELSE FirstReceipt \in receipts
        BY <3>2, BoundaryIsThere
      <4> QED
        BY <1>1, <1>2, <2>1, <2>2, <3>2, <4>1 DEF ReadsHold
    <3>3. CASE mem'.boundary = mem.boundary /\ (stage' = stage \/ (Before => stage' = "unwind"))
      BY <1>1, <1>2, <1>5, <2>1, <2>2, <3>3 DEF ReadsHold, Ahead, Broken
    <3> QED
      BY <3>1, <3>2, <3>3
  <2> QED
    BY <1>5, <2>3, <2>4, StepStage
<1>6. CASE stage \in {"injected", "recovered", "final"}
  <2>1. /\ mem'.boundary = mem.boundary /\ mem'.ack = mem.ack /\ mem'.ui = mem.ui
    BY <1>1, <1>6 DEF Remembers
  <2>2. CASE ReadReports
    <3>1. /\ mem'.half = TRUE /\ mem'.rows = db.reports /\ mem'.final = mem.final
          /\ mem'.injected = mem.injected /\ stage' = stage
      BY <2>2, ReadReportsDoes DEF Differ, Fields
    <3>2. Before /\ flaw = "early" => db.reports > 0
      BY <1>6 DEF ReadsHold, BeforeHolds, Ahead, Broken
    <3>3. db.reports <= db.reports
      BY <1>3
    <3> QED
      BY <1>1, <1>2, <1>3, <1>6, <2>1, <3>1, <3>2, <3>3 DEF ReadsHold
  <2>3. CASE ReadInjected
    <3>1. /\ stage = "injected" /\ mem'.half = FALSE /\ mem.half = TRUE /\ mem'.rows = mem.rows
          /\ mem'.final = mem.final
          /\ mem'.injected \in ReportsTaken /\ stage' \notin Ahead \cup Broken
      BY <2>3, ReadInjectedDoes DEF Differ, Fields, Ahead, Broken
    <3>2. mem'.injected = LostReport \/ mem'.injected = ReportRows(mem.rows)
      BY <3>1, ReportsTakenAre
    <3>3. flaw = "partial" => mem'.injected.documents = 0 /\ db.documents = 0 /\ mem.final.documents = 0
      BY <1>3, <3>2, ReportRowsAre DEF ReadsHold, Snapshots
    <3>4. Before /\ flaw = "early" =>
            (mem'.injected.status = "PRESENT" => mem'.injected.reports > 0)
      BY <3>1, <3>2, ReportRowsAre DEF ReadsHold
    <3> QED
      BY <1>1, <1>2, <1>6, <2>1, <3>1, <3>3, <3>4 DEF ReadsHold, Ahead, Broken
  <2>4. CASE PollRecovered \/ ReadFinal
    <3>1. /\ mem'.half = FALSE /\ mem'.rows = mem.rows
          /\ mem'.injected = mem.injected
          /\ mem'.final \in ReportsTaken
      BY <2>4, PollRecoveredDoes, ReadFinalDoes DEF Differ, Fields
    <3>2. mem'.final = LostReport \/ mem'.final = ReportRows(mem.rows)
      BY <3>1, ReportsTakenAre
    <3>3. flaw = "partial" => mem'.final.documents = 0 /\ db.documents = 0 /\ mem.injected.documents = 0
      BY <1>3, <3>2, ReportRowsAre DEF ReadsHold, Snapshots
    <3>4. mem'.final.processed <= db.processed
      BY <1>3, <3>2, ReportRowsAre
    <3> QED
      BY <1>1, <1>2, <1>6, <2>1, <3>1, <3>3, <3>4 DEF ReadsHold, Ahead, Broken
  <2> QED
    BY <1>6, <2>2, <2>3, <2>4, StepStage
<1>7. CASE stage \in {"ack", "status"}
  <2>1. /\ mem'.half = mem.half /\ mem'.rows = mem.rows /\ mem'.boundary = mem.boundary
        /\ mem'.final = mem.final /\ mem'.injected = mem.injected
    BY <1>1, <1>7 DEF Remembers
  <2>2. ~mem.half
    BY <1>7 DEF ReadsHold
  <2>3. mem'.ack = "read" => AckRead
    <3>1. CASE stage = "status"
      BY <1>1, <3>1 DEF Remembers, ReadsHold
    <3>2. CASE PollAck
      BY <3>2, PollAckDoes DEF ReadsHold
    <3>3. CASE LoseReceipts
      BY <3>3 DEF LoseReceipts, ReadsHold
    <3> QED
      BY <1>7, <3>1, <3>2, <3>3, StepStage
  <2>4. flaw = "silent" => mem'.ui # "final_failed"
    <3>1. CASE stage = "ack"
      BY <1>1, <3>1 DEF Remembers, ReadsHold
    <3>2. CASE ReadStatus
      <4>1. mem'.ui = ShownByPage \/ mem'.ui = "unread"
        BY <3>2, ReadStatusDoes
      <4> QED
        BY <4>1 DEF ShownByPage
    <3> QED
      BY <1>7, <3>1, <3>2, StepStage
  <2> QED
    BY <1>1, <1>2, <1>7, <2>1, <2>2, <2>3, <2>4 DEF ReadsHold, Ahead, Broken
<1> QED
  BY <1>4, <1>5, <1>6, <1>7

-----------------------------------------------------------------------------
(* The decision paths of H-03 *)

LEMMA EffectsRowsAre ==
    /\ NoEffects.status = "missing" /\ NoEffects.rows = NoDecision
    /\ LostEffects.status = "UNAVAILABLE" /\ LostEffects.rows = NoDecision
    /\ subject = TRUE => DecisionRows.status = "PRESENT" /\ DecisionRows.rows = hiring
    /\ subject # TRUE => DecisionRows.status = "ABSENT" /\ DecisionRows.rows = NoDecision
    /\ NoCase.pre = NoEffects /\ NoCase.post = NoEffects /\ NoCase.answer = "none"
BY DEF NoEffects, LostEffects, DecisionRows, NoCase

LEMMA CasesInit == Init => CasesHold
<1> SUFFICES ASSUME Init PROVE CasesHold
  OBVIOUS
<1>1. /\ stage = "seed" /\ hiring = NoDecision /\ mem.case = NoCase /\ mem.cases = <<>>
      /\ mem.case.pre.rows = NoDecision
  BY EffectsRowsAre DEF Init, TargetInit, NoMem
<1> QED
  BY <1>1 DEF CasesHold, Attempting, Unfaulted, Redriven, Deciding, Settled

LEMMA CasesProduct == ASSUME TypeOK, CasesHold, Product PROVE CasesHold'
<1>1. UNCHANGED <<hiring, flaw, profile, stage, mem>>
  BY ProductDoes
<1> QED
  BY <1>1 DEF CasesHold, Telling, Lost

LEMMA CasesRun ==
    ASSUME TypeOK, MarkerHolds, BeforeHolds, ReadsHold, CasesHold, RunStep
    PROVE  CasesHold'
<1>1. Keeps /\ Moves /\ Remembers
  BY StepKeeps, StepMoves, StepRemembers
<1>2. mem.cases \in Seq(Cases) /\ mem.case \in Cases /\ UNCHANGED <<flaw, profile>>
  BY <1>1 DEF TypeOK, RunType, Memories, Keeps
<1> USE DEF Attempting
<1>3. CASE stage \notin Attempting
  <2>1. UNCHANGED flaw /\ mem'.token = mem.token /\ mem'.case = mem.case /\ mem'.cases = mem.cases
    BY <1>1, <1>3 DEF Keeps, Remembers
  <2>2. hiring' # NoDecision => stage' \in {"post", "reset"} \cup Deciding \cup Settled \cup Broken
    <3>1. CASE stage \in {"decide", "replay"}
      BY <1>1, <3>1 DEF Moves, Deciding
    <3>2. CASE stage \notin {"decide", "replay"}
      <4>1. hiring' = hiring
        BY <1>1, <1>3, <3>2 DEF Keeps
      <4>2. stage \in Deciding \cup Settled \cup Broken =>
              stage' \in Deciding \cup Settled \cup Broken
        BY <1>1 DEF Moves, Deciding, Settled, Broken
      <4> QED
        BY <1>3, <4>1, <4>2 DEF CasesHold
    <3> QED
      BY <3>1, <3>2
  <2>3. stage' \notin {"attempt", "post", "reset"} /\ (stage' = "case" => stage = "status")
    BY <1>1, <1>3 DEF Moves, AfterTerminal, AfterRecovery
  <2>4. stage = "status" => profile = "H03_DLQ_V2"
    BY DEF TypeOK, RunType, StagesOf, Ahead, Settled, Broken, Profiles, Deciding
  <2>5. profile = "H03_DLQ_V2" =>
          /\ stage' \in Ahead \cup {"terminal", "dlq", "status"} =>
               stage \in Ahead \cup {"terminal", "dlq", "status"}
          /\ stage' \in {"restore"} \cup Unfaulted =>
               stage \in {"restore", "injected", "final"} \cup Unfaulted
    BY <1>1, <1>3 DEF Moves, AfterTerminal, AfterRecovery, Ahead, Unfaulted, Redriven, Deciding, Settled
  <2>6. profile = "H03_DLQ_V2" => stage \notin {"injected", "final"}
    BY DEF TypeOK, RunType, StagesOf, Ahead, Settled, Broken, Profiles, Deciding
  <2>7. stage' = "case" => Len(mem.cases) \in 0..2
    <3>1. stage = "status" => Len(mem.cases) = 0
      BY <2>4 DEF CasesHold
    <3>2. 0 \in 0..2
      OBVIOUS
    <3> QED
      BY <2>3, <3>1, <3>2
  <2> QED
    BY <1>2, <2>1, <2>2, <2>3, <2>5, <2>6, <2>7 DEF CasesHold, Telling, Lost
<1>4. CASE stage = "case"
  <2>1. OpenCase /\ hiring = NoDecision /\ hiring' = hiring
    BY <1>1, <1>4, StepStage DEF CasesHold, Keeps, Deciding, Settled, Broken
  <2>2. mem'.cases = mem.cases
    BY <1>1, <1>4 DEF Remembers
  <2>3. CASE stage' = "unwind" /\ mem' = mem
    BY <1>2, <1>4, <2>1, <2>3
       DEF CasesHold, Telling, Lost, Ahead, Unfaulted, Redriven, Deciding, Settled
  <2>4. CASE stage' = "attempt" /\ mem'.token = hiring /\ mem'.case.pre \in EffectsTaken
    <3>1. mem'.case.pre.rows = NoDecision
      BY <2>1, <2>4, EffectsTakenAre, EffectsRowsAre
    <3> QED
      BY <1>2, <1>4, <2>1, <2>2, <2>4, <3>1
         DEF CasesHold, Telling, Lost, Ahead, Unfaulted, Redriven, Deciding, Settled
  <2> QED
    BY <2>1, <2>3, <2>4, OpenCaseDoes
<1>5. CASE stage = "attempt"
  <2>1. mem'.token = mem.token /\ mem'.cases = mem.cases
    BY <1>1, <1>5 DEF Remembers
  <2>2. mem'.case.pre = mem.case.pre /\ stage' = "post"
    BY <1>5, StepStage, AttemptCaseDoes
  <2>3. PICK lost \in BOOLEAN :
          mem'.case.answer = Heard(lost) /\ Request(Paths[Len(mem.cases) + 1], 1, lost)
    BY <1>5, StepStage, AttemptCaseDoes
  <2>4. ASSUME mem'.case.answer = "refused"
        PROVE  /\ flaw \notin {"accepts", "unexplained", "early"}
               /\ flaw \in {"leaks", "machine"} => hiring'.stage = "final"
    <3>1. ~lost /\ ~Accepts /\ flaw # "unexplained"
      BY <2>3, <2>4 DEF Heard
    <3>2. Answer(Paths[Len(mem.cases) + 1], 1)
      BY <2>3, <3>1 DEF Request
    <3>3. flaw = "early" => db.reports > 0
      <4>1. Before
        BY <1>5 DEF TypeOK, RunType, StagesOf, Ahead, Settled, Broken, Profiles, Deciding, Before
      <4> QED
        BY <1>5, <4>1 DEF ReadsHold, BeforeHolds, Ahead, Broken
    <3>4. hiring \in Decisions
      BY DEF TypeOK, TargetType
    <3>5. flaw = "leaks" => hiring' = [hiring EXCEPT !.stage = "final"]
      BY <3>1, <3>2 DEF Answer
    <3>6. flaw = "machine" => hiring'.stage = "final"
      BY <3>1, <3>2 DEF Answer, Decided
    <3>7. [hiring EXCEPT !.stage = "final"].stage = "final"
      BY <3>4 DEF Decisions
    <3> QED
      BY <3>1, <3>3, <3>5, <3>6, <3>7 DEF Accepts
  <2> QED
    BY <1>2, <1>5, <2>1, <2>2, <2>4
       DEF CasesHold, Telling, Lost, Ahead, Unfaulted, Redriven, Deciding, Settled
<1>6. CASE stage = "post"
  <2>1. mem'.token = mem.token /\ mem'.cases = mem.cases /\ hiring' = hiring
    BY <1>1, <1>6 DEF Remembers, Keeps
  <2>2. /\ mem'.case.pre = mem.case.pre /\ mem'.case.answer = mem.case.answer
        /\ mem'.case.post \in EffectsTaken /\ stage' = "reset"
    BY <1>6, StepStage, ReadPostDoes
  <2>3. subject = TRUE
    BY <1>6 DEF MarkerHolds, TypeOK, TargetType
  <2>4. Lost(mem'.case.post) \/ mem'.case.post.rows = hiring
    BY <2>2, <2>3, EffectsTakenAre, EffectsRowsAre DEF Lost
  <2>5. Telling(mem.case)'
    BY <1>2, <1>6, <2>2, <2>4 DEF Telling, CasesHold, Lost
  <2> QED
    BY <1>2, <1>6, <2>1, <2>2, <2>5
       DEF CasesHold, Telling, Lost, Ahead, Unfaulted, Redriven, Deciding, Settled
<1>7. CASE stage = "reset"
  <2>1. ResetCase /\ mem.token = NoDecision /\ Telling(mem.case) /\ Len(mem.cases) \in 0..2
    BY <1>7, StepStage DEF CasesHold
  <2>2. CASE stage' = "unwind" /\ mem' = mem
    BY <1>2, <1>7, <2>2
       DEF CasesHold, Telling, Lost, Ahead, Unfaulted, Redriven, Deciding, Settled, Broken
  <2>3. CASE /\ stage' = IF Len(mem.cases) = 2 THEN "restore" ELSE "case"
             /\ hiring' = NoDecision
             /\ mem'.cases = Append(mem.cases, mem.case) /\ mem'.case = NoCase
    <3> DEFINE n == Len(mem.cases)
    <3>1. /\ Len(mem'.cases) = n + 1 /\ DOMAIN mem'.cases = 1..(n + 1)
          /\ mem'.cases[n + 1] = mem.case
          /\ \A i \in 1..n : mem'.cases[i] = mem.cases[i]
          /\ DOMAIN mem.cases = 1..n /\ n \in Nat
      BY <1>2, <2>3
    <3>2. n \in 0..2
      BY <2>1
    <3>3. /\ stage' = "case" => Len(mem'.cases) \in 0..2
          /\ stage' = "restore" => Len(mem'.cases) = 3
          /\ stage' \in {"case", "restore"}
      <4>1. stage' = IF n = 2 THEN "restore" ELSE "case"
        BY <2>3
      <4> HIDE DEF n
      <4> QED
        BY <3>1, <3>2, <4>1
    <3>4. \A i \in DOMAIN mem'.cases :
            Telling(mem'.cases[i]) /\ mem'.cases[i].pre.rows = NoDecision
      <4> SUFFICES ASSUME NEW i \in 1..(n + 1)
                   PROVE  Telling(mem'.cases[i]) /\ mem'.cases[i].pre.rows = NoDecision
        BY <3>1
      <4>1. CASE i = n + 1
        BY <1>2, <2>1, <3>1, <4>1 DEF Telling, Lost, CasesHold
      <4>2. CASE i \in 1..n
        BY <1>2, <3>1, <4>2 DEF Telling, Lost, CasesHold
      <4>3. i = n + 1 \/ i \in 1..n
        <5>1. n \in Nat
          BY <3>1
        <5> HIDE DEF n
        <5> QED
          BY <5>1
      <4> QED
        BY <4>1, <4>2, <4>3
    <3>5. mem'.case.pre.rows = NoDecision
      BY <2>3, EffectsRowsAre
    <3> QED
      BY <1>2, <2>3, <3>3, <3>4, <3>5, EffectsRowsAre
         DEF CasesHold, Telling, Lost, Ahead, Unfaulted, Redriven, Deciding, Settled
  <2> QED
    BY <2>1, <2>2, <2>3, ResetCaseDoes
<1> QED
  BY <1>3, <1>4, <1>5, <1>6, <1>7

-----------------------------------------------------------------------------
(* The decision that is sent twice *)

LEMMA ReplayInit == Init => ReplayHolds
<1> SUFFICES ASSUME Init PROVE ReplayHolds
  OBVIOUS
<1>1. /\ stage = "seed" /\ mem.firstEffects = NoEffects /\ mem.replayEffects = NoEffects
      /\ mem.replay = "none"
  BY DEF Init, NoMem
<1>2. NoDecision # Once
  <2>1. Once.stage = "final" /\ NoDecision.stage = "initial"
    BY DEF Once, NoDecision
  <2> QED
    BY <2>1
<1> QED
  BY <1>1, <1>2, EffectsRowsAre DEF ReplayHolds

LEMMA ReplayProduct ==
    ASSUME TypeOK, ReplayHolds, Product, UNCHANGED published
    PROVE  ReplayHolds'
<1>1. UNCHANGED <<hiring, flaw, stage, mem>> /\ db.reports <= db'.reports
  BY ProductDoes, ProductGrows
<1>2. db.reports \in Nat /\ db'.reports \in Nat
  BY ProductType DEF TypeOK, TargetType
<1>3. db.reports > 0 => db'.reports > 0
  BY <1>1, <1>2
<1> QED
  BY <1>1, <1>3 DEF ReplayHolds

\* What the first request, and the second, leave of the decision.
LEMMA OnceOrTwice ==
    ASSUME TypeOK, Accepts, NEW lost
    PROVE  /\ hiring = NoDecision /\ Request(Paths[1], 1, lost) =>
                hiring' = Once \/ (lost /\ hiring' = NoDecision)
           /\ hiring = Once /\ Request(Paths[1], 2, lost) =>
                /\ hiring' # NoDecision
                /\ flaw = "redecides" /\ ~lost => Twice \in hiring'.reviews
                /\ flaw # "redecides" => hiring' = Once
<1>1. Paths[1] = "FINAL_DECISION"
  BY DEF Paths
<1>2. Decided("COMPANY_USER", Paths[1], 2) # NoDecision /\ Twice \in Decided("COMPANY_USER", Paths[1], 2).reviews
  <2>1. Decided("COMPANY_USER", Paths[1], 2).stage = "final" /\ NoDecision.stage = "initial"
    BY DEF Decided, NoDecision
  <2>2. Decided("COMPANY_USER", Paths[1], 2).reviews = hiring.reviews \cup {Twice}
    BY <1>1 DEF Decided, Twice
  <2> QED
    BY <2>1, <2>2
<1>3. ASSUME hiring = NoDecision PROVE Decided("COMPANY_USER", Paths[1], 1) = Once
  <2>1. hiring.reviews = {} /\ hiring.audits = {}
    BY <1>3 DEF NoDecision
  <2> QED
    BY <1>1, <2>1 DEF Decided, Once
<1>4. Once # NoDecision
  <2>1. Once.stage = "final" /\ NoDecision.stage = "initial"
    BY DEF Once, NoDecision
  <2> QED
    BY <2>1
<1>5. /\ hiring = NoDecision /\ Answer(Paths[1], 1) => hiring' = Once
      /\ hiring = Once /\ Answer(Paths[1], 2) =>
           hiring' = IF flaw # "redecides" THEN Once ELSE Decided("COMPANY_USER", Paths[1], 2)
  BY <1>3, <1>4 DEF Answer
<1> QED
  BY <1>2, <1>4, <1>5 DEF Request, Attempted

LEMMA ReplayRun ==
    ASSUME TypeOK, MarkerHolds, BeforeHolds, ReadsHold, CasesHold, ReplayHolds, RunStep
    PROVE  ReplayHolds'
<1>1. Keeps /\ Moves /\ Remembers /\ UNCHANGED <<db, flaw, profile>>
  BY StepKeeps, StepMoves, StepRemembers DEF Keeps
<1>2. NoDecision # Once
  <2>1. Once.stage = "final" /\ NoDecision.stage = "initial"
    BY DEF Once, NoDecision
  <2> QED
    BY <2>1
<1>3. stage \in {"judge", "decide", "decided", "replay", "replayed"} => profile = "E03_BEFORE_V2"
  BY DEF TypeOK, RunType, StagesOf, Ahead, Settled, Broken, Profiles, Attempting
<1> USE DEF ReplayHolds
<1>4. CASE stage \notin {"judge", "decide", "decided", "replay", "replayed"}
  <2>1. /\ mem'.firstEffects = mem.firstEffects /\ mem'.replayEffects = mem.replayEffects
        /\ mem'.replay = mem.replay
    BY <1>1, <1>4 DEF Remembers
  <2>2. stage' \in {"judge", "decide", "decided", "replay", "replayed"} =>
          stage' = "judge" /\ stage = "recovered"
    BY <1>1, <1>4 DEF Moves, AfterTerminal, AfterRecovery
  <2>3. stage = "recovered" => hiring' = NoDecision
    BY <1>1 DEF Keeps, CasesHold, Deciding, Settled, Broken
  <2>4. stage' \notin Settled \cup Broken => stage \notin Settled \cup Broken
    BY <1>1, <1>4 DEF Moves, Settled, Broken
  <2> QED
    BY <1>1, <1>4, <2>1, <2>2, <2>3, <2>4
<1>5. CASE stage = "judge"
  <2>1. JudgeRecovery /\ mem' = mem /\ hiring' = hiring
    BY <1>1, <1>5, StepStage DEF JudgeRecovery, Keeps
  <2>2. stage' = "decide" => db.reports > 0
    <3>1. stage' = "decide" => RecoveredExactlyOnce(mem) = "PASS"
      BY <2>1 DEF JudgeRecovery
    <3>2. RecoveredExactlyOnce(mem) = "PASS" => mem.final.processed = 1
      BY DEF RecoveredExactlyOnce, Unless, PassIf, OneReportingSet
    <3>3. mem.final.processed = 1 => db.processed = 1
      BY DEF ReadsHold, TypeOK, TargetType
    <3>4. db.processed = 1 => db.reports > 0
      BY <1>3, <1>5 DEF BeforeHolds, Before
    <3> QED
      BY <3>1, <3>2, <3>3, <3>4
  <2>3. stage' \in {"decide", "teardown", "unwind"}
    BY <1>1, <1>5 DEF Moves
  <2> QED
    BY <1>1, <1>5, <2>1, <2>2, <2>3 DEF Settled, Broken
<1>6. CASE stage = "decide"
  <2>1. DecideFirst /\ stage' = "decided"
    BY <1>1, <1>6, StepStage DEF Moves
  <2>2. /\ mem'.firstEffects = mem.firstEffects /\ mem'.replayEffects = mem.replayEffects
        /\ mem'.replay = mem.replay
    BY <1>1, <1>6 DEF Remembers
  <2>3. PICK lost \in BOOLEAN : Request(Paths[1], 1, lost)
    BY <2>1, DecideDoes DEF DecideFirst
  <2>4. Accepts /\ hiring = NoDecision
    BY <1>6 DEF Accepts
  <2>5. hiring' \in {NoDecision, Once}
    BY <2>3, <2>4, OnceOrTwice
  <2>6. mem.firstEffects = NoEffects /\ mem.replayEffects = NoEffects
    BY <1>6 DEF Settled, Broken
  <2> QED
    BY <1>1, <1>6, <2>1, <2>2, <2>5, <2>6, EffectsRowsAre
<1>7. CASE stage = "decided"
  <2>1. ReadFirst /\ stage' = "replay" /\ hiring' = hiring
    BY <1>1, <1>7, StepStage DEF Moves, Keeps
  <2>2. mem'.replayEffects = mem.replayEffects /\ mem'.replay = mem.replay
    BY <1>1, <1>7 DEF Remembers
  <2>3. mem'.firstEffects \in EffectsTaken
    BY <2>1, ReadDecisionDoes DEF ReadFirst
  <2>4. \/ mem'.firstEffects.rows = NoDecision
        \/ mem'.firstEffects.rows = hiring /\ mem'.firstEffects.status = "PRESENT"
    BY <2>3, EffectsTakenAre, EffectsRowsAre
  <2>5. mem.replayEffects = NoEffects
    BY <1>7 DEF Settled, Broken
  <2> QED
    BY <1>1, <1>2, <1>7, <2>1, <2>2, <2>4, <2>5, EffectsRowsAre
<1>8. CASE stage = "replay"
  <2>1. DecideAgain /\ stage' = "replayed"
    BY <1>1, <1>8, StepStage DEF Moves
  <2>2. mem'.replayEffects = mem.replayEffects /\ mem'.firstEffects = mem.firstEffects
    BY <1>1, <1>8 DEF Remembers
  <2>3. PICK lost \in BOOLEAN : mem'.replay = Heard(lost) /\ Request(Paths[1], 2, lost)
    BY <2>1, DecideDoes DEF DecideAgain
  <2>4. Accepts
    BY <1>8 DEF Accepts
  <2>5. mem.firstEffects.rows = Once => hiring = Once
    BY <1>8
  <2>6. mem'.replay = "accepted" => ~lost
    BY <2>3 DEF Heard
  <2>7. mem.replayEffects = NoEffects
    BY <1>8 DEF Settled, Broken
  <2>8. mem.firstEffects.rows = Once =>
          /\ hiring' # NoDecision
          /\ flaw = "redecides" /\ ~lost => Twice \in hiring'.reviews
    BY <2>3, <2>4, <2>5, OnceOrTwice
  <2> QED
    BY <1>1, <1>8, <2>1, <2>2, <2>6, <2>7, <2>8, EffectsRowsAre
<1>9. CASE stage = "replayed"
  <2>1. ReadReplay /\ stage' = "teardown" /\ hiring' = hiring
    BY <1>1, <1>9, StepStage DEF Moves, Keeps
  <2>2. mem'.firstEffects = mem.firstEffects /\ mem'.replay = mem.replay
    BY <1>1, <1>9 DEF Remembers
  <2>3. mem'.replayEffects \in EffectsTaken
    BY <2>1, ReadDecisionDoes DEF ReadReplay
  <2>4. mem'.replayEffects.status = "PRESENT" => mem'.replayEffects.rows = hiring
    BY <2>3, EffectsTakenAre, EffectsRowsAre
  <2> QED
    BY <1>1, <1>9, <2>1, <2>2, <2>4 DEF Settled
<1> QED
  BY <1>4, <1>5, <1>6, <1>7, <1>8, <1>9

LEMMA VerdictRun == ASSUME TypeOK, VerdictHolds, RunStep PROVE VerdictHolds'
<1>1. Keeps /\ Moves
  BY StepKeeps, StepMoves
<1>2. CASE stage = "seal"
  <2>1. /\ verdict' = Verdict(Assertions(profile, mem), RestoredSafely(mem))
        /\ stage' = "sealed" /\ profile' = profile /\ mem' = mem
    BY <1>2, StepStage DEF Seal
  <2> QED
    BY <2>1 DEF VerdictHolds
<1>3. CASE stage # "seal"
  <2>1. verdict' = verdict /\ stage' # "sealed" /\ stage # "sealed"
    BY <1>1, <1>3 DEF Keeps, Moves, AfterTerminal, AfterRecovery
  <2> QED
    BY <2>1 DEF VerdictHolds
<1> QED
  BY <1>2, <1>3

LEMMA VerdictProduct == ASSUME TypeOK, VerdictHolds, Product PROVE VerdictHolds'
<1>1. UNCHANGED <<profile, stage, mem, verdict>>
  BY ProductDoes
<1> QED
  BY <1>1 DEF VerdictHolds

-----------------------------------------------------------------------------
(* A calm Run waits until the message is at rest *)

LEMMA InFlightIs ==
    ASSUME TypeOK
    PROVE  InFlight <=> orig.place \in Flying \/ again.place \in Flying
BY DEF InFlight, In, Flying, Copies, orig, again

LEMMA DeadIs == Dead <=> orig.place = "dlq" \/ again.place = "dlq"
BY DEF Dead, In, Copies, orig, again

LEMMA CalmInit == Init => CalmHolds
BY DEF Init, CalmHolds, PastDlq, Unfaulted, Redriven, Deciding, Settled, Attempting

LEMMA CalmProduct == ASSUME TypeOK, CalmHolds, Product PROVE CalmHolds'
<1>1. /\ UNCHANGED <<flaw, profile, outage, stage, mem, late>>
      /\ \/ orig.place = "outbox" /\ again' = again
         \/ orig' = orig /\ again' = again
         \/ Step(orig, orig') /\ again' = again
         \/ Step(again, again') /\ orig' = orig
  BY ProductDoes
<1>2. /\ orig.place \notin Flying => orig' = orig
      /\ again.place \in {"none", "done"} => again' = again
  BY <1>1 DEF Step, Flying
<1>3. Before' = Before /\ Calm' = Calm
  BY <1>1, BeforeKept DEF Calm
<1> QED
  BY <1>1, <1>2, <1>3 DEF CalmHolds

\* A calm Run loses no read of the effects.
LEMMA CalmReads ==
    ASSUME TypeOK, outage = "none"
    PROVE  /\ \A taken \in ReportsTaken : taken = ReportRows(mem.rows) /\ ~Lost(taken)
           /\ \A taken \in EffectsTaken : taken = DecisionRows
BY ReportsTakenAre, EffectsTakenAre, ReportRowsAre DEF Lost

LEMMA CalmStays == ASSUME TypeOK, RunStep, Calm' PROVE Calm
BY RunFixed DEF Calm, TypeOK, RunType

LEMMA CalmRun ==
    ASSUME TypeOK, MarkerHolds, CopiesHold, BeforeHolds, AfterHolds, ReadsHold, CalmHolds, RunStep
    PROVE  CalmHolds'
<1> SUFFICES ASSUME Calm' PROVE CalmHolds'
  BY DEF CalmHolds
<1>1. Keeps /\ Moves /\ Remembers /\ Before' = Before /\ Calm /\ outage = "none" /\ late' = FALSE
      /\ late = FALSE /\ flaw' = flaw
  BY StepKeeps, StepMoves, StepRemembers, BeforeKept, CalmStays DEF Keeps, Calm, TypeOK, RunType
<1> USE DEF PastDlq, Unfaulted, Redriven, Deciding, Settled, Attempting
<1>2. CASE stage \in {"seed", "apply", "trigger", "boundary", "terminal", "unwind", "raised", "sealed"}
  <2>1. stage' \notin PastDlq \ {"injected"} /\ (Before => stage' # "injected") /\ stage' # "final"
    BY <1>1, <1>2 DEF Moves
  <2> QED
    BY <1>1, <1>2, <2>1 DEF CalmHolds
<1>3. CASE stage = "dlq"
  <2>1. orig' = orig /\ again' = again /\ again.place = "none" /\ Before
    <3>1. orig' = orig /\ again' = again
      BY <1>1, <1>3 DEF Keeps, orig, again
    <3>2. again.place = "none"
      BY <1>3 DEF CopiesHold, MarkerHolds, Broken
    <3>3. Before
      BY <1>3 DEF TypeOK, RunType, StagesOf, Ahead, Broken, Profiles, Before
    <3> QED
      BY <3>1, <3>2, <3>3
  <2>2. stage' = "terminal" \/ (stage' = AfterTerminal /\ orig.place \notin Flying)
    <3>1. \/ stage' = "terminal"
          \/ stage' = AfterTerminal /\ (Dead \/ ~InFlight)
      BY <1>1, <1>3, StepStage, PollDlqDoes
    <3>2. Dead => orig.place = "dlq"
      BY <2>1, DeadIs
    <3>3. ~InFlight => orig.place \notin Flying
      BY InFlightIs
    <3> QED
      BY <3>1, <3>2, <3>3 DEF Flying
  <2> QED
    BY <1>1, <2>1, <2>2 DEF CalmHolds, AfterTerminal
<1>4. CASE stage = "ack"
  <2>1. orig' = orig /\ again' = again /\ ~Before
    <3>1. orig' = orig /\ again' = again
      BY <1>1, <1>4 DEF Keeps, orig, again
    <3>2. ~Before
      BY <1>4 DEF TypeOK, RunType, StagesOf, Ahead, Broken, Profiles, Before
    <3> QED
      BY <3>1, <3>2
  <2>2. CASE LoseReceipts
    BY <1>1, <2>2 DEF LoseReceipts
  <2>3. CASE PollAck
    <3>1. stage' = "ack" \/ (stage' = "final" /\ (AckRead \/ ~InFlight))
      BY <1>1, <1>4, <2>3, PollAckDoes
    <3>2. AckRead => orig.place = "done"
      BY <2>1 DEF AfterHolds
    <3>3. stage' = "ack" \/ (stage' = "final" /\ orig.place \notin Flying)
      BY <3>1, <3>2, InFlightIs DEF Flying
    <3> QED
      BY <1>1, <2>1, <3>3 DEF CalmHolds
  <2> QED
    BY <1>4, <2>2, <2>3, StepStage
<1>5. CASE stage \in {"injected", "final", "status", "case", "attempt", "post", "reset", "restore"}
  <2>1. orig' = orig /\ again' = again /\ again.place = "none"
    <3>1. orig' = orig /\ again' = again
      BY <1>1, <1>5 DEF Keeps, orig, again
    <3>2. again.place = "none"
      BY <1>5 DEF CopiesHold, MarkerHolds, Broken
    <3> QED
      BY <3>1, <3>2
  <2>2. stage' \notin {"recovered"} \cup Deciding
    BY <1>1, <1>5 DEF Moves
  <2>3. ~Before => (stage' \in {"final", "restore"} \cup Settled => stage \in {"final", "restore"} \cup Settled)
    <3>1. ~Before => stage \in {"injected", "final", "restore"}
      BY <1>5 DEF TypeOK, RunType, StagesOf, Ahead, Broken, Profiles, Before
    <3> QED
      BY <1>1, <1>5, <3>1 DEF Moves
  <2>4. Before => stage # "final"
    BY DEF TypeOK, RunType, StagesOf, Ahead, Broken, Profiles, Before
  <2> QED
    BY <1>1, <1>5, <2>1, <2>2, <2>3, <2>4 DEF CalmHolds
<1>6. CASE stage = "send"
  <2>1. stage' \in {"unwind", "delete"}
    BY <1>1, <1>6, StepStage, SendAgainDoes
  <2>2. orig' = orig
    <3>1. msg' = msg \/ msg' = [msg EXCEPT !["again"] = [place |-> "ready", count |-> 0]]
      BY <1>6, StepStage, SendAgainDoes
    <3> QED
      BY <3>1, CopyMoves DEF Copies, orig
  <2> QED
    BY <1>1, <1>6, <2>1, <2>2 DEF CalmHolds
<1>7. CASE stage = "delete"
  <2>1. /\ stage' = "recovered" /\ msg' = [msg EXCEPT !["orig"].place = "deleted"]
        /\ Differ(mem, mem', {"redrive"})
    BY <1>1, <1>7, StepStage, DeleteDeadDoes
  <2>2. orig'.place = "deleted"
    BY <2>1, CopyPut DEF Put, Copies
  <2>3. ~mem'.half
    BY <1>7, <2>1 DEF Differ, Fields, ReadsHold
  <2> QED
    BY <1>1, <2>1, <2>2, <2>3 DEF CalmHolds, Flying
<1>8. CASE stage = "recovered"
  <2>1. orig' = orig /\ again' = again /\ Before
    <3>1. orig' = orig /\ again' = again
      BY <1>1, <1>8 DEF Keeps, orig, again
    <3>2. Before
      BY <1>8 DEF TypeOK, RunType, StagesOf, Ahead, Broken, Profiles, Before
    <3> QED
      BY <3>1, <3>2
  <2>2. orig.place = "deleted" /\ orig.place \notin Flying
    BY <1>8 DEF CopiesHold, Flying
  <2>3. CASE ReadReports
    <3>1. stage' = stage /\ mem'.rows = db.reports
      BY <2>3, ReadReportsDoes
    <3>2. db.reports > 0 /\ flaw # "early" => again.place = "done"
      BY <2>1, <2>2 DEF BeforeHolds
    <3> QED
      BY <1>1, <1>8, <2>1, <2>2, <3>1, <3>2 DEF CalmHolds
  <2>4. CASE PollRecovered
    <3>1. /\ mem.half = TRUE /\ mem'.half = FALSE /\ mem'.final \in ReportsTaken
          /\ \/ (Lost(mem'.final) \/ mem'.final.reports > 0) /\ stage' = AfterRecovery
             \/ stage' = stage
      BY <1>1, <2>4, PollRecoveredDoes
    <3>2. mem'.final = ReportRows(mem.rows) /\ ~Lost(mem'.final)
      BY <1>1, <3>1, CalmReads
    <3>3. stage' = stage \/ (stage' = AfterRecovery /\ mem.rows > 0)
      BY <3>1, <3>2, ReportRowsAre
    <3>4. stage' = AfterRecovery /\ mem.rows > 0 /\ flaw # "early" => again.place = "done"
      BY <1>1, <1>8, <3>1 DEF CalmHolds
    <3> QED
      BY <1>1, <1>8, <2>1, <2>2, <3>1, <3>3, <3>4 DEF CalmHolds, AfterRecovery
  <2> QED
    BY <1>8, <2>3, <2>4, StepStage
<1>9. CASE stage \in Deciding \cup {"teardown", "seal"}
  <2>1. orig' = orig /\ again' = again
    BY <1>1, <1>9 DEF Keeps, orig, again
  <2>2. stage' \in Deciding \cup Settled \cup Broken
    BY <1>1, <1>9 DEF Moves, Broken
  <2>3. ~Before => stage \in Settled
    BY <1>9 DEF TypeOK, RunType, StagesOf, Ahead, Broken, Profiles, Before
  <2> QED
    BY <1>1, <1>9, <2>1, <2>2, <2>3 DEF CalmHolds, Broken
<1>10. stage \in Ahead \cup {"restore"} \cup Settled \cup Broken \cup Deciding \cup Attempting
         \cup {"terminal", "dlq", "injected", "send", "delete", "recovered", "ack", "final", "status"}
  BY DEF TypeOK, RunType, StagesOf, Profiles
<1> QED
  BY <1>2, <1>3, <1>4, <1>5, <1>6, <1>7, <1>8, <1>9, <1>10 DEF Ahead, Broken

-----------------------------------------------------------------------------
(* A clean Run of a sound product *)

LEMMA CleanStays ==
    /\ TypeOK /\ MarkerHolds /\ RunStep /\ Clean' => Clean
    /\ TypeOK /\ Product /\ Clean' => Clean
<1>1. ASSUME TypeOK, MarkerHolds, RunStep, Clean' PROVE Clean
  <2>1. Keeps /\ Moves /\ Calm
    BY <1>1, StepKeeps, StepMoves, CalmStays DEF Clean
  <2>2. flaw = "none" /\ stage \notin Broken
    BY <1>1, <2>1 DEF Clean, Keeps, Moves, Broken
  <2>3. marker # "expired"
    <3>1. CASE stage = "restore"
      <4>1. late' = (late \/ marker = "expired")
        BY <1>1, <3>1, StepStage, RestoreFaultDoes
      <4> QED
        BY <1>1, <4>1 DEF Clean, Calm
    <3>2. CASE stage = "apply"
      BY <1>1, <3>2 DEF MarkerHolds
    <3>3. CASE stage \notin {"restore", "apply"}
      BY <1>1, <2>1, <2>2, <3>3 DEF Keeps, Clean, Broken
    <3> QED
      BY <3>1, <3>2, <3>3
  <2> QED
    BY <2>1, <2>2, <2>3 DEF Clean
<1>2. ASSUME TypeOK, Product, Clean' PROVE Clean
  <2>1. /\ UNCHANGED <<flaw, outage, late, stage>>
        /\ marker' = marker \/ (marker' = "spent" /\ marker = "after") \/ marker' = "expired"
    BY <1>2, ProductDoes DEF Step
  <2> QED
    BY <1>2, <2>1 DEF Clean, Calm
<1> QED
  BY <1>1, <1>2

LEMMA CleanInit == Init => CleanBefore /\ CleanCases /\ CleanReplay /\ CleanAfter
<1> SUFFICES ASSUME Init PROVE CleanBefore /\ CleanCases /\ CleanReplay /\ CleanAfter
  OBVIOUS
<1>1. stage = "seed" /\ mem.injected = NoReport /\ mem.final = NoReport /\ mem.half = FALSE
  BY DEF Init, NoMem
<1> QED
  BY <1>1 DEF CleanBefore, CleanCases, CleanReplay, CleanAfter, PastDlq, Unfaulted, Redriven,
              Deciding, Settled, Attempting, Ahead

\* A read of n complete report sets, or of none.
LEMMA RowsAre ==
    ASSUME TypeOK, NEW n \in {0, 1}, db.documents = n, db.processed = n
    PROVE  ReportRows(n) \in Rows(n)
<1>1. published \in BOOLEAN
  BY DEF TypeOK, TargetType
<1> QED
  BY <1>1 DEF ReportRows, Rows

LEMMA CleanBeforeProduct ==
    ASSUME TypeOK, MarkerHolds, CopiesHold, CleanBefore, Product
    PROVE  CleanBefore'
<1>1. UNCHANGED <<flaw, profile, outage, stage, mem, late>> /\ Before' = Before
  BY ProductDoes, BeforeKept
<1> SUFFICES ASSUME Clean', Before PROVE CleanBefore'
  BY <1>1 DEF CleanBefore
<1>2. Clean
  BY CleanStays
<1>3. ASSUME stage \in {"boundary", "terminal", "dlq"}
      PROVE  /\ orig'.place \in Flying \cup {"dlq"}
             /\ stage = "dlq" /\ orig'.place \in {"outbox", "ready"} => mem.attempts = 1..orig'.count
             /\ stage = "dlq" /\ orig'.place = "dlq" => mem.attempts = AllAttempts
  <2>1. marker = "before" /\ again.place = "none" /\ mem.restored = "none"
    BY <1>2, <1>3 DEF MarkerHolds, CopiesHold, Clean, Unfaulted, Redriven, Deciding, Settled, Broken
  <2>2. /\ orig.place \in Flying \cup {"dlq"}
        /\ stage = "dlq" /\ orig.place \in {"outbox", "ready"} => mem.attempts = 1..orig.count
        /\ stage = "dlq" /\ orig.place = "dlq" => mem.attempts = AllAttempts
    BY <1>2, <1>3 DEF CleanBefore
  <2>3. flaw = "none"
    BY <1>2 DEF Clean
  <2>4. CASE orig' = orig
    BY <2>2, <2>4
  <2>5. CASE orig.place = "outbox" /\ orig'.place = "ready" /\ orig'.count = orig.count
    BY <2>2, <2>5 DEF Flying
  <2>6. CASE Step(orig, orig')
    <3>1. stage = "dlq" => ~(orig.place = "hidden" /\ orig'.place = "ready")
      BY DEF Product, Copies, orig
    <3>2. \/ orig.place = "ready" /\ orig.count = MaxReceive /\ orig'.place = "dlq"
          \/ orig'.place = "hidden"
          \/ orig.place = "hidden" /\ orig'.place = "ready"
      BY <2>1, <2>3, <2>6 DEF Step
    <3> QED
      BY <2>2, <3>1, <3>2 DEF Flying, AllAttempts
  <2>7. ~Step(again, again')
    BY <2>1 DEF Step
  <2> QED
    BY <2>4, <2>5, <2>6, <2>7, ProductDoes
<1> QED
  BY <1>1, <1>2, <1>3 DEF CleanBefore

LEMMA CleanOthersProduct ==
    ASSUME TypeOK, Product
    PROVE  /\ CleanCases => CleanCases'
           /\ CleanReplay => CleanReplay'
           /\ CleanAfter => CleanAfter'
<1>1. UNCHANGED <<hiring, profile, stage, mem>> /\ Before' = Before /\ (Clean' => Clean)
  BY ProductDoes, BeforeKept, CleanStays
<1> QED
  BY <1>1 DEF CleanCases, CleanReplay, CleanAfter

\* The effects that a clean BEFORE Run finds: none, then the one report set.
LEMMA CleanRows ==
    ASSUME TypeOK, CopiesHold, BeforeHolds, Before, flaw = "none", mem.dlq = "PRESENT"
    PROVE  /\ again.place = "none" => db = NoRows
           /\ again.place = "done" => db.reports = 1 /\ db.documents = 1 /\ db.processed = 1
<1>1. orig.place # "done"
  BY DEF CopiesHold
<1>2. db \in [reports : Nat, documents : Nat, processed : {0, 1}]
  BY DEF TypeOK, TargetType
<1>3. again.place = "none" => db.reports = 0 /\ db.documents = 0 /\ db.processed = 0
  BY <1>1 DEF BeforeHolds
<1>4. again.place = "none" => db = NoRows
  BY <1>2, <1>3 DEF NoRows
<1>5. again.place = "done" => db.reports = 1 /\ db.documents = 1 /\ db.processed = 1
  BY DEF BeforeHolds
<1> QED
  BY <1>4, <1>5

LEMMA CleanBeforeRun ==
    ASSUME TypeOK, MarkerHolds, CopiesHold, BeforeHolds, ReadsHold, CalmHolds, CleanBefore, RunStep
    PROVE  CleanBefore'
<1>1. Keeps /\ Moves /\ Remembers /\ Before' = Before
  BY StepKeeps, StepMoves, StepRemembers, BeforeKept DEF Keeps
<1> SUFFICES ASSUME Clean', Before PROVE CleanBefore'
  BY <1>1 DEF CleanBefore
<1>2. Clean /\ Calm /\ outage = "none" /\ late = FALSE /\ late' = FALSE /\ flaw = "none"
  BY CleanStays DEF Clean, Calm, TypeOK, RunType
<1> USE DEF PastDlq, Unfaulted, Redriven, Deciding, Settled, Attempting
<1>3. CASE stage \in {"seed", "apply", "raised", "unwind", "sealed"}
  <2>1. mem'.injected = mem.injected /\ mem'.final = mem.final
    BY <1>1, <1>3 DEF Remembers
  <2>2. stage' \in {"apply", "trigger"}
    BY <1>1, <1>2, <1>3 DEF Moves, Clean, Broken
  <2> QED
    BY <1>1, <1>2, <1>3, <2>1, <2>2 DEF CleanBefore
<1>4. CASE stage = "trigger"
  <2>1. mem'.injected = mem.injected /\ mem'.final = mem.final
    BY <1>1, <1>4 DEF Remembers
  <2>2. stage' = "boundary" /\ Put("orig", "outbox")
    BY <1>2, <1>4, StepStage DEF Trigger
  <2>3. orig'.place = "outbox"
    BY <2>2, CopyPut DEF Copies
  <2> QED
    BY <1>1, <1>2, <1>4, <2>1, <2>2, <2>3 DEF CleanBefore, Flying
<1>5. CASE stage = "boundary"
  <2>1. mem'.injected = mem.injected /\ mem'.final = mem.final /\ orig' = orig
    BY <1>1, <1>5 DEF Remembers, Keeps, orig
  <2>2. stage' \in {"boundary", "terminal"}
    <3>1. stage' \notin Broken
      BY DEF Clean
    <3> QED
      BY <1>1, <1>5, <3>1 DEF Moves, Broken
  <2> QED
    BY <1>1, <1>2, <1>5, <2>1, <2>2 DEF CleanBefore
<1>6. CASE stage = "terminal"
  <2>1. mem'.injected = mem.injected /\ mem'.final = mem.final /\ orig' = orig
    BY <1>1, <1>6 DEF Remembers, Keeps, orig
  <2>2. /\ stage' = "dlq" /\ mem'.attemptsLost \in MayLose("receipts")
        /\ mem'.attempts = IF mem'.attemptsLost THEN {} ELSE Attempts
    BY <1>6, StepStage, PollAttemptsDoes
  <2>3. ~mem'.attemptsLost
    BY <1>2, <2>2, MayLoseType
  <2>4. subject = TRUE
    BY <1>6 DEF MarkerHolds, TypeOK, TargetType
  <2>5. mem'.attempts = 1..orig.count
    BY <2>2, <2>3, <2>4 DEF BeforeHolds
  <2>6. orig.place = "dlq" => orig.count = MaxReceive
    BY DEF CopiesHold
  <2> QED
    BY <1>1, <1>2, <1>6, <2>1, <2>2, <2>3, <2>5, <2>6 DEF CleanBefore, AllAttempts
<1>7. CASE stage = "dlq"
  <2>1. /\ mem'.injected = mem.injected /\ mem'.final = mem.final /\ orig' = orig
        /\ mem'.attempts = mem.attempts /\ mem'.attemptsLost = mem.attemptsLost
    BY <1>1, <1>7 DEF Remembers, Keeps, orig
  <2>2. again.place = "none"
    BY <1>7 DEF CopiesHold, MarkerHolds, Broken
  <2>3. orig.place \in Flying \cup {"dlq"}
    BY <1>2, <1>7 DEF CleanBefore
  <2>4. \/ stage' = "terminal"
        \/ stage' = AfterTerminal /\ Dead /\ mem'.dlq = "PRESENT"
        \/ stage' = AfterTerminal /\ ~Dead /\ ~InFlight
    BY <1>2, <1>7, StepStage, PollDlqDoes
  <2>5. Dead <=> orig.place = "dlq"
    BY <2>2, DeadIs
  <2>6. InFlight <=> orig.place \in Flying
    BY <2>2, InFlightIs DEF Flying
  <2>7. \/ stage' = "terminal"
        \/ stage' = AfterTerminal /\ orig.place = "dlq" /\ mem'.dlq = "PRESENT"
    BY <2>3, <2>4, <2>5, <2>6
  <2> QED
    BY <1>1, <1>2, <1>7, <2>1, <2>3, <2>7 DEF CleanBefore, AfterTerminal
<1>8. CASE stage \in {"status", "restore"} \cup Attempting \cup {"send", "delete"} \cup Deciding
                     \cup {"teardown", "seal"}
  <2>1. /\ mem'.injected = mem.injected /\ mem'.final = mem.final
        /\ mem'.attempts = mem.attempts /\ mem'.attemptsLost = mem.attemptsLost
        /\ mem'.dlq = mem.dlq
    BY <1>1, <1>8 DEF Remembers
  <2>2. stage' \in PastDlq \ {"injected"}
    <3>1. stage' \notin Broken
      BY DEF Clean
    <3> QED
      BY <1>1, <1>8, <3>1 DEF Moves, Broken
  <2> QED
    BY <1>1, <1>2, <1>8, <2>1, <2>2 DEF CleanBefore
<1>9. CASE stage = "injected"
  <2>1. /\ mem'.final = mem.final /\ mem'.attempts = mem.attempts
        /\ mem'.attemptsLost = mem.attemptsLost /\ mem'.dlq = mem.dlq
    BY <1>1, <1>9 DEF Remembers
  <2>2. stage' \in {"injected", "restore"}
    BY <1>1, <1>9 DEF Moves
  <2>3. mem'.injected \in {NoReport} \cup Nothing
    <3>1. CASE ReadReports
      BY <1>2, <3>1, ReadReportsDoes DEF Differ, Fields, CleanBefore
    <3>2. CASE ReadInjected
      <4>1. mem'.injected = ReportRows(mem.rows)
        BY <1>2, <3>2, ReadInjectedDoes, CalmReads
      <4>2. again.place = "none"
        BY <1>9 DEF CopiesHold, MarkerHolds, Broken
      <4>3. mem.dlq = "PRESENT"
        BY <1>2, <1>9 DEF CleanBefore
      <4>4. db = NoRows
        BY <1>2, <4>2, <4>3, CleanRows
      <4>5. mem.rows = 0
        <5>1. mem.rows \in Nat /\ mem.rows <= 0
          BY <4>4 DEF ReadsHold, NoRows, TypeOK, RunType, Memories
        <5> QED
          BY <5>1
      <4> QED
        BY <4>1, <4>4, <4>5, RowsAre DEF NoRows, Nothing
    <3> QED
      BY <1>9, <3>1, <3>2, StepStage
  <2> QED
    BY <1>1, <1>2, <1>9, <2>1, <2>2, <2>3 DEF CleanBefore
<1>10. CASE stage = "recovered"
  <2>1. /\ mem'.injected = mem.injected /\ mem'.attempts = mem.attempts
        /\ mem'.attemptsLost = mem.attemptsLost /\ mem'.dlq = mem.dlq
    BY <1>1, <1>10 DEF Remembers
  <2>2. stage' \in {"recovered", AfterRecovery}
    BY <1>1, <1>10 DEF Moves
  <2>3. stage' # "recovered" => mem'.final \in Complete
    <3>1. CASE ReadReports
      BY <1>10, <3>1, ReadReportsDoes
    <3>2. CASE PollRecovered
      <4>1. /\ mem.half = TRUE /\ mem'.final \in ReportsTaken
            /\ \/ (Lost(mem'.final) \/ mem'.final.reports > 0) /\ stage' = AfterRecovery
               \/ stage' = stage
        BY <1>2, <3>2, PollRecoveredDoes
      <4>2. mem'.final = ReportRows(mem.rows) /\ ~Lost(mem'.final)
        BY <1>2, <4>1, CalmReads
      <4>3. stage' # stage => mem.rows > 0
        BY <4>1, <4>2, ReportRowsAre
      <4>4. mem.rows > 0 => again.place = "done"
        BY <1>2, <1>10, <4>1 DEF CalmHolds
      <4>5. mem.dlq = "PRESENT"
        BY <1>2, <1>10 DEF CleanBefore
      <4>6. mem.rows > 0 => db.reports = 1 /\ db.documents = 1 /\ db.processed = 1
        BY <1>2, <4>4, <4>5, CleanRows
      <4>7. mem.rows > 0 => mem.rows = 1
        <5>1. mem.rows \in Nat /\ mem.rows <= db.reports
          BY DEF ReadsHold, TypeOK, RunType, Memories
        <5> QED
          BY <4>6, <5>1
      <4> QED
        BY <1>10, <4>2, <4>3, <4>6, <4>7, RowsAre DEF Complete
    <3> QED
      BY <1>10, <3>1, <3>2, StepStage
  <2> QED
    BY <1>1, <1>2, <1>10, <2>1, <2>2, <2>3 DEF CleanBefore, AfterRecovery
<1>11. stage \in Ahead \cup {"restore"} \cup Settled \cup Broken \cup Deciding \cup Attempting
         \cup {"terminal", "dlq", "injected", "send", "delete", "recovered", "status"}
  BY DEF TypeOK, RunType, StagesOf, Profiles, Before
<1> QED
  BY <1>3, <1>4, <1>5, <1>6, <1>7, <1>8, <1>9, <1>10, <1>11 DEF Ahead, Broken

LEMMA ParticularSets ==
    /\ NoDecision # Once
    /\ Paths[1] = "FINAL_DECISION"
    /\ subject = TRUE /\ hiring = NoDecision => DecisionRows = Nobody
    /\ subject = TRUE /\ hiring = Once => DecisionRows = Decided1
<1>1. Once.stage = "final" /\ NoDecision.stage = "initial"
  BY DEF Once, NoDecision
<1> QED
  BY <1>1 DEF Paths, DecisionRows, Nobody, Decided1

LEMMA CleanCasesRun ==
    ASSUME TypeOK, MarkerHolds, CopiesHold, BeforeHolds, CasesHold, CleanBefore, CleanCases, RunStep,
           CleanBefore'
    PROVE  CleanCases'
<1>1. Keeps /\ Moves /\ Remembers /\ Before' = Before /\ profile' = profile
  BY StepKeeps, StepMoves, StepRemembers, BeforeKept DEF Keeps
<1> SUFFICES ASSUME Clean', profile = "H03_DLQ_V2" PROVE CleanCases'
  BY <1>1 DEF CleanCases
<1>2. Clean /\ outage = "none" /\ flaw = "none" /\ Before /\ stage' \notin Broken
  BY CleanStays DEF Clean, Calm, Before
<1>3. mem.cases \in Seq(Cases) /\ mem.case \in Cases
  BY DEF TypeOK, RunType, Memories
<1> USE DEF PastDlq, Unfaulted, Redriven, Deciding, Settled, Attempting
<1>4. CASE stage \notin {"status"} \cup Attempting
  <2>1. mem'.api = mem.api /\ mem'.ui = mem.ui /\ mem'.cases = mem.cases
    BY <1>1, <1>4 DEF Remembers
  <2>2. stage' \notin Attempting /\ stage \notin {"injected", "final"}
        /\ (stage' \in PastDlq => stage \in PastDlq \/ stage' = "status")
    <3>1. stage \notin {"injected", "final"}
      BY DEF TypeOK, RunType, StagesOf, Profiles, Ahead, Broken
    <3> QED
      BY <1>1, <1>2, <1>4, <3>1 DEF Moves, AfterTerminal, AfterRecovery, Broken
  <2>3. stage' = "status" => DOMAIN mem.cases = {}
    <3>1. stage' = "status" => stage = "dlq"
      BY <1>1, <1>4 DEF Moves, AfterRecovery
    <3>2. stage = "dlq" => Len(mem.cases) = 0
      BY DEF CasesHold
    <3>3. Len(mem.cases) = 0 => DOMAIN mem.cases = {}
      BY <1>3
    <3> QED
      BY <3>1, <3>2, <3>3
  <2> QED
    BY <1>1, <1>2, <1>4, <2>1, <2>2, <2>3 DEF CleanCases
<1>5. CASE stage = "status"
  <2>1. ReadStatus /\ stage' = "case" /\ hiring' = hiring /\ mem'.cases = mem.cases
    BY <1>1, <1>2, <1>5, StepStage, ReadStatusDoes DEF Keeps, Remembers
  <2>2. mem'.api = ShownByApi /\ mem'.ui = ShownByPage
    BY <1>2, <2>1, ReadStatusDoes
  <2>3. orig.place = "dlq"
    <3>1. mem.dlq = "PRESENT"
      BY <1>2, <1>5 DEF CleanBefore
    <3>2. mem.redrive = "none"
      BY <1>5 DEF CopiesHold, Broken
    <3> QED
      BY <3>1, <3>2 DEF CopiesHold
  <2>4. Terminated
    BY <2>3, DeadIs DEF Terminated
  <2>5. mem'.api = "failed" /\ mem'.ui = "final_failed"
    BY <1>2, <2>2, <2>4 DEF ShownByApi, ShownByPage
  <2>6. hiring = NoDecision
    BY <1>5 DEF CasesHold, Broken
  <2> QED
    BY <1>1, <1>2, <1>5, <2>1, <2>5, <2>6 DEF CleanCases
<1>6. CASE stage \in Attempting
  <2>1. mem'.api = mem.api /\ mem'.ui = mem.ui
    BY <1>1, <1>6 DEF Remembers
  <2>2. hiring = NoDecision /\ subject = TRUE
    BY <1>2, <1>6 DEF CleanCases, MarkerHolds, Broken, TypeOK, TargetType
  <2>3. CASE stage = "case"
    <3>1. /\ stage' = "attempt" /\ hiring' = hiring /\ mem'.cases = mem.cases
          /\ mem'.case.pre \in EffectsTaken
      BY <1>1, <1>2, <2>3, StepStage, OpenCaseDoes DEF Keeps, Remembers
    <3>2. mem'.case.pre = Nobody
      BY <1>2, <2>2, <3>1, CalmReads, ParticularSets
    <3> QED
      BY <1>1, <1>2, <2>1, <2>2, <2>3, <3>1, <3>2 DEF CleanCases
  <2>4. CASE stage = "attempt"
    <3>1. stage' = "post" /\ mem'.cases = mem.cases /\ mem'.case.pre = mem.case.pre
      BY <1>1, <2>4, StepStage, AttemptCaseDoes DEF Remembers
    <3>2. PICK lost \in BOOLEAN :
            mem'.case.answer = Heard(lost) /\ Request(Paths[Len(mem.cases) + 1], 1, lost)
      BY <2>4, StepStage, AttemptCaseDoes
    <3>3. again.place = "none"
      BY <2>4 DEF CopiesHold, MarkerHolds, Broken
    <3>4. mem.dlq = "PRESENT"
      BY <1>2, <2>4 DEF CleanBefore
    <3>5. db = NoRows
      BY <1>2, <3>3, <3>4, CleanRows
    <3>6. ~Accepts /\ ~lost
      BY <1>2, <3>2, <3>5 DEF Accepts, NoRows, Request
    <3>7. hiring' = hiring /\ mem'.case.answer = "refused"
      BY <1>2, <3>2, <3>6 DEF Request, Answer, Heard
    <3> QED
      BY <1>1, <1>2, <2>1, <2>2, <2>4, <3>1, <3>7 DEF CleanCases
  <2>5. CASE stage = "post"
    <3>1. /\ stage' = "reset" /\ mem'.cases = mem.cases /\ mem'.case.pre = mem.case.pre
          /\ mem'.case.answer = mem.case.answer /\ hiring' = hiring
          /\ mem'.case.post \in EffectsTaken
      BY <1>1, <2>5, StepStage, ReadPostDoes DEF Remembers, Keeps
    <3>2. mem'.case.post = Nobody
      BY <1>2, <2>2, <3>1, CalmReads, ParticularSets
    <3> QED
      BY <1>1, <1>2, <2>1, <2>2, <2>5, <3>1, <3>2 DEF CleanCases
  <2>6. CASE stage = "reset"
    <3>1. /\ stage' \in {"case", "restore"} /\ (mem.token = NoDecision => hiring' = NoDecision)
          /\ mem'.cases = Append(mem.cases, mem.case)
      BY <1>2, <2>6, StepStage, ResetCaseDoes
    <3>2. mem.token = NoDecision
      BY <2>6 DEF CasesHold
    <3>3. mem.case = Refused
      <4>1. mem.case.answer = "refused" /\ mem.case.pre = Nobody /\ mem.case.post = Nobody
        BY <1>2, <2>6 DEF CleanCases
      <4> QED
        BY <1>3, <4>1 DEF Cases, Refused
    <3> DEFINE n == Len(mem.cases)
    <3>4. /\ DOMAIN mem'.cases = 1..(n + 1) /\ mem'.cases[n + 1] = mem.case
          /\ \A i \in 1..n : mem'.cases[i] = mem.cases[i]
          /\ DOMAIN mem.cases = 1..n /\ n \in Nat
      BY <1>3, <3>1
    <3>5. \A i \in DOMAIN mem'.cases : mem'.cases[i] = Refused
      <4> SUFFICES ASSUME NEW i \in 1..(n + 1) PROVE mem'.cases[i] = Refused
        BY <3>4
      <4>1. i = n + 1 \/ i \in 1..n
        <5>1. n \in Nat
          BY <3>4
        <5> HIDE DEF n
        <5> QED
          BY <5>1
      <4>2. \A j \in 1..n : mem.cases[j] = Refused
        BY <1>2, <2>6, <3>4 DEF CleanCases
      <4> QED
        BY <3>3, <3>4, <4>1, <4>2
    <3> QED
      BY <1>1, <1>2, <2>1, <2>6, <3>1, <3>2, <3>5 DEF CleanCases
  <2> QED
    BY <1>6, <2>3, <2>4, <2>5, <2>6
<1> QED
  BY <1>4, <1>5, <1>6

LEMMA CleanReplayRun ==
    ASSUME TypeOK, MarkerHolds, ReplayHolds, CleanReplay, RunStep
    PROVE  CleanReplay'
<1>1. Keeps /\ Moves /\ Remembers /\ profile' = profile
  BY StepKeeps, StepMoves, StepRemembers DEF Keeps
<1> SUFFICES ASSUME Clean', profile = "E03_BEFORE_V2" PROVE CleanReplay'
  BY <1>1 DEF CleanReplay
<1>2. Clean /\ outage = "none" /\ flaw = "none" /\ stage' \notin Broken
  BY CleanStays DEF Clean, Calm
<1>3. stage \in {"decided", "replay", "replayed"} => subject = TRUE
  BY DEF MarkerHolds, TypeOK, TargetType, Broken
<1>4. CASE stage \notin {"decide", "decided", "replay", "replayed"}
  <2>1. /\ mem'.first = mem.first /\ mem'.firstEffects = mem.firstEffects
        /\ mem'.replay = mem.replay /\ mem'.replayEffects = mem.replayEffects
    BY <1>1, <1>4 DEF Remembers
  <2>2. /\ stage' \notin {"decided", "replay", "replayed"}
        /\ stage' \in Settled => stage \in Settled \/ mem.firstEffects = NoEffects
    <3>1. stage' \notin {"decided", "replay", "replayed"}
      BY <1>1, <1>4 DEF Moves, AfterTerminal, AfterRecovery
    <3>2. stage' \in Settled => stage \notin Broken
      BY <1>2 DEF Clean
    <3> QED
      BY <1>4, <3>1, <3>2 DEF ReplayHolds
  <2> QED
    BY <1>1, <1>2, <2>1, <2>2 DEF CleanReplay
<1>5. CASE stage \in {"decide", "replay"}
  <2>1. Accepts
    BY <1>5 DEF ReplayHolds, Accepts
  <2>2. CASE stage = "decide"
    <3>1. DecideFirst /\ stage' = "decided"
      BY <1>1, <2>2, StepStage DEF Moves
    <3>2. PICK lost \in BOOLEAN : mem'["first"] = Heard(lost) /\ Request(Paths[1], 1, lost)
      BY <3>1, DecideDoes DEF DecideFirst
    <3>3. ~lost /\ hiring = NoDecision
      BY <1>2, <2>2, <3>2 DEF Request, ReplayHolds
    <3>4. hiring' = Once /\ mem'.first = "accepted"
      BY <2>1, <3>2, <3>3, OnceOrTwice DEF Heard
    <3> QED
      BY <1>1, <3>1, <3>4 DEF CleanReplay, Settled
  <2>3. CASE stage = "replay"
    <3>1. DecideAgain /\ stage' = "replayed"
      BY <1>1, <2>3, StepStage DEF Moves
    <3>2. PICK lost \in BOOLEAN : mem'["replay"] = Heard(lost) /\ Request(Paths[1], 2, lost)
      BY <3>1, DecideDoes DEF DecideAgain
    <3>3. ~lost /\ hiring = Once /\ mem.first = "accepted" /\ mem.firstEffects = Decided1
      BY <1>2, <2>3, <3>2 DEF Request, CleanReplay
    <3>4. hiring' = Once /\ mem'.replay = "accepted"
      BY <1>2, <2>1, <3>2, <3>3, OnceOrTwice DEF Heard
    <3>5. mem'.first = mem.first /\ mem'.firstEffects = mem.firstEffects
      BY <1>1, <2>3 DEF Remembers
    <3> QED
      BY <1>1, <3>1, <3>3, <3>4, <3>5 DEF CleanReplay, Settled
  <2> QED
    BY <1>5, <2>2, <2>3
<1>6. CASE stage = "decided"
  <2>1. ReadFirst /\ stage' = "replay" /\ hiring' = hiring /\ mem'.first = mem.first
    BY <1>1, <1>6, StepStage DEF Moves, Keeps, Remembers
  <2>2. mem'["firstEffects"] \in EffectsTaken
    BY <2>1, ReadDecisionDoes DEF ReadFirst
  <2>3. hiring = Once /\ mem.first = "accepted"
    BY <1>2, <1>6 DEF CleanReplay
  <2>4. mem'.firstEffects = Decided1
    BY <1>2, <1>3, <1>6, <2>2, <2>3, CalmReads, ParticularSets
  <2> QED
    BY <1>1, <2>1, <2>3, <2>4 DEF CleanReplay, Settled
<1>7. CASE stage = "replayed"
  <2>1. /\ ReadReplay /\ stage' = "teardown" /\ hiring' = hiring /\ mem'.first = mem.first
        /\ mem'.firstEffects = mem.firstEffects /\ mem'.replay = mem.replay
    BY <1>1, <1>7, StepStage DEF Moves, Keeps, Remembers
  <2>2. mem'["replayEffects"] \in EffectsTaken
    BY <2>1, ReadDecisionDoes DEF ReadReplay
  <2>3. /\ hiring = Once /\ mem.first = "accepted" /\ mem.firstEffects = Decided1
        /\ mem.replay = "accepted"
    BY <1>2, <1>7 DEF CleanReplay
  <2>4. mem'.replayEffects = Decided1
    BY <1>2, <1>3, <1>7, <2>2, <2>3, CalmReads, ParticularSets
  <2> QED
    BY <1>1, <2>1, <2>3, <2>4 DEF CleanReplay, Settled
<1> QED
  BY <1>4, <1>5, <1>6, <1>7

LEMMA CleanAfterRun ==
    ASSUME TypeOK, MarkerHolds, CopiesHold, AfterHolds, ReadsHold, CleanAfter, RunStep
    PROVE  CleanAfter'
<1>1. Keeps /\ Moves /\ Remembers /\ Before' = Before
  BY StepKeeps, StepMoves, StepRemembers, BeforeKept DEF Keeps
<1> SUFFICES ASSUME Clean', ~Before PROVE CleanAfter'
  BY <1>1 DEF CleanAfter
<1>2. /\ Clean /\ outage = "none" /\ flaw = "none" /\ late = FALSE /\ late' = FALSE
      /\ stage \notin Broken /\ stage' \notin Broken
  BY CleanStays DEF Clean, Calm, TypeOK, RunType
<1>3. stage \in Ahead \cup {"injected", "ack", "final", "restore"} \cup Settled
  BY <1>2 DEF TypeOK, RunType, StagesOf, Profiles, Before
<1>4. CASE stage \in Ahead \ {"boundary"}
  <2>1. stage' \in Ahead /\ mem'.half = mem.half /\ mem'.rows = mem.rows
    BY <1>1, <1>2, <1>4 DEF Moves, Remembers, Ahead, Broken
  <2> QED
    BY <1>1, <1>2, <2>1 DEF CleanAfter, Ahead, Settled
<1>5. CASE stage = "boundary"
  <2>1. /\ mem'.half = mem.half /\ mem'.rows = mem.rows
        /\ stage' = "boundary" \/ (stage' = "injected" /\ mem'.boundary = TRUE)
    <3>1. PollBoundary
      BY <1>2, <1>5, StepStage DEF LoseReceipts, Broken
    <3> QED
      BY <1>1, <1>2, <1>5, <3>1, PollBoundaryDoes DEF Remembers
  <2> QED
    BY <1>1, <1>2, <1>5, <2>1 DEF CleanAfter, Ahead, Settled
<1>6. CASE stage \in {"injected", "ack", "final"}
  <2>1. mem.boundary /\ mem'.boundary = mem.boundary /\ FirstReceipt \in receipts
    BY <1>1, <1>2, <1>6 DEF CleanAfter, Remembers, Ahead, ReadsHold
  <2>2. db.reports = 1 /\ db.documents = 1 /\ db.processed = 1
    BY <1>2, <2>1 DEF AfterHolds
  <2>3. ReportRows(1) \in Complete
    BY <2>2, RowsAre DEF Complete
  <2>4. CASE ReadReports
    <3>1. /\ stage' = stage /\ mem'.rows = 1 /\ mem'.injected = mem.injected
          /\ mem'.ack = mem.ack
      BY <2>2, <2>4, ReadReportsDoes DEF Differ, Fields
    <3> QED
      BY <1>1, <1>2, <1>6, <2>1, <3>1 DEF CleanAfter, Ahead, Settled
  <2>5. CASE ReadInjected
    <3>1. /\ stage = "injected" /\ stage' = "ack" /\ mem.half = TRUE /\ mem'.half = FALSE
          /\ mem'.injected = ReportRows(mem.rows)
      BY <1>2, <2>5, ReadInjectedDoes, CalmReads
    <3>2. mem.rows = 1
      BY <1>2, <3>1 DEF CleanAfter
    <3> QED
      BY <1>1, <1>2, <2>1, <2>3, <3>1, <3>2 DEF CleanAfter, Ahead, Settled
  <2>6. CASE PollAck
    <3>1. AckRead \/ InFlight
      <4>1. marker \in {"after", "spent"}
        BY <1>2, <2>6 DEF MarkerHolds, Clean, PollAck, Unfaulted, Redriven, Deciding, Settled, Broken
      <4>2. marker = "spent"
        BY <2>1, <4>1 DEF AfterHolds
      <4>3. orig.place \in {"hidden", "ready"} => InFlight
        BY InFlightIs DEF Flying
      <4> QED
        BY <1>2, <4>2, <4>3 DEF AfterHolds
    <3>2. /\ stage = "ack"
          /\ \/ mem'.ack = "read" /\ stage' = "final"
             \/ stage' = stage
      BY <1>2, <2>6, <3>1, PollAckDoes
    <3>3. mem'.half = mem.half /\ mem'.rows = mem.rows /\ mem'.injected = mem.injected
      BY <1>1, <3>2 DEF Remembers
    <3> QED
      BY <1>1, <1>2, <2>1, <3>2, <3>3 DEF CleanAfter, Ahead, Settled
  <2>7. CASE ReadFinal
    <3>1. /\ stage = "final" /\ stage' = "restore" /\ mem.half = TRUE /\ mem'.half = FALSE
          /\ mem'.final = ReportRows(mem.rows)
          /\ mem'.dlq = IF Dead THEN "PRESENT" ELSE "ABSENT"
      BY <1>2, <2>7, ReadFinalDoes, CalmReads
    <3>2. mem.rows = 1 /\ mem.ack = "read" /\ mem.injected \in Complete
      BY <1>2, <3>1 DEF CleanAfter
    <3>3. ~Dead
      BY <3>2, DeadIs DEF ReadsHold, AfterHolds, CopiesHold
    <3>4. mem'.injected = mem.injected /\ mem'.ack = mem.ack
      BY <1>1, <3>1 DEF Remembers
    <3> QED
      BY <1>1, <1>2, <2>1, <2>3, <3>1, <3>2, <3>3, <3>4 DEF CleanAfter, Ahead, Settled
  <2>8. ~LoseReceipts /\ ~PollRecovered
    BY <1>2, <1>6 DEF LoseReceipts, PollRecovered
  <2> QED
    BY <1>6, <2>4, <2>5, <2>6, <2>7, <2>8, StepStage
<1>7. CASE stage \in {"restore"} \cup Settled
  <2>1. /\ mem'.boundary = mem.boundary /\ mem'.half = mem.half /\ mem'.rows = mem.rows
        /\ mem'.injected = mem.injected /\ mem'.ack = mem.ack /\ mem'.final = mem.final
        /\ mem'.dlq = mem.dlq
    BY <1>1, <1>7 DEF Remembers, Settled
  <2>2. stage \notin Ahead
    BY <1>7 DEF Ahead, Settled
  <2> QED
    BY <1>1, <1>2, <1>7, <2>1, <2>2 DEF CleanAfter
<1> QED
  BY <1>3, <1>4, <1>5, <1>6, <1>7

-----------------------------------------------------------------------------
(* The theorems *)

LEMMA InitHolds == Init => IInv
BY InitType, MarkerInit, CopiesInit, BeforeInit, AfterInit, ReadsInit, CasesInit, ReplayInit,
   CalmInit, CleanInit DEF IInv, VerdictHolds, Init

LEMMA NextHolds == IInv /\ [Next]_deliveryVars => IInv'
<1> SUFFICES ASSUME IInv, [Next]_deliveryVars PROVE IInv'
  OBVIOUS
<1> USE DEF IInv
<1>1. CASE RunStep /\ UNCHANGED published
  <2>1. TypeOK' /\ MarkerHolds' /\ CopiesHold' /\ BeforeHolds' /\ AfterHolds'
    BY <1>1, RunStepType, MarkerRun, CopiesRun, BeforeRun, AfterRun
  <2>2. ReadsHold' /\ CasesHold' /\ ReplayHolds' /\ VerdictHolds'
    BY <1>1, ReadsRun, CasesRun, ReplayRun, VerdictRun
  <2>3. CalmHolds' /\ CleanBefore'
    BY <1>1, CalmRun, CleanBeforeRun
  <2>4. CleanCases' /\ CleanReplay' /\ CleanAfter'
    BY <1>1, <2>3, CleanCasesRun, CleanReplayRun, CleanAfterRun
  <2> QED
    BY <2>1, <2>2, <2>3, <2>4
<1>2. CASE Product /\ UNCHANGED published
  <2>1. TypeOK' /\ MarkerHolds' /\ CopiesHold' /\ BeforeHolds' /\ AfterHolds'
    BY <1>2, ProductType, MarkerProduct, CopiesProduct, BeforeProduct, AfterProduct
  <2>2. ReadsHold' /\ CasesHold' /\ ReplayHolds' /\ VerdictHolds'
    BY <1>2, ReadsProduct, CasesProduct, ReplayProduct, VerdictProduct
  <2>3. CalmHolds' /\ CleanBefore' /\ CleanCases' /\ CleanReplay' /\ CleanAfter'
    BY <1>2, CalmProduct, CleanBeforeProduct, CleanOthersProduct
  <2> QED
    BY <2>1, <2>2, <2>3
<1>3. CASE UNCHANGED deliveryVars \/ (MarkPublished /\ UNCHANGED runVars)
  <2>1. /\ UNCHANGED <<msg, db, receipts, marker, hiring, subject, flaw,
                       profile, outage, stage, mem, late, verdict>>
        /\ published' \in BOOLEAN
    BY <1>3 DEF deliveryVars, targetVars, runVars, MarkPublished, TypeOK, TargetType
  <2>2. /\ orig' = orig /\ again' = again /\ Before' = Before /\ Attempts' = Attempts
        /\ (AckRead' <=> AckRead) /\ StagesOf' = StagesOf /\ Calm' = Calm /\ Clean' = Clean
    BY <2>1 DEF orig, again, Before, Attempts, AckRead, StagesOf, Calm, Clean
  <2>3. TypeOK' /\ MarkerHolds' /\ CopiesHold' /\ BeforeHolds' /\ AfterHolds'
    BY <2>1, <2>2 DEF TypeOK, TargetType, RunType, MarkerHolds, CopiesHold, BeforeHolds, AfterHolds
  <2>4. ReadsHold' /\ CasesHold' /\ ReplayHolds' /\ VerdictHolds'
    BY <2>1, <2>2 DEF ReadsHold, CasesHold, Telling, Lost, ReplayHolds, VerdictHolds
  <2>5. CalmHolds' /\ CleanBefore' /\ CleanCases' /\ CleanReplay' /\ CleanAfter'
    BY <2>1, <2>2 DEF CalmHolds, CleanBefore, CleanCases, CleanReplay, CleanAfter
  <2> QED
    BY <2>3, <2>4, <2>5
<1> QED
  BY <1>1, <1>2, <1>3 DEF Next

\* The inductive invariant holds of every Run of a queue profile, beside the
\* product's queue and worker (executors/e03_before.py, e03_after.py,
\* h03_dlq.py), whatever is wrong with the product or out of reach.
THEOREM Invariance == Spec => []IInv
<1>1. Init => IInv
  BY InitHolds
<1>2. IInv /\ [Next]_deliveryVars => IInv'
  BY NextHolds
<1> QED
  BY <1>1, <1>2, PTL DEF Spec

\* The three decision paths of H-03 start from one baseline (the reset between
\* them, executors/h03_dlq.py).
THEOREM CasesIsolated == Spec => []CasesAreIsolated
<1>1. IInv => CasesAreIsolated
  BY DEF IInv, CasesHold, CasesAreIsolated, Deciding, Settled, Broken
<1> QED
  BY <1>1, Invariance, PTL

\* No message about the applicant is left when an undisturbed Run is sealed.
THEOREM NoOrphans == Spec => []NoMessageOutlivesItsSubject
<1>1. ASSUME IInv, stage = "sealed", ~late, outage = "none", flaw # "early" PROVE ~InFlight
  <2>1. orig.place \notin Flying /\ again.place \in {"none", "done"}
    BY <1>1 DEF IInv, CalmHolds, Calm, Settled
  <2>2. TypeOK
    BY <1>1 DEF IInv
  <2> QED
    BY <2>1, <2>2, InFlightIs DEF Flying
<1>2. IInv => NoMessageOutlivesItsSubject
  BY <1>1 DEF NoMessageOutlivesItsSubject
<1> QED
  BY <1>2, Invariance, PTL

-----------------------------------------------------------------------------
(* A FAIL is the fault of the product, a PASS is true of it *)

\* How a verdict follows from the assertions.
LEMMA VerdictIs ==
    ASSUME NEW results, NEW safe \in BOOLEAN
    PROVE  /\ Verdict(results, safe) = "FAIL" =>
                safe /\ \E i \in DOMAIN results : results[i] = "FAIL"
           /\ Verdict(results, safe) = "PASS" =>
                safe /\ \A i \in DOMAIN results : results[i] \notin {"FAIL"} \cup Reasons
<1> DEFINE found == {results[i] : i \in DOMAIN results}
           v == Verdict(results, safe)
<1>1. CASE ~safe
  BY <1>1 DEF Verdict
<1>2. CASE safe /\ "FAIL" \in found
  BY <1>2 DEF Verdict
<1>3. CASE safe /\ "FAIL" \notin found
  <2>1. CASE found \cap Reasons # {}
    BY <1>3, <2>1 DEF Verdict, Unless
  <2>2. CASE found \cap Reasons = {}
    BY <1>3, <2>2 DEF Verdict
  <2> QED
    BY <2>1, <2>2
<1> QED
  BY <1>1, <1>2, <1>3

LEMMA DecidedOnce == ExactHumanDecision(Decided1)
<1>1. /\ Decided1.rows.stage = "final" /\ Decided1.rows.reviews = {<<"COMPANY_USER", 1>>}
      /\ Decided1.rows.audits = {<<Paths[1], "COMPANY_USER", 1>>}
  BY DEF Decided1, Once
<1>2. Cardinality(Decided1.rows.reviews) = 1 /\ Cardinality(Decided1.rows.audits) = 1
  BY <1>1, FS_Singleton
<1>3. \A review \in Decided1.rows.reviews : review[1] = "COMPANY_USER"
  BY <1>1
<1> QED
  BY <1>1, <1>2, <1>3 DEF ExactHumanDecision

\* The memory of a Run that ends while its product is sound.
LEMMA CleanEnd ==
    ASSUME IInv, verdict = "FAIL", Calm, flaw = "none"
    PROVE  /\ stage \in Settled /\ stage \in PastDlq /\ stage \in Unfaulted
           /\ stage \notin Ahead \cup {"recovered"} /\ Clean /\ mem.restored = "ok"
           /\ mem \in Memories
           /\ \E i \in DOMAIN Assertions(profile, mem) : Assertions(profile, mem)[i] = "FAIL"
<1>1. stage = "sealed" /\ Verdict(Assertions(profile, mem), RestoredSafely(mem)) = "FAIL"
  BY DEF IInv, VerdictHolds
<1>2. /\ mem.restored = "ok"
      /\ \E i \in DOMAIN Assertions(profile, mem) : Assertions(profile, mem)[i] = "FAIL"
  BY <1>1, VerdictIs DEF RestoredSafely
<1>3. marker = "none" /\ mem \in Memories
  BY <1>2 DEF IInv, MarkerHolds, TypeOK, RunType
<1> QED
  BY <1>1, <1>2, <1>3
  DEF Clean, Settled, PastDlq, Unfaulted, Ahead, Broken

LEMMA FailBefore ==
    ASSUME IInv, Calm, flaw = "none", stage \in Settled, Clean, profile = "E03_BEFORE_V2",
           NEW i \in DOMAIN BeforeAssertions(mem)
    PROVE  BeforeAssertions(mem)[i] # "FAIL"
<1>1. /\ mem.dlq = "PRESENT" /\ mem.attempts = AllAttempts /\ ~mem.attemptsLost
      /\ mem.injected \in {NoReport} \cup Nothing /\ mem.final \in {NoReport} \cup Complete
  BY DEF IInv, CleanBefore, Before, PastDlq, Unfaulted, Settled
<1>2. \/ mem.firstEffects = NoEffects
      \/ /\ mem.first = "accepted" /\ mem.firstEffects = Decided1
         /\ mem.replay = "accepted" /\ mem.replayEffects = Decided1
  BY DEF IInv, CleanReplay
<1>3. AllAttempts # {} /\ mem.boundary \in BOOLEAN
  <2>1. 1 \in AllAttempts
    BY DEF AllAttempts
  <2> QED
    BY <2>1 DEF IInv, TypeOK, RunType, Memories
<1>4. Lineage(mem) # "FAIL" /\ RetryTransition(mem) # "FAIL"
  BY <1>1, <1>3 DEF Lineage, RetryTransition, Lost, Missing, PassIf, Unless
<1>5. InjectedAbsence(mem) # "FAIL"
  <2>1. CASE mem.injected = NoReport
    BY <2>1 DEF InjectedAbsence, Lost, Missing, NoReport, PassIf, Unless
  <2>2. CASE mem.injected \in Nothing
    BY <1>3, <2>2 DEF InjectedAbsence, Lost, Missing, Nothing, Rows, HasDurableEffect, PassIf, Unless
  <2> QED
    BY <1>1, <2>1, <2>2
<1>6. RecoveredExactlyOnce(mem) # "FAIL"
  <2>1. CASE mem.final = NoReport
    BY <2>1 DEF RecoveredExactlyOnce, Lost, Missing, NoReport, PassIf, Unless
  <2>2. CASE mem.final \in Complete
    BY <2>2 DEF RecoveredExactlyOnce, Lost, Missing, Complete, Rows, OneReportingSet, PassIf, Unless
  <2> QED
    BY <1>1, <2>1, <2>2
<1>7. DecisionReplay(mem) # "FAIL"
  <2>1. CASE mem.firstEffects = NoEffects
    BY <2>1 DEF DecisionReplay, Missing, NoEffects
  <2>2. CASE mem.firstEffects # NoEffects
    <3>1. /\ mem.first = "accepted" /\ mem.replay = "accepted"
          /\ mem.firstEffects = Decided1 /\ mem.replayEffects = Decided1
      BY <1>2, <2>2
    <3>2. Decided1.status = "PRESENT"
      BY DEF Decided1
    <3> QED
      BY <3>1, <3>2, DecidedOnce DEF DecisionReplay, Missing, Lost, Unless, PassIf, SameDecision
  <2> QED
    BY <2>1, <2>2
<1>8. SafeRecovery(mem) # "FAIL"
  BY DEF SafeRecovery, PassOrUnsure
<1> QED
  BY <1>4, <1>5, <1>6, <1>7, <1>8 DEF BeforeAssertions

LEMMA FailAfter ==
    ASSUME IInv, Calm, flaw = "none", stage \in Settled, Clean, profile = "E03_AFTER_V2",
           ~MarkedMeanwhile, NEW i \in DOMAIN AfterAssertions(mem)
    PROVE  AfterAssertions(mem)[i] # "FAIL"
<1>1. /\ mem.injected \in Complete /\ mem.ack = "read" /\ mem.final \in Complete
      /\ mem.dlq = "ABSENT" /\ mem.boundary = TRUE
  BY DEF IInv, CleanAfter, Before, Settled, Ahead, Broken, TypeOK, RunType, Memories
<1>2. AfterLineage(mem) # "FAIL" /\ DuplicateShortCircuit(mem) # "FAIL"
      /\ AfterSafeRestore(mem) # "FAIL"
  BY <1>1 DEF AfterLineage, DuplicateShortCircuit, AfterSafeRestore, PassIf, PassOrUnsure, Unless,
              Lost, Complete, Rows
<1>3. AfterEffectsExact(mem) # "FAIL"
  <2>1. mem.final = mem.injected
    BY <1>1 DEF Complete, Rows, MarkedMeanwhile
  <2> QED
    BY <1>1, <2>1 DEF AfterEffectsExact, PassIf, Unless, Lost, Complete, Rows, OneReportingSet
<1> QED
  BY <1>2, <1>3 DEF AfterAssertions

LEMMA FailH03 ==
    ASSUME IInv, Calm, flaw = "none", stage \in Settled, Clean, profile = "H03_DLQ_V2",
           NEW i \in DOMAIN H03Assertions(mem)
    PROVE  H03Assertions(mem)[i] # "FAIL"
<1>1. mem.dlq = "PRESENT" /\ mem.attempts = AllAttempts /\ ~mem.attemptsLost
  BY DEF IInv, CleanBefore, Before, PastDlq, Unfaulted, Settled
<1>2. mem.api = "failed" /\ mem.ui = "final_failed"
      /\ \A j \in DOMAIN mem.cases : mem.cases[j] = Refused
  BY DEF IInv, CleanCases, PastDlq, Unfaulted, Settled
<1>3. mem.cases \in Seq(Cases) /\ Len(mem.cases) = 3
  BY DEF IInv, CasesHold, Unfaulted, Settled, TypeOK, RunType, Memories
<1>4. mem.cases[1] = Refused
  BY <1>2, <1>3
<1>5. Unchanged(Refused) /\ ~ByOthers(Refused) /\ ~DirectRisk(Refused)
  BY DEF Refused, Nobody, NoDecision, Unchanged, ByOthers, DirectRisk
<1>6. FailureShown(mem) # "FAIL" /\ Visibility(mem) # "FAIL" /\ Preservation(mem) # "FAIL"
  BY <1>1, <1>2 DEF FailureShown, Visibility, Preservation, PassIf, Unless
<1>7. FinalRefused(mem) # "FAIL" /\ NoPartialChange(mem) # "FAIL"
  BY <1>4, <1>5 DEF FinalRefused, NoPartialChange, Refused, PassIf
<1>8. NoAutomaticDecision(mem) # "FAIL"
  BY <1>2, <1>4, <1>5 DEF NoAutomaticDecision, PassIf
<1>9. DecisionPaths(mem) # "FAIL"
  <2>1. ~ \E case \in {mem.cases[j] : j \in DOMAIN mem.cases} : DirectRisk(case)
    BY <1>2, <1>5
  <2> QED
    BY <2>1 DEF DecisionPaths, Unless
<1>10. PassOrUnsure(mem.boundary) # "FAIL" /\ PassOrUnsure(RestoredSafely(mem)) # "FAIL"
  BY DEF PassOrUnsure
<1> QED
  BY <1>6, <1>7, <1>8, <1>9, <1>10 DEF H03Assertions

\* A FAIL accuses a product that is at fault (judges/e03.py, h03_dlq.py), when
\* every source could be read and nothing was late, but for the AFTER Run whose
\* two reads of the effects have the publisher's mark between them.
THEOREM FailJust == Spec => []FailIsProductFault
<1>1. ASSUME IInv, verdict = "FAIL", Calm, flaw = "none", ~(~Before /\ MarkedMeanwhile)
      PROVE  FALSE
  <2>1. /\ stage \in Settled /\ Clean
        /\ \E i \in DOMAIN Assertions(profile, mem) : Assertions(profile, mem)[i] = "FAIL"
    BY <1>1, CleanEnd
  <2>2. profile \in Profiles
    BY <1>1 DEF IInv, TypeOK, RunType
  <2>3. CASE profile = "E03_BEFORE_V2"
    BY <1>1, <2>1, <2>3, FailBefore DEF Assertions
  <2>4. CASE profile = "E03_AFTER_V2"
    BY <1>1, <2>1, <2>4, FailAfter DEF Assertions, Before
  <2>5. CASE profile = "H03_DLQ_V2"
    BY <1>1, <2>1, <2>5, FailH03 DEF Assertions
  <2> QED
    BY <2>2, <2>3, <2>4, <2>5 DEF Profiles
<1>2. IInv => FailIsProductFault
  BY <1>1 DEF FailIsProductFault, Calm
<1> QED
  BY <1>2, Invariance, PTL

\* The outcome of every assertion behind a PASS.
Passed(results) == \A i \in DOMAIN results : results[i] \notin {"FAIL"} \cup Reasons

LEMMA PassEnd ==
    ASSUME IInv, verdict = "PASS"
    PROVE  /\ stage = "sealed" /\ marker = "none" /\ Passed(Assertions(profile, mem))
           /\ TypeOK /\ mem \in Memories /\ profile \in Profiles
<1>1. stage = "sealed" /\ Verdict(Assertions(profile, mem), RestoredSafely(mem)) = "PASS"
  BY DEF IInv, VerdictHolds
<1>2. mem.restored = "ok" /\ Passed(Assertions(profile, mem))
  BY <1>1, VerdictIs DEF RestoredSafely, Passed
<1> QED
  BY <1>1, <1>2 DEF IInv, MarkerHolds, TypeOK, RunType

LEMMA PassBefore ==
    ASSUME IInv, verdict = "PASS", profile = "E03_BEFORE_V2"
    PROVE  flaw \notin {"early", "partial", "drops", "redecides"} /\ OneReportingSet(db) /\ ~Dead
<1>1. Before /\ mem \in Memories /\ Passed(BeforeAssertions(mem))
  BY PassEnd DEF Before, Assertions
<1>2. /\ Lineage(mem) \notin {"FAIL"} \cup Reasons
      /\ InjectedAbsence(mem) \notin {"FAIL"} \cup Reasons
      /\ RecoveredExactlyOnce(mem) \notin {"FAIL"} \cup Reasons
      /\ DecisionReplay(mem) \notin {"FAIL"} \cup Reasons
      /\ SafeRecovery(mem) \notin {"FAIL"} \cup Reasons
  BY <1>1 DEF Passed, BeforeAssertions
<1> USE DEF Reasons, Unless, PassIf, PassOrUnsure
<1>3. flaw # "drops"
  <2>1. mem.dlq = "PRESENT"
    BY <1>2 DEF Lineage
  <2> QED
    BY <2>1 DEF IInv, CopiesHold
<1>4. flaw # "early"
  <2>1. ~Lost(mem.injected) /\ ~Missing(mem.injected) /\ ~HasDurableEffect(mem.injected)
    BY <1>2 DEF InjectedAbsence
  <2>2. mem.injected \in Snapshots
    BY <1>1 DEF Memories
  <2>3. mem.injected.status = "PRESENT" /\ ~(mem.injected.reports > 0)
    BY <2>1, <2>2 DEF Lost, Missing, HasDurableEffect, Snapshots
  <2> QED
    BY <1>1, <2>3 DEF IInv, ReadsHold
<1>5. flaw # "partial" /\ mem.final.processed = 1
  <2>1. OneReportingSet(mem.final)
    BY <1>2 DEF RecoveredExactlyOnce
  <2> QED
    BY <2>1 DEF OneReportingSet, IInv, ReadsHold
<1>6. orig.place = "deleted"
  <2>1. mem.redrive = "done"
    BY <1>2 DEF SafeRecovery
  <2> QED
    BY <2>1 DEF IInv, CopiesHold
<1>7. db.processed = 1
  BY <1>5 DEF IInv, ReadsHold, TypeOK, TargetType
<1>8. again.place = "done"
  BY <1>1, <1>6, <1>7 DEF IInv, BeforeHolds
<1>9. OneReportingSet(db) /\ ~Dead
  BY <1>1, <1>4, <1>5, <1>6, <1>8, DeadIs DEF IInv, BeforeHolds, OneReportingSet
<1>10. flaw # "redecides"
  <2>1. /\ mem.replay = "accepted" /\ ExactHumanDecision(mem.firstEffects)
        /\ mem.firstEffects = mem.replayEffects
    BY <1>2 DEF DecisionReplay
  <2>2. mem.firstEffects.rows.stage = "final"
    BY <2>1 DEF ExactHumanDecision
  <2>3. mem.firstEffects.rows = Once
    BY <2>2 DEF IInv, ReplayHolds, NoDecision
  <2>4. mem.replayEffects.status = "PRESENT" /\ mem.replayEffects.rows.reviews = Once.reviews
    BY <2>1, <2>3 DEF IInv, ReplayHolds
  <2>5. Twice \notin Once.reviews
    BY DEF Twice, Once
  <2> QED
    BY <2>1, <2>3, <2>4, <2>5 DEF IInv, ReplayHolds
<1> QED
  BY <1>3, <1>4, <1>5, <1>9, <1>10

LEMMA PassAfter ==
    ASSUME IInv, verdict = "PASS", profile = "E03_AFTER_V2"
    PROVE  flaw \notin {"repeats", "partial"} /\ OneReportingSet(db) /\ ~Dead
<1>1. ~Before /\ mem \in Memories /\ Passed(AfterAssertions(mem))
  BY PassEnd DEF Before, Assertions
<1>2. /\ AfterLineage(mem) \notin {"FAIL"} \cup Reasons
      /\ AfterEffectsExact(mem) \notin {"FAIL"} \cup Reasons
  BY <1>1 DEF Passed, AfterAssertions
<1> USE DEF Reasons, Unless, PassIf
<1>3. flaw # "repeats" /\ orig.place = "done" /\ FirstReceipt \in receipts
  <2>1. mem.ack = "read"
    BY <1>2 DEF AfterLineage
  <2> QED
    BY <1>1, <2>1 DEF IInv, ReadsHold, AfterHolds
<1>4. flaw # "partial"
  <2>1. OneReportingSet(mem.injected)
    BY <1>2 DEF AfterEffectsExact
  <2> QED
    BY <2>1 DEF OneReportingSet, IInv, ReadsHold
<1>5. OneReportingSet(db)
  BY <1>1, <1>3, <1>4 DEF IInv, AfterHolds, OneReportingSet
<1>6. again.place = "none"
  BY <1>1 DEF IInv, CopiesHold
<1> QED
  BY <1>3, <1>4, <1>5, <1>6, DeadIs

LEMMA PassH03 ==
    ASSUME IInv, verdict = "PASS", profile = "H03_DLQ_V2"
    PROVE  flaw \notin {"early", "drops", "silent", "accepts", "leaks", "unexplained", "machine"}
<1>1. mem \in Memories /\ stage = "sealed" /\ Passed(H03Assertions(mem))
  BY PassEnd DEF Assertions
<1>2. /\ FailureShown(mem) \notin {"FAIL"} \cup Reasons
      /\ FinalRefused(mem) \notin {"FAIL"} \cup Reasons
      /\ NoPartialChange(mem) \notin {"FAIL"} \cup Reasons
      /\ DecisionPaths(mem) \notin {"FAIL"} \cup Reasons
      /\ Preservation(mem) \notin {"FAIL"} \cup Reasons
  BY <1>1 DEF Passed, H03Assertions
<1> USE DEF Reasons, Unless, PassIf
<1>3. flaw # "silent"
  <2>1. mem.ui = "final_failed"
    BY <1>2 DEF FailureShown
  <2> QED
    BY <2>1 DEF IInv, ReadsHold
<1>4. flaw # "drops"
  <2>1. mem.dlq = "PRESENT"
    BY <1>2 DEF Preservation
  <2> QED
    BY <2>1 DEF IInv, CopiesHold
<1>5. 1 \in DOMAIN mem.cases
  <2>1. Len(mem.cases) = 3 /\ mem.cases \in Seq(Cases)
    BY <1>1 DEF IInv, CasesHold, Unfaulted, Settled, Memories
  <2> QED
    BY <2>1
<1> DEFINE case == mem.cases[1]
<1>6. Telling(case) /\ case.pre.rows = NoDecision
  BY <1>5 DEF IInv, CasesHold
<1>7. case.answer = "refused" /\ Unchanged(case)
  BY <1>2 DEF FinalRefused, NoPartialChange
<1>8. ~CaseLost(case)
  <2>1. ~ \E c \in {mem.cases[i] : i \in DOMAIN mem.cases} : CaseLost(c)
    BY <1>2 DEF DecisionPaths
  <2> QED
    BY <1>5, <2>1
<1>9. ~Lost(case.post) /\ case.post.rows.stage # "final"
  BY <1>6, <1>7, <1>8 DEF CaseLost, Unchanged, NoDecision
<1>10. flaw \notin {"accepts", "unexplained", "early", "leaks", "machine"}
  BY <1>6, <1>7, <1>9 DEF Telling
<1> QED
  BY <1>3, <1>4, <1>10

\* A PASS is true of the product (judges/e03.py, h03_dlq.py, the verdict of
\* executors/sealed.py), whatever was late or out of reach.
THEOREM PassTrue == Spec => []PassIsTrue
<1>1. ASSUME IInv, verdict = "PASS"
      PROVE  /\ flaw \notin Tested /\ marker = "none"
             /\ profile # "H03_DLQ_V2" => OneReportingSet(db) /\ ~Dead
  <2>1. marker = "none" /\ profile \in Profiles
    BY <1>1, PassEnd
  <2>2. CASE profile = "E03_BEFORE_V2"
    BY <1>1, <2>1, <2>2, PassBefore DEF Tested
  <2>3. CASE profile = "E03_AFTER_V2"
    BY <1>1, <2>1, <2>3, PassAfter DEF Tested
  <2>4. CASE profile = "H03_DLQ_V2"
    BY <1>1, <2>1, <2>4, PassH03 DEF Tested
  <2> QED
    BY <2>1, <2>2, <2>3, <2>4 DEF Profiles
<1>2. IInv => PassIsTrue
  BY <1>1 DEF PassIsTrue
<1> QED
  BY <1>2, Invariance, PTL
-----------------------------------------------------------------------------
(* The event is in custody *)

\* The queues that hold the event, and what became of it, by the two copies.
Holding(first, second) ==
    (IF first \in Flying \/ second \in Flying THEN {"source"} ELSE {})
      \cup (IF first = "dlq" \/ second = "dlq" THEN {"dlq"} ELSE {})
Outcome(processed, first) ==
    IF processed = 1 THEN "handled" ELSE IF first = "dropped" THEN "lost" ELSE "open"

CustodyHolds ==
    /\ held = Holding(orig.place, again.place)
    /\ Fate = Outcome(db.processed, orig.place)

LEMMA CustodyIs == IInv => CustodyHolds
<1> SUFFICES ASSUME IInv PROVE CustodyHolds
  OBVIOUS
<1>1. "source" \in held <=> orig.place \in Flying \/ again.place \in Flying
  BY DEF held, Flying, Copies, orig, again
<1>2. "dlq" \in held <=> orig.place = "dlq" \/ again.place = "dlq"
  BY DEF held, Copies, orig, again
<1>3. held \subseteq {"source", "dlq"}
  BY DEF held
<1>4. again.place # "dropped"
  BY DEF IInv, CopiesHold
<1>5. In("dropped") # {} <=> orig.place = "dropped"
  BY <1>4 DEF In, Copies, orig, again
<1> QED
  BY <1>1, <1>2, <1>3, <1>5 DEF CustodyHolds, Holding, Fate, Outcome

\* What a step does to the places tells what it does to the custody.
LEMMA CustodyBoth == IInv /\ IInv' => CustodyHolds /\ CustodyHolds'
BY CustodyIs, PTL

LEMMA CustodyStep ==
    ASSUME IInv, IInv'
    PROVE  /\ held = Holding(orig.place, again.place)
           /\ Fate = Outcome(db.processed, orig.place)
           /\ held' = Holding(orig'.place, again'.place)
           /\ Fate' = Outcome(db'.processed, orig'.place)
BY CustodyBoth DEF CustodyHolds

\* Where the copies are while one of them is on its way.
LEMMA OnTheWay ==
    ASSUME IInv
    PROVE  /\ orig.place \notin {"dlq", "deleted"} => again.place = "none"
           /\ again.place # "none" => orig.place \in {"dlq", "deleted"} /\ flaw # "drops"
           /\ db.processed \in {0, 1}
BY DEF IInv, CopiesHold, TypeOK, TargetType

\* The worker publishes nothing new: it delivers, gives up or handles.
LEMMA ProductMaps ==
    ASSUME IInv, IInv', Product
    PROVE  [C!Next]_<<held, Fate>>
<1>1. /\ held = Holding(orig.place, again.place)
      /\ Fate = Outcome(db.processed, orig.place)
      /\ held' = Holding(orig'.place, again'.place)
      /\ Fate' = Outcome(db'.processed, orig'.place)
  BY CustodyStep
<1>2. TypeOK /\ flaw' = flaw
  BY ProductDoes DEF IInv
<1>3. Committed.processed = 1
  BY <1>2, CommittedAre
<1>4. [db EXCEPT !.reports = 1].processed = db.processed
  BY <1>2 DEF TypeOK, TargetType
<1>5. CASE UNCHANGED <<again, db>> /\ orig.place = "outbox" /\ orig'.place = "ready"
  BY <1>1, <1>5 DEF Holding, Outcome, Flying
<1>6. CASE UNCHANGED <<orig, again, db>>
  BY <1>1, <1>6
<1>7. CASE Step(orig, orig') /\ again' = again
  <2>1. CASE orig.place = "ready" /\ orig'.place = "hidden" /\ db'.processed = db.processed
    BY <1>1, <1>7, <2>1 DEF Holding, Outcome, Flying
  <2>2. CASE orig.place = "hidden" /\ orig'.place = "ready" /\ db' = db
    BY <1>1, <1>7, <2>2 DEF Holding, Outcome, Flying
  <2>3. CASE orig.place = "ready" /\ orig'.place \in {"dropped", "dlq"} /\ db' = db
    <3>1. again.place = "none" /\ held = {"source"}
      BY <1>1, <2>3, OnTheWay DEF Holding, Flying
    <3>2. CASE orig'.place = "dlq"
      <4>1. held' = {"dlq"} /\ Fate' = Fate
        BY <1>1, <1>7, <2>3, <3>1, <3>2 DEF Holding, Outcome, Flying
      <4> QED
        BY <3>1, <4>1 DEF C!Next, C!Die
    <3>3. CASE orig'.place = "dropped"
      <4>1. held' = {} /\ Fate' = IF Fate = "handled" THEN "handled" ELSE "lost"
        BY <1>1, <1>7, <2>3, <3>1, <3>3 DEF Holding, Outcome, Flying
      <4> QED
        BY <3>1, <4>1 DEF C!Next, C!ProductLoses
    <3> QED
      BY <2>3, <3>2, <3>3
  <2>4. CASE orig.place = "ready" /\ orig'.place = "hidden" /\ db' = Committed
    <3>1. "source" \in held /\ held' = held /\ Fate' = "handled"
      BY <1>1, <1>3, <1>7, <2>4 DEF Holding, Outcome, Flying
    <3> QED
      BY <3>1 DEF C!Next, C!HandleUnacknowledged
  <2>5. CASE orig.place = "ready" /\ orig'.place = "done" /\ db'.processed = 1
    <3>1. again.place = "none"
      BY <2>5, OnTheWay
    <3>2. held = {"source"} /\ held' = {} /\ Fate' = "handled"
      BY <1>1, <1>7, <2>5, <3>1 DEF Holding, Outcome, Flying
    <3> QED
      BY <3>2 DEF C!Next, C!Handle
  <2> QED
    BY <1>3, <1>4, <1>7, <2>1, <2>2, <2>3, <2>4, <2>5 DEF Step
<1>8. CASE Step(again, again') /\ orig' = orig
  <2>1. CASE again.place = "ready" /\ again'.place = "hidden" /\ db'.processed = db.processed
    BY <1>1, <1>8, <2>1 DEF Holding, Outcome, Flying
  <2>2. CASE again.place = "hidden" /\ again'.place = "ready" /\ db' = db
    BY <1>1, <1>8, <2>2 DEF Holding, Outcome, Flying
  <2>3. CASE /\ again.place = "ready" /\ db' = db
             /\ again'.place = IF flaw = "drops" THEN "dropped" ELSE "dlq"
    <3>1. again'.place = "dlq" /\ orig.place \in {"dlq", "deleted"}
      BY <2>3, OnTheWay
    <3>2. "source" \in held /\ held' = {"dlq"} /\ Fate' = Fate
      BY <1>1, <1>8, <2>3, <3>1 DEF Holding, Outcome, Flying
    <3> QED
      BY <3>2 DEF C!Next, C!Die
  <2>4. CASE again.place = "ready" /\ again'.place = "hidden" /\ db' = Committed
    <3>1. "source" \in held /\ held' = held /\ Fate' = "handled"
      BY <1>1, <1>3, <1>8, <2>4 DEF Holding, Outcome, Flying
    <3> QED
      BY <3>1 DEF C!Next, C!HandleUnacknowledged
  <2>5. CASE again.place = "ready" /\ again'.place = "done" /\ db'.processed = 1
    <3>1. orig.place \in {"dlq", "deleted"}
      BY <2>5, OnTheWay
    <3>2. "source" \in held /\ held' = held \ {"source"} /\ Fate' = "handled"
      BY <1>1, <1>8, <2>5, <3>1 DEF Holding, Outcome, Flying
    <3> QED
      BY <3>2 DEF C!Next, C!Handle
  <2> QED
    BY <1>3, <1>4, <1>8, <2>1, <2>2, <2>3, <2>4, <2>5 DEF Step
<1> QED
  BY <1>2, <1>5, <1>6, <1>7, <1>8, ProductDoes

\* The Run sends the event, sends it again and deletes the dead letter.
LEMMA RunMaps ==
    ASSUME IInv, IInv', RunStep
    PROVE  [C!Next]_<<held, Fate>>
<1>1. /\ held = Holding(orig.place, again.place)
      /\ Fate = Outcome(db.processed, orig.place)
      /\ held' = Holding(orig'.place, again'.place)
      /\ Fate' = Outcome(db'.processed, orig'.place)
  BY CustodyStep
<1>2. TypeOK /\ CopiesHold /\ db' = db /\ (stage \notin {"trigger", "send", "delete"} => msg' = msg)
  BY StepKeeps DEF IInv, Keeps
<1>3. CASE msg' = msg
  BY <1>1, <1>2, <1>3 DEF orig, again
<1>4. CASE stage = "trigger" /\ msg' # msg
  <2>1. Put("orig", "outbox")
    BY <1>2, <1>4, StepStage DEF Trigger
  <2>2. orig'.place = "outbox" /\ again' = again
    BY <1>2, <2>1, CopyPut DEF Copies
  <2>3. orig.place = "none" /\ again.place = "none" /\ db.processed = 0
    BY <1>2, <1>4, OnTheWay DEF CopiesHold, NoRows
  <2>4. held = {} /\ Fate = "open" /\ held' = {"source"} /\ Fate' = Fate
    BY <1>1, <1>2, <2>2, <2>3 DEF Holding, Outcome, Flying
  <2> QED
    BY <2>4 DEF C!Next, C!Publish
<1>5. stage \in {"send", "delete"} => mem.redrive = "none"
  BY <1>2 DEF CopiesHold, Redriven, Deciding, Settled, Broken
<1>6. CASE stage = "send" /\ msg' # msg
  <2>1. mem.dlq = "PRESENT" /\ msg' = [msg EXCEPT !["again"] = [place |-> "ready", count |-> 0]]
    BY <1>2, <1>6, StepStage, SendAgainDoes
  <2>2. again'.place = "ready" /\ orig' = orig
    BY <1>2, <2>1, CopyMoves DEF Copies
  <2>3. orig.place = "dlq" /\ again.place = "none"
    BY <1>2, <1>5, <1>6, <2>1 DEF CopiesHold
  <2>4. held = {"dlq"} /\ held' = {"source", "dlq"} /\ Fate' = Fate
    BY <1>1, <1>2, <2>2, <2>3 DEF Holding, Flying
  <2> QED
    BY <2>4 DEF C!Next, C!Resend, C!Queues
<1>7. CASE stage = "delete" /\ msg' # msg
  <2>1. Put("orig", "deleted")
    BY <1>2, <1>7, StepStage, DeleteDeadDoes DEF Put
  <2>2. orig'.place = "deleted" /\ again' = again
    BY <1>2, <2>1, CopyPut DEF Copies
  <2>3. /\ orig.place = "dlq" /\ Before
        /\ again.place = "ready" \/ (again.place = "done" /\ db.processed = 1)
    <3>1. subject
      BY <1>7 DEF IInv, MarkerHolds
    <3>2. again.place \in {"ready", "done"} /\ orig.place = "dlq" /\ Before
      BY <1>2, <1>5, <1>7, <3>1 DEF CopiesHold
    <3> QED
      BY <3>2 DEF IInv, BeforeHolds
  <2>4. /\ "dlq" \in held /\ held' = held \ {"dlq"} /\ Fate' = Fate
        /\ "source" \in held \/ Fate = "handled"
    BY <1>1, <1>2, <2>2, <2>3 DEF Holding, Outcome, Flying
  <2> QED
    BY <2>4 DEF C!Next, C!Discard
<1> QED
  BY <1>2, <1>3, <1>4, <1>6, <1>7

\* The event is never lost by the instrument: sent back before its dead letter
\* is deleted (coordinate_reporting_recovery, engine/execution.py).
THEOREM Implementation == Spec => ImplementsCustody
<1>1. Init => C!Init
  BY DEF Init, TargetInit, C!Init, held, Fate, In, Copies
<1>2. IInv /\ IInv' /\ [Next]_deliveryVars => [C!Next]_<<held, Fate>>
  <2> SUFFICES ASSUME IInv, IInv', [Next]_deliveryVars PROVE [C!Next]_<<held, Fate>>
    OBVIOUS
  <2>1. CASE UNCHANGED deliveryVars \/ MarkPublished
    BY <2>1 DEF deliveryVars, MarkPublished, targetVars, held, Fate, In
  <2> QED
    BY <2>1, ProductMaps, RunMaps DEF Next
<1>3. Spec => []IInv
  BY Invariance
<1> QED
  BY <1>1, <1>2, <1>3, PTL DEF Spec, ImplementsCustody, C!Spec
=============================================================================
