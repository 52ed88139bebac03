---------------------------- MODULE RetestsProofs ----------------------------
(***************************************************************************)
(* Proofs about Retests and RecordView, for any finite set of Runs.        *)
(***************************************************************************)
EXTENDS RecordView, TLAPS, FiniteSetTheorems, WellFoundedInduction

-----------------------------------------------------------------------------
(* Induction without an operator for the statement: the least counterexample *)

\* A set of naturals that is not empty has a least element.
LEMMA LeastNatural ==
    ASSUME NEW T \in SUBSET Nat, T # {}
    PROVE  \E n \in T : \A m \in T : n <= m
<1>1. PICK n \in T : \A m \in T : <<m, n>> \notin OpToRel(<, Nat)
  BY NatLessThanWellFounded, WFMin
<1>2. \A m \in T : ~(m < n)
  BY <1>1 DEF OpToRel
<1> QED
  BY <1>2

-----------------------------------------------------------------------------
(* The ancestors of a Run *)

\* What the verification reads next, and the generations up to the n-th.
Up(S) == S \cup ({origin[a] : a \in S} \ {None})

Generations(r, f, n) ==
    /\ f \in [0..n -> SUBSET Runs]
    /\ f[0] = {r}
    /\ \A i \in 1..n : f[i] = Up(f[i-1])

Lines(r, n) == CHOOSE f : f = [i \in 0..n |-> IF i = 0 THEN {r} ELSE Up(f[i-1])]

OriginType == origin \in [Runs -> Runs \cup {None}]

LEMMA UpType == ASSUME OriginType, NEW S \in SUBSET Runs PROVE Up(S) \in SUBSET Runs
  BY DEF OriginType, Up

\* There are generations up to any number: the function of the recursion exists.
LEMMA GenerationsExist ==
    ASSUME OriginType, NEW r \in Runs
    PROVE  \A n \in Nat : \E f : Generations(r, f, n)
<1> DEFINE T == {n \in Nat : ~ \E f : Generations(r, f, n)}
<1> SUFFICES ASSUME T # {} PROVE FALSE
  OBVIOUS
<1>1. PICK n \in T : \A m \in T : n <= m
  BY LeastNatural
<1>2. CASE n = 0
  <2>1. Generations(r, [i \in 0..0 |-> {r}], 0)
    BY DEF Generations
  <2> QED
    BY <1>2, <2>1
<1>3. CASE n # 0
  <2>1. n - 1 \in Nat /\ n - 1 \notin T
    BY <1>1, <1>3
  <2>2. PICK f : Generations(r, f, n - 1)
    BY <2>1
  <2> DEFINE g == [i \in 0..n |-> IF i = n THEN Up(f[n - 1]) ELSE f[i]]
  <2>3. f[n - 1] \in SUBSET Runs /\ f \in [0..(n - 1) -> SUBSET Runs]
    BY <2>1, <2>2 DEF Generations
  <2>4. Up(f[n - 1]) \in SUBSET Runs
    BY <2>3, UpType
  <2>5. g \in [0..n -> SUBSET Runs]
    <3>1. \A i \in 0..n : i # n => i \in 0..(n - 1)
      BY <2>1
    <3> QED
      BY <2>3, <2>4, <3>1
  <2>8. g[0] = {r}
    <3>1. 0 \in 0..n /\ 0 # n /\ f[0] = {r}
      BY <1>3, <2>2 DEF Generations
    <3> QED
      BY <3>1
  <2>6. ASSUME NEW i \in 1..n PROVE g[i] = Up(g[i - 1])
    <3>1. i - 1 \in 0..n /\ i - 1 # n /\ i \in 0..n
      BY <1>3, <2>1
    <3>2. g[i - 1] = f[i - 1]
      BY <3>1
    <3>3. CASE i = n
      BY <3>1, <3>2, <3>3
    <3>4. CASE i # n
      <4>1. i \in 1..(n - 1)
        BY <2>1, <3>4
      <4>2. f[i] = Up(f[i - 1])
        BY <2>2, <4>1 DEF Generations
      <4> QED
        BY <3>1, <3>2, <3>4, <4>2
    <3> QED
      BY <3>3, <3>4
  <2>7. Generations(r, g, n)
    BY <2>5, <2>6, <2>8 DEF Generations
  <2> QED
    BY <2>7
<1> QED
  BY <1>2, <1>3

\* The function of the recursion goes through the generations.
LEMMA LinesGenerate ==
    ASSUME OriginType, NEW r \in Runs, NEW n \in Nat
    PROVE  Generations(r, Lines(r, n), n)
<1> DEFINE f == Lines(r, n)
<1>1. PICK g : Generations(r, g, n)
  BY GenerationsExist
<1> DEFINE P(h) == h = [i \in 0..n |-> IF i = 0 THEN {r} ELSE Up(h[i-1])]
<1>2. P(g)
  BY <1>1 DEF Generations
<1>3. P(f)
  <2> HIDE DEF P
  <2>1. P(CHOOSE h : P(h))
    BY <1>2, Zenon
  <2>2. f = CHOOSE h : P(h)
    BY DEF P, Lines
  <2> QED
    BY <2>1, <2>2
<1> HIDE DEF f
<1>4. f[0] = {r} /\ \A i \in 1..n : f[i] = Up(f[i-1])
  <2>1. 0 \in 0..n
    OBVIOUS
  <2>2. f[0] = {r}
    BY <1>3, <2>1
  <2>3. ASSUME NEW i \in 1..n PROVE f[i] = Up(f[i-1])
    <3>1. i \in 0..n /\ i # 0
      OBVIOUS
    <3> HIDE DEF f
    <3> QED
      BY <1>3, <3>1
  <2> QED
    BY <2>2, <2>3
<1> DEFINE T == {i \in 0..n : f[i] # g[i]}
<1>5. T = {}
  <2> SUFFICES ASSUME T # {} PROVE FALSE
    OBVIOUS
  <2>1. PICK i \in T : \A m \in T : i <= m
    <3>1. T \in SUBSET Nat
      OBVIOUS
    <3> HIDE DEF T
    <3> QED
      BY <3>1, LeastNatural
  <2>2. i # 0
    BY <1>1, <1>4 DEF Generations
  <2>3. i - 1 \in 0..n /\ i - 1 \notin T /\ i \in 1..n
    BY <2>1, <2>2
  <2> QED
    BY <1>1, <1>4, <2>1, <2>3 DEF Generations
<1>6. f = g
  BY <1>1, <1>3, <1>5 DEF Generations
<1> QED
  BY <1>1, <1>6 DEF f
\* A Run belongs to each of its generations.
LEMMA GenerationsKeep ==
    ASSUME OriginType, NEW r \in Runs, NEW n \in Nat, NEW f, Generations(r, f, n)
    PROVE  r \in f[n]
<1> DEFINE T == {i \in 0..n : r \notin f[i]}
<1> SUFFICES ASSUME T # {} PROVE FALSE
  OBVIOUS
<1>1. PICK i \in T : \A m \in T : i <= m
  <2>1. T \in SUBSET Nat
    OBVIOUS
  <2> HIDE DEF T
  <2> QED
    BY <2>1, LeastNatural
<1>2. i # 0
  BY DEF Generations
<1>3. i - 1 \in 0..n /\ i - 1 \notin T /\ i \in 1..n
  BY <1>1, <1>2
<1>4. f[i] = Up(f[i - 1])
  BY <1>3 DEF Generations
<1> QED
  BY <1>1, <1>3, <1>4 DEF Up

\* The generations stay in any set that holds the Run and, with a Run, its parent.
LEMMA GenerationsStayIn ==
    ASSUME OriginType, NEW r \in Runs, NEW n \in Nat, NEW f, Generations(r, f, n),
           NEW S \in A!LineSets(r)
    PROVE  f[n] \subseteq S
<1> DEFINE T == {i \in 0..n : ~(f[i] \subseteq S)}
<1> SUFFICES ASSUME T # {} PROVE FALSE
  OBVIOUS
<1>1. PICK i \in T : \A m \in T : i <= m
  <2>1. T \in SUBSET Nat
    OBVIOUS
  <2> HIDE DEF T
  <2> QED
    BY <2>1, LeastNatural
<1>2. i # 0
  BY DEF Generations, A!LineSets
<1>3. i - 1 \in 0..n /\ i - 1 \notin T /\ i \in 1..n
  BY <1>1, <1>2
<1>4. f[i] = Up(f[i - 1])
  BY <1>3 DEF Generations
<1>5. f[i - 1] \subseteq S
  BY <1>3
<1>6. Up(f[i - 1]) \subseteq S
  BY <1>5 DEF Up, A!LineSets
<1> QED
  BY <1>1, <1>4, <1>6

\* Each generation that brings a Run more brings at least one.
LEMMA GenerationsGrow ==
    ASSUME OriginType, NEW r \in Runs, NEW n \in Nat, NEW f, Generations(r, f, n)
    PROVE  Up(f[n]) = f[n] \/ Cardinality(f[n]) > n
<1> DEFINE Grown(i) == Up(f[i]) = f[i] \/ Cardinality(f[i]) > i
           T        == {i \in 0..n : ~Grown(i)}
<1> SUFFICES ASSUME T # {} PROVE FALSE
  OBVIOUS
<1>1. PICK i \in T : \A m \in T : i <= m
  <2>1. T \in SUBSET Nat
    OBVIOUS
  <2> HIDE DEF T
  <2> QED
    BY <2>1, LeastNatural
<1>2. i # 0
  <2>1. f[0] = {r}
    BY DEF Generations
  <2>2. Cardinality({r}) = 1
    BY FS_Singleton
  <2>3. Grown(0)
    BY <2>1, <2>2
  <2> QED
    BY <1>1, <2>3
<1>3. i - 1 \in 0..n /\ i - 1 \notin T /\ i \in 1..n
  BY <1>1, <1>2
<1>4. f[i] = Up(f[i - 1]) /\ f[i] \subseteq Runs /\ f[i - 1] \subseteq Runs
  BY <1>3 DEF Generations
<1>5. Up(f[i - 1]) # f[i - 1]
  BY <1>1, <1>4
<1>6. Cardinality(f[i - 1]) > i - 1
  BY <1>3, <1>5
<1>7. PICK x \in f[i] : x \notin f[i - 1]
  BY <1>4, <1>5 DEF Up
<1>8. f[i - 1] \cup {x} \subseteq f[i]
  BY <1>4, <1>7 DEF Up
<1>9. /\ IsFiniteSet(f[i - 1]) /\ IsFiniteSet(f[i])
      /\ Cardinality(f[i - 1]) \in Nat /\ Cardinality(f[i]) \in Nat
  BY <1>4, RunsAreFinite, FS_Subset, FS_CardinalityType
<1>10. Cardinality(f[i - 1] \cup {x}) = Cardinality(f[i - 1]) + 1
  BY <1>7, <1>9, FS_AddElement
<1>11. Cardinality(f[i - 1] \cup {x}) <= Cardinality(f[i])
  BY <1>8, <1>9, FS_Subset
<1>12. Cardinality(f[i]) > i
  BY <1>3, <1>6, <1>9, <1>10, <1>11
<1> QED
  BY <1>1, <1>12

\* Line, which counts as many generations as there are Runs, is the least set
\* that holds the Run and, with a Run, its parent.
LEMMA LineIsLeast ==
    ASSUME OriginType, NEW r \in Runs
    PROVE  Line(r) = {a \in Runs : \A S \in A!LineSets(r) : a \in S}
<1> DEFINE N == Cardinality(Runs)
           f == Lines(r, N)
<1>1. N \in Nat
  BY RunsAreFinite, FS_CardinalityType
<1>2. Generations(r, f, N)
  BY <1>1, LinesGenerate
<1>3. Line(r) = f[N]
  BY DEF Line, Lines, Up
<1> HIDE DEF f
<1>4. f[N] \subseteq Runs
  BY <1>1, <1>2 DEF Generations
<1>5. \A S \in A!LineSets(r) : f[N] \subseteq S
  BY <1>1, <1>2, GenerationsStayIn
<1>6. f[N] \in A!LineSets(r)
  <2>1. Cardinality(f[N]) <= N /\ Cardinality(f[N]) \in Nat
    BY <1>4, RunsAreFinite, FS_Subset, FS_CardinalityType
  <2>2. Up(f[N]) = f[N]
    BY <1>1, <1>2, <2>1, GenerationsGrow
  <2>3. r \in f[N]
    BY <1>1, <1>2, GenerationsKeep
  <2>4. ASSUME NEW a \in f[N], origin[a] # None PROVE origin[a] \in f[N]
    BY <2>2, <2>4 DEF Up
  <2> QED
    BY <1>4, <2>3, <2>4 DEF A!LineSets
<1> QED
  BY <1>3, <1>4, <1>5, <1>6

\* What the verification reads of a Run is what its bundle rests on.
LEMMA CheckedRests ==
    ASSUME OriginType, family \in Families, NEW r \in Runs
    PROVE  Checked(r) = A!RestsOn(r)
BY LineIsLeast DEF Checked, A!RestsOn, Families

-----------------------------------------------------------------------------
(* The inductive invariant of Retests *)

USE NoneIsNoRun

LEMMA InitHolds == RetestsInit => IInv
<1> SUFFICES ASSUME RetestsInit PROVE IInv
  OBVIOUS
<1> USE DEF RetestsInit, RetestInit, RootInit, BundleInit, NoConfirm
<1>1. TypeOK
  BY DEF TypeOK, Stages, Ended, Families, Empty, Contents
<1>2. ASSUME NEW r \in Runs
      PROVE  WrittenInOrder(r) /\ DamageShows(r) /\ OutcomeHolds(r) /\ ParentHolds(r) /\ ProofHolds(r)
  BY DEF WrittenInOrder, DamageShows, OutcomeHolds, ParentHolds, ProofHolds, Unwritten
<1>3. ConfirmHolds
  BY DEF ConfirmHolds
<1> QED
  BY <1>1, <1>2, <1>3 DEF IInv

\* A step that only moves the control point of a Run's process.
LEMMA StageMoves ==
    ASSUME IInv, NEW r \in Runs, NEW s \in Stages \ {"idle", "written"}, GoTo(r, s),
           UNCHANGED <<rootVars, bundleVars, runState, residue, proof, confirm>>,
           s \in Unwritten => stage[r] \in Unwritten,
           stage[r] \notin Unwritten => s \in Closing,
           s \in {"prepared", "checked", "inside"} => runState[r] = "PENDING"
    PROVE  IInv'
<1> USE DEF IInv, GoTo, rootVars, bundleVars
<1>1. TypeOK'
  BY DEF TypeOK
<1>2. ASSUME NEW x \in Runs PROVE WrittenInOrder(x)'
  BY DEF TypeOK, WrittenInOrder, Unwritten, Closing
<1>3. ASSUME NEW x \in Runs PROVE DamageShows(x)'
  BY DEF TypeOK, WrittenInOrder, DamageShows
<1>4. ASSUME NEW x \in Runs PROVE OutcomeHolds(x)'
  BY DEF TypeOK, OutcomeHolds
<1>5. ASSUME NEW x \in Runs PROVE ParentHolds(x)'
  BY DEF TypeOK, ParentHolds
<1>6. ASSUME NEW x \in Runs PROVE ProofHolds(x)'
  BY DEF ProofHolds, LeftNothing
<1>7. ConfirmHolds'
  BY DEF ConfirmHolds, LeftNothing
<1> QED
  BY <1>1, <1>2, <1>3, <1>4, <1>5, <1>6, <1>7 DEF IInv

LEMMA QuietStep ==
    ASSUME IInv, NEW r \in Runs, UNCHANGED confirm,
           \/ Begin(r) \/ CheckBlock(r) \/ TurnedAway(r) \/ SettleRaises(r)
           \/ WriteRaises(r) \/ Conclude(r) \/ Die(r)
    PROVE  IInv'
<1>1. runState[r] = "PENDING" \/ stage[r] \notin {"idle", "prepared", "checked", "inside"}
  BY DEF IInv, OutcomeHolds
<1> USE StageMoves DEF Stages, Ended, Unwritten, Closing
<1>2. CASE Begin(r)
  BY <1>1, <1>2 DEF Begin
<1>3. CASE CheckBlock(r)
  <2>1. CASE GoTo(r, "refused")
    BY <1>3, <2>1 DEF CheckBlock
  <2>2. CASE GoTo(r, "checked")
    BY <1>1, <1>3, <2>2 DEF CheckBlock
  <2> QED
    BY <1>3, <2>1, <2>2 DEF CheckBlock
<1>4. CASE TurnedAway(r)
  BY <1>4 DEF TurnedAway
<1>5. CASE SettleRaises(r)
  BY <1>5 DEF SettleRaises
<1>6. CASE WriteRaises(r)
  BY <1>6 DEF WriteRaises
<1>7. CASE Conclude(r)
  <2>1. CASE GoTo(r, "done")
    BY <1>7, <2>1 DEF Conclude
  <2>2. CASE GoTo(r, "raised")
    BY <1>7, <2>2 DEF Conclude
  <2> QED
    BY <1>7, <2>1, <2>2 DEF Conclude
<1>8. CASE Die(r)
  BY <1>8 DEF Die
<1> QED
  BY <1>2, <1>3, <1>4, <1>5, <1>6, <1>7, <1>8

\* A verified parent of a Run that begins has an outcome and left nothing,
\* which Spec 003 knows from evidence that names it.
LEMMA PrepareKeeps ==
    ASSUME IInv, NEW r \in Runs, NEW p \in Runs \ {r}, Prepare(r, p), UNCHANGED confirm
    PROVE  IInv'
<1> USE DEF IInv, Prepare, GoTo, rootVars
<1>1. TypeOK'
  BY DEF TypeOK, Stages
<1>2. ASSUME NEW x \in Runs PROVE WrittenInOrder(x)' /\ DamageShows(x)' /\ OutcomeHolds(x)'
  BY DEF TypeOK, WrittenInOrder, DamageShows, OutcomeHolds, Unwritten, Closing
<1>3. ASSUME family # "SPEC004" PROVE p \notin residue
  <2>1. runState[p] # "RESTORE_FAILED" => p \notin residue
    BY DEF TypeOK, TerminalRunStates, OutcomeHolds
  <2>2. family # "SPEC003" => runState[p] # "RESTORE_FAILED"
    BY <1>3 DEF CleanupResolved, NeedsCleanup
  <2>3. family = "SPEC003" /\ runState[p] = "RESTORE_FAILED" => proof[p] = p
    BY DEF CleanupResolved, NeedsCleanup, ConfirmedByEvidence
  <2> QED
    BY <2>1, <2>2, <2>3 DEF ProofHolds, LeftNothing
<1>4. manifest[p] = "sealed" /\ runState[p] # "PENDING"
  BY DEF Verified, FilesMatch, TerminalRunStates
<1>5. ASSUME NEW x \in Runs PROVE ParentHolds(x)'
  <2>1. CASE x = r
    BY <1>3, <1>4, <2>1 DEF TypeOK, ParentHolds
  <2>2. CASE x # r
    BY <2>2 DEF TypeOK, ParentHolds
  <2> QED
    BY <2>1, <2>2
<1>6. (\A x \in Runs : ProofHolds(x)') /\ ConfirmHolds'
  BY DEF ProofHolds, ConfirmHolds, LeftNothing
<1> QED
  BY <1>1, <1>2, <1>5, <1>6 DEF IInv

\* A Run that has no outcome yet is nobody's parent and in nobody's evidence.
LEMMA PendingIsAlone ==
    ASSUME IInv, NEW r \in Runs, runState[r] = "PENDING"
    PROVE  /\ \A x \in Runs : origin[x] # r
           /\ ~LeftNothing(r)
BY DEF IInv, TypeOK, ParentHolds, LeftNothing

LEMMA EnterKeeps ==
    ASSUME IInv, NEW r \in Runs, Enter(r), UNCHANGED confirm
    PROVE  IInv'
<1> USE DEF IInv, Enter, GoTo, Acquire, bundleVars
<1>1. TypeOK'
  BY DEF TypeOK, Stages
<1>2. runState[r] = "PENDING"
  BY DEF OutcomeHolds
<1>3. (\A x \in Runs : origin[x] # r) /\ ~LeftNothing(r)
  BY <1>2, PendingIsAlone
<1>4. ASSUME NEW x \in Runs PROVE WrittenInOrder(x)' /\ DamageShows(x)'
  BY DEF TypeOK, WrittenInOrder, DamageShows, Unwritten, Closing
<1>5. ASSUME NEW x \in Runs PROVE OutcomeHolds(x)'
  BY <1>2 DEF TypeOK, OutcomeHolds
<1>6. ASSUME NEW x \in Runs PROVE ParentHolds(x)'
  BY <1>3 DEF TypeOK, ParentHolds
<1>7. ASSUME NEW x \in Runs PROVE ProofHolds(x)'
  BY <1>3 DEF ProofHolds, LeftNothing
<1>8. ConfirmHolds'
  BY <1>3 DEF ConfirmHolds, LeftNothing
<1> QED
  BY <1>1, <1>4, <1>5, <1>6, <1>7, <1>8 DEF IInv

LEMMA LeaveKeeps ==
    ASSUME IInv, NEW r \in Runs, Leave(r), UNCHANGED confirm
    PROVE  IInv'
<1> USE DEF IInv, Leave, GoTo, Release, bundleVars
<1>1. TypeOK'
  BY DEF TypeOK, Stages
<1>2. runState[r] = "PENDING"
  BY DEF OutcomeHolds
<1>3. (\A x \in Runs : origin[x] # r) /\ ~LeftNothing(r)
  BY <1>2, PendingIsAlone
<1>4. ASSUME NEW x \in Runs PROVE WrittenInOrder(x)' /\ DamageShows(x)'
  BY DEF TypeOK, WrittenInOrder, DamageShows, Unwritten, Closing
<1>5. ASSUME NEW x \in Runs PROVE OutcomeHolds(x)'
  BY DEF TypeOK, OutcomeHolds
<1>6. ASSUME NEW x \in Runs PROVE ParentHolds(x)'
  BY <1>3 DEF TypeOK, ParentHolds
<1>7. ASSUME NEW x \in Runs PROVE ProofHolds(x)'
  BY <1>3 DEF TypeOK, ProofHolds, LeftNothing
<1>8. ConfirmHolds'
  BY <1>3 DEF TypeOK, ConfirmHolds, LeftNothing
<1> QED
  BY <1>1, <1>4, <1>5, <1>6, <1>7, <1>8 DEF IInv

LEMMA BodyRaisesKeeps ==
    ASSUME IInv, NEW r \in Runs, BodyRaises(r), UNCHANGED confirm
    PROVE  IInv'
<1> USE DEF IInv, BodyRaises, GoTo, Release, WriteBlock, bundleVars
<1>1. TypeOK'
  BY DEF TypeOK, Stages, Ended
<1>2. ASSUME NEW x \in Runs PROVE WrittenInOrder(x)' /\ DamageShows(x)' /\ OutcomeHolds(x)'
  BY DEF TypeOK, WrittenInOrder, DamageShows, OutcomeHolds, Unwritten, Closing
<1>3. ASSUME NEW x \in Runs PROVE ParentHolds(x)'
  BY DEF TypeOK, ParentHolds
<1>4. (\A x \in Runs : ProofHolds(x)') /\ ConfirmHolds'
  BY DEF ProofHolds, ConfirmHolds, LeftNothing
<1> QED
  BY <1>1, <1>2, <1>3, <1>4 DEF IInv

LEMMA SettleKeeps ==
    ASSUME IInv, NEW r \in Runs, Settle(r), UNCHANGED confirm
    PROVE  IInv'
<1> USE DEF IInv, Settle, GoTo, WriteBlock, bundleVars
<1>1. TypeOK'
  BY DEF TypeOK, Stages
<1>2. ASSUME NEW x \in Runs PROVE WrittenInOrder(x)' /\ DamageShows(x)' /\ OutcomeHolds(x)'
  BY DEF TypeOK, WrittenInOrder, DamageShows, OutcomeHolds, Unwritten, Closing
<1>3. ASSUME NEW x \in Runs PROVE ParentHolds(x)'
  BY DEF TypeOK, ParentHolds
<1>4. (\A x \in Runs : ProofHolds(x)') /\ ConfirmHolds'
  BY DEF ProofHolds, ConfirmHolds, LeftNothing
<1> QED
  BY <1>1, <1>2, <1>3, <1>4 DEF IInv

LEMMA WriteKeeps ==
    ASSUME IInv, NEW r \in Runs, Write(r), UNCHANGED confirm
    PROVE  IInv'
<1> USE DEF IInv, Write, WriteFile, GoTo, rootVars
<1>1. TypeOK'
  BY DEF TypeOK, Stages, Contents, Names
<1>2. disk[r] = Empty /\ registered[r] = Empty /\ r \notin hurt
  BY DEF WrittenInOrder, Unwritten
<1>3. disk'[r] = registered'[r] /\ registered'[r]["run.json"] = "written"
  BY <1>2 DEF TypeOK, Empty, Names
<1>4. ASSUME NEW x \in Runs PROVE WrittenInOrder(x)' /\ DamageShows(x)' /\ OutcomeHolds(x)'
  <2>1. CASE x = r
    BY <1>2, <1>3, <2>1 DEF TypeOK, WrittenInOrder, DamageShows, OutcomeHolds, Unwritten, Closing
  <2>2. CASE x # r
    BY <2>2 DEF TypeOK, WrittenInOrder, DamageShows, OutcomeHolds, Unwritten, Closing
  <2> QED
    BY <2>1, <2>2
<1>5. ASSUME NEW x \in Runs PROVE ParentHolds(x)'
  BY DEF TypeOK, ParentHolds
<1>6. (\A x \in Runs : ProofHolds(x)') /\ ConfirmHolds'
  BY DEF ProofHolds, ConfirmHolds, LeftNothing
<1> QED
  BY <1>1, <1>4, <1>5, <1>6 DEF IInv

LEMMA SealKeeps ==
    ASSUME IInv, NEW r \in Runs, Seal(r), UNCHANGED confirm
    PROVE  IInv'
<1> USE DEF IInv, Seal, WriteManifest, GoTo, rootVars
<1>1. TypeOK'
  BY DEF TypeOK, Stages
<1>2. registered[r]["run.json"] = "written"
  BY DEF WrittenInOrder
<1>3. ASSUME NEW x \in Runs PROVE WrittenInOrder(x)' /\ DamageShows(x)' /\ OutcomeHolds(x)'
  <2>1. CASE x = r
    BY <1>2, <2>1 DEF TypeOK, WrittenInOrder, DamageShows, OutcomeHolds, Unwritten, Closing
  <2>2. CASE x # r
    BY <2>2 DEF TypeOK, WrittenInOrder, DamageShows, OutcomeHolds, Unwritten, Closing
  <2> QED
    BY <2>1, <2>2
<1>4. ASSUME NEW x \in Runs PROVE ParentHolds(x)'
  BY DEF TypeOK, ParentHolds
<1>5. (\A x \in Runs : ProofHolds(x)') /\ ConfirmHolds'
  BY DEF ProofHolds, ConfirmHolds, LeftNothing
<1> QED
  BY <1>1, <1>3, <1>4, <1>5 DEF IInv

LEMMA OperatorKeeps ==
    ASSUME IInv, NEW r \in Runs, OperatorCleans(r)
    PROVE  IInv'
<1> USE DEF IInv, OperatorCleans, rootVars, bundleVars
<1>1. TypeOK'
  BY DEF TypeOK
<1>2. ASSUME NEW x \in Runs
      PROVE  WrittenInOrder(x)' /\ DamageShows(x)' /\ OutcomeHolds(x)' /\ ParentHolds(x)'
  BY DEF WrittenInOrder, DamageShows, OutcomeHolds, ParentHolds
<1>3. (\A x \in Runs : ProofHolds(x)') /\ ConfirmHolds'
  BY DEF ProofHolds, ConfirmHolds, LeftNothing
<1> QED
  BY <1>1, <1>2, <1>3 DEF IInv

\* What an accident does to a directory: what is in it differs from what was
\* registered, or the manifest is gone.
LEMMA DamageEffect ==
    ASSUME IInv, NEW r \in Runs, Damage(r)
    PROVE  /\ r \in Runs \ hurt /\ hurt' = hurt \cup {r}
           /\ disk' \in [Runs -> [Names -> Contents]]
           /\ manifest' \in [Runs -> {"absent", "sealed"}]
           /\ \A x \in Runs \ {r} : disk'[x] = disk[x] /\ manifest'[x] = manifest[x]
           /\ manifest'[r] \in {manifest[r], "absent"}
           /\ stage[r] \notin Unwritten
           /\ \/ disk'[r] # registered[r]
              \/ manifest[r] = "sealed" /\ manifest'[r] = "absent"
<1> USE DEF IInv, Damage
<1>1. stage[r] \notin Unwritten
  BY DEF WrittenInOrder
<1>2. CASE \E n \in Exposed : disk' = [disk EXCEPT ![r][n] = "altered"] /\ UNCHANGED manifest
  <2>1. PICK n \in Exposed : disk' = [disk EXCEPT ![r][n] = "altered"] /\ UNCHANGED manifest
    BY <1>2
  <2>2. n \in Names
    BY <2>1, AccidentsAreBounded
  <2>3. disk' \in [Runs -> [Names -> Contents]]
    BY <2>1, <2>2 DEF TypeOK, Contents
  <2>4. disk'[r][n] = "altered" /\ registered[r][n] # "altered"
    BY <2>1, <2>2 DEF TypeOK
  <2>5. \A x \in Runs \ {r} : disk'[x] = disk[x]
    BY <2>1 DEF TypeOK
  <2> QED
    BY <1>1, <2>1, <2>3, <2>4, <2>5 DEF TypeOK
<1>3. CASE /\ manifest[r] = "sealed"
           /\ manifest' = [manifest EXCEPT ![r] = "absent"]
           /\ UNCHANGED disk
  BY <1>1, <1>3 DEF TypeOK
<1> QED
  BY <1>2, <1>3

LEMMA AccidentKeeps ==
    ASSUME IInv, NEW r \in Runs, Accident(r)
    PROVE  IInv'
<1>1. Damage(r) /\ UNCHANGED <<rootVars, stage, runState, residue, proof, confirm>>
  BY DEF Accident
<1>2. UNCHANGED <<family, origin, registered>>
  BY <1>1 DEF Damage
<1>3. /\ r \in Runs \ hurt /\ hurt' = hurt \cup {r}
      /\ disk' \in [Runs -> [Names -> Contents]]
      /\ manifest' \in [Runs -> {"absent", "sealed"}]
      /\ \A x \in Runs \ {r} : disk'[x] = disk[x] /\ manifest'[x] = manifest[x]
      /\ manifest'[r] \in {manifest[r], "absent"}
      /\ stage[r] \notin Unwritten
      /\ \/ disk'[r] # registered[r]
         \/ manifest[r] = "sealed" /\ manifest'[r] = "absent"
  BY <1>1, DamageEffect
<1> USE DEF IInv, rootVars
<1>4. TypeOK'
  BY <1>1, <1>2, <1>3 DEF TypeOK
<1>5. ASSUME NEW x \in Runs PROVE WrittenInOrder(x)' /\ DamageShows(x)' /\ OutcomeHolds(x)'
  <2>1. CASE x = r
    BY <1>1, <1>2, <1>3, <2>1 DEF WrittenInOrder, DamageShows, OutcomeHolds
  <2>2. CASE x # r
    BY <1>1, <1>2, <1>3, <2>2 DEF WrittenInOrder, DamageShows, OutcomeHolds
  <2> QED
    BY <2>1, <2>2
<1>6. ASSUME NEW x \in Runs PROVE ParentHolds(x)'
  BY <1>1, <1>2, <1>3 DEF TypeOK, ParentHolds
<1>7. (\A x \in Runs : ProofHolds(x)') /\ ConfirmHolds'
  BY <1>1, <1>2 DEF ProofHolds, ConfirmHolds, LeftNothing
<1> QED
  BY <1>4, <1>5, <1>6, <1>7 DEF IInv

\* The probe of Spec 003 saw nothing of the Run it takes the evidence of.
LEMMA ConfirmKeeps ==
    ASSUME IInv, ConfirmStep
    PROVE  IInv'
<1> USE DEF IInv, retestVars, rootVars, bundleVars, Blocked, NoConfirm
<1>1. CASE ConfirmProbe
  <2>1. TypeOK'
    BY <1>1 DEF ConfirmProbe, TypeOK
  <2>2. family = "SPEC003" => LeftNothing(block)
    BY <1>1 DEF ConfirmProbe, Confirmable, LeftNothing
  <2>3. ConfirmHolds'
    BY <1>1, <2>2 DEF ConfirmProbe, TypeOK, ConfirmHolds, LeftNothing
  <2>4. ASSUME NEW x \in Runs
        PROVE  WrittenInOrder(x)' /\ DamageShows(x)' /\ OutcomeHolds(x)' /\ ParentHolds(x)'
    BY <1>1 DEF ConfirmProbe, WrittenInOrder, DamageShows, OutcomeHolds, ParentHolds
  <2>5. \A x \in Runs : ProofHolds(x)'
    BY <1>1 DEF ConfirmProbe, ProofHolds, LeftNothing
  <2> QED
    BY <2>1, <2>3, <2>4, <2>5 DEF IInv
<1>2. CASE ConfirmRecord
  <2>1. confirm.run \in Runs /\ (family = "SPEC003" => LeftNothing(confirm.run))
    BY <1>2 DEF ConfirmRecord, ConfirmHolds
  <2>2. TypeOK'
    BY <1>2, <2>1 DEF ConfirmRecord, TypeOK
  <2>3. ConfirmHolds'
    BY <1>2, <2>1 DEF ConfirmRecord, TypeOK, ConfirmHolds, LeftNothing
  <2>4. ASSUME NEW x \in Runs
        PROVE  WrittenInOrder(x)' /\ DamageShows(x)' /\ OutcomeHolds(x)' /\ ParentHolds(x)'
    BY <1>2 DEF ConfirmRecord, WrittenInOrder, DamageShows, OutcomeHolds, ParentHolds
  <2>5. ASSUME NEW x \in Runs PROVE ProofHolds(x)'
    BY <1>2, <2>1 DEF ConfirmRecord, TypeOK, ProofHolds, LeftNothing
  <2> QED
    BY <2>2, <2>3, <2>4, <2>5 DEF IInv
<1>3. CASE ConfirmUnlink \/ ConfirmEnds
  <2>1. TypeOK'
    BY <1>3 DEF ConfirmUnlink, ConfirmEnds, TypeOK
  <2>2. ConfirmHolds'
    BY <1>3 DEF ConfirmUnlink, ConfirmEnds, ConfirmHolds
  <2>3. ASSUME NEW x \in Runs
        PROVE  WrittenInOrder(x)' /\ DamageShows(x)' /\ OutcomeHolds(x)' /\ ParentHolds(x)'
    BY <1>3 DEF ConfirmUnlink, ConfirmEnds, WrittenInOrder, DamageShows, OutcomeHolds, ParentHolds
  <2>4. \A x \in Runs : ProofHolds(x)'
    BY <1>3 DEF ConfirmUnlink, ConfirmEnds, ProofHolds, LeftNothing
  <2> QED
    BY <2>1, <2>2, <2>3, <2>4 DEF IInv
<1> QED
  BY <1>1, <1>2, <1>3 DEF ConfirmStep

LEMMA StutterKeeps == IInv /\ UNCHANGED retestsVars => IInv'
<1> SUFFICES ASSUME IInv, UNCHANGED retestsVars PROVE IInv'
  OBVIOUS
<1> USE DEF IInv, retestsVars, retestVars, rootVars, bundleVars
<1>1. TypeOK'
  BY DEF TypeOK
<1>2. ASSUME NEW x \in Runs
      PROVE  WrittenInOrder(x)' /\ DamageShows(x)' /\ OutcomeHolds(x)' /\ ParentHolds(x)'
  BY DEF WrittenInOrder, DamageShows, OutcomeHolds, ParentHolds
<1>3. (\A x \in Runs : ProofHolds(x)') /\ ConfirmHolds'
  BY DEF ProofHolds, ConfirmHolds, LeftNothing
<1> QED
  BY <1>1, <1>2, <1>3 DEF IInv

LEMMA StepKeeps == IInv /\ [RetestsNext]_retestsVars => IInv'
<1> SUFFICES ASSUME IInv, [RetestsNext]_retestsVars PROVE IInv'
  OBVIOUS
<1>1. ASSUME NEW r \in Runs, RunStep(r), UNCHANGED confirm PROVE IInv'
  <2>1. CASE \E p \in Runs \ {r} : Prepare(r, p)
    BY <1>1, <2>1, PrepareKeeps
  <2>2. CASE ~ \E p \in Runs \ {r} : Prepare(r, p)
    BY <1>1, <2>2, QuietStep, EnterKeeps, LeaveKeeps, BodyRaisesKeeps, SettleKeeps, WriteKeeps,
       SealKeeps DEF RunStep
  <2> QED
    BY <2>1, <2>2
<1>2. ASSUME NEW r \in Runs, OperatorCleans(r) \/ Accident(r) PROVE IInv'
  BY <1>2, OperatorKeeps, AccidentKeeps
<1>3. CASE ConfirmStep
  BY <1>3, ConfirmKeeps
<1>4. CASE UNCHANGED retestsVars
  BY <1>4, StutterKeeps
<1> QED
  BY <1>1, <1>2, <1>3, <1>4 DEF RetestsNext

\* In every reachable state the files, outcomes, parents and confirmations of
\* the Runs fit together as IInv says.
THEOREM Invariance == RetestsSpec => []IInv
<1>1. RetestsInit => IInv
  BY InitHolds
<1>2. IInv /\ [RetestsNext]_retestsVars => IInv'
  BY StepKeeps
<1> QED
  BY <1>1, <1>2, PTL DEF RetestsSpec

\* No retest of Spec 002, 003 or 009 changes a target on which something of the
\* Run it retests is left.
THEOREM ParentLifted == RetestsSpec => []RetestFindsParentLifted
<1>1. IInv => RetestFindsParentLifted
  BY DEF IInv, ParentHolds, RetestFindsParentLifted
<1> QED
  BY <1>1, Invariance, PTL

-----------------------------------------------------------------------------
(* What verifies is what the archive trusts *)

LEMMA RestsWithin ==
    ASSUME IInv, NEW r \in Runs
    PROVE  A!RestsOn(r) \subseteq Runs /\ r \in A!RestsOn(r)
BY DEF IInv, TypeOK, Families, A!RestsOn, A!LineSets

\* What a Run rests on, but for itself, are parents of Runs.
LEMMA RestsOnParents ==
    ASSUME IInv, NEW r \in Runs, NEW a \in A!RestsOn(r), a # r
    PROVE  \E y \in Runs : origin[y] = a
<1>1. CASE family \in {"SPEC003", "SPEC004"}
  <2> SUFFICES ASSUME \A y \in Runs : origin[y] # a PROVE FALSE
    OBVIOUS
  <2>1. Runs \ {a} \in A!LineSets(r)
    BY DEF IInv, TypeOK, A!LineSets
  <2>2. \A S \in A!LineSets(r) : a \in S
    BY <1>1 DEF A!RestsOn
  <2> QED
    BY <2>1, <2>2
<1>2. CASE family \notin {"SPEC003", "SPEC004"}
  BY <1>2 DEF A!RestsOn
<1> QED
  BY <1>1, <1>2

LEMMA ParentsWereSealed ==
    ASSUME IInv, NEW r \in Runs, NEW a \in A!RestsOn(r), a # r
    PROVE  manifest[a] = "sealed" \/ a \in hurt
<1>1. PICK y \in Runs : origin[y] = a
  BY RestsOnParents
<1>2. a \in Runs
  BY RestsWithin
<1> QED
  BY <1>1, <1>2 DEF IInv, ParentHolds

\* A bundle's own files match its manifest when it is sealed and untouched.
Intact(r) == manifest[r] = "sealed" /\ r \notin hurt

LEMMA IntactMatches ==
    ASSUME IInv, NEW r \in Runs
    PROVE  FilesMatch(r) <=> Intact(r)
<1>1. ASSUME FilesMatch(r) PROVE Intact(r)
  BY <1>1 DEF IInv, DamageShows, FilesMatch, Intact
<1>2. ASSUME Intact(r) PROVE FilesMatch(r)
  BY <1>2 DEF IInv, WrittenInOrder, DamageShows, FilesMatch, Intact, Canonical
<1> QED
  BY <1>1, <1>2

IntactVerified ==
    IInv => \A r \in Runs : Verified(r) <=> \A a \in A!RestsOn(r) : Intact(a)

LEMMA VerifiedIsIntact == IntactVerified
<1> SUFFICES ASSUME IInv, NEW r \in Runs
             PROVE  Verified(r) <=> \A a \in A!RestsOn(r) : Intact(a)
  BY DEF IntactVerified
<1>1. Checked(r) = A!RestsOn(r)
  BY CheckedRests DEF IInv, TypeOK, OriginType
<1> QED
  BY <1>1, RestsWithin, IntactMatches DEF Verified

-----------------------------------------------------------------------------
(* The bundles implement the archive *)

\* Nothing that the archive looks at changes.
LEMMA ArchiveStutters ==
    ASSUME IInv, IInv', UNCHANGED <<family, origin, manifest, hurt>>
    PROVE  UNCHANGED A!archiveVars
<1>1. ASSUME NEW r \in Runs PROVE Verified(r)' <=> Verified(r)
  <2>1. A!RestsOn(r)' = A!RestsOn(r)
    BY DEF A!RestsOn, A!LineSets
  <2>2. \A a : Intact(a)' <=> Intact(a)
    BY DEF Intact
  <2>3. IntactVerified /\ IntactVerified'
    BY VerifiedIsIntact, PTL
  <2> QED
    BY <2>1, <2>2, <2>3 DEF IntactVerified
<1> QED
  BY <1>1 DEF A!archiveVars

\* A new parent of r changes only what the Runs rest on that rest on r.
LEMMA DeriveReach ==
    ASSUME IInv, NEW r \in Runs, NEW p \in Runs, origin' = [origin EXCEPT ![r] = p],
           UNCHANGED family, NEW x \in Runs
    PROVE  /\ r \in A!RestsOn(x) <=> r \in A!RestsOn(x)'
           /\ r \notin A!RestsOn(x) => A!RestsOn(x)' = A!RestsOn(x)
<1>1. origin \in [Runs -> Runs \cup {None}]
  BY DEF IInv, TypeOK
<1>2. \A a \in Runs : a # r => origin'[a] = origin[a]
  BY <1>1
<1>3. CASE family \in {"SPEC003", "SPEC004"}
  <2> DEFINE L == A!LineSets(x)
             M == A!LineSets(x)'
  <2>1. \A S : r \notin S => (S \in L <=> S \in M)
    BY <1>2 DEF A!LineSets
  <2>2. \A S, T \in L : S \cap T \in L
    BY DEF A!LineSets
  <2>3. \A S, T \in M : S \cap T \in M
    BY DEF A!LineSets
  <2>4. /\ A!RestsOn(x) = {a \in Runs : \A S \in L : a \in S}
        /\ A!RestsOn(x)' = {a \in Runs : \A S \in M : a \in S}
    BY <1>3 DEF A!RestsOn
  <2> HIDE DEF L, M
  <2>5. r \in A!RestsOn(x) <=> r \in A!RestsOn(x)'
    BY <2>1, <2>4
  <2>6. ASSUME r \notin A!RestsOn(x) PROVE A!RestsOn(x)' = A!RestsOn(x)
    <3>1. PICK Z \in L : r \notin Z
      BY <2>4, <2>6
    <3>2. Z \in M
      BY <2>1, <3>1
    <3>3. ASSUME NEW S \in L PROVE S \cap Z \in M
      BY <2>1, <2>2, <3>1
    <3>4. ASSUME NEW S \in M PROVE S \cap Z \in L
      BY <2>1, <2>3, <3>1, <3>2
    <3>5. ASSUME NEW a \in Runs PROVE (\A S \in M : a \in S) <=> (\A S \in L : a \in S)
      BY <3>3, <3>4
    <3> QED
      BY <2>4, <3>5, Zenon
  <2> QED
    BY <2>5, <2>6
<1>4. CASE family \notin {"SPEC003", "SPEC004"}
  BY <1>2, <1>4 DEF A!RestsOn
<1> QED
  BY <1>3, <1>4

\* A retest is derived from a verified parent: nobody verifies by that.
LEMMA PrepareDerives ==
    ASSUME IInv, IInv', NEW r \in Runs, NEW p \in Runs \ {r}, Prepare(r, p)
    PROVE  A!Derive(r, p)
<1> USE DEF Prepare
<1>1. manifest[r] = "absent" /\ origin[r] = None
  BY DEF IInv, WrittenInOrder, ParentHolds, Unwritten
<1>2. origin' = [origin EXCEPT ![r] = p] /\ UNCHANGED <<family, manifest, hurt>>
  OBVIOUS
<1>3. \A a : Intact(a)' <=> Intact(a)
  BY <1>2 DEF Intact
<1>4. ~Intact(r)
  BY <1>1 DEF Intact
<1>5. ASSUME NEW x \in Runs PROVE Verified(x)' <=> Verified(x)
  <2>1. IntactVerified /\ IntactVerified'
    BY VerifiedIsIntact, PTL
  <2>2. /\ Verified(x) <=> \A a \in A!RestsOn(x) : Intact(a)
        /\ Verified(x)' <=> \A a \in A!RestsOn(x)' : Intact(a)'
    BY <2>1 DEF IntactVerified
  <2>3. /\ r \in A!RestsOn(x) <=> r \in A!RestsOn(x)'
        /\ r \notin A!RestsOn(x) => A!RestsOn(x)' = A!RestsOn(x)
    BY <1>2, DeriveReach
  <2> QED
    BY <1>3, <1>4, <2>2, <2>3
<1> QED
  BY <1>1, <1>2, <1>5 DEF A!Derive

\* Sealing verifies the Run itself, when what it rests on is whole, and nobody
\* else.
LEMMA SealCloses ==
    ASSUME IInv, IInv', NEW r \in Runs, Seal(r)
    PROVE  A!Close(r)
<1> USE DEF Seal, WriteManifest
<1>1. manifest \in [Runs -> {"absent", "sealed"}] /\ manifest[r] = "absent"
  BY DEF IInv, TypeOK
<1>2. manifest' = [manifest EXCEPT ![r] = "sealed"] /\ UNCHANGED <<family, origin, hurt>>
  OBVIOUS
<1>3. \A x : A!RestsOn(x)' = A!RestsOn(x)
  BY <1>2 DEF A!RestsOn, A!LineSets
<1>4. \A a \in Runs \ {r} : Intact(a)' <=> Intact(a)
  BY <1>1, <1>2 DEF Intact
<1>5. ~Intact(r) /\ (Intact(r)' <=> r \notin hurt)
  BY <1>1, <1>2 DEF Intact
<1>6. IntactVerified /\ IntactVerified'
  BY VerifiedIsIntact, PTL
<1>7. ASSUME NEW x \in Runs
      PROVE  /\ Verified(x) <=> \A a \in A!RestsOn(x) : Intact(a)
             /\ Verified(x)' <=> \A a \in A!RestsOn(x) : Intact(a)'
             /\ x \in A!RestsOn(x) /\ A!RestsOn(x) \subseteq Runs
  BY <1>3, <1>6, RestsWithin DEF IntactVerified
<1>8. ASSUME NEW x \in Runs \ {r} PROVE Verified(x)' <=> Verified(x)
  <2>1. r \in A!RestsOn(x) => r \in hurt
    BY <1>1, ParentsWereSealed
  <2> QED
    BY <1>4, <1>5, <1>7, <2>1
<1>9. ~Verified(r) /\ (Verified(r)' <=> A!RestsOn(r) \cap hurt = {})
  <2>1. ASSUME NEW a \in A!RestsOn(r) PROVE Intact(a)' <=> a \notin hurt
    <3>1. CASE a = r
      BY <1>5, <3>1
    <3>2. CASE a # r
      BY <1>4, <1>7, <2>1, <3>2, ParentsWereSealed DEF Intact
    <3> QED
      BY <3>1, <3>2
  <2> QED
    BY <1>5, <1>7, <2>1
<1>10. {x \in Runs : manifest'[x] # "absent"} = {x \in Runs : manifest[x] # "absent"} \cup {r}
  BY <1>1, <1>2
<1>11. {x \in Runs : Verified(x)'} =
         IF A!RestsOn(r) \cap hurt = {} THEN {x \in Runs : Verified(x)} \cup {r}
                                        ELSE {x \in Runs : Verified(x)}
  BY <1>8, <1>9
<1> QED
  BY <1>1, <1>2, <1>10, <1>11 DEF A!Close

\* An accident takes the trust of exactly the Runs that rest on the bundle.
LEMMA AccidentSpoils ==
    ASSUME IInv, IInv', NEW r \in Runs, Accident(r)
    PROVE  A!Spoil(r)
<1>1. Damage(r) /\ UNCHANGED <<family, origin>>
  BY DEF Accident, Damage
<1>2. /\ hurt' = hurt \cup {r}
      /\ \A x \in Runs \ {r} : manifest'[x] = manifest[x]
      /\ manifest'[r] \in {manifest[r], "absent"}
  BY <1>1, DamageEffect
<1>3. \A x : A!RestsOn(x)' = A!RestsOn(x)
  BY <1>1 DEF A!RestsOn, A!LineSets
<1>4. ASSUME NEW a \in Runs PROVE Intact(a)' <=> Intact(a) /\ a # r
  BY <1>2 DEF Intact
<1>5. IntactVerified /\ IntactVerified'
  BY VerifiedIsIntact, PTL
<1>6. ASSUME NEW x \in Runs PROVE Verified(x)' <=> Verified(x) /\ r \notin A!RestsOn(x)
  BY <1>3, <1>4, <1>5, RestsWithin DEF IntactVerified
<1> DEFINE closed == {x \in Runs : manifest[x] # "absent"}
<1>7. {x \in Runs : manifest'[x] # "absent"} \in {closed, closed \ {r}}
  <2>1. CASE manifest'[r] = manifest[r]
    BY <1>2, <2>1
  <2>2. CASE manifest'[r] = "absent"
    BY <1>2, <2>2
  <2> QED
    BY <1>2, <2>1, <2>2
<1>8. {x \in Runs : Verified(x)'} = {t \in {x \in Runs : Verified(x)} : r \notin A!RestsOn(t)}
  BY <1>6
<1> QED
  BY <1>1, <1>2, <1>7, <1>8 DEF A!Spoil

LEMMA InitMaps == RetestsInit => A!ArchiveInit
<1> SUFFICES ASSUME RetestsInit PROVE A!ArchiveInit
  OBVIOUS
<1>1. \A r \in Runs : ~FilesMatch(r)
  BY DEF RetestsInit, RetestInit, BundleInit, FilesMatch
<1>2. \A r \in Runs : ~Verified(r)
  BY <1>1 DEF Verified
<1> QED
  BY <1>2 DEF RetestsInit, RetestInit, BundleInit, A!ArchiveInit, Families

\* Every step that is not one of the three leaves the archive as it is.
LEMMA StepMaps == IInv /\ IInv' /\ [RetestsNext]_retestsVars => [A!ArchiveNext]_A!archiveVars
<1> SUFFICES ASSUME IInv, IInv', [RetestsNext]_retestsVars
             PROVE  A!ArchiveNext \/ UNCHANGED A!archiveVars
  OBVIOUS
<1>1. ASSUME NEW r \in Runs, RunStep(r) PROVE A!ArchiveNext \/ UNCHANGED A!archiveVars
  <2>1. CASE \E p \in Runs \ {r} : Prepare(r, p)
    BY <2>1, PrepareDerives DEF A!ArchiveNext
  <2>2. CASE Seal(r)
    BY <2>2, SealCloses DEF A!ArchiveNext
  <2>3. CASE ~Seal(r) /\ ~ \E p \in Runs \ {r} : Prepare(r, p)
    <3>1. UNCHANGED <<family, origin, manifest, hurt>>
      BY <1>1, <2>3 DEF RunStep, Begin, CheckBlock, Enter, TurnedAway, Leave, BodyRaises,
         Settle, SettleRaises, Write, WriteRaises, Conclude, Die, bundleVars
    <3> QED
      BY <3>1, ArchiveStutters
  <2> QED
    BY <2>1, <2>2, <2>3
<1>2. ASSUME NEW r \in Runs, Accident(r) PROVE A!ArchiveNext
  BY <1>2, AccidentSpoils DEF A!ArchiveNext
<1>3. CASE \/ \E r \in Runs : OperatorCleans(r)
           \/ ConfirmStep
           \/ UNCHANGED retestsVars
  <2>1. UNCHANGED <<family, origin, manifest, hurt>>
    BY <1>3 DEF OperatorCleans, ConfirmStep, ConfirmProbe, ConfirmRecord, ConfirmUnlink,
       ConfirmEnds, retestsVars, retestVars, bundleVars
  <2> QED
    BY <2>1, ArchiveStutters
<1> QED
  BY <1>1, <1>2, <1>3 DEF RetestsNext

\* The bundles of any number of Runs, in any order of steps and accidents,
\* implement the archive: verify_bundle accepts a bundle exactly as long as it
\* and all it rests on were sealed whole and are untouched.
THEOREM Implementation == RetestsSpec => ImplementsArchive
<1>1. RetestsInit => A!ArchiveInit
  BY InitMaps
<1>2. IInv /\ IInv' /\ [RetestsNext]_retestsVars => [A!ArchiveNext]_A!archiveVars
  BY StepMaps
<1>3. RetestsSpec => []IInv
  BY Invariance
<1> QED
  BY <1>1, <1>2, <1>3, PTL DEF RetestsSpec, ImplementsArchive, A!ArchiveSpec

-----------------------------------------------------------------------------
(* The workbench's cache *)

\* A Run that was sealed stays so and registers nothing more; hurt stays hurt.
LEMMA ClosingStays ==
    ASSUME IInv, [RetestsNext]_retestsVars, NEW x \in Runs
    PROVE  /\ stage[x] \in Closing => stage'[x] \in Closing /\ registered'[x] = registered[x]
           /\ hurt \subseteq hurt'
<1>1. ASSUME NEW r \in Runs, RunStep(r)
      PROVE  /\ stage[x] \in Closing => stage'[x] \in Closing /\ registered'[x] = registered[x]
             /\ hurt \subseteq hurt'
  <2> USE DEF IInv, TypeOK, GoTo, bundleVars, Closing
  <2>1. CASE \E p \in Runs \ {r} : Prepare(r, p)
    BY <2>1 DEF Prepare
  <2>2. CASE Write(r)
    BY <2>2 DEF Write, WriteFile
  <2>3. CASE Conclude(r)
    BY <2>3 DEF Conclude
  <2>4. CASE Begin(r) \/ CheckBlock(r) \/ Enter(r) \/ TurnedAway(r) \/ Leave(r) \/ BodyRaises(r)
    BY <2>4 DEF Begin, CheckBlock, Enter, TurnedAway, Leave, BodyRaises
  <2>5. CASE Settle(r) \/ SettleRaises(r) \/ WriteRaises(r) \/ Seal(r) \/ Die(r)
    BY <2>5 DEF Settle, SettleRaises, WriteRaises, Seal, Die
  <2> QED
    BY <1>1, <2>1, <2>2, <2>3, <2>4, <2>5 DEF RunStep
<1>2. ASSUME NEW r \in Runs, Accident(r)
      PROVE  UNCHANGED <<stage, registered>> /\ hurt \subseteq hurt'
  BY <1>2 DEF Accident, Damage
<1>3. CASE \/ \E r \in Runs : OperatorCleans(r)
           \/ ConfirmStep
           \/ UNCHANGED retestsVars
  BY <1>3 DEF OperatorCleans, ConfirmStep, ConfirmProbe, ConfirmRecord, ConfirmUnlink,
     ConfirmEnds, retestsVars, retestVars, rootVars, bundleVars
<1> QED
  BY <1>1, <1>2, <1>3 DEF RetestsNext

\* So what a key shows of a sealed directory stays true.
LEMMA KeysStayTrue ==
    ASSUME IInv, [RetestsNext]_retestsVars, NEW r \in Runs, NEW k, KeyHolds(r, k)
    PROVE  KeyHolds(r, k)' /\ (OnRegistered(r, k) => OnRegistered(r, k)')
BY ClosingStays DEF KeyHolds, OnRegistered

\* The key of a directory is taken while what it shows of it holds.
LEMMA KeyOfHolds ==
    ASSUME IInv, NEW r \in Runs
    PROVE  KeyHolds(r, KeyOf(r)) /\ (OnRegistered(r, KeyOf(r)) \/ r \in hurt)
<1>1. KeyOf(r) \in Keys
  BY DEF IInv, TypeOK, KeyOf, Keys
<1>2. manifest[r] = "sealed" => stage[r] \in Closing
  BY DEF IInv, WrittenInOrder
<1>3. r \notin hurt => disk[r] = registered[r]
  BY DEF IInv, DamageShows
<1> QED
  BY <1>1, <1>2, <1>3 DEF KeyHolds, OnRegistered, KeyOf

LEMMA ViewKeeps == IInv /\ ViewInv /\ [RecordViewNext]_<<retestsVars, viewVars>> => ViewInv'
<1> SUFFICES ASSUME IInv, ViewInv, [RecordViewNext]_<<retestsVars, viewVars>> PROVE ViewInv'
  OBVIOUS
<1> USE ViewBounds
<1>1. CASE [RetestsNext]_retestsVars /\ UNCHANGED viewVars
  <2>1. UNCHANGED <<cache, misses, view>>
    BY <1>1 DEF viewVars
  <2>2. ASSUME NEW r \in Runs, NEW k, KeyHolds(r, k)
        PROVE  KeyHolds(r, k)' /\ (OnRegistered(r, k) => OnRegistered(r, k)')
    BY <1>1, <2>2, KeysStayTrue
  <2>3. ASSUME NEW h \in hurt PROVE h \in hurt'
    BY <1>1, ClosingStays DEF IInv, TypeOK
  <2> QED
    BY <2>1, <2>2, <2>3 DEF ViewInv
<1>2. ASSUME NEW r \in Viewed, LookUp(r) PROVE ViewInv'
  <2>1. KeyHolds(r, KeyOf(r)) /\ (OnRegistered(r, KeyOf(r)) \/ r \in hurt)
    BY KeyOfHolds
  <2> QED
    BY <1>2, <2>1 DEF ViewInv, LookUp, KeyHolds, OnRegistered, retestsVars, retestVars, bundleVars
<1>3. CASE VerifyViewed
  <2>1. view.run \in Runs /\ (Verified(view.run) => view.run \notin hurt)
    BY <1>3, IntactMatches DEF ViewInv, VerifyViewed, Verified, Intact
  <2>2. Verified(view.run) \in BOOLEAN
    BY DEF Verified, FilesMatch
  <2> DEFINE v == Verified(view.run)
  <2>3. view' = [view EXCEPT !.at = "verified", !.verified = v] /\ UNCHANGED <<retestsVars, cache, misses>>
    BY <1>3 DEF VerifyViewed
  <2>4. (v = TRUE => view.run \notin hurt) /\ v \in BOOLEAN /\ view.at = "missed"
    BY <1>3, <2>1, <2>2 DEF VerifyViewed
  <2> HIDE DEF v
  <2>5. view' \in [at : {"idle", "missed", "verified"}, run : Viewed \cup {None},
                   key : Keys \cup {None}, verified : BOOLEAN]
    BY <2>3, <2>4 DEF ViewInv
  <2>6. view'.at = "verified" /\ view'.run = view.run /\ view'.key = view.key /\ view'.verified = v
    BY <2>3 DEF ViewInv
  <2> QED
    BY <2>3, <2>4, <2>5, <2>6
    DEF ViewInv, KeyHolds, OnRegistered, retestsVars, retestVars, bundleVars
<1>4. CASE Store
  BY <1>4 DEF ViewInv, Store, NoView, KeyHolds, OnRegistered, retestsVars, retestVars, bundleVars
<1> QED
  BY <1>1, <1>2, <1>3, <1>4 DEF RecordViewNext, ViewStep

\* The cache of the workbench (web/readmodel.py) holds nothing, and is about to
\* store nothing, that was not verified over the files its key names.
THEOREM ViewInvariance == RecordViewSpec => [](IInv /\ ViewInv)
<1>1. RetestsInit /\ ViewInit => IInv /\ ViewInv
  <2>1. ViewInit => ViewInv
    BY DEF ViewInit, ViewInv, NoEntry, NoView
  <2> QED
    BY <2>1, InitHolds
<1>2. IInv /\ ViewInv /\ [RecordViewNext]_<<retestsVars, viewVars>> => (IInv /\ ViewInv)'
  <2>1. [RecordViewNext]_<<retestsVars, viewVars>> => [RetestsNext]_retestsVars
    BY DEF RecordViewNext, ViewStep, LookUp, VerifyViewed, Store
  <2> QED
    BY <2>1, StepKeeps, ViewKeeps
<1> QED
  BY <1>1, <1>2, PTL DEF RecordViewSpec

\* A result served as VERIFIED stands on the bundle's files as they are now.
THEOREM CacheIsRight == RecordViewSpec => []CacheMatchesFiles
<1>1. IInv /\ ViewInv => CacheMatchesFiles
  <2> SUFFICES ASSUME IInv, ViewInv, NEW r \in Viewed,
                      Cached(r), cache[r].verified, manifest[r] # "absent"
               PROVE  FilesMatch(r)
    BY DEF CacheMatchesFiles
  <2>1. cache[r].key.manifest = "sealed" /\ cache[r].key.files = disk[r] /\ manifest[r] = "sealed"
    BY ViewBounds DEF IInv, TypeOK, Cached, KeyOf
  <2>2. disk[r] = registered[r]
    BY <2>1 DEF ViewInv, Cached, OnRegistered
  <2> QED
    BY <2>1, <2>2, ViewBounds DEF IInv, WrittenInOrder, FilesMatch, Canonical
<1> QED
  BY <1>1, ViewInvariance, PTL
=============================================================================
