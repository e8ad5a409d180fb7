---------------------- MODULE QualityRegenerationProofs ----------------------
(***************************************************************************)
(* The count of regenerations, proved for any runs, any number of workers  *)
(* that score the same run, and any cap.                                   *)
(***************************************************************************)
EXTENDS QualityRegeneration, FiniteSetTheorems, TLAPS

USE CapAssumption

\* What a worker read is a number of regenerations that were counted by then,
\* below the cap.
ReadSum(w) == scorer[w].pc = "regenerate" => /\ scorer[w].sum <= regens[scorer[w].r]
                                             /\ scorer[w].sum < Cap

\* A run that is not there yet is nobody's regeneration.
UnbornIsFree == \A c \in Runs : status[c] = "unborn" => parent[c] = NoRun

FiniteChildren == \A r \in Runs : IsFiniteSet(Children(r))

CountInv == /\ TypeOK /\ CountedOnce /\ FiniteChildren /\ UnbornIsFree
            /\ \A w \in Workers : ReadSum(w)

Busy == [pc : {"work", "task", "count", "regenerate"}, r : Runs, sum : 0..Cap]

LEMMA IdleFacts == Idle.pc = "idle" /\ Idle.r = NoRun /\ Idle.sum = 0
BY DEF Idle

LEMMA BusyFacts ==
  ASSUME TypeOK, NEW w \in Workers, scorer[w].pc # "idle"
  PROVE  scorer[w] \in Busy /\ scorer[w].r \in Runs /\ scorer[w].sum \in 0..Cap
<1>1. scorer[w] \in {Idle} \cup Busy
  BY DEF TypeOK, Busy
<1>2. scorer[w] \in Busy
  BY <1>1, IdleFacts
<1> QED
  BY <1>2 DEF Busy

LEMMA InitCountInv == Init => CountInv
<1> SUFFICES ASSUME Init PROVE CountInv
  OBVIOUS
<1>1. TypeOK
  BY DEF Init, TypeOK
<1>2. \A r \in Runs : Children(r) = {} /\ regens[r] = 0
  BY DEF Init, Children
<1>3. CountedOnce /\ FiniteChildren
  BY <1>2, FS_EmptySet DEF CountedOnce, FiniteChildren
<1>4. UnbornIsFree /\ \A w \in Workers : ReadSum(w)
  BY IdleFacts DEF Init, UnbornIsFree, ReadSum
<1> QED
  BY <1>1, <1>3, <1>4 DEF CountInv

\* Without a new regeneration, types and what workers read are what is left.
LEMMA CalmCount ==
  ASSUME CountInv, UNCHANGED <<parent, number, regens>>, TypeOK', UnbornIsFree',
         \A w \in Workers : ReadSum(w)'
  PROVE  CountInv'
BY DEF CountInv, CountedOnce, FiniteChildren, Children

\* A worker moves on, or stops.
LEMMA StepScorer ==
  ASSUME CountInv, UNCHANGED <<parent, number, regens>>, NEW w \in Workers,
         NEW v \in {Idle} \cup Busy, scorer' = [scorer EXCEPT ![w] = v],
         v.pc = "regenerate" => v.sum <= regens[v.r] /\ v.sum < Cap
  PROVE  /\ \A x \in Workers : ReadSum(x)'
         /\ scorer' \in [Workers -> {Idle} \cup Busy]
BY DEF CountInv, TypeOK, ReadSum, Busy

LEMMA GotoScorer ==
  ASSUME CountInv, UNCHANGED <<parent, number, regens>>, NEW w \in Workers,
         NEW pc \in {"task", "count"}, Goto(w, pc), scorer[w].pc # "idle"
  PROVE  /\ \A x \in Workers : ReadSum(x)'
         /\ scorer' \in [Workers -> {Idle} \cup Busy]
<1> DEFINE v == [scorer[w] EXCEPT !.pc = pc]
<1>1. v \in Busy /\ v.pc = pc
  BY BusyFacts DEF CountInv, Busy
<1>2. scorer' = [scorer EXCEPT ![w] = v]
  BY DEF Goto, CountInv, TypeOK
<1> HIDE DEF v
<1> QED
  BY <1>1, <1>2, StepScorer

\* The children of the run that is regenerated gain one; others gain none.
LEMMA RegenerateCount ==
  ASSUME CountInv, NEW w \in Workers, Regenerate(w) PROVE CountInv'
<1>r. PICK r \in Runs : r = scorer[w].r
  BY BusyFacts DEF Regenerate, CountInv
<1>k. PICK k \in Nat : k = scorer[w].sum + 1
  BY BusyFacts DEF Regenerate, CountInv
<1>1. r \in Runs /\ k \in 1..Cap /\ k <= regens[r] + 1 /\ regens[r] \in 0..Cap
  BY <1>r, <1>k, BusyFacts DEF Regenerate, CountInv, ReadSum, TypeOK
<1>2. /\ scorer' \in [Workers -> {Idle} \cup Busy]
      /\ \A x \in Workers : scorer'[x] = IF x = w THEN Idle ELSE scorer[x]
  BY DEF Regenerate, Done, CountInv, TypeOK, Busy
<1>3. CASE UNCHANGED <<status, parent, number, regens>>
  <2>1. \A x \in Workers : ReadSum(x)'
    BY <1>2, <1>3, IdleFacts DEF CountInv, ReadSum
  <2>2. TypeOK' /\ UnbornIsFree'
    BY <1>2, <1>3 DEF CountInv, TypeOK, UnbornIsFree, Busy
  <2> QED
    BY <1>3, <2>1, <2>2, CalmCount
<1>4. ASSUME NEW c \in Runs, ~Taken(r, k), status[c] = "unborn",
             status' = [status EXCEPT ![c] = "open"], parent' = [parent EXCEPT ![c] = r],
             number' = [number EXCEPT ![c] = k], regens' = [regens EXCEPT ![r] = @ + 1]
      PROVE  CountInv'
  <2>1. parent[c] = NoRun /\ NoRun \notin Runs
    BY <1>4 DEF CountInv, UnbornIsFree
  <2>2. k = regens[r] + 1
    <3>1. k \notin {number[d] : d \in Children(r)}
      BY <1>4 DEF Taken, Children
    <3>2. k \notin 1..regens[r]
      BY <1>1, <3>1 DEF CountInv, CountedOnce
    <3> QED
      BY <1>1, <3>2
  <2>3. /\ Children(r)' = Children(r) \cup {c} /\ c \notin Children(r)
        /\ \A q \in Runs : q # r => Children(q)' = Children(q)
        /\ \A q \in Runs : c \notin Children(q)
    BY <1>1, <1>4, <2>1 DEF Children, CountInv, TypeOK
  <2>4. /\ regens'[r] = regens[r] + 1 /\ \A q \in Runs : q # r => regens'[q] = regens[q]
        /\ number'[c] = k /\ \A d \in Runs : d # c => number'[d] = number[d]
    BY <1>1, <1>4 DEF CountInv, TypeOK
  <2>5. TypeOK'
    BY <1>1, <1>2, <1>4, <2>2 DEF CountInv, TypeOK, Busy
  <2>a. IsFiniteSet(Children(r))
    BY <1>1 DEF CountInv, FiniteChildren
  <2>b. /\ IsFiniteSet(Children(r) \cup {c})
        /\ Cardinality(Children(r) \cup {c}) = Cardinality(Children(r)) + 1
    BY <2>a, <2>3, FS_AddElement
  <2>6. FiniteChildren'
    BY <2>3, <2>b DEF CountInv, FiniteChildren
  <2>7. CountedOnce'
    <3>1. ASSUME NEW q \in Runs, q # r
          PROVE  /\ {number'[d] : d \in Children(q)'} = 1..regens'[q]
                 /\ Cardinality(Children(q)') = regens'[q] /\ regens'[q] <= Cap
      <4>1. \A d \in Children(q) : number'[d] = number[d]
        BY <2>3, <2>4, <3>1 DEF Children
      <4> QED
        BY <2>3, <2>4, <3>1, <4>1 DEF CountInv, CountedOnce
    <3>2. {number'[d] : d \in Children(r)'} = 1..regens'[r]
      <4>1. \A d \in Children(r) : number'[d] = number[d]
        BY <2>3, <2>4 DEF Children
      <4>2. {number'[d] : d \in Children(r)'} = {number[d] : d \in Children(r)} \cup {k}
        BY <2>3, <2>4, <4>1
      <4>3. {number[d] : d \in Children(r)} = 1..regens[r]
        BY <1>1 DEF CountInv, CountedOnce
      <4>4. 1..regens[r] \cup {k} = 1..(regens[r] + 1)
        BY <1>1, <2>2
      <4> QED
        BY <2>4, <4>2, <4>3, <4>4
    <3>3. Cardinality(Children(r)') = regens'[r] /\ regens'[r] <= Cap
      <4>1. Cardinality(Children(r)) = regens[r]
        BY <1>1 DEF CountInv, CountedOnce
      <4> QED
        BY <1>1, <2>2, <2>3, <2>4, <2>b, <4>1
    <3> QED
      BY <3>1, <3>2, <3>3 DEF CountedOnce
  <2>8. UnbornIsFree'
    BY <1>4 DEF CountInv, UnbornIsFree, TypeOK
  <2>9. \A x \in Workers : ReadSum(x)'
    <3>1. \A q \in Runs : regens[q] <= regens'[q]
      BY <1>1, <2>4 DEF CountInv, TypeOK
    <3>2. ASSUME NEW x \in Workers, x # w, scorer[x].pc = "regenerate" PROVE ReadSum(x)'
      BY <1>2, <2>5, <3>1, <3>2, BusyFacts DEF CountInv, ReadSum, TypeOK
    <3> QED
      BY <1>2, <3>2, IdleFacts DEF ReadSum
  <2> QED
    BY <2>5, <2>6, <2>7, <2>8, <2>9 DEF CountInv
<1> QED
  BY <1>r, <1>k, <1>3, <1>4 DEF Regenerate

LEMMA NextCountInv == CountInv /\ [Next]_vars => CountInv'
<1> SUFFICES ASSUME CountInv, [Next]_vars PROVE CountInv'
  OBVIOUS
<1>1. ASSUME NEW r \in Runs, Submit(r) PROVE CountInv'
  <2>1. TypeOK' /\ UnbornIsFree' /\ \A w \in Workers : ReadSum(w)'
    BY <1>1 DEF Submit, CountInv, TypeOK, UnbornIsFree, ReadSum
  <2> QED
    BY <1>1, <2>1, CalmCount DEF Submit
<1>2. ASSUME NEW w \in Workers, NEW r \in Runs, Take(w, r) PROVE CountInv'
  <2> DEFINE v == [pc |-> "work", r |-> r, sum |-> 0]
  <2>1. v \in Busy /\ v.pc = "work"
    BY DEF Busy
  <2>2. scorer' = [scorer EXCEPT ![w] = v] /\ UNCHANGED <<status, parent, number, regens>>
    BY <1>2 DEF Take
  <2> HIDE DEF v
  <2>3. /\ \A x \in Workers : ReadSum(x)'
        /\ scorer' \in [Workers -> {Idle} \cup Busy]
    BY <2>1, <2>2, StepScorer
  <2>4. TypeOK' /\ UnbornIsFree'
    BY <2>2, <2>3 DEF CountInv, TypeOK, UnbornIsFree, Busy
  <2> QED
    BY <2>2, <2>3, <2>4, CalmCount
<1>3. ASSUME NEW w \in Workers, Pass(w) PROVE CountInv'
  <2>1. /\ \A x \in Workers : ReadSum(x)'
        /\ scorer' \in [Workers -> {Idle} \cup Busy]
    BY <1>3, GotoScorer DEF Pass
  <2>2. scorer[w].r \in Runs
    BY <1>3, BusyFacts DEF Pass, CountInv
  <2>3. TypeOK' /\ UnbornIsFree'
    BY <1>3, <2>1, <2>2 DEF Pass, CountInv, TypeOK, UnbornIsFree, Busy
  <2> QED
    BY <1>3, <2>1, <2>3, CalmCount DEF Pass
<1>4. ASSUME NEW w \in Workers, CreateTask(w) \/ CountRegenerations(w) PROVE CountInv'
  <2>1. UNCHANGED <<status, parent, number, regens>>
    BY <1>4 DEF CreateTask, CountRegenerations
  <2>2. /\ \A x \in Workers : ReadSum(x)'
        /\ scorer' \in [Workers -> {Idle} \cup Busy]
    <3>1. CASE Done(w)
      BY <2>1, <3>1, StepScorer, IdleFacts DEF Done
    <3>2. CASE CreateTask(w) /\ Goto(w, "count")
      BY <2>1, <3>2, GotoScorer DEF CreateTask
    <3>3. CASE CountRegenerations(w) /\ ~Done(w)
      <4> DEFINE v == [scorer[w] EXCEPT !.pc = "regenerate", !.sum = regens[scorer[w].r]]
      <4>1. scorer[w] \in Busy /\ scorer[w].r \in Runs
        BY <3>3, BusyFacts DEF CountRegenerations, CountInv
      <4>2. regens[scorer[w].r] \in 0..Cap /\ regens[scorer[w].r] < Cap
        BY <3>3, <4>1 DEF CountRegenerations, CountInv, TypeOK
      <4>3. v \in Busy /\ v.sum = regens[v.r] /\ v.r = scorer[w].r
        BY <4>1, <4>2 DEF Busy
      <4>4. scorer' = [scorer EXCEPT ![w] = v]
        BY <3>3 DEF CountRegenerations, CountInv, TypeOK
      <4>5. v.sum <= regens[v.r] /\ v.sum < Cap
        BY <4>2, <4>3
      <4> HIDE DEF v
      <4> QED
        BY <2>1, <4>3, <4>4, <4>5, StepScorer
    <3> QED
      BY <1>4, <3>1, <3>2, <3>3 DEF CreateTask
  <2>3. TypeOK' /\ UnbornIsFree'
    BY <2>1, <2>2 DEF CountInv, TypeOK, UnbornIsFree, Busy
  <2> QED
    BY <2>1, <2>2, <2>3, CalmCount
<1>5. CASE UNCHANGED vars
  <2>1. TypeOK' /\ UnbornIsFree' /\ \A w \in Workers : ReadSum(w)'
    BY <1>5 DEF vars, CountInv, TypeOK, UnbornIsFree, ReadSum
  <2> QED
    BY <1>5, <2>1, CalmCount DEF vars
<1> QED
  BY <1>1, <1>2, <1>3, <1>4, <1>5, RegenerateCount DEF Next

LEMMA CountInvInvariant == Spec => []CountInv
BY InitCountInv, NextCountInv, PTL DEF Spec

\* Every variable keeps its type, for any runs, workers and cap.
THEOREM RegenerationTypes == Spec => []TypeOK
<1>1. CountInv => TypeOK
  BY DEF CountInv
<1> QED
  BY <1>1, CountInvInvariant, PTL

\* However many workers score one run at the same time, its regenerations are
\* numbered without gap or repetition, no more than the cap, and counted right.
THEOREM RegenerationsCounted == Spec => []CountedOnce
<1>1. CountInv => CountedOnce
  BY DEF CountInv
<1> QED
  BY <1>1, CountInvInvariant, PTL
=============================================================================
