------------------------- MODULE QualityRegeneration -------------------------
(***************************************************************************)
(* handleConsistencyScoring of AgentRunWorker: a completed run with a very *)
(* low consistency score is regenerated by a new run.  How often is bound  *)
(* by a sum over the review tasks of the run, read in a transaction of its *)
(* own before the one that creates the new run.                            *)
(*                                                                         *)
(* The way of a run to its completion is module AgentRuns; here a worker   *)
(* takes it and passes its verification in one step each.  A redelivered   *)
(* job lets several workers work on one run, and the ones that were past   *)
(* their first read when it completed all pass (the event key replays).    *)
(***************************************************************************)
EXTENDS Naturals, FiniteSets

CONSTANTS Runs, Workers,
          Cap,             \* regenerations of a run (3 in the code)
          NoRun

ASSUME CapAssumption == Cap \in Nat \ {0} /\ NoRun \notin Runs

VARIABLES status,   \* of each run
          parent,   \* regenerationOfRunId
          number,   \* regenerationAttempt, with parent the clientRequestId
          regens,   \* the sum of autoRegenerations over the run's review tasks
          scorer    \* what each worker is doing

vars == <<status, parent, number, regens, scorer>>

Idle == [pc |-> "idle", r |-> NoRun, sum |-> 0]

TypeOK ==
  /\ status \in [Runs -> {"unborn", "open", "completed"}]
  /\ parent \in [Runs -> Runs \cup {NoRun}]
  /\ number \in [Runs -> 0..Cap] /\ regens \in [Runs -> 0..Cap]
  /\ scorer \in [Workers ->
       {Idle} \cup [pc : {"work", "task", "count", "regenerate"}, r : Runs, sum : 0..Cap]]

Init == /\ status = [r \in Runs |-> "unborn"]
        /\ parent = [r \in Runs |-> NoRun]
        /\ number = [r \in Runs |-> 0]
        /\ regens = [r \in Runs |-> 0]
        /\ scorer = [w \in Workers |-> Idle]

Goto(w, pc) == scorer' = [scorer EXCEPT ![w].pc = pc]
Done(w) == scorer' = [scorer EXCEPT ![w] = Idle]

Submit(r) ==
  /\ status[r] = "unborn"
  /\ status' = [status EXCEPT ![r] = "open"]
  /\ UNCHANGED <<parent, number, regens, scorer>>

Take(w, r) ==
  /\ scorer[w] = Idle /\ status[r] = "open"
  /\ scorer' = [scorer EXCEPT ![w] = [pc |-> "work", r |-> r, sum |-> 0]]
  /\ UNCHANGED <<status, parent, number, regens>>

Pass(w) ==
  /\ scorer[w].pc = "work"
  /\ status' = [status EXCEPT ![scorer[w].r] = "completed"]
  /\ Goto(w, "task")
  /\ UNCHANGED <<parent, number, regens>>

\* No score, a good one, a middling one, or an error (logged and dropped) end
\* it here; a score below 30 goes on.  The new review task counts for nothing.
CreateTask(w) ==
  /\ scorer[w].pc = "task"
  /\ Done(w) \/ Goto(w, "count")
  /\ UNCHANGED <<status, parent, number, regens>>

\* Mutant of CountRegenerations: the cap is off by one.
CountRegenerationsLoosely(w) ==
  LET sum == regens[scorer[w].r] IN
  /\ scorer[w].pc = "count"
  /\ IF sum <= Cap
       THEN scorer' = [scorer EXCEPT ![w].pc = "regenerate", ![w].sum = sum]
       ELSE Done(w)
  /\ UNCHANGED <<status, parent, number, regens>>

CountRegenerations(w) ==
  LET sum == regens[scorer[w].r] IN
  /\ scorer[w].pc = "count"
  /\ IF sum < Cap
       THEN scorer' = [scorer EXCEPT ![w].pc = "regenerate", ![w].sum = sum]
       ELSE Done(w)
  /\ UNCHANGED <<status, parent, number, regens>>

\* Mutant of Taken: the clientRequestId is not looked up.
TakenNever(r, k) == FALSE

Taken(r, k) == \E c \in Runs : parent[c] = r /\ number[c] = k

Regenerate(w) ==
  LET r == scorer[w].r  k == scorer[w].sum + 1 IN
  /\ scorer[w].pc = "regenerate"
  /\ \/ /\ ~Taken(r, k)
        /\ \E c \in Runs :
             /\ status[c] = "unborn"
             /\ status' = [status EXCEPT ![c] = "open"]
             /\ parent' = [parent EXCEPT ![c] = r]
             /\ number' = [number EXCEPT ![c] = k]
        /\ regens' = [regens EXCEPT ![r] = @ + 1]
     \/ Taken(r, k) /\ UNCHANGED <<status, parent, number, regens>>
  /\ Done(w)

Next ==
  \/ \E r \in Runs : Submit(r) \/ \E w \in Workers : Take(w, r)
  \/ \E w \in Workers : \/ Pass(w) \/ CreateTask(w)
                        \/ CountRegenerations(w) \/ Regenerate(w)

Spec == Init /\ [][Next]_vars

-----------------------------------------------------------------------------
Children(r) == {c \in Runs : parent[c] = r}

\* The regenerations of a run are numbered 1, 2, ... without gap or repetition,
\* at most Cap of them, and the counter on its review tasks is their number:
\* two workers that read the same sum do not both regenerate.
CountedOnce ==
  \A r \in Runs : /\ {number[c] : c \in Children(r)} = 1..regens[r]
                  /\ Cardinality(Children(r)) = regens[r]
                  /\ regens[r] <= Cap
=============================================================================
