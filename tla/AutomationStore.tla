--------------------------- MODULE AutomationStore ---------------------------
(***************************************************************************)
(* What the automation engine keeps of one flow (flows share no row): its  *)
(* row, its runs, the ledger of their steps, and a BullMQ job per run.     *)
(*                                                                         *)
(* A nextRunAt is known by its number in the order in which values were    *)
(* given (0: null); flow.due says that its time has come.  Times given to  *)
(* one flow differ, unless a user sets an old one again.                   *)
(***************************************************************************)
EXTENDS Naturals, FiniteSets

CONSTANTS
  MaxRuns,        \* bound: runs of the flow
  MaxSlots,       \* bound: values of nextRunAt
  MaxEdits,       \* bound: updates of the flow by users
  NumSteps,       \* steps of the flow; each depends on the one before
  Workers,        \* processing slots of the automation-runs worker
  Processes,      \* the processes these slots are in
  Schedulers,     \* replicas of the scheduler
  Users, Keys,    \* request slots of the API, idempotency keys they send
  JobAttempts,    \* BullMQ "attempts" of a job (3 in queue.module.ts)
  FaultKinds,     \* the kinds of faults that may happen, each once (leases,
                  \* when they are overrun, may all be)
  MaxFaults,      \* bound: how many of them
  NoOne

Fault == {"redis",     \* a queue operation fails
          "database",  \* a transaction fails
          "crash",     \* a worker process dies
          "restart",   \* the process of a scheduler or of a request dies
          "stall",     \* BullMQ takes the job from a worker that still runs
          "overrun"}   \* a lease of ten minutes ends before its owner does

ASSUME AutomationAssumption ==
  /\ MaxRuns \in Nat /\ MaxSlots \in Nat \ {0} /\ MaxEdits \in Nat /\ MaxFaults \in Nat
  /\ NumSteps \in Nat \ {0} /\ JobAttempts \in Nat \ {0}
  /\ FaultKinds \subseteq Fault
  /\ Schedulers \cap Users = {} /\ NoOne \notin Workers \cup Processes

VARIABLES flow, run, step, job, faults, edits,
          host, born  \* the process of each slot; how often each was restarted

storeVars == <<flow, run, step, job, faults, edits, host, born>>

Runs == 1..MaxRuns
StepNo == 1..NumSteps
Slots == 0..MaxSlots

Active == {"PENDING", "RUNNING"}
Ended == {"COMPLETED", "PARTIAL", "FAILED"}

\* Every status of a flow but ACTIVE and ERROR is treated like PAUSED; whether
\* a recurring flow operates the store is left open.
Flow == [kind : {"oneShot", "recurring"}, status : {"ACTIVE", "PAUSED", "ERROR"},
         slot : Slots, due : BOOLEAN, last : Slots]

Key == ({"schedule"} \X Slots) \cup ({"user"} \X Keys)
NoKey == <<"schedule", 0>>

Owner == (Processes \X Nat) \cup {<<NoOne, 0>>}
Nobody == <<NoOne, 0>>

Row == [status : {"none"} \cup Active \cup Ended, key : Key, parent : 0..MaxRuns,
        owner : Owner, live : BOOLEAN]
NoRow == [status |-> "none", key |-> NoKey, parent |-> 0, owner |-> Nobody, live |-> FALSE]

StepRow == [status : {"none", "RUNNING", "COMPLETED", "BLOCKED", "FAILED"},
            owner : Owner, live : BOOLEAN]
NoStep == [status |-> "none", owner |-> Nobody, live |-> FALSE]

Job == [state  : {"absent", "waiting", "active", "completed", "failed"},
        made   : 0..JobAttempts,
        holder : Workers \cup {NoOne}]
NoJob == [state |-> "absent", made |-> 0, holder |-> NoOne]

StoreTypeOK ==
  /\ flow \in Flow /\ edits \in 0..MaxEdits /\ faults \subseteq FaultKinds
  /\ run \in [Runs -> Row] /\ step \in [Runs -> [StepNo -> StepRow]]
  /\ job \in [Runs -> Job]
  /\ host \in [Workers -> Processes] /\ born \in [Processes -> Nat]

\* The flow was saved with a first time to run.
StoreInit ==
  /\ flow \in {f \in Flow : f.status = "ACTIVE" /\ f.slot = 1 /\ ~f.due /\ f.last = 1}
  /\ run = [r \in Runs |-> NoRow] /\ step = [r \in Runs |-> [k \in StepNo |-> NoStep]]
  /\ job = [r \in Runs |-> NoJob]
  /\ faults = {} /\ edits = 0
  /\ host \in [Workers -> Processes] /\ born = [p \in Processes |-> 0]

\* A fault of kind k happens in this step.
Suffer(k) == /\ k \in FaultKinds \ faults /\ Cardinality(faults) < MaxFaults
             /\ faults' = faults \cup {k}

\* workerId, a random name that a process takes when it starts.
Me(w) == <<host[w], born[host[w]]>>

Busy == \E r \in Runs : run[r].status \in Active

\* Unique index on flow and idempotencyKey.
Known(key) == \E r \in Runs : run[r].status # "none" /\ run[r].key = key

Insert(r, key, parent) ==
  /\ run[r].status = "none" /\ \A q \in Runs : q < r => run[q].status # "none"
  /\ run' = [run EXCEPT ![r] = [NoRow EXCEPT !.status = "PENDING", !.key = key,
                                             !.parent = parent]]

\* The flow gets a nextRunAt of its own in the future, or none.
NewTime == /\ flow.last < MaxSlots
           /\ flow' = [flow EXCEPT !.slot = flow.last + 1, !.last = flow.last + 1,
                                   !.due = FALSE]
NoTime == [flow EXCEPT !.slot = 0, !.due = FALSE]
=============================================================================
