---------------------------- MODULE AgentRunStore ----------------------------
(***************************************************************************)
(* What the components of the agent-run subsystem share: four PostgreSQL   *)
(* tables and one BullMQ queue.                                            *)
(*                                                                         *)
(*   run     AgentRun        the row of each run, NoRow before its creation*)
(*                           and after its deletion                        *)
(*   keys    AgentTransition the event keys already applied to each run    *)
(*   outbox  OutboxEvent     the agent-run.enqueue row of each attempt     *)
(*   lease   AgentRunLease   the worker lease of each run                  *)
(*   job     the BullMQ job agent-run__<run>__attempt__<n>                 *)
(*                                                                         *)
(* Every operation of the code on a table is one transaction, hence one    *)
(* step.  What may go wrong around a step is a fault: its kind has to be   *)
(* among FaultKinds, and MaxFaults bounds how many happen.                 *)
(***************************************************************************)
EXTENDS Naturals, AgentLifecycle

CONSTANTS
  Runs,             \* ids of agent runs
  MaxAttempt,       \* bound: attempts of one run that are modelled
  Workers,          \* processing slots of the agent-runs worker processes
  Host,             \* the process a slot belongs to
  Publishers,       \* backend replicas running the outbox publisher
  JobAttempts,      \* BullMQ "attempts" of a job (3 in queue.module.ts)
  PublishAttempts,  \* MAX_ATTEMPTS of the publisher (5 in the code)
  FaultKinds,       \* the kinds of faults that may happen
  MaxFaults,        \* bound: how many of them
  NoOne             \* no worker, no run

Fault == {"redis",      \* a queue operation fails
          "database",   \* a query or a transaction fails
          "conflict",   \* the version compare-and-set of applyEvent loses
          "crash",      \* a worker process dies
          "restart",    \* the process of a publisher or of a recovery scan dies
          "stall",      \* BullMQ takes the job from a worker that still runs
          "slow",       \* a timeout expires although its owner is alive
          "evict"}      \* retention drops a finished job

ASSUME StoreAssumption ==
  /\ MaxAttempt \in Nat \ {0} /\ JobAttempts \in Nat \ {0}
  /\ PublishAttempts \in Nat \ {0} /\ MaxFaults \in Nat
  /\ FaultKinds \subseteq Fault
  /\ NoOne \notin Runs /\ NoOne \notin Workers /\ NoOne \notin Publishers

VARIABLES run, keys, outbox, lease, job, faults

storeVars == <<run, keys, outbox, lease, job, faults>>

Attempt == 1..MaxAttempt

Status == {"PENDING", "ENQUEUING", "QUEUED", "RUNNING", "RETRYING"} \cup Terminal

Row == [status  : Status,
        life    : Lifecycle,
        attempt : Attempt,
        error   : {"none", "AGENT_RETRYING", "other"},  \* errorCode
        output  : 0..MaxAttempt,                         \* attempt that wrote it
        started : {"no", "recent", "old"}]               \* age of startedAt

NoRow == [status |-> "NONE", life |-> "NONE", attempt |-> 0,
          error |-> "none", output |-> 0, started |-> "no"]

Key == {"worker", "recovery", "cancel", "agent"} \X (0..MaxAttempt) \X Event

\* Mutant of Owner: the owner name lacks the worker's id.
OwnerOfAttempt(w, n) == <<"worker", n>>

Owner(w, n) == <<Host[w], n>>                \* workerId:job:attempt:n
LeaseOwner == {Owner(w, n) : w \in Workers, n \in Attempt}
Lease == [owner : LeaseOwner, live : BOOLEAN]
NoLease == [owner |-> <<NoOne, 0>>, live |-> FALSE]

OutboxRow == [state : {"none", "PENDING", "PROCESSING", "RETRYING",
                       "PUBLISHED", "DEAD_LETTERED"},
              tries : 0..PublishAttempts,
              locked : Publishers \cup {NoOne}]
NoEvent == [state |-> "none", tries |-> 0, locked |-> NoOne]

Job == [state  : {"absent", "waiting", "active", "completed", "failed"},
        made   : 0..JobAttempts,
        stalls : 0..2,          \* 2: over maxStalledCount, fails when next taken
        holder : Workers \cup {NoOne}]
NoJob == [state |-> "absent", made |-> 0, stalls |-> 0, holder |-> NoOne]
FreshJob == [NoJob EXCEPT !.state = "waiting"]

StoreTypeOK ==
  /\ run \in [Runs -> Row \cup {NoRow}]
  /\ keys \in [Runs -> SUBSET Key]
  /\ outbox \in [Runs -> [Attempt -> OutboxRow]]
  /\ lease \in [Runs -> Lease \cup {NoLease}]
  /\ job \in [Runs -> [Attempt -> Job]]
  /\ faults \in 0..MaxFaults

StoreInit ==
  /\ run = [r \in Runs |-> NoRow]
  /\ keys = [r \in Runs |-> {}]
  /\ outbox = [r \in Runs |-> [n \in Attempt |-> NoEvent]]
  /\ lease = [r \in Runs |-> NoLease]
  /\ job = [r \in Runs |-> [n \in Attempt |-> NoJob]]
  /\ faults = 0

Present(r) == run[r].status # "NONE"

\* A fault of kind k happens in this step.
Suffer(k) == k \in FaultKinds /\ faults < MaxFaults /\ faults' = faults + 1

-----------------------------------------------------------------------------
(* AgentRunLifecycleService.applyEvent.                                    *)

Replays(r, key) == Present(r) /\ key \in keys[r]
\* Mutant of Accepts: a cancellation is not resolved by the state machine.
AcceptsAnyCancel(r, key, e) ==
  /\ Present(r) /\ key \notin keys[r]
  /\ e = "CANCELLED_BY_USER" \/ e \in Accepted(run[r].life)

Accepts(r, key, e) == Present(r) /\ key \notin keys[r] /\ e \in Accepted(run[r].life)

\* 404 when the run is gone, 400 when the transition is illegal.
Refuses(r, key, e) == ~Replays(r, key) /\ ~Accepts(r, key, e)

Moved(row, e) ==
  [row EXCEPT !.life = Target[e],
              !.status = Legacy(Target[e]),
              !.started = IF e = "PLAN_STARTED" /\ @ = "no" THEN "recent" ELSE @,
              !.error = IF Target[e] = "FAILED" THEN "other"
                        ELSE IF Target[e] = "COMPLETED" THEN "none" ELSE @]

\* The transaction commits: the event is applied, or found applied already.
ApplyEvent(r, key, e) ==
  \/ /\ Replays(r, key)
     /\ UNCHANGED <<run, keys>>
  \/ /\ Accepts(r, key, e)
     /\ run' = [run EXCEPT ![r] = Moved(@, e)]
     /\ keys' = [keys EXCEPT ![r] = @ \cup {key}]

-----------------------------------------------------------------------------
(* Rows and jobs.                                                          *)

\* outboxEvent.create: the enqueue event of an attempt.
NewEvent(r, n) ==
  outbox' = [outbox EXCEPT ![r][n] = [state |-> "PENDING", tries |-> 0, locked |-> NoOne]]

NewRow == [status |-> "PENDING", life |-> "CREATED", attempt |-> 1,
           error |-> "none", output |-> 0, started |-> "no"]

\* Ids are never reused: a run that was created keeps its outbox rows.
Unused(r) == ~Present(r) /\ outbox[r][1].state = "none"

\* The transaction that creates a run together with its first enqueue event.
CreateRun(r) ==
  /\ Unused(r)
  /\ run' = [run EXCEPT ![r] = NewRow]
  /\ NewEvent(r, 1)

\* queue.add with a fixed jobId: BullMQ ignores it while the job is kept.
AddJob(r, n) ==
  job' = IF job[r][n].state = "absent"
           THEN [job EXCEPT ![r][n] = FreshJob] ELSE job

MarkJob(r, n, state, made, holder) ==
  job' = [job EXCEPT ![r][n] = [state |-> state, made |-> made, stalls |-> @.stalls,
                                holder |-> holder]]
=============================================================================
