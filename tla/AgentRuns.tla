------------------------------ MODULE AgentRuns ------------------------------
(***************************************************************************)
(* The agent-run subsystem: the API and webhook operations on runs, the    *)
(* outbox publisher, the BullMQ workers and the recovery scan, all acting  *)
(* on the same tables and on the same queue.                               *)
(***************************************************************************)
EXTENDS AgentRunPublisher, AgentRunWorker, AgentRunRecovery

CONSTANTS
  ApiCalls,       \* which of cancel, retry and remove users call
  AgentEvents     \* lifecycle events that the remote agent reports itself

ASSUME ApiAssumption ==
  ApiCalls \subseteq {"cancel", "retry", "remove"} /\ AgentEvents \subseteq Event

VARIABLE cancelling   \* runs between the two transactions of a cancel

vars == <<storeVars, pub, workerVars, rec, cancelling>>

TypeOK ==
  /\ StoreTypeOK /\ PubTypeOK /\ WorkerTypeOK /\ RecoveryTypeOK
  /\ cancelling \subseteq Runs

Init == /\ StoreInit /\ PubInit /\ WorkerInit /\ RecoveryInit
        /\ cancelling = {}

-----------------------------------------------------------------------------
(* AgentRunsService.                                                       *)

Create(r) ==
  /\ CreateRun(r)
  /\ UNCHANGED <<keys, lease, job, faults, pub, workerVars, rec, cancelling>>

\* cancel: the lifecycle event first (a refused one is the caller's 400 or
\* 404), then a second transaction on the status column.
Cancel(r) ==
  /\ "cancel" \in ApiCalls /\ r \notin cancelling
  /\ ApplyEvent(r, <<"cancel", 0, "CANCELLED_BY_USER">>, "CANCELLED_BY_USER")
  /\ cancelling' = cancelling \cup {r}
  /\ UNCHANGED <<outbox, lease, job, faults, pub, workerVars, rec>>

CancelStatus(r) ==
  /\ r \in cancelling /\ cancelling' = cancelling \ {r}
  /\ run' = IF run[r].status \in Terminal \cup {"NONE"} THEN run
            ELSE [run EXCEPT ![r].status = "CANCELLED"]
  /\ UNCHANGED <<keys, outbox, lease, job, faults, pub, workerVars, rec>>

\* Mutant of Retry: the run itself is reset instead of creating another one.
RetryInPlace(r, c) ==
  /\ "retry" \in ApiCalls /\ run[r].life \in {"FAILED", "CANCELLED"} /\ c = r
  /\ run' = [run EXCEPT ![r] = NewRow]
  /\ outbox' = [outbox EXCEPT ![r][1].state = "PENDING"]
  /\ UNCHANGED <<keys, lease, job, faults, pub, workerVars, rec, cancelling>>

\* retry: a run that is over is never revived, a new one is created from it.
\* A repeated request (same clientRequestId) finds that run and changes nothing.
Retry(r, c) ==
  /\ "retry" \in ApiCalls /\ run[r].life \in {"FAILED", "CANCELLED"}
  /\ CreateRun(c)
  /\ UNCHANGED <<keys, lease, job, faults, pub, workerVars, rec, cancelling>>

\* remove, and retention: transitions and lease go with the row (cascade),
\* outbox events and jobs stay.
Remove(r) ==
  /\ "remove" \in ApiCalls /\ Present(r)
  /\ run' = [run EXCEPT ![r] = NoRow]
  /\ keys' = [keys EXCEPT ![r] = {}]
  /\ lease' = [lease EXCEPT ![r] = NoLease]
  /\ UNCHANGED <<outbox, job, faults, pub, workerVars, rec, cancelling>>

\* recordLifecycleEvent: the signed callback of the remote agent, under a key
\* of its own (bound: one per event and attempt), at once or at a later attempt.
AgentReports(r, n, e) ==
  /\ e \in AgentEvents /\ n <= run[r].attempt
  /\ ApplyEvent(r, <<"agent", n, e>>, e)
  /\ UNCHANGED <<outbox, lease, job, faults, pub, workerVars, rec, cancelling>>

ApiNext == \E r \in Runs :
             \/ Create(r) \/ Cancel(r) \/ CancelStatus(r) \/ Remove(r)
             \/ \E c \in Runs : Retry(r, c)
             \/ \E n \in Attempt, e \in AgentEvents : AgentReports(r, n, e)

\* removeOnComplete and removeOnFail: a finished job leaves Redis at last.
EvictJob(r, n) ==
  /\ job[r][n].state \in {"completed", "failed"} /\ Suffer("evict")
  /\ job' = [job EXCEPT ![r][n] = NoJob]
  /\ UNCHANGED <<run, keys, outbox, lease, pub, workerVars, rec, cancelling>>

ByPublisher(A) == A /\ UNCHANGED <<workerVars, rec, cancelling>>
ByWorker(A)    == A /\ UNCHANGED <<pub, rec, cancelling>>
ByRecovery(A)  == A /\ UNCHANGED <<pub, workerVars, cancelling>>

Next ==
  \/ ApiNext
  \/ ByPublisher(PubNext) \/ ByWorker(WorkerNext) \/ ByRecovery(RecoveryNext)
  \/ \E r \in Runs, n \in Attempt : EvictJob(r, n)

Spec == Init /\ [][Next]_vars

-----------------------------------------------------------------------------
(* Fairness: processes that are up keep going, and time passes.  The poll  *)
(* loop of a publisher makes every kind of start in turn (strong fairness  *)
(* of the starts), BullMQ serves its queue in order (strong fairness of    *)
(* TakeJob) and detects the jobs of dead workers.  Users, the remote agent *)
(* and faults owe nothing.                                                 *)

Fairness ==
  /\ \A p \in Publishers : WF_vars(ByPublisher(PubStep(p)))
  /\ \A w \in Workers : WF_vars(ByWorker(WorkerStep(w)))
  /\ \A s \in Recoverers : WF_vars(ByRecovery(RecoveryStep(s)))
  /\ \A r \in Runs :
       /\ WF_vars(CancelStatus(r))
       /\ WF_vars(ByWorker(ExpireLease(r) /\ UNCHANGED faults))
       /\ WF_vars(ByWorker(RunAges(r)))
       /\ SF_vars(ByPublisher(\E p \in Publishers : ReadQueued(p, r)))
       /\ \A n \in Attempt :
            /\ SF_vars(ByPublisher(\E p \in Publishers : ReadEvent(p, r, n)))
            /\ SF_vars(ByPublisher(\E p \in Publishers :
                                     RecoverLock(p, r, n) /\ UNCHANGED faults))
            /\ SF_vars(ByWorker(\E w \in Workers : TakeJob(w, r, n)))
            /\ WF_vars(ByWorker(StallJob(r, n) /\ UNCHANGED faults))

FairSpec == Spec /\ Fairness

-----------------------------------------------------------------------------
(* Safety.                                                                 *)

\* The two columns that describe a run agree on success and on cancellation,
\* although five components write the older one under guards of their own:
\* no claim, publication, failure or recovery hides a CANCELLED or COMPLETED
\* run behind another status, or shows such a status for an open run.
TerminalStatusAgrees ==
  \A r \in Runs : \A t \in {"COMPLETED", "CANCELLED"} :
    run[r].status = t <=> run[r].life = t

\* A finished lifecycle is final, whatever event, retry or late worker comes
\* after it; the row can only be deleted.
TerminalIsFinal ==
  [][\A r \in Runs : run[r].life \in Terminal =>
        run'[r].life \in {run[r].life, "NONE"}]_vars

\* The remote agent itself reported, by its callback, that it finished.
ReportKeys == {<<"agent", n, "EXECUTION_FINISHED">> : n \in Attempt}
Vouched(r) == keys[r] \cap ReportKeys # {}

\* A run that is VERIFYING or COMPLETED has its output, unless the agent itself
\* reported that it finished: no interleaving of late workers, retries, other
\* callbacks and recovery completes a run whose output was discarded.
CompletedHasOutput ==
  \A r \in Runs : run[r].life \in {"VERIFYING", "COMPLETED"} =>
                    run[r].output > 0 \/ Vouched(r)

\* Every attempt of a run, and none beyond the current one, has its enqueue
\* event: the outbox never loses or invents an attempt, and the unique-key
\* branches of recovery (P2002) are dead code.
EnqueuePerAttempt ==
  \A r \in Runs : Present(r) =>
    \A n \in Attempt : outbox[r][n].state # "none" <=> n <= run[r].attempt

\* Attempts only grow, one at a time, and only for a run that failed for now.
AttemptsGrow ==
  [][\A r \in Runs : Present(r) /\ Present(r)' /\ run'[r].attempt # run[r].attempt =>
        run'[r].attempt = run[r].attempt + 1 /\ run[r].life = "RETRY_SCHEDULED"]_vars

\* A worker never calls the provider for an attempt another worker is calling
\* it for.  The queue sees to it, unless BullMQ takes the job from a worker that
\* still runs; then the lease of the first one does, between processes, while it
\* neither expires under its holder nor is dropped by a recovery scan.
Calling(w) == wk[w].pc = "calling"
OneCallPerAttempt ==
  \A v, w \in Workers : v # w /\ Calling(v) /\ Calling(w) =>
    <<wk[v].r, wk[v].n>> # <<wk[w].r, wk[w].n>>

\* A run shown as QUEUED has a job of its current attempt in Redis, unless
\* retention dropped it: the job is added before the status is committed, and
\* a lost publisher leaves ENQUEUING, never QUEUED, behind.
QueuedHasJob ==
  \A r \in Runs : run[r].status = "QUEUED" => job[r][run[r].attempt].state # "absent"

-----------------------------------------------------------------------------
(* Refinement.                                                             *)

Phase(r) == IF ~Present(r)
              THEN IF outbox[r][1].state = "none" THEN "unborn" ELSE "deleted"
            ELSE IF run[r].life = "COMPLETED" THEN "completed"
            ELSE IF run[r].life = "FAILED" THEN "failed"
            ELSE IF run[r].life = "CANCELLED" THEN "cancelled" ELSE "open"

Promise == INSTANCE AgentRunPromise WITH
             phase   <- [r \in Runs |-> Phase(r)],
             attempt <- [r \in Runs |-> run[r].attempt],
             result  <- [r \in Runs |-> run[r].output],
             vouched <- {r \in Runs : Vouched(r)}

\* The whole subsystem keeps the promise of AgentRunPromise: seen from the API,
\* publishers, redelivered jobs, late workers and scans amount to one run that
\* is submitted once, ends once, and completes only with a result or on the
\* word of the agent.
PromiseKept == Promise!Spec

-----------------------------------------------------------------------------
(* Liveness.                                                               *)

\* A run waiting for the queue is enqueued, given up as FAILED, or taken by a
\* worker in the end: outages of Redis or of the database that are over, lost
\* publishers and expired locks leave no PENDING or ENQUEUING orphan.
NoPendingOrphan ==
  \A r \in Runs : run[r].status \in {"PENDING", "ENQUEUING"} ~>
                   run[r].status \notin {"PENDING", "ENQUEUING"}

\* Without faults, every run comes to an end, however often the provider fails
\* and although every redelivery replays event keys of the first one.
RunsSettle ==
  \A r \in Runs : Present(r) ~> run[r].life \in Terminal \cup {"NONE"}

-----------------------------------------------------------------------------
(* What documents, tests and messages of the repository say and the code   *)
(* does not do.                                                            *)

\* "moves an expired running attempt to RETRY_SCHEDULED and enqueues the next
\* attempt": an abandoned run does not stay abandoned.
AbandonedIsRecovered ==
  \A r \in Runs : Abandoned(r) /\ run[r].attempt < MaxAttempt ~>
                   ~Abandoned(r) \/ run[r].attempt = MaxAttempt
=============================================================================
