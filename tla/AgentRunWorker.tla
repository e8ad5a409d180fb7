--------------------------- MODULE AgentRunWorker ---------------------------
(***************************************************************************)
(* AgentRunWorker: takes agent-run jobs from BullMQ, claims the run, walks *)
(* it through the lifecycle around one call of the agent provider, and     *)
(* accounts for failures.  Each await of processWithContext is a step, so  *)
(* the steps of two workers, of the publisher, of the recovery scan and of *)
(* the API interleave as they do between processes.                        *)
(*                                                                         *)
(* A worker keeps the lifecycle status it read or computed in local        *)
(* variables and resolves transitions from those (base, ls), while the     *)
(* database resolves the same event from the row.                          *)
(***************************************************************************)
EXTENDS AgentRunStore

VARIABLES wk,       \* what each worker slot is doing
          dead,     \* jobs recorded on the dead-letter queue
          children  \* runs created by quality regeneration, by parent

workerVars == <<wk, dead, children>>

IdleWorker == [pc |-> "idle", r |-> NoOne, n |-> 0, base |-> "NONE",
               ls |-> "NONE", out |-> "none", held |-> FALSE]

BusyWorker == [pc   : {"read", "claim", "begin", "lease", "calling", "toolresult", "write",
                       "finish", "verify", "score", "catch", "catchwrite", "release",
                       "settle", "onfailed", "finalize"},
               r    : Runs,
               n    : Attempt,
               base : Lifecycle \cup {"NONE"},       \* lifecycleStatus
               ls   : Lifecycle \cup {"NONE"},       \* the same in beginLifecycleAttempt
               out  : {"none", "completed", "retry", "fatal"},
               held : BOOLEAN]                       \* leaseOwner is set

WorkerTypeOK ==
  /\ wk \in [Workers -> BusyWorker \cup {IdleWorker}]
  /\ dead \subseteq (Runs \X Attempt)
  /\ children \in [Runs -> SUBSET Runs]

WorkerInit ==
  /\ wk = [w \in Workers |-> IdleWorker]
  /\ dead = {}
  /\ children = [r \in Runs |-> {}]

Goto(w, pc) == wk' = [wk EXCEPT ![w].pc = pc]
WorkerKey(n, e) == <<"worker", n, e>>            \* agent-run:<r>:attempt:<n>:<e>

\* Return from process: the finally block releases the lease if one is held.
Return(w, out) ==
  wk' = [wk EXCEPT ![w].pc = IF wk[w].held THEN "release" ELSE "settle", ![w].out = out]

\* Throw inside the try block: toQueueFailure, and no retry once VERIFYING.
Throw(w, out) ==
  wk' = [wk EXCEPT ![w].pc = "catch",
                   ![w].out = IF wk[w].base = "VERIFYING" THEN "fatal" ELSE out]

-----------------------------------------------------------------------------
(* Before the try block: read the row, then claim it.                      *)

\* A job over its stall limit fails as soon as it is taken, unprocessed.
TakeJob(w, r, n) ==
  LET doomed == job[r][n].stalls = 2
      made == job[r][n].made
  IN
  /\ wk[w].pc = "idle" /\ job[r][n].state = "waiting"
  /\ IF doomed THEN MarkJob(r, n, "failed", made, NoOne) ELSE MarkJob(r, n, "active", made, w)
  /\ wk' = [wk EXCEPT ![w] = [pc |-> IF doomed THEN "onfailed" ELSE "read", r |-> r, n |-> n,
                              base |-> "NONE", ls |-> "NONE", out |-> "none", held |-> FALSE]]
  /\ UNCHANGED <<run, keys, outbox, lease, faults, dead, children>>

ReadRun(w) ==
  LET r == wk[w].r IN
  /\ wk[w].pc = "read"
  /\ IF Present(r) /\ run[r].status \notin Terminal /\ run[r].attempt = wk[w].n
       THEN wk' = [wk EXCEPT ![w].pc = "claim", ![w].base = run[r].life,
                             ![w].ls = run[r].life]
       ELSE Return(w, "completed")
  /\ UNCHANGED <<storeVars, dead, children>>

\* Mutants of Claimable: no guard on the status, and no second claim.
ClaimableAnyStatus(r, n) == run[r].attempt = n
ClaimableOnce(r, n) ==
  run[r].attempt = n /\ run[r].status \in {"PENDING", "ENQUEUING", "QUEUED"}

Claimable(r, n) ==
  /\ run[r].attempt = n
  /\ \/ run[r].status \in {"PENDING", "ENQUEUING", "QUEUED", "RETRYING"}
     \/ run[r].status = "RUNNING" /\ run[r].error = "AGENT_RETRYING"

\* beginLifecycleAttempt starts from the status read before the claim: it has
\* events to apply, nothing to do, or throws an UnrecoverableError.
Starting == {"CREATED", "PLANNING", "RETRY_SCHEDULED"}
Begin(w) == IF wk[w].ls \in Starting THEN Goto(w, "begin")
            ELSE IF wk[w].ls \in {"WAITING_TOOL", "EXECUTING"} THEN Goto(w, "lease")
            ELSE Throw(w, "fatal")

ClaimRun(w) ==
  LET r == wk[w].r IN
  /\ wk[w].pc = "claim"
  /\ IF Claimable(r, wk[w].n)
       THEN /\ run' = [run EXCEPT ![r].status = "RUNNING", ![r].error = "none",
                                  ![r].started = IF @ = "no" THEN "recent" ELSE @]
            /\ Begin(w)
       ELSE Return(w, "completed") /\ UNCHANGED run
  /\ UNCHANGED <<keys, outbox, lease, job, faults, dead, children>>

ReadFails(w) ==
  /\ wk[w].pc \in {"read", "claim"} /\ Suffer("database")
  /\ Return(w, "retry")
  /\ UNCHANGED <<run, keys, outbox, lease, job, dead, children>>

-----------------------------------------------------------------------------
(* The private applyLifecycleEvent: resolve locally (an illegal step is an *)
(* Error without a status, hence retryable), then apply in the database    *)
(* (404, 400: not retryable).                                              *)

WorkerEvent(w, from, e, after) ==
  LET r == wk[w].r  key == WorkerKey(wk[w].n, e) IN
  /\ \/ /\ e \in Accepted(from)
        /\ ApplyEvent(r, key, e)
        /\ wk' = [wk EXCEPT ![w] = after]
     \/ /\ e \in Accepted(from) /\ Refuses(r, key, e)
        /\ Throw(w, "fatal")
        /\ UNCHANGED <<run, keys>>
     \/ /\ e \notin Accepted(from)
        /\ Throw(w, "retry")
        /\ UNCHANGED <<run, keys>>
  /\ UNCHANGED <<outbox, lease, job, faults, dead, children>>

\* beginLifecycleAttempt, one event at a time, from the status read before
\* the claim.  The outer variable (base) is assigned when it returns.
BeginWith == [CREATED         |-> "PLAN_STARTED",
              PLANNING        |-> "TOOL_CALL_REQUESTED",
              RETRY_SCHEDULED |-> "RETRY_DISPATCHED"]

BeginEvent(w) ==
  LET from == wk[w].ls  to == Target[BeginWith[from]] IN
  /\ wk[w].pc = "begin"
  /\ WorkerEvent(w, from, BeginWith[from],
       IF from = "CREATED" THEN [wk[w] EXCEPT !.ls = to]
       ELSE [wk[w] EXCEPT !.pc = "lease", !.ls = to, !.base = to])

-----------------------------------------------------------------------------
(* Lease and provider call.                                                *)

\* AgentRunLeaseService.acquire: the same owner, an expired lease, or none.
\* The row of a deleted run cannot be inserted (foreign key).
AcquireLease(w) ==
  LET r == wk[w].r  me == Owner(w, wk[w].n) IN
  /\ wk[w].pc = "lease"
  /\ \/ /\ Present(r) /\ (lease[r].owner = me \/ ~lease[r].live)
        /\ lease' = [lease EXCEPT ![r] = [owner |-> me, live |-> TRUE]]
        /\ wk' = [wk EXCEPT ![w].pc = "calling", ![w].held = TRUE]
     \/ /\ lease[r].live /\ lease[r].owner # me
        /\ Return(w, "completed")                        \* lease_conflict
        /\ UNCHANGED lease
     \/ /\ ~Present(r)
        /\ Throw(w, "retry")
        /\ UNCHANGED lease
  /\ UNCHANGED <<run, keys, outbox, job, faults, dead, children>>

\* dispatch throws: for now, or for good (4xx, quota or fallback exhausted).
ProviderFails(w) ==
  /\ wk[w].pc = "calling" /\ \E out \in {"retry", "fatal"} : Throw(w, out)
  /\ UNCHANGED <<storeVars, dead, children>>

-----------------------------------------------------------------------------
(* The provider answers: drop the output of a cancelled or stale attempt,  *)
(* else write it and close the run.                                        *)

ReadLatest(w) ==
  LET r == wk[w].r IN
  /\ wk[w].pc = "calling"
  /\ IF ~Present(r) \/ run[r].attempt # wk[w].n \/ run[r].life = "CANCELLED"
       THEN Return(w, "completed")
       ELSE wk' = [wk EXCEPT ![w].base = run[r].life,
                     ![w].pc = IF run[r].life = "WAITING_TOOL" THEN "toolresult" ELSE "write"]
  /\ UNCHANGED <<storeVars, dead, children>>

ToolResult(w) ==
  /\ wk[w].pc = "toolresult"
  /\ WorkerEvent(w, wk[w].base, "TOOL_RESULT_RECEIVED",
                 [wk[w] EXCEPT !.pc = "write", !.base = "EXECUTING"])

\* Mutant of WriteOutput: a write that finds the run changed goes on all the same.
WriteOutputGoesOn(w) ==
  LET r == wk[w].r  n == wk[w].n IN
  /\ wk[w].pc = "write"
  /\ run' = IF run[r].attempt = n /\ run[r].status = "RUNNING" /\ run[r].life = "EXECUTING"
              THEN [run EXCEPT ![r].output = n, ![r].error = "none"] ELSE run
  /\ Goto(w, "finish")
  /\ UNCHANGED <<keys, outbox, lease, job, faults, dead, children>>

WriteOutput(w) ==
  LET r == wk[w].r  n == wk[w].n IN
  /\ wk[w].pc = "write"
  /\ IF run[r].attempt = n /\ run[r].status = "RUNNING" /\ run[r].life = "EXECUTING"
       THEN /\ run' = [run EXCEPT ![r].output = n, ![r].error = "none"]
            /\ Goto(w, "finish")
       ELSE Return(w, "completed") /\ UNCHANGED run      \* stale_completion
  /\ UNCHANGED <<keys, outbox, lease, job, faults, dead, children>>

FinishExecution(w) ==
  /\ wk[w].pc = "finish"
  /\ WorkerEvent(w, wk[w].base, "EXECUTION_FINISHED",
                 [wk[w] EXCEPT !.pc = "verify", !.base = "VERIFYING"])

PassVerification(w) ==
  /\ wk[w].pc = "verify"
  /\ WorkerEvent(w, wk[w].base, "VERIFICATION_PASSED",
                 [wk[w] EXCEPT !.pc = "score", !.base = "COMPLETED"])

\* updateProgress, then handleConsistencyScoring, whose own errors are dropped:
\* a score below 30 creates a run that regenerates this one, while less than
\* three have been counted (module QualityRegeneration is about that count; the
\* bound on Runs keeps below it here).
Score(w) ==
  /\ wk[w].pc = "score"
  /\ \/ UNCHANGED <<run, outbox, children>>
     \/ \E c \in Runs : /\ CreateRun(c)
                        /\ children' = [children EXCEPT ![wk[w].r] = @ \cup {c}]
  /\ Return(w, "completed")
  /\ UNCHANGED <<keys, lease, job, faults, dead>>

-----------------------------------------------------------------------------
(* A statement of the try block fails.                                     *)

LifecyclePc == {"begin", "toolresult", "finish", "verify"}

StatementFails(w) ==
  /\ \/ wk[w].pc \in LifecyclePc \cup {"lease", "calling", "write"} /\ Suffer("database")
        /\ Throw(w, "retry")
     \/ wk[w].pc \in LifecyclePc /\ Suffer("conflict") /\ Throw(w, "fatal")   \* 409
     \/ wk[w].pc = "score" /\ Suffer("redis") /\ Throw(w, "retry")
  /\ UNCHANGED <<run, keys, outbox, lease, job, dead, children>>

-----------------------------------------------------------------------------
(* The catch block: errors of its lifecycle event are logged and dropped;  *)
(* the row is then written under a guard on attempt and status.            *)

ErrorEvent(out) == IF out = "retry" THEN "RETRYABLE_ERROR" ELSE "NON_RETRYABLE_ERROR"

CatchEvent(w) ==
  LET r == wk[w].r  e == ErrorEvent(wk[w].out)  key == WorkerKey(wk[w].n, e) IN
  /\ wk[w].pc = "catch"
  /\ \/ /\ e \in Accepted(wk[w].base) /\ ApplyEvent(r, key, e)
        /\ UNCHANGED faults
     \/ /\ e \notin Accepted(wk[w].base) \/ Refuses(r, key, e)
        /\ UNCHANGED <<run, keys, faults>>
     \/ /\ Suffer("database") \/ Suffer("conflict")
        /\ UNCHANGED <<run, keys>>
  /\ Goto(w, "catchwrite")
  /\ UNCHANGED <<outbox, lease, job, dead, children>>

CatchWrite(w) ==
  LET r == wk[w].r  retry == wk[w].out = "retry" IN
  /\ wk[w].pc = "catchwrite"
  /\ \/ /\ run' = IF run[r].attempt = wk[w].n /\ run[r].status \in {"RUNNING", "RETRYING", "FAILED"}
                    THEN [run EXCEPT ![r].status = IF retry THEN "RETRYING" ELSE "FAILED",
                                     ![r].error = IF retry THEN "AGENT_RETRYING" ELSE "other"]
                    ELSE run
        /\ Return(w, wk[w].out) /\ UNCHANGED faults
     \/ Suffer("database") /\ Return(w, "retry") /\ UNCHANGED run
  /\ UNCHANGED <<keys, outbox, lease, job, dead, children>>

\* The finally block; a failing release is logged and the lease is left.
ReleaseLease(w) ==
  LET r == wk[w].r IN
  /\ wk[w].pc = "release"
  /\ \/ /\ lease' = IF lease[r].owner = Owner(w, wk[w].n)
                      THEN [lease EXCEPT ![r] = NoLease] ELSE lease
        /\ UNCHANGED faults
     \/ Suffer("database") /\ UNCHANGED lease
  /\ wk' = [wk EXCEPT ![w].pc = "settle", ![w].held = FALSE]
  /\ UNCHANGED <<run, keys, outbox, job, dead, children>>

-----------------------------------------------------------------------------
(* BullMQ settles the job; a final failure raises the failed event.        *)

Settle(w) ==
  LET r == wk[w].r  n == wk[w].n  made == job[r][n].made + 1
      final == wk[w].out = "fatal" \/ made >= JobAttempts
  IN
  /\ wk[w].pc = "settle"
  /\ IF job[r][n].state # "active" \/ job[r][n].holder # w    \* the lock is lost
       THEN wk' = [wk EXCEPT ![w] = IdleWorker] /\ UNCHANGED job
       ELSE IF wk[w].out = "completed"
       THEN /\ MarkJob(r, n, "completed", job[r][n].made, NoOne)
            /\ wk' = [wk EXCEPT ![w] = IdleWorker]
       ELSE /\ MarkJob(r, n, IF final THEN "failed" ELSE "waiting", made, NoOne)
            /\ wk' = IF final THEN [wk EXCEPT ![w].pc = "onfailed"]
                              ELSE [wk EXCEPT ![w] = IdleWorker]
  /\ UNCHANGED <<run, keys, outbox, lease, faults, dead, children>>

\* onFailed reads the run; a newer attempt is left alone.
OnFailed(w) ==
  LET r == wk[w].r  open == Present(r) /\ run[r].attempt = wk[w].n /\ run[r].life \notin Terminal
  IN
  /\ wk[w].pc = "onfailed"
  /\ IF open THEN /\ wk' = [wk EXCEPT ![w].pc = "finalize", ![w].base = run[r].life]
                  /\ UNCHANGED dead
             ELSE /\ wk' = [wk EXCEPT ![w] = IdleWorker]
                  /\ dead' = dead \cup {<<r, wk[w].n>>}
  /\ UNCHANGED <<storeVars, children>>

\* ... fails the lifecycle, if it still can, and records the dead letter.
Finalize(w) ==
  LET r == wk[w].r
      e == IF wk[w].base = "CREATED" THEN "FATAL_ERROR" ELSE "NON_RETRYABLE_ERROR"
      key == WorkerKey(wk[w].n, e)
  IN
  /\ wk[w].pc = "finalize"
  /\ \/ ApplyEvent(r, key, e) /\ UNCHANGED faults
     \/ Refuses(r, key, e) /\ UNCHANGED <<run, keys, faults>>
     \/ (Suffer("database") \/ Suffer("conflict")) /\ UNCHANGED <<run, keys>>
  /\ wk' = [wk EXCEPT ![w] = IdleWorker]
  /\ dead' = dead \cup {<<r, wk[w].n>>}
  /\ UNCHANGED <<outbox, lease, job, children>>

-----------------------------------------------------------------------------
(* Crashes, stalled jobs and time.                                         *)

WorkerCrash(w) ==
  /\ wk[w].pc # "idle" /\ Suffer("crash")
  /\ wk' = [wk EXCEPT ![w] = IdleWorker]
  /\ UNCHANGED <<run, keys, outbox, lease, job, dead, children>>

Working(w, r, n) == wk[w].pc \notin {"idle", "onfailed", "finalize"}
                      /\ wk[w].r = r /\ wk[w].n = n

\* BullMQ finds an active job without a live lock and puts it back in the
\* queue.  That takes a dead worker, or one whose event loop stalls.
StallJob(r, n) ==
  LET w == job[r][n].holder IN
  /\ job[r][n].state = "active"
  /\ IF w \in Workers /\ Working(w, r, n) THEN Suffer("stall") ELSE UNCHANGED faults
  /\ job' = [job EXCEPT ![r][n] = [state |-> "waiting", made |-> @.made, holder |-> NoOne,
                                   stalls |-> IF @.stalls < 2 THEN @.stalls + 1 ELSE 2]]
  /\ UNCHANGED <<run, keys, outbox, lease, dead, children, wk>>

\* leaseUntil passes.  A live holder renews every third of the ttl, which is
\* no step here; a lease that has expired is never renewed by a heartbeat.
ExpireLease(r) ==
  /\ lease[r].live
  /\ IF \E w \in Workers : wk[w].held /\ wk[w].r = r /\ lease[r].owner = Owner(w, wk[w].n)
       THEN Suffer("slow") ELSE UNCHANGED faults
  /\ lease' = [lease EXCEPT ![r].live = FALSE]
  /\ UNCHANGED <<run, keys, outbox, job, dead, children, wk>>

\* AGENT_RUN_ORPHAN_AFTER_MS pass since startedAt, which later attempts keep.
RunAges(r) ==
  /\ run[r].started = "recent"
  /\ run' = [run EXCEPT ![r].started = "old"]
  /\ UNCHANGED <<keys, outbox, lease, job, faults, dead, children, wk>>

WorkerStep(w) ==
  \/ ReadRun(w) \/ ClaimRun(w) \/ BeginEvent(w) \/ AcquireLease(w)
  \/ ProviderFails(w) \/ ReadLatest(w) \/ ToolResult(w)
  \/ WriteOutput(w) \/ FinishExecution(w) \/ PassVerification(w) \/ Score(w)
  \/ CatchEvent(w) \/ CatchWrite(w) \/ ReleaseLease(w) \/ Settle(w)
  \/ OnFailed(w) \/ Finalize(w)

WorkerFault(w) == ReadFails(w) \/ StatementFails(w) \/ WorkerCrash(w)

WorkerNext ==
  \/ \E w \in Workers : WorkerStep(w) \/ WorkerFault(w)
  \/ \E r \in Runs : \/ ExpireLease(r) \/ RunAges(r)
                     \/ \E n \in Attempt : StallJob(r, n) \/ \E w \in Workers : TakeJob(w, r, n)
=============================================================================
