--------------------------- MODULE AutomationWorker ---------------------------
(***************************************************************************)
(* AutomationWorker.process with the leases of runs and steps              *)
(* (AutomationStepExecutionsService), and BullMQ's part: it hands out      *)
(* jobs, redelivers them, and takes them from workers that seem dead.      *)
(*                                                                         *)
(* Both slots of a process claim under the same name (workerId).  What a   *)
(* step does is external: it ends completed, ends otherwise, or throws.    *)
(***************************************************************************)
EXTENDS AutomationStore

VARIABLES wk,   \* what each slot is doing
          dead  \* runs of which a dead-letter job was added

workerVars == <<wk, dead>>

Worker == [pc : {"idle", "claim", "step", "exec", "fail", "success", "release",
                 "failure", "settle"},
           r : 0..MaxRuns, made : 0..JobAttempts,
           seen : Slots,                                   \* run.flow.nextRunAt as read
           got : [StepNo -> {"none", "COMPLETED", "BLOCKED"}],   \* results by step
           out : {"none", "completed", "failed"}]

IdleWorker == [pc |-> "idle", r |-> 0, made |-> 0, seen |-> 0,
               got |-> [k \in StepNo |-> "none"], out |-> "none"]

WorkerTypeOK == wk \in [Workers -> Worker] /\ dead \subseteq Runs
WorkerInit == wk = [w \in Workers |-> IdleWorker] /\ dead = {}

Goto(w, pc) == wk' = [wk EXCEPT ![w].pc = pc]
Leave(w, pc) == wk' = [wk EXCEPT ![w].pc = pc, ![w].got = IdleWorker.got]
End(w, out) == wk' = [wk EXCEPT ![w] = [IdleWorker EXCEPT !.pc = "settle", !.r = wk[w].r,
                                                          !.out = out]]

\* The step a worker is at: the first without a result.
At(w, k) == wk[w].got[k] = "none" /\ \A j \in StepNo : j < k => wk[w].got[j] # "none"
AllRun(w) == \A k \in StepNo : wk[w].got[k] # "none"
Blocked(w, k) == k > 1 /\ wk[w].got[k - 1] # "COMPLETED"

OwnsRun(w) == LET r == wk[w].r IN run[r].status = "RUNNING" /\ run[r].owner = Me(w)
OwnsStep(w, k) == LET s == step[wk[w].r][k] IN s.status = "RUNNING" /\ s.owner = Me(w)

\* Mutant of FinalTry: a try too late.
FinalTryLate(w) == wk[w].made >= JobAttempts

\* willRetry goes by attemptsMade, the tries before this one.
FinalTry(w) == wk[w].made + 1 >= JobAttempts

-----------------------------------------------------------------------------
(* The run.                                                                *)

\* BullMQ hands out the job; the worker reads the run and its flow.
TakeJob(w, r) ==
  /\ wk[w].pc = "idle" /\ job[r].state = "waiting"
  /\ job' = [job EXCEPT ![r].state = "active", ![r].holder = w]
  /\ wk' = [wk EXCEPT ![w] = [IdleWorker EXCEPT !.pc = "claim", !.r = r,
                                !.made = job[r].made, !.seen = flow.slot]]
  /\ UNCHANGED <<flow, run, step, faults, edits, host, born, dead>>

\* Mutant of Claimable: a running run is claimed although its lease is live.
ClaimableAnyway(r) == run[r].status \in Active

Claimable(r) == \/ run[r].status = "PENDING"
                \/ run[r].status = "RUNNING" /\ ~run[r].live

Loaded(r) == [k \in StepNo |-> IF step[r][k].status \in {"COMPLETED", "BLOCKED"}
                                 THEN step[r][k].status ELSE "none"]

\* claimRun and loadTerminalSteps.  A run that is not claimable ends the job.
ClaimRun(w) ==
  LET r == wk[w].r IN
  /\ wk[w].pc = "claim"
  /\ IF Claimable(r)
       THEN /\ run' = [run EXCEPT ![r].status = "RUNNING", ![r].owner = Me(w), ![r].live = TRUE]
            /\ wk' = [wk EXCEPT ![w].pc = "step", ![w].got = Loaded(r)]
       ELSE End(w, "completed") /\ UNCHANGED run
  /\ UNCHANGED <<flow, step, job, faults, edits, host, born, dead>>

\* finishRun; it throws if the lease changed.
FinishRun(w) ==
  LET r == wk[w].r
      status == IF \A k \in StepNo : wk[w].got[k] = "COMPLETED" THEN "COMPLETED" ELSE "PARTIAL"
  IN
  /\ wk[w].pc = "step" /\ AllRun(w)
  /\ IF OwnsRun(w)
       THEN /\ run' = [run EXCEPT ![r].status = status, ![r].owner = Nobody, ![r].live = FALSE]
            /\ Leave(w, "success")
       ELSE Leave(w, "release") /\ UNCHANGED run
  /\ UNCHANGED <<flow, step, job, faults, edits, host, born, dead>>

\* applySuccessfulRunState.
Succeed(w) ==
  /\ wk[w].pc = "success"
  /\ flow' = IF flow.kind = "oneShot" THEN [NoTime EXCEPT !.status = "PAUSED"] ELSE flow
  /\ End(w, "completed")
  /\ UNCHANGED <<run, step, job, faults, edits, host, born, dead>>

\* releaseRun, in the catch block.
Release(w) ==
  LET r == wk[w].r IN
  /\ wk[w].pc = "release"
  /\ run' = IF run[r].owner = Me(w)
              THEN [run EXCEPT ![r].status = IF FinalTry(w) THEN "FAILED" ELSE "PENDING",
                               ![r].owner = Nobody, ![r].live = FALSE]
              ELSE run
  /\ IF FinalTry(w) THEN Goto(w, "failure") ELSE End(w, "failed")
  /\ UNCHANGED <<flow, step, job, faults, edits, host, born, dead>>

\* applyFinalFailureState.  The store operator goes on after a backoff, or at
\* the time the worker read, if that is later.
Fail(w) ==
  LET seen == wk[w].seen
      ahead == seen # 0 /\ ~Known(<<"schedule", seen>>) /\ ~(seen = flow.slot /\ flow.due)
  IN
  /\ wk[w].pc = "failure" /\ End(w, "failed")
  /\ \/ flow.kind = "oneShot" /\ flow' = [NoTime EXCEPT !.status = "ERROR"]
     \/ flow.kind = "recurring" /\ UNCHANGED flow
     \/ /\ flow.kind = "recurring"     \* and operates the store
        /\ \/ /\ flow.last < MaxSlots
              /\ flow' = [flow EXCEPT !.status = "ACTIVE", !.slot = flow.last + 1,
                                      !.last = flow.last + 1, !.due = FALSE]
           \/ ahead /\ flow' = [flow EXCEPT !.status = "ACTIVE", !.slot = seen, !.due = FALSE]
  /\ UNCHANGED <<run, step, job, faults, edits, host, born, dead>>

-----------------------------------------------------------------------------
(* Its steps.                                                              *)

StepClaimable(s) == \/ s.status \in {"none", "FAILED"}
                    \/ s.status = "RUNNING" /\ ~s.live

\* claimStep; "is already claimed" is thrown.
ClaimStep(w, k) ==
  LET r == wk[w].r IN
  /\ wk[w].pc = "step" /\ At(w, k)
  /\ IF StepClaimable(step[r][k])
       THEN /\ step' = [step EXCEPT ![r][k] = [status |-> "RUNNING", owner |-> Me(w),
                                               live |-> TRUE]]
            /\ Goto(w, "exec")
       ELSE Leave(w, "release") /\ UNCHANGED step
  /\ UNCHANGED <<flow, run, job, faults, edits, host, born, dead>>

\* Mutant of FinishStep: a step does not wait for the one before.
FinishStepUnblocked(w, k) ==
  LET r == wk[w].r IN
  /\ wk[w].pc = "exec" /\ At(w, k)
  /\ \E result \in {"COMPLETED", "BLOCKED"} :
       IF OwnsStep(w, k)
         THEN /\ step' = [step EXCEPT ![r][k] = [NoStep EXCEPT !.status = result]]
              /\ wk' = [wk EXCEPT ![w].pc = "step", ![w].got[k] = result]
         ELSE Goto(w, "fail") /\ UNCHANGED step
  /\ UNCHANGED <<flow, run, job, faults, edits, host, born, dead>>

\* executeStep, unless the step is blocked, and finishStep.
FinishStep(w, k) ==
  LET r == wk[w].r IN
  /\ wk[w].pc = "exec" /\ At(w, k)
  /\ \E result \in IF Blocked(w, k) THEN {"BLOCKED"} ELSE {"COMPLETED", "BLOCKED"} :
       IF OwnsStep(w, k)
         THEN /\ step' = [step EXCEPT ![r][k] = [NoStep EXCEPT !.status = result]]
              /\ wk' = [wk EXCEPT ![w].pc = "step", ![w].got[k] = result]
         ELSE Goto(w, "fail") /\ UNCHANGED step
  /\ UNCHANGED <<flow, run, job, faults, edits, host, born, dead>>

StepThrows(w, k) ==
  /\ wk[w].pc = "exec" /\ At(w, k) /\ ~Blocked(w, k)
  /\ Goto(w, "fail")
  /\ UNCHANGED <<storeVars, dead>>

FailStep(w, k) ==
  /\ wk[w].pc = "fail" /\ At(w, k)
  /\ step' = IF OwnsStep(w, k)
               THEN [step EXCEPT ![wk[w].r][k] = [NoStep EXCEPT !.status = "FAILED"]]
               ELSE step
  /\ Leave(w, "release")
  /\ UNCHANGED <<flow, run, job, faults, edits, host, born, dead>>

-----------------------------------------------------------------------------
(* The job.                                                                *)

Holds(w) == job[wk[w].r].state = "active" /\ job[wk[w].r].holder = w

\* A failed job is tried again or, at last, becomes a dead letter (onFailed).
Settle(w) ==
  LET r == wk[w].r  made == job[r].made + 1 IN
  /\ wk[w].pc = "settle" /\ wk' = [wk EXCEPT ![w] = IdleWorker]
  /\ \/ ~Holds(w) /\ UNCHANGED <<job, dead, faults>>              \* the lock is lost
     \/ /\ Holds(w) /\ wk[w].out = "completed"
        /\ job' = [job EXCEPT ![r].state = "completed", ![r].holder = NoOne]
        /\ UNCHANGED <<dead, faults>>
     \/ /\ Holds(w) /\ wk[w].out = "failed" /\ made < JobAttempts
        /\ job' = [job EXCEPT ![r].state = "waiting", ![r].made = made, ![r].holder = NoOne]
        /\ UNCHANGED <<dead, faults>>
     \/ /\ Holds(w) /\ wk[w].out = "failed" /\ made >= JobAttempts
        /\ job' = [job EXCEPT ![r].state = "failed", ![r].made = made, ![r].holder = NoOne]
        /\ \/ dead' = dead \cup {r} /\ UNCHANGED faults
           \/ (Suffer("redis") \/ Suffer("database")) /\ UNCHANGED dead
  /\ UNCHANGED <<flow, run, step, edits, host, born>>

\* A transaction fails, or the progress of the job cannot be stored.
StatementFails(w) ==
  /\ \/ /\ wk[w].pc \in {"claim", "release", "failure"} /\ Suffer("database")
        /\ End(w, "failed")
     \/ wk[w].pc \in {"fail", "success"} /\ Suffer("database") /\ Leave(w, "release")
     \/ /\ wk[w].pc = "step" /\ Leave(w, "release")
        /\ Suffer("database") \/ Suffer("redis")
     \/ wk[w].pc = "exec" /\ Suffer("database") /\ Goto(w, "fail")
  /\ UNCHANGED <<flow, run, step, job, edits, host, born, dead>>

WorkerDies(p) ==
  /\ Suffer("crash") /\ born' = [born EXCEPT ![p] = @ + 1]
  /\ wk' = [w \in Workers |-> IF host[w] = p THEN IdleWorker ELSE wk[w]]
  /\ UNCHANGED <<flow, run, step, job, edits, host, dead>>

Working(w, r) == wk[w].pc # "idle" /\ wk[w].r = r

\* Mutant of StallJob: a stall counts as a try.
StallCounts(r) ==
  LET w == job[r].holder IN
  /\ job[r].state = "active"
  /\ IF Working(w, r) THEN Suffer("stall") ELSE UNCHANGED faults
  /\ job' = [job EXCEPT ![r].state = "waiting", ![r].holder = NoOne, ![r].made = @ + 1]
  /\ UNCHANGED <<flow, run, step, edits, host, born, wk, dead>>

\* An active job without a live lock goes back to the queue: its worker is
\* dead, or its event loop stalls.  "job stalled more than allowable limit"
\* ends it: the count is left out, and any stall may be one too many.
StallJob(r) ==
  LET w == job[r].holder IN
  /\ job[r].state = "active"
  /\ IF Working(w, r) THEN Suffer("stall") ELSE UNCHANGED faults
  /\ \E state \in {"waiting", "failed"} :
       job' = [job EXCEPT ![r].state = state, ![r].holder = NoOne]
  /\ UNCHANGED <<flow, run, step, edits, host, born, wk, dead>>

Overrun == ("overrun" \in faults /\ UNCHANGED faults) \/ Suffer("overrun")

\* Ten minutes since claimRun or claimStep, which nothing renews.
ExpireRun(r) ==
  /\ run[r].live
  /\ IF \E w \in Workers : Working(w, r) /\ OwnsRun(w) THEN Overrun
                                                       ELSE UNCHANGED faults
  /\ run' = [run EXCEPT ![r].live = FALSE]
  /\ UNCHANGED <<flow, step, job, edits, host, born, wk, dead>>

ExpireStep(r, k) ==
  /\ step[r][k].live
  /\ IF \E w \in Workers : Working(w, r) /\ OwnsStep(w, k) THEN Overrun
                                                           ELSE UNCHANGED faults
  /\ step' = [step EXCEPT ![r][k].live = FALSE]
  /\ UNCHANGED <<flow, run, job, edits, host, born, wk, dead>>

WorkerNext ==
  \/ \E w \in Workers :
       \/ ClaimRun(w) \/ FinishRun(w) \/ Succeed(w) \/ Release(w) \/ Fail(w)
       \/ Settle(w) \/ StatementFails(w)
       \/ \E k \in StepNo : \/ ClaimStep(w, k) \/ FinishStep(w, k)
                            \/ StepThrows(w, k) \/ FailStep(w, k)
       \/ \E r \in Runs : TakeJob(w, r)
  \/ \E p \in Processes : WorkerDies(p)
  \/ \E r \in Runs : \/ StallJob(r) \/ ExpireRun(r)
                     \/ \E k \in StepNo : ExpireStep(r, k)
=============================================================================
