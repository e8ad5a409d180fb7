------------------------- MODULE AutomationsProofs -------------------------
(***************************************************************************)
(* Proofs about Automations, for any number of runs, steps, workers,       *)
(* processes, replicas, requests, tries and faults.                        *)
(*                                                                         *)
(* A step of the engine changes one run, one step of a run and one job at  *)
(* most.  RunMoves, StepMoves and JobMoves say how; what is shown of the   *)
(* rows rests on them.                                                     *)
(***************************************************************************)
EXTENDS Automations, TLAPS

USE AutomationAssumption

-----------------------------------------------------------------------------
(* The inductive invariant.                                                *)

\* Whoever works has a run.
Placed == \A w \in Workers : wk[w].pc # "idle" => wk[w].r \in Runs

\* Whoever adds a job, or gives up, has created a run.
Creators ==
  \A c \in Clients : client[c].pc \in {"add", "mark"} =>
    client[c].r \in Runs /\ run[client[c].r].status # "none"

\* One client adds the job of a run, which has none before.
Adders ==
  /\ \A c \in Clients : client[c].pc = "add" => job[client[c].r].state = "absent"
  /\ \A c, d \in Clients :
       client[c].pc = "add" /\ client[d].pc = "add" /\ client[c].r = client[d].r => c = d

\* Only a job that failed has used up its tries.
Jobs ==
  \A r \in Runs : /\ run[r].status = "none" => job[r].state = "absent"
                  /\ job[r].state = "absent" => job[r].made = 0
                  /\ job[r].made = JobAttempts => job[r].state = "failed"

\* Owners and leases belong to what is running.
Leases ==
  /\ \A r \in Runs : run[r].owner # Nobody \/ run[r].live => run[r].status = "RUNNING"
  /\ \A r \in Runs, k \in StepNo : step[r][k].live => step[r][k].status = "RUNNING"

\* What is recovered from, or about to be, has failed.
Recoveries ==
  /\ RecoversFailed
  /\ \A c \in Clients : client[c].parent # 0 => run[client[c].parent].status = "FAILED"

IInv == TypeOK /\ Placed /\ Creators /\ Adders /\ Jobs /\ Leases /\ Recoveries

LEMMA InitIInv == Init => IInv
<1> SUFFICES ASSUME Init PROVE IInv
  OBVIOUS
<1> USE DEF Init, StoreInit, TriggersInit, WorkerInit
<1>1. NoRow \in Row /\ NoStep \in StepRow /\ NoJob \in Job
  BY DEF NoRow, Row, NoKey, Key, Slots, Nobody, Owner, Active, Ended, NoStep, StepRow, NoJob, Job
<1>2. IdleClient \in Client /\ IdleWorker \in Worker
  BY DEF IdleClient, Client, NoKey, Key, Slots, IdleWorker, Worker
<1>3. StoreTypeOK
  BY <1>1 DEF StoreTypeOK
<1>4. TriggersTypeOK /\ WorkerTypeOK
  BY <1>2 DEF TriggersTypeOK, WorkerTypeOK
<1>5. Placed /\ Creators /\ Adders /\ Recoveries
  BY DEF Placed, Creators, Adders, Recoveries, RecoversFailed, IdleWorker, IdleClient, NoRow
<1>6. Jobs /\ Leases
  BY DEF Jobs, Leases, NoJob, NoRow, NoStep
<1> QED
  BY <1>3, <1>4, <1>5, <1>6 DEF IInv, TypeOK

-----------------------------------------------------------------------------
(* What a step does to the rows.                                           *)

\* A run that ended stays as it ended; a run that recovers names a failed one.
RunMoves ==
  \/ run' = run
  \/ \E r \in Runs, v \in Row :
       /\ run' = [run EXCEPT ![r] = v]
       /\ v.status # "none"
       /\ v.owner # Nobody \/ v.live => v.status = "RUNNING"
       /\ run[r].status \in Ended => v.status = run[r].status
       /\ v.parent # 0 => run[v.parent].status = "FAILED"

StepMoves ==
  \/ step' = step
  \/ \E r \in Runs, k \in StepNo, v \in StepRow :
       /\ step' = [step EXCEPT ![r][k] = v]
       /\ v.live => v.status = "RUNNING"
       /\ step[r][k].status \in {"COMPLETED", "BLOCKED"} => v = step[r][k]

\* Only AddJob makes a job.
JobMoves ==
  \/ job' = job
  \/ \E r \in Runs, v \in Job :
       /\ job' = [job EXCEPT ![r] = v]
       /\ job[r].state # "absent" /\ v.state # "absent"
       /\ v.made = JobAttempts => v.state = "failed"

LEMMA MeOwner ==
  ASSUME StoreTypeOK, NEW w \in Workers PROVE Me(w) \in Owner /\ Me(w) # Nobody
BY DEF StoreTypeOK, Me, Owner, Nobody

LEMMA RunWrite ==
  ASSUME NEW r \in Runs, NEW v \in Row, run' = [run EXCEPT ![r] = v],
         v.status # "none", v.owner # Nobody \/ v.live => v.status = "RUNNING",
         run[r].status \in Ended => v.status = run[r].status,
         v.parent # 0 => run[v.parent].status = "FAILED"
  PROVE  RunMoves
BY DEF RunMoves

LEMMA StepWrite ==
  ASSUME NEW r \in Runs, NEW k \in StepNo, NEW v \in StepRow,
         step' = [step EXCEPT ![r][k] = v], v.live => v.status = "RUNNING",
         step[r][k].status \in {"COMPLETED", "BLOCKED"} => v = step[r][k]
  PROVE  StepMoves
BY DEF StepMoves

LEMMA JobWrite ==
  ASSUME NEW r \in Runs, NEW v \in Job, job' = [job EXCEPT ![r] = v],
         job[r].state # "absent", v.state # "absent",
         v.made = JobAttempts => v.state = "failed"
  PROVE  JobMoves
BY DEF JobMoves

LEMMA InsertMoves ==
  ASSUME NEW r \in Runs, NEW key \in Key, NEW parent \in 0..MaxRuns,
         parent # 0 => run[parent].status = "FAILED", Insert(r, key, parent)
  PROVE  RunMoves
<1> DEFINE v == [NoRow EXCEPT !.status = "PENDING", !.key = key, !.parent = parent]
<1>1. v \in Row /\ v.status = "PENDING" /\ v.owner = Nobody /\ ~v.live
      /\ v.parent = parent
  BY DEF NoRow, Row, Nobody, Owner, Active
<1>2. run[r].status = "none" /\ run' = [run EXCEPT ![r] = v]
  BY DEF Insert
<1> HIDE DEF v
<1> QED
  BY <1>1, <1>2, RunWrite DEF Ended

LEMMA RunNext == ASSUME IInv, Next PROVE RunMoves
<1> USE DEF IInv, TypeOK
<1>0. /\ run \in [Runs -> Row] /\ \A q \in Runs : run[q] \in Row
      /\ \A q \in Runs : run[q].owner # Nobody \/ run[q].live => run[q].status = "RUNNING"
      /\ \A q \in Runs : run[q].parent # 0 => run[run[q].parent].status = "FAILED"
  BY DEF StoreTypeOK, Leases, Recoveries, RecoversFailed
<1>1. ASSUME NEW s \in Clients, CreateScheduled(s) PROVE RunMoves
  BY <1>1, InsertMoves, client[s].key \in Key, 0 \in 0..MaxRuns
     DEF CreateScheduled, RunMoves, TriggersTypeOK, Client
<1>2. ASSUME NEW u \in Clients, NEW k \in Keys, Trigger(u, k) PROVE RunMoves
  BY <1>2, InsertMoves, <<"user", k>> \in Key, 0 \in 0..MaxRuns DEF Trigger, Key
<1>3. ASSUME NEW u \in Clients, CreateRecovery(u) PROVE RunMoves
  BY <1>3, InsertMoves, client[u].key \in Key, client[u].parent \in 0..MaxRuns
     DEF CreateRecovery, RunMoves, TriggersTypeOK, Client, Recoveries
<1>4. ASSUME NEW c \in Clients, MarkFailed(c) PROVE RunMoves
  <2> DEFINE r == client[c].r
             v == [run[r] EXCEPT !.status = "FAILED"]
  <2>1. r \in Runs
    BY <1>4 DEF MarkFailed, Creators
  <2>2. CASE run[r].status = "PENDING" /\ run' = [run EXCEPT ![r].status = "FAILED"]
    <3>1. /\ v \in Row /\ v.status = "FAILED" /\ v.owner = run[r].owner
          /\ v.live = run[r].live /\ v.parent = run[r].parent /\ run' = [run EXCEPT ![r] = v]
      BY <2>1, <2>2, <1>0 DEF Row, Ended
    <3>2. run[r].status \notin Ended
      BY <2>2 DEF Ended
    <3> HIDE DEF v, r
    <3> QED
      BY <2>1, <2>2, <3>1, <3>2, <1>0, RunWrite
  <2> QED
    BY <1>4, <2>2 DEF MarkFailed, RunMoves
<1>5. ASSUME NEW w \in Workers, ClaimRun(w) PROVE RunMoves
  <2> DEFINE r == wk[w].r
             v == [run[r] EXCEPT !.status = "RUNNING", !.owner = Me(w), !.live = TRUE]
  <2>1. r \in Runs
    BY <1>5 DEF ClaimRun, Placed
  <2>2. CASE Claimable(r) /\ run' = [run EXCEPT ![r].status = "RUNNING",
                                       ![r].owner = Me(w), ![r].live = TRUE]
    <3>1. /\ v \in Row /\ v.status = "RUNNING" /\ v.parent = run[r].parent
          /\ run' = [run EXCEPT ![r] = v]
      <4>1. run[r] \in Row /\ Me(w) \in Owner
        BY <2>1, <1>0, MeOwner
      <4>2. v \in Row /\ v.status = "RUNNING" /\ v.parent = run[r].parent
        BY <4>1 DEF Row, Active
      <4>3. run' = [run EXCEPT ![r] = v]
        BY <2>1, <2>2, <1>0
      <4> QED
        BY <4>2, <4>3
    <3>2. run[r].status \notin Ended
      BY <2>2 DEF Claimable, Ended
    <3> HIDE DEF v, r
    <3> QED
      BY <2>1, <3>1, <3>2, <1>0, RunWrite
  <2> QED
    BY <1>5, <2>2 DEF ClaimRun, RunMoves
<1>6. ASSUME NEW w \in Workers, FinishRun(w) PROVE RunMoves
  <2> DEFINE r == wk[w].r
             status == IF \A k \in StepNo : wk[w].got[k] = "COMPLETED"
                         THEN "COMPLETED" ELSE "PARTIAL"
             v == [run[r] EXCEPT !.status = status, !.owner = Nobody, !.live = FALSE]
  <2>1. r \in Runs
    BY <1>6 DEF FinishRun, Placed
  <2>2. CASE OwnsRun(w) /\ run' = [run EXCEPT ![r].status = status, ![r].owner = Nobody,
                                              ![r].live = FALSE]
    <3>1. status \in Ended /\ status # "none" /\ Nobody \in Owner
      BY DEF Ended, Owner, Nobody
    <3> HIDE DEF status
    <3>2. /\ v \in Row /\ v.status = status /\ v.owner = Nobody /\ ~v.live
          /\ v.parent = run[r].parent /\ run' = [run EXCEPT ![r] = v]
      <4>1. run[r] \in Row /\ status \in {"none"} \cup Active \cup Ended
        BY <2>1, <3>1, <1>0
      <4>2. /\ v \in Row /\ v.status = status /\ v.owner = Nobody /\ ~v.live
            /\ v.parent = run[r].parent
        BY <3>1, <4>1 DEF Row
      <4>3. run' = [run EXCEPT ![r] = v]
        BY <2>1, <2>2, <1>0
      <4> QED
        BY <4>2, <4>3
    <3>3. run[r].status \notin Ended
      BY <2>2 DEF OwnsRun, Ended
    <3> HIDE DEF v, r
    <3> QED
      BY <2>1, <3>1, <3>2, <3>3, <1>0, RunWrite
  <2> QED
    BY <1>6, <2>2 DEF FinishRun, RunMoves
<1>7. ASSUME NEW w \in Workers, Release(w) PROVE RunMoves
  <2> DEFINE r == wk[w].r
             status == IF FinalTry(w) THEN "FAILED" ELSE "PENDING"
             v == [run[r] EXCEPT !.status = status, !.owner = Nobody, !.live = FALSE]
  <2>1. r \in Runs
    BY <1>7 DEF Release, Placed
  <2>2. CASE run[r].owner = Me(w) /\ run' = [run EXCEPT ![r].status = status,
                                               ![r].owner = Nobody, ![r].live = FALSE]
    <3>1. status \in Ended \cup Active /\ status # "none" /\ Nobody \in Owner
      BY DEF Ended, Active, Owner, Nobody
    <3> HIDE DEF status
    <3>2. /\ v \in Row /\ v.status = status /\ v.owner = Nobody /\ ~v.live
          /\ v.parent = run[r].parent /\ run' = [run EXCEPT ![r] = v]
      <4>1. run[r] \in Row /\ status \in {"none"} \cup Active \cup Ended
        BY <2>1, <3>1, <1>0
      <4>2. /\ v \in Row /\ v.status = status /\ v.owner = Nobody /\ ~v.live
            /\ v.parent = run[r].parent
        BY <3>1, <4>1 DEF Row
      <4>3. run' = [run EXCEPT ![r] = v]
        BY <2>1, <2>2, <1>0
      <4> QED
        BY <4>2, <4>3
    <3>3. run[r].status \notin Ended
      BY <2>1, <2>2, <1>0, MeOwner DEF Ended
    <3> HIDE DEF v, r
    <3> QED
      BY <2>1, <3>1, <3>2, <3>3, <1>0, RunWrite
  <2> QED
    BY <1>7, <2>2 DEF Release, RunMoves
<1>8. ASSUME NEW r \in Runs, ExpireRun(r) PROVE RunMoves
  <2> DEFINE v == [run[r] EXCEPT !.live = FALSE]
  <2>1. /\ v \in Row /\ v.status = run[r].status /\ v.owner = run[r].owner /\ ~v.live
        /\ v.parent = run[r].parent /\ run' = [run EXCEPT ![r] = v]
    BY <1>8, <1>0 DEF ExpireRun, Row
  <2>2. run[r].status = "RUNNING"
    BY <1>8, <1>0 DEF ExpireRun
  <2> HIDE DEF v
  <2> QED
    BY <2>1, <2>2, <1>0, RunWrite
<1>9. ASSUME NEW c \in Clients, \/ ReadDue(c) \/ CheckDue(c) \/ AddJob(c) \/ ClientDies(c)
                              \/ \E k \in Keys, r \in Runs : CheckRecovery(c, k, r)
      PROVE  RunMoves
  BY <1>9 DEF ReadDue, CheckDue, AddJob, ClientDies, CheckRecovery, storeVars, RunMoves
<1>10. ASSUME \/ TimeComes \/ \E status \in {"ACTIVE", "PAUSED", "ERROR"} : SetStatus(status)
              \/ \E slot \in Slots \ {0} : SetTime(slot)
       PROVE  RunMoves
  BY <1>10 DEF TimeComes, SetStatus, SetTime, RunMoves
<1>11. ASSUME NEW w \in Workers, \/ Succeed(w) \/ Fail(w) \/ Settle(w) \/ StatementFails(w)
                                \/ \E r \in Runs : TakeJob(w, r)
       PROVE  RunMoves
  BY <1>11 DEF Succeed, Fail, Settle, StatementFails, TakeJob, RunMoves
<1>12. ASSUME NEW w \in Workers, NEW k \in StepNo,
              ClaimStep(w, k) \/ FinishStep(w, k) \/ StepThrows(w, k) \/ FailStep(w, k)
       PROVE  RunMoves
  BY <1>12 DEF ClaimStep, FinishStep, StepThrows, FailStep, storeVars, RunMoves
<1>13. ASSUME \/ \E p \in Processes : WorkerDies(p)
              \/ \E r \in Runs : StallJob(r) \/ \E k \in StepNo : ExpireStep(r, k)
       PROVE  RunMoves
  BY <1>13 DEF WorkerDies, StallJob, ExpireStep, RunMoves
<1> QED
  BY <1>1, <1>2, <1>3, <1>4, <1>5, <1>6, <1>7, <1>8, <1>9, <1>10, <1>11, <1>12, <1>13
     DEF Next, TriggersNext, WorkerNext, Clients

LEMMA StepNext == ASSUME IInv, Next PROVE StepMoves
<1> USE DEF IInv, TypeOK
<1>0. /\ step \in [Runs -> [StepNo -> StepRow]]
      /\ \A q \in Runs, k \in StepNo : /\ step[q][k] \in StepRow
                                     /\ step[q][k].live => step[q][k].status = "RUNNING"
  BY DEF StoreTypeOK, Leases
<1>1. \A w \in Workers : wk[w].pc # "idle" => wk[w].r \in Runs
  BY DEF Placed
<1>2. \A result \in {"COMPLETED", "BLOCKED", "FAILED"} :
        LET v == [NoStep EXCEPT !.status = result]
        IN v \in StepRow /\ v.status = result /\ ~v.live
  BY DEF NoStep, StepRow, Owner, Nobody
<1>3. ASSUME NEW w \in Workers, NEW k \in StepNo, ClaimStep(w, k) PROVE StepMoves
  <2> DEFINE r == wk[w].r
             v == [status |-> "RUNNING", owner |-> Me(w), live |-> TRUE]
  <2>1. v \in StepRow /\ v.status = "RUNNING" /\ r \in Runs
    BY <1>1, <1>3, MeOwner DEF StepRow, ClaimStep
  <2>2. StepClaimable(step[r][k]) => step[r][k].status \notin {"COMPLETED", "BLOCKED"}
    BY DEF StepClaimable
  <2>3. CASE ~StepClaimable(step[r][k])
    BY <1>3, <2>3 DEF ClaimStep, StepMoves
  <2>4. CASE StepClaimable(step[r][k])
    <3>1. step' = [step EXCEPT ![r][k] = v]
      BY <1>3, <2>4 DEF ClaimStep
    <3> HIDE DEF v, r
    <3> QED
      BY <2>1, <2>2, <2>4, <3>1, StepWrite
  <2> QED
    BY <2>3, <2>4
<1>4. ASSUME NEW w \in Workers, NEW k \in StepNo, FinishStep(w, k) \/ FailStep(w, k)
      PROVE  StepMoves
  <2>1. wk[w].r \in Runs
    BY <1>1, <1>4 DEF FinishStep, FailStep
  <2>2. \/ step' = step
        \/ \E result \in {"COMPLETED", "BLOCKED", "FAILED"} :
             /\ OwnsStep(w, k)
             /\ step' = [step EXCEPT ![wk[w].r][k] = [NoStep EXCEPT !.status = result]]
    BY <1>4 DEF FinishStep, FailStep
  <2>3. OwnsStep(w, k) => step[wk[w].r][k].status \notin {"COMPLETED", "BLOCKED"}
    BY DEF OwnsStep
  <2> QED
    BY <1>2, <2>1, <2>2, <2>3, StepWrite DEF StepMoves
<1>5. ASSUME NEW r \in Runs, NEW k \in StepNo, ExpireStep(r, k) PROVE StepMoves
  <2> DEFINE v == [step[r][k] EXCEPT !.live = FALSE]
  <2>1. step[r][k] \in StepRow
    BY <1>0
  <2>2. v \in StepRow /\ ~v.live
    BY <2>1 DEF StepRow
  <2>3. step' = [step EXCEPT ![r][k] = v]
    BY <1>5 DEF ExpireStep
  <2>4. step[r][k].status = "RUNNING"
    BY <1>0, <1>5 DEF ExpireStep
  <2> HIDE DEF v
  <2> QED
    BY <2>2, <2>3, <2>4, StepWrite
<1>6. ASSUME TriggersNext PROVE StepMoves
  BY <1>6 DEF TriggersNext, TimeComes, ReadDue, CheckDue, CreateScheduled, CreateRecovery,
              Trigger, CheckRecovery, AddJob, MarkFailed, ClientDies, SetStatus, SetTime,
              storeVars, StepMoves
<1>7. ASSUME NEW w \in Workers,
             \/ ClaimRun(w) \/ FinishRun(w) \/ Succeed(w) \/ Release(w) \/ Fail(w)
             \/ Settle(w) \/ StatementFails(w) \/ \E r \in Runs : TakeJob(w, r)
             \/ \E k \in StepNo : StepThrows(w, k)
      PROVE  StepMoves
  BY <1>7 DEF ClaimRun, FinishRun, Succeed, Release, Fail, Settle, StatementFails, TakeJob,
              StepThrows, storeVars, StepMoves
<1>8. ASSUME (\E p \in Processes : WorkerDies(p)) \/ \E r \in Runs : StallJob(r) \/ ExpireRun(r)
      PROVE  StepMoves
  BY <1>8 DEF WorkerDies, StallJob, ExpireRun, StepMoves
<1> QED
  BY <1>3, <1>4, <1>5, <1>6, <1>7, <1>8 DEF Next, WorkerNext
LEMMA JobNext == ASSUME IInv, Next PROVE JobMoves \/ \E c \in Clients : AddJob(c)
<1> USE DEF IInv, TypeOK
<1>0. /\ job \in [Runs -> Job] /\ \A q \in Runs : job[q] \in Job
      /\ \A q \in Runs : /\ job[q].state = "absent" => job[q].made = 0
                        /\ job[q].made = JobAttempts => job[q].state = "failed"
  BY DEF StoreTypeOK, Jobs
<1>1. \A w \in Workers : wk[w].pc # "idle" => wk[w].r \in Runs
  BY DEF Placed
<1>2. ASSUME NEW w \in Workers, NEW r \in Runs, TakeJob(w, r) PROVE JobMoves
  <2> DEFINE v == [job[r] EXCEPT !.state = "active", !.holder = w]
  <2>1. /\ v \in Job /\ v.state = "active" /\ v.made = job[r].made
        /\ job' = [job EXCEPT ![r] = v] /\ job[r].state = "waiting"
    BY <1>0, <1>2 DEF TakeJob, Job
  <2> HIDE DEF v
  <2> QED
    BY <1>0, <2>1, JobWrite
<1>3. ASSUME NEW w \in Workers, Settle(w) PROVE JobMoves
  <2> DEFINE r == wk[w].r
             made == job[r].made + 1
  <2>1. r \in Runs
    BY <1>1, <1>3 DEF Settle
  <2>2. CASE job' = job
    BY <2>2 DEF JobMoves
  <2>3. CASE job' # job
    <3>1. job[r].state = "active"
      BY <1>3, <2>3 DEF Settle, Holds
    <3>2. job[r].made < JobAttempts /\ job[r].made \in Nat /\ job[r] \in Job
      BY <1>0, <2>1, <3>1 DEF Job
    <3>3. CASE job' = [job EXCEPT ![r].state = "completed", ![r].holder = NoOne]
      <4> DEFINE v == [job[r] EXCEPT !.state = "completed", !.holder = NoOne]
      <4>1. /\ v \in Job /\ v.state = "completed" /\ v.made = job[r].made
            /\ job' = [job EXCEPT ![r] = v]
        BY <3>2, <3>3 DEF Job
      <4>2. v.made # JobAttempts
        BY <3>2, <4>1
      <4> HIDE DEF v, r, made
      <4> QED
        BY <2>1, <3>1, <4>1, <4>2, JobWrite
    <3>4. CASE /\ made < JobAttempts
               /\ job' = [job EXCEPT ![r].state = "waiting", ![r].made = made,
                                     ![r].holder = NoOne]
      <4> DEFINE v == [job[r] EXCEPT !.state = "waiting", !.made = made, !.holder = NoOne]
      <4>1. made \in 0..JobAttempts
        BY <3>2, <3>4
      <4>2. /\ v \in Job /\ v.state = "waiting" /\ v.made = made
            /\ job' = [job EXCEPT ![r] = v]
        BY <3>2, <3>4, <4>1 DEF Job
      <4>3. v.made # JobAttempts
        BY <3>4, <4>1, <4>2
      <4> HIDE DEF v, r, made
      <4> QED
        BY <2>1, <3>1, <4>2, <4>3, JobWrite
    <3>5. CASE job' = [job EXCEPT ![r].state = "failed", ![r].made = made, ![r].holder = NoOne]
      <4> DEFINE v == [job[r] EXCEPT !.state = "failed", !.made = made, !.holder = NoOne]
      <4>1. made \in 0..JobAttempts
        BY <3>2
      <4>2. v \in Job /\ v.state = "failed" /\ job' = [job EXCEPT ![r] = v]
        BY <3>2, <3>5, <4>1 DEF Job
      <4> HIDE DEF v, r, made
      <4> QED
        BY <2>1, <3>1, <4>2, JobWrite
    <3> QED
      BY <1>3, <2>3, <3>3, <3>4, <3>5 DEF Settle
  <2> QED
    BY <2>2, <2>3
<1>4. ASSUME NEW r \in Runs, StallJob(r) PROVE JobMoves
  <2>1. PICK state \in {"waiting", "failed"} :
          job' = [job EXCEPT ![r].state = state, ![r].holder = NoOne]
    BY <1>4 DEF StallJob
  <2> DEFINE v == [job[r] EXCEPT !.state = state, !.holder = NoOne]
  <2>2. /\ v \in Job /\ v.state = state /\ v.made = job[r].made
        /\ job' = [job EXCEPT ![r] = v] /\ job[r].state = "active"
    BY <1>0, <1>4, <2>1 DEF StallJob, Job
  <2> HIDE DEF v
  <2> QED
    BY <1>0, <2>2, JobWrite
<1>5. ASSUME TriggersNext PROVE JobMoves \/ \E c \in Clients : AddJob(c)
  BY <1>5 DEF TriggersNext, TimeComes, ReadDue, CheckDue, CreateScheduled, CreateRecovery,
              Trigger, CheckRecovery, MarkFailed, ClientDies, SetStatus, SetTime,
              storeVars, JobMoves
<1>6. ASSUME NEW w \in Workers,
             \/ ClaimRun(w) \/ FinishRun(w) \/ Succeed(w) \/ Release(w) \/ Fail(w)
             \/ StatementFails(w)
             \/ \E k \in StepNo : \/ ClaimStep(w, k) \/ FinishStep(w, k)
                                   \/ StepThrows(w, k) \/ FailStep(w, k)
      PROVE  JobMoves
  BY <1>6 DEF ClaimRun, FinishRun, Succeed, Release, Fail, StatementFails, ClaimStep,
              FinishStep, StepThrows, FailStep, storeVars, JobMoves
<1>7. ASSUME \/ \E p \in Processes : WorkerDies(p)
             \/ \E r \in Runs : ExpireRun(r) \/ \E k \in StepNo : ExpireStep(r, k)
      PROVE  JobMoves
  BY <1>7 DEF WorkerDies, ExpireRun, ExpireStep, JobMoves
<1> QED
  BY <1>2, <1>3, <1>4, <1>5, <1>6, <1>7 DEF Next, WorkerNext

-----------------------------------------------------------------------------
(* The rows.                                                               *)

\* What others may rely on while the rows change.
Grows ==
  /\ \A r \in Runs : run[r].status # "none" => run'[r].status # "none"
  /\ \A r \in Runs : run[r].status \in Ended => run'[r].status = run[r].status

LEMMA RowsNext ==
  ASSUME IInv, RunMoves
  PROVE  /\ Grows /\ run' \in [Runs -> Row] /\ RecoversFailed'
         /\ \A r \in Runs :
              run'[r].owner # Nobody \/ run'[r].live => run'[r].status = "RUNNING"
<1> USE DEF IInv, TypeOK, StoreTypeOK, Leases, Recoveries, RecoversFailed
<1>1. CASE run' = run
  BY <1>1 DEF Grows
<1>2. ASSUME NEW r \in Runs, NEW v \in Row, run' = [run EXCEPT ![r] = v],
             v.status # "none", v.owner # Nobody \/ v.live => v.status = "RUNNING",
             run[r].status \in Ended => v.status = run[r].status,
             v.parent # 0 => run[v.parent].status = "FAILED"
      PROVE  /\ Grows /\ run' \in [Runs -> Row] /\ RecoversFailed'
             /\ \A q \in Runs :
                  run'[q].owner # Nobody \/ run'[q].live => run'[q].status = "RUNNING"
  <2>1. \A q \in Runs : run'[q] = IF q = r THEN v ELSE run[q]
    BY <1>2
  <2>2. Grows
    BY <1>2, <2>1 DEF Grows
  <2>3. \A q \in Runs : run'[q].parent # 0 => run[run'[q].parent].status = "FAILED"
    BY <1>2, <2>1
  <2>4. \A q \in Runs : run'[q].parent \in 0..MaxRuns
    BY <1>2, <2>1 DEF Row
  <2>5. RecoversFailed'
    BY <2>2, <2>3, <2>4 DEF Grows, Runs, Ended
  <2> QED
    BY <1>2, <2>1, <2>2, <2>5
<1> QED
  BY <1>1, <1>2 DEF RunMoves

LEMMA StepsNext ==
  ASSUME IInv, StepMoves
  PROVE  /\ step' \in [Runs -> [StepNo -> StepRow]]
         /\ \A r \in Runs, k \in StepNo : step'[r][k].live => step'[r][k].status = "RUNNING"
         /\ \A r \in Runs, k \in StepNo :
              step[r][k].status \in {"COMPLETED", "BLOCKED"} => step'[r][k] = step[r][k]
<1> USE DEF IInv, TypeOK, StoreTypeOK, Leases
<1>1. CASE step' = step
  BY <1>1
<1>2. ASSUME NEW r \in Runs, NEW k \in StepNo, NEW v \in StepRow,
             step' = [step EXCEPT ![r][k] = v], v.live => v.status = "RUNNING",
             step[r][k].status \in {"COMPLETED", "BLOCKED"} => v = step[r][k]
      PROVE  /\ step' \in [Runs -> [StepNo -> StepRow]]
             /\ \A q \in Runs, j \in StepNo :
                  /\ step'[q][j].live => step'[q][j].status = "RUNNING"
                  /\ step[q][j].status \in {"COMPLETED", "BLOCKED"} =>
                       step'[q][j] = step[q][j]
  <2>1. \A q \in Runs, j \in StepNo :
          step'[q][j] = IF q = r /\ j = k THEN v ELSE step[q][j]
    BY <1>2
  <2>2. step' \in [Runs -> [StepNo -> StepRow]]
    BY <1>2
  <2> QED
    BY <1>2, <2>1, <2>2
<1> QED
  BY <1>1, <1>2 DEF StepMoves
LEMMA JobsNext ==
  ASSUME IInv, Grows, JobMoves
  PROVE  /\ job' \in [Runs -> Job] /\ Jobs'
         /\ \A r \in Runs : job[r].state = "absent" => job'[r].state = "absent"
<1> USE DEF IInv, TypeOK, StoreTypeOK, Jobs, Grows
<1>1. CASE job' = job
  BY <1>1
<1>2. ASSUME NEW r \in Runs, NEW v \in Job, job' = [job EXCEPT ![r] = v],
             job[r].state # "absent", v.state # "absent",
             v.made = JobAttempts => v.state = "failed"
      PROVE  /\ job' \in [Runs -> Job] /\ Jobs'
             /\ \A q \in Runs : job[q].state = "absent" => job'[q].state = "absent"
  <2>1. \A q \in Runs : job'[q] = IF q = r THEN v ELSE job[q]
    BY <1>2
  <2>2. \A q \in Runs : run'[q].status = "none" => run[q].status = "none"
    OBVIOUS
  <2> QED
    BY <1>2, <2>1, <2>2
<1> QED
  BY <1>1, <1>2 DEF JobMoves

LEMMA AddJobJobs ==
  ASSUME IInv, Grows, NEW c \in Clients, AddJob(c)
  PROVE  /\ job' \in [Runs -> Job] /\ Jobs'
         /\ \A q \in Runs : q # client[c].r => job'[q] = job[q]
<1> DEFINE r == client[c].r
           v == [job[r] EXCEPT !.state = "waiting"]
<1> USE DEF IInv, TypeOK, StoreTypeOK, Jobs, Grows
<1>1. r \in Runs /\ run[r].status # "none" /\ job[r].state = "absent"
  BY DEF AddJob, Creators, Adders
<1>2. job[r] \in Job /\ job[r].made = 0
  BY <1>1
<1>3. v \in Job /\ v.state = "waiting" /\ v.made = 0
  BY <1>2 DEF Job
<1>4. job' = job \/ job' = [job EXCEPT ![r] = v]
  BY DEF AddJob
<1> HIDE DEF v
<1>5. CASE job' = job
  BY <1>5
<1>6. CASE job' = [job EXCEPT ![r] = v]
  <2>1. \A q \in Runs : job'[q] = IF q = r THEN v ELSE job[q]
    BY <1>6
  <2>2. \A q \in Runs : run'[q].status = "none" => run[q].status = "none"
    OBVIOUS
  <2> QED
    BY <1>1, <1>3, <1>6, <2>1, <2>2
<1> QED
  BY <1>4, <1>5, <1>6

-----------------------------------------------------------------------------
(* Schedulers and requests.                                                *)

ClientInv == /\ TriggersTypeOK /\ Creators /\ Adders
             /\ \A c \in Clients :
                  client[c].parent # 0 => run[client[c].parent].status = "FAILED"

LEMMA ClientWrite ==
  ASSUME IInv, Grows, NEW c \in Clients, NEW v \in Client, client' = [client EXCEPT ![c] = v],
         v.pc \in {"add", "mark"} => v.r \in Runs /\ run'[v.r].status # "none",
         v.pc = "add" => job'[v.r].state = "absent",
         v.parent # 0 => run'[v.parent].status = "FAILED",
         \A d \in Clients \ {c} : client[d].pc = "add" =>
           job'[client[d].r].state = "absent" /\ (v.pc = "add" => client[d].r # v.r)
  PROVE  ClientInv'
<1> USE DEF IInv, TypeOK, TriggersTypeOK
<1>1. \A d \in Clients : client'[d] = IF d = c THEN v ELSE client[d]
  OBVIOUS
<1>2. TriggersTypeOK' /\ \A d \in Clients : client[d].parent \in 0..MaxRuns
  BY DEF Client
<1>3. Creators'
  BY <1>1 DEF Creators, Grows
<1>4. Adders'
  BY <1>1 DEF Adders
<1>5. \A d \in Clients : client'[d].parent # 0 => run'[client'[d].parent].status = "FAILED"
  BY <1>1, <1>2 DEF Recoveries, Grows, Runs, Ended
<1> QED
  BY <1>2, <1>3, <1>4, <1>5 DEF ClientInv

\* The rows move, and c goes on without a new run.
LEMMA ClientGoesOn ==
  ASSUME IInv, Grows, NEW c \in Clients, NEW v \in Client, client' = [client EXCEPT ![c] = v],
         v.pc # "add", v.pc = "mark" => client[c].pc = "add" /\ v.r = client[c].r,
         v.parent # 0 => run[v.parent].status = "FAILED",
         \A r \in Runs : job[r].state = "absent" =>
           job'[r].state = "absent" \/ (client[c].pc = "add" /\ r = client[c].r)
  PROVE  ClientInv'
<1>1. v.parent # 0 => run'[v.parent].status = "FAILED"
  BY DEF Grows, Client, Runs, Ended
<1>2. v.pc = "mark" => v.r \in Runs /\ run'[v.r].status # "none"
  BY DEF IInv, Creators, Grows
<1>3. \A d \in Clients \ {c} : client[d].pc = "add" =>
        job'[client[d].r].state = "absent" /\ (v.pc = "add" => client[d].r # v.r)
  BY DEF IInv, Creators, Adders
<1>4. v.pc \in {"add", "mark"} => v.r \in Runs /\ run'[v.r].status # "none"
  BY <1>2
<1> QED
  BY <1>1, <1>3, <1>4, ClientWrite

LEMMA IdleClientOK == IdleClient \in Client /\ IdleClient.pc = "idle" /\ IdleClient.parent = 0
BY DEF IdleClient, Client, NoKey, Key, Slots

LEMMA StopOK ==
  ASSUME IInv, Grows, NEW c \in Clients, Stop(c),
         \A r \in Runs : job[r].state = "absent" =>
           job'[r].state = "absent" \/ (client[c].pc = "add" /\ r = client[c].r)
  PROVE  ClientInv'
BY IdleClientOK, ClientGoesOn DEF Stop

\* c created run r.
LEMMA CreatedOK ==
  ASSUME IInv, Grows, NEW c \in Clients, NEW r \in Runs, NEW v \in Client,
         client' = [client EXCEPT ![c] = v], v.pc = "add", v.r = r,
         v.parent # 0 => run[v.parent].status = "FAILED",
         run[r].status = "none", run'[r].status # "none", job' = job
  PROVE  ClientInv'
<1>1. job[r].state = "absent"
  BY DEF IInv, Jobs
<1>2. v.parent # 0 => run'[v.parent].status = "FAILED"
  BY DEF Grows, Client, Runs, Ended
<1>3. \A d \in Clients \ {c} : client[d].pc = "add" =>
        job'[client[d].r].state = "absent" /\ (v.pc = "add" => client[d].r # v.r)
  BY DEF IInv, Creators, Adders
<1>4. /\ v.pc \in {"add", "mark"} => v.r \in Runs /\ run'[v.r].status # "none"
      /\ v.pc = "add" => job'[v.r].state = "absent"
  BY <1>1
<1> QED
  BY <1>2, <1>3, <1>4, ClientWrite

LEMMA InsertCreates ==
  ASSUME IInv, NEW r \in Runs, NEW key, NEW parent, Insert(r, key, parent)
  PROVE  run[r].status = "none" /\ run'[r].status # "none"
BY DEF Insert, IInv, TypeOK, StoreTypeOK, NoRow

LEMMA ClientNext == ASSUME IInv, Next, Grows PROVE ClientInv'
<1> USE DEF IInv, TypeOK, TriggersTypeOK
<1>0. \A c \in Clients : /\ client[c] \in Client
                         /\ client[c].parent # 0 => run[client[c].parent].status = "FAILED"
  BY DEF Recoveries
<1>1. ASSUME client' = client, JobMoves PROVE ClientInv'
  <2>1. \A r \in Runs : job[r].state = "absent" => job'[r].state = "absent"
    BY <1>1, JobsNext
  <2>2. Creators'
    BY <1>1 DEF Creators, Grows
  <2>3. Adders'
    BY <1>1, <2>1 DEF Adders, Creators
  <2>4. \A c \in Clients : client[c].parent # 0 => run'[client[c].parent].status = "FAILED"
    BY <1>0 DEF Client, Grows, Runs, Ended
  <2> QED
    BY <1>1, <2>2, <2>3, <2>4 DEF ClientInv
<1>2. ASSUME NEW c \in Clients, AddJob(c) PROVE ClientInv'
  <2>1. \A r \in Runs : job[r].state = "absent" =>
          job'[r].state = "absent" \/ (client[c].pc = "add" /\ r = client[c].r)
    BY <1>2, AddJobJobs DEF AddJob
  <2>2. CASE Stop(c)
    BY <2>1, <2>2, StopOK
  <2>3. CASE GoTo(c, "mark")
    <3> DEFINE v == [client[c] EXCEPT !.pc = "mark"]
    <3>1. /\ v \in Client /\ v.pc = "mark" /\ v.r = client[c].r
          /\ v.parent = client[c].parent /\ client' = [client EXCEPT ![c] = v]
      BY <1>0, <2>3 DEF GoTo, Client
    <3> HIDE DEF v
    <3>2. client[c].pc = "add"
      BY <1>2 DEF AddJob
    <3> QED
      BY <1>0, <2>1, <3>1, <3>2, ClientGoesOn
  <2> QED
    BY <1>2, <2>2, <2>3 DEF AddJob
<1>3. ASSUME NEW c \in Clients, job' = job,
             \/ (CheckDue(c) /\ Stop(c)) \/ MarkFailed(c) \/ ClientDies(c)
             \/ (CreateScheduled(c) \/ CreateRecovery(c)) /\ Stop(c)
      PROVE  ClientInv'
  BY <1>3, StopOK DEF MarkFailed, ClientDies
<1>4. ASSUME NEW c \in Clients, job' = job, CheckDue(c), GoTo(c, "create") PROVE ClientInv'
  <2> DEFINE v == [client[c] EXCEPT !.pc = "create"]
  <2>1. /\ v \in Client /\ v.pc = "create" /\ v.parent = client[c].parent
        /\ client' = [client EXCEPT ![c] = v]
    BY <1>0, <1>4 DEF GoTo, Client
  <2> HIDE DEF v
  <2> QED
    BY <1>0, <1>4, <2>1, ClientGoesOn
<1>5. ASSUME NEW c \in Clients, job' = job, ReadDue(c) PROVE ClientInv'
  <2> DEFINE v == [IdleClient EXCEPT !.pc = "check", !.key = <<"schedule", flow.slot>>]
  <2>1. <<"schedule", flow.slot>> \in Key
    BY DEF Key, StoreTypeOK, Flow
  <2>2. /\ v \in Client /\ v.pc = "check" /\ v.parent = 0
        /\ client' = [client EXCEPT ![c] = v]
    BY <1>5, <2>1, IdleClientOK DEF ReadDue, Client
  <2> HIDE DEF v
  <2> QED
    BY <1>5, <2>2, ClientGoesOn
<1>6. ASSUME NEW c \in Clients, job' = job, NEW k \in Keys, NEW r \in Runs,
             CheckRecovery(c, k, r)
      PROVE  ClientInv'
  <2> DEFINE v == [IdleClient EXCEPT !.pc = "create", !.key = <<"user", k>>, !.parent = r]
  <2>1. <<"user", k>> \in Key /\ r \in 0..MaxRuns
    BY DEF Key, Runs
  <2>2. /\ v \in Client /\ v.pc = "create" /\ v.parent = r
        /\ client' = [client EXCEPT ![c] = v]
    BY <1>6, <2>1, IdleClientOK DEF CheckRecovery, Client
  <2>3. run[r].status = "FAILED"
    BY <1>6 DEF CheckRecovery
  <2> HIDE DEF v
  <2> QED
    BY <1>6, <2>2, <2>3, ClientGoesOn
<1>7. ASSUME NEW c \in Clients, job' = job, NEW r \in Runs, NEW key, NEW parent,
             Insert(r, key, parent), client' = [client EXCEPT ![c].pc = "add", ![c].r = r]
      PROVE  ClientInv'
  <2> DEFINE v == [client[c] EXCEPT !.pc = "add", !.r = r]
  <2>1. r \in 0..MaxRuns
    BY DEF Runs
  <2>2. /\ v \in Client /\ v.pc = "add" /\ v.r = r /\ v.parent = client[c].parent
        /\ client' = [client EXCEPT ![c] = v]
    BY <1>0, <1>7, <2>1 DEF Client
  <2>3. run[r].status = "none" /\ run'[r].status # "none"
    BY <1>7, InsertCreates
  <2>4. v.parent # 0 => run[v.parent].status = "FAILED"
    BY <1>0, <2>2
  <2>5. job' = job
    BY <1>7
  <2> HIDE DEF v
  <2> QED
    BY <2>2, <2>3, <2>4, <2>5, CreatedOK
<1>8. ASSUME NEW c \in Clients, job' = job, NEW k \in Keys, Trigger(c, k) PROVE ClientInv'
  <2>1. PICK r \in Runs :
          /\ Insert(r, <<"user", k>>, 0)
          /\ client' = [client EXCEPT ![c] = [pc |-> "add", key |-> <<"user", k>>,
                                              parent |-> 0, r |-> r]]
    BY <1>8 DEF Trigger
  <2> DEFINE v == [pc |-> "add", key |-> <<"user", k>>, parent |-> 0, r |-> r]
  <2>2. <<"user", k>> \in Key /\ r \in 0..MaxRuns
    BY DEF Key, Runs
  <2>3. /\ v \in Client /\ v.pc = "add" /\ v.r = r /\ v.parent = 0
        /\ client' = [client EXCEPT ![c] = v]
    BY <2>1, <2>2 DEF Client
  <2>4. run[r].status = "none" /\ run'[r].status # "none"
    BY <2>1, InsertCreates
  <2> HIDE DEF v
  <2> QED
    BY <1>8, <2>3, <2>4, CreatedOK
<1>9. ASSUME NEW c \in Clients, CreateScheduled(c) \/ CreateRecovery(c) PROVE ClientInv'
  <2>1. job' = job
    BY <1>9 DEF CreateScheduled, CreateRecovery
  <2>2. \/ Stop(c)
        \/ \E r \in Runs, key \in Key, parent \in 0..MaxRuns :
             Insert(r, key, parent) /\ client' = [client EXCEPT ![c].pc = "add", ![c].r = r]
    BY <1>0, <1>9, 0 \in 0..MaxRuns DEF CreateScheduled, CreateRecovery, Client
  <2> QED
    BY <1>3, <1>7, <1>9, <2>1, <2>2
<1>10. ASSUME NEW c \in Clients, \/ ReadDue(c) \/ CheckDue(c) \/ MarkFailed(c) \/ ClientDies(c)
                               \/ \E k \in Keys : \/ Trigger(c, k)
                                                 \/ \E r \in Runs : CheckRecovery(c, k, r)
       PROVE  ClientInv'
  <2>1. job' = job
    BY <1>10 DEF ReadDue, CheckDue, MarkFailed, ClientDies, Trigger, CheckRecovery, storeVars
  <2>2. CheckDue(c) => Stop(c) \/ GoTo(c, "create")
    BY DEF CheckDue
  <2> QED
    BY <1>3, <1>4, <1>5, <1>6, <1>8, <1>10, <2>1, <2>2
<1>11. ASSUME \/ (WorkerNext /\ UNCHANGED client) \/ TimeComes
              \/ \E status \in {"ACTIVE", "PAUSED", "ERROR"} : SetStatus(status)
              \/ \E slot \in Slots \ {0} : SetTime(slot)
       PROVE  ClientInv'
  <2>1. client' = client
    BY <1>11 DEF TimeComes, SetStatus, SetTime
  <2>2. ~ \E c \in Clients : AddJob(c)
    <3> SUFFICES ASSUME NEW c \in Clients, AddJob(c) PROVE FALSE
      OBVIOUS
    <3>1. client[c].pc = "add" /\ (Stop(c) \/ GoTo(c, "mark"))
      BY DEF AddJob
    <3>2. client'[c].pc # "add"
      BY <1>0, <3>1, IdleClientOK DEF Stop, GoTo, Client
    <3> QED
      BY <2>1, <3>1, <3>2
  <2> QED
    BY <1>1, <2>1, <2>2, JobNext
<1> QED
  BY <1>2, <1>9, <1>10, <1>11 DEF Next, TriggersNext, Clients
-----------------------------------------------------------------------------
(* Workers, and the rest of the state.                                     *)

WorkInv == WorkerTypeOK /\ Placed

LEMMA WorkWrite ==
  ASSUME WorkInv, NEW w \in Workers, NEW v \in Worker, wk' = [wk EXCEPT ![w] = v],
         v.pc # "idle" => v.r \in Runs, dead' \subseteq Runs
  PROVE  WorkInv'
BY DEF WorkInv, WorkerTypeOK, Placed

Places == {"step", "exec", "fail", "success", "release", "failure"}

\* A worker goes on with the run it has.
LEMMA WorkGoesOn ==
  ASSUME WorkInv, NEW w \in Workers, wk[w].pc # "idle", NEW pc \in Places,
         Goto(w, pc) \/ Leave(w, pc), dead' = dead
  PROVE  WorkInv'
<1>1. wk[w] \in Worker /\ wk[w].r \in Runs
  BY DEF WorkInv, WorkerTypeOK, Placed
<1>2. CASE Goto(w, pc)
  <2> DEFINE v == [wk[w] EXCEPT !.pc = pc]
  <2>1. v \in Worker /\ v.r \in Runs /\ wk' = [wk EXCEPT ![w] = v]
    BY <1>1, <1>2 DEF Goto, Worker, Places
  <2> HIDE DEF v
  <2> QED
    BY <2>1, WorkWrite DEF WorkInv, WorkerTypeOK
<1>3. CASE Leave(w, pc)
  <2> DEFINE got == IdleWorker.got
             v == [wk[w] EXCEPT !.pc = pc, !.got = got]
  <2>1. got \in [StepNo -> {"none", "COMPLETED", "BLOCKED"}]
    BY DEF IdleWorker
  <2>2. wk' = [wk EXCEPT ![w] = v]
    BY <1>3 DEF Leave
  <2> HIDE DEF got
  <2>3. v \in Worker /\ v.r \in Runs
    BY <1>1, <2>1 DEF Worker, Places
  <2> HIDE DEF v
  <2> QED
    BY <2>2, <2>3, WorkWrite DEF WorkInv, WorkerTypeOK
<1> QED
  BY <1>2, <1>3

LEMMA IdleWorkerOK == IdleWorker \in Worker /\ IdleWorker.pc = "idle"
BY DEF IdleWorker, Worker, Slots

LEMMA EndOK ==
  ASSUME WorkInv, NEW w \in Workers, wk[w].pc # "idle", NEW out \in {"completed", "failed"},
         End(w, out), dead' = dead
  PROVE  WorkInv'
<1> DEFINE r == wk[w].r
           v == [IdleWorker EXCEPT !.pc = "settle", !.r = r, !.out = out]
<1>1. r \in Runs /\ r \in 0..MaxRuns
  BY DEF WorkInv, Placed, Runs
<1>2. wk' = [wk EXCEPT ![w] = v]
  BY DEF End
<1> HIDE DEF r
<1>3. v \in Worker /\ v.r \in Runs
  BY <1>1, IdleWorkerOK DEF Worker
<1> HIDE DEF v
<1> QED
  BY <1>2, <1>3, WorkWrite DEF WorkInv, WorkerTypeOK

LEMMA WorkNext == ASSUME IInv, Next PROVE WorkInv'
<1>0. WorkInv /\ \A w \in Workers : wk[w] \in Worker
  BY DEF IInv, TypeOK, WorkInv, WorkerTypeOK
<1>1. ASSUME UNCHANGED workerVars PROVE WorkInv'
  BY <1>0, <1>1 DEF workerVars, WorkInv, WorkerTypeOK, Placed
<1>2. ASSUME NEW w \in Workers, NEW r \in Runs, TakeJob(w, r) PROVE WorkInv'
  <2> DEFINE v == [IdleWorker EXCEPT !.pc = "claim", !.r = r, !.made = job[r].made,
                                     !.seen = flow.slot]
  <2>1. job[r].made \in 0..JobAttempts /\ flow.slot \in Slots /\ r \in 0..MaxRuns
    BY DEF IInv, TypeOK, StoreTypeOK, Job, Flow, Runs
  <2>2. v \in Worker /\ v.r \in Runs
    BY <2>1 DEF IdleWorker, Worker
  <2>3. wk' = [wk EXCEPT ![w] = v] /\ dead' = dead
    BY <1>2 DEF TakeJob
  <2> HIDE DEF v
  <2> QED
    BY <1>0, <2>2, <2>3, WorkWrite DEF WorkInv, WorkerTypeOK
<1>3. ASSUME NEW w \in Workers, ClaimRun(w) PROVE WorkInv'
  <2>1. wk[w].pc # "idle" /\ dead' = dead
    BY <1>3 DEF ClaimRun
  <2>2. CASE Claimable(wk[w].r)
    <3> DEFINE r == wk[w].r
               got == Loaded(r)
               v == [wk[w] EXCEPT !.pc = "step", !.got = got]
    <3>1. got \in [StepNo -> {"none", "COMPLETED", "BLOCKED"}] /\ r \in Runs
      BY <1>0, <2>1 DEF Loaded, WorkInv, Placed
    <3>2. wk' = [wk EXCEPT ![w] = v]
      BY <1>3, <2>2 DEF ClaimRun
    <3> HIDE DEF got
    <3>3. v \in Worker /\ v.r \in Runs
      BY <1>0, <3>1 DEF Worker
    <3> HIDE DEF v, r
    <3> QED
      BY <1>0, <2>1, <3>2, <3>3, WorkWrite DEF WorkInv, WorkerTypeOK
  <2> QED
    BY <1>0, <1>3, <2>1, <2>2, EndOK DEF ClaimRun
<1>4. ASSUME NEW w \in Workers, NEW k \in StepNo, FinishStep(w, k) PROVE WorkInv'
  <2>1. wk[w].pc # "idle" /\ dead' = dead
    BY <1>4 DEF FinishStep
  <2>2. ASSUME NEW result \in {"COMPLETED", "BLOCKED"},
               wk' = [wk EXCEPT ![w].pc = "step", ![w].got[k] = result]
        PROVE  WorkInv'
    <3> DEFINE got == [wk[w].got EXCEPT ![k] = result]
               v == [wk[w] EXCEPT !.pc = "step", !.got = got]
    <3>1. got \in [StepNo -> {"none", "COMPLETED", "BLOCKED"}] /\ wk[w].r \in Runs
      BY <1>0, <2>1 DEF Worker, WorkInv, Placed
    <3>2. wk' = [wk EXCEPT ![w] = v]
      BY <1>0, <2>2 DEF Worker
    <3> HIDE DEF got
    <3>3. v \in Worker /\ v.r \in Runs
      BY <1>0, <3>1 DEF Worker
    <3> HIDE DEF v
    <3> QED
      BY <1>0, <2>1, <3>2, <3>3, WorkWrite DEF WorkInv, WorkerTypeOK
  <2>3. CASE Goto(w, "fail")
    BY <1>0, <2>1, <2>3, WorkGoesOn DEF Places
  <2> QED
    BY <1>4, <2>2, <2>3 DEF FinishStep
<1>5. ASSUME NEW w \in Workers, Settle(w) PROVE WorkInv'
  <2>1. wk' = [wk EXCEPT ![w] = IdleWorker] /\ wk[w].r \in Runs
    BY <1>0, <1>5 DEF Settle, WorkInv, Placed
  <2>2. dead' = dead \/ dead' = dead \cup {wk[w].r}
    BY <1>5 DEF Settle
  <2> QED
    BY <1>0, <2>1, <2>2, IdleWorkerOK, WorkWrite DEF WorkInv, WorkerTypeOK
<1>6. ASSUME NEW w \in Workers,
             \/ FinishRun(w) \/ Succeed(w) \/ Release(w) \/ Fail(w) \/ StatementFails(w)
             \/ \E k \in StepNo : ClaimStep(w, k) \/ StepThrows(w, k) \/ FailStep(w, k)
      PROVE  WorkInv'
  <2>1. wk[w].pc # "idle" /\ dead' = dead
    BY <1>6 DEF FinishRun, Succeed, Release, Fail, StatementFails, ClaimStep, StepThrows,
                FailStep
  <2>2. \/ \E pc \in Places : Goto(w, pc) \/ Leave(w, pc)
        \/ \E out \in {"completed", "failed"} : End(w, out)
    BY <1>6 DEF FinishRun, Succeed, Release, Fail, StatementFails, ClaimStep, StepThrows,
                FailStep, Places
  <2> QED
    BY <1>0, <2>1, <2>2, WorkGoesOn, EndOK
<1>7. ASSUME NEW p \in Processes, WorkerDies(p) PROVE WorkInv'
  BY <1>0, <1>7, IdleWorkerOK DEF WorkerDies, WorkInv, WorkerTypeOK, Placed
<1>8. ASSUME NEW r \in Runs, StallJob(r) \/ ExpireRun(r) \/ \E k \in StepNo : ExpireStep(r, k)
      PROVE  WorkInv'
  BY <1>1, <1>8 DEF StallJob, ExpireRun, ExpireStep, workerVars
<1> QED
  BY <1>1, <1>2, <1>3, <1>4, <1>5, <1>6, <1>7, <1>8 DEF Next, WorkerNext
LEMMA SufferOK ==
  ASSUME faults \subseteq FaultKinds, NEW k, Suffer(k)
  PROVE  faults' \subseteq FaultKinds /\ faults \subseteq faults'
BY DEF Suffer

LEMMA FaultsNext ==
  ASSUME IInv, Next PROVE faults' \subseteq FaultKinds /\ faults \subseteq faults'
<1>1. faults \subseteq FaultKinds
  BY DEF IInv, TypeOK, StoreTypeOK
<1>2. faults' = faults \/ \E k \in Fault : Suffer(k)
  <2>1. ASSUME TriggersNext PROVE faults' = faults \/ \E k \in Fault : Suffer(k)
    BY <2>1 DEF TriggersNext, TimeComes, ReadDue, CheckDue, CreateScheduled, CreateRecovery,
                Trigger, CheckRecovery, AddJob, MarkFailed, ClientDies, SetStatus, SetTime,
                storeVars, Fault
  <2>2. ASSUME NEW w \in Workers,
               \/ ClaimRun(w) \/ FinishRun(w) \/ Succeed(w) \/ Release(w) \/ Fail(w)
               \/ \E r \in Runs : TakeJob(w, r)
               \/ \E k \in StepNo : \/ ClaimStep(w, k) \/ FinishStep(w, k)
                                     \/ StepThrows(w, k) \/ FailStep(w, k)
        PROVE  faults' = faults
    BY <2>2 DEF ClaimRun, FinishRun, Succeed, Release, Fail, TakeJob, ClaimStep, FinishStep,
                StepThrows, FailStep, storeVars
  <2>3. ASSUME NEW w \in Workers, Settle(w) \/ StatementFails(w)
        PROVE  faults' = faults \/ \E k \in Fault : Suffer(k)
    BY <2>3 DEF Settle, StatementFails, Fault
  <2>4. ASSUME \/ \E p \in Processes : WorkerDies(p)
               \/ \E r \in Runs : \/ StallJob(r) \/ ExpireRun(r)
                                  \/ \E k \in StepNo : ExpireStep(r, k)
        PROVE  faults' = faults \/ \E k \in Fault : Suffer(k)
    BY <2>4 DEF WorkerDies, StallJob, ExpireRun, ExpireStep, Overrun, Fault
  <2> QED
    BY <2>1, <2>2, <2>3, <2>4 DEF Next, WorkerNext
<1> QED
  BY <1>1, <1>2, SufferOK

LEMMA FlowNext == ASSUME IInv, Next PROVE flow' \in Flow
<1>0. /\ flow \in Flow /\ flow.last \in 0..MaxSlots /\ MaxSlots \in Nat /\ 0 \in Slots
      /\ NoTime \in Flow
  <2>1. flow \in Flow
    BY DEF IInv, TypeOK, StoreTypeOK
  <2>2. 0 \in Slots
    BY DEF Slots
  <2>3. NoTime \in Flow
    BY <2>1, <2>2 DEF NoTime, Flow
  <2> QED
    BY <2>1, <2>2, <2>3 DEF Flow, Slots
<1>1. ASSUME NewTime PROVE flow' \in Flow
  <2>1. flow.last + 1 \in Slots
    BY <1>0, <1>1 DEF NewTime, Slots
  <2> QED
    BY <1>0, <1>1, <2>1 DEF NewTime, Flow
<1>2. \A status \in {"ACTIVE", "PAUSED", "ERROR"} :
        [NoTime EXCEPT !.status = status] \in Flow /\ [flow EXCEPT !.status = status] \in Flow
  BY <1>0 DEF Flow
<1>3. ASSUME NEW c \in Clients, CheckDue(c) \/ CreateScheduled(c) \/ CreateRecovery(c)
      PROVE  flow' \in Flow
  <2>1. Retired \in Flow
    BY <1>2 DEF Retired
  <2> QED
    BY <1>0, <1>1, <1>2, <1>3, <2>1 DEF CheckDue, CreateScheduled, CreateRecovery
<1>4. ASSUME NEW status \in {"ACTIVE", "PAUSED", "ERROR"}, SetStatus(status) PROVE flow' \in Flow
  BY <1>2, <1>4 DEF SetStatus
<1>5. ASSUME NEW slot \in Slots \ {0}, SetTime(slot) PROVE flow' \in Flow
  <2>1. slot \in Slots /\ (IF slot > flow.last THEN slot ELSE flow.last) \in Slots
    BY <1>0 DEF Slots
  <2> QED
    BY <1>0, <1>5, <2>1 DEF SetTime, Flow
<1>6. ASSUME TimeComes PROVE flow' \in Flow
  BY <1>0, <1>6 DEF TimeComes, Flow
<1>7. ASSUME NEW c \in Clients, \/ ReadDue(c) \/ AddJob(c) \/ MarkFailed(c) \/ ClientDies(c)
                              \/ \E k \in Keys : \/ Trigger(c, k)
                                                \/ \E r \in Runs : CheckRecovery(c, k, r)
      PROVE  flow' = flow
  BY <1>7 DEF ReadDue, AddJob, MarkFailed, ClientDies, Trigger, CheckRecovery, storeVars
<1>8. ASSUME NEW w \in Workers, Succeed(w) PROVE flow' \in Flow
  BY <1>0, <1>2, <1>8 DEF Succeed
<1>9. ASSUME NEW w \in Workers, Fail(w) PROVE flow' \in Flow
  <2> DEFINE seen == wk[w].seen
  <2>1. seen \in Slots
    BY DEF IInv, TypeOK, WorkerTypeOK, Worker
  <2> HIDE DEF seen
  <2>2. [flow EXCEPT !.status = "ACTIVE", !.slot = seen, !.due = FALSE] \in Flow
    BY <1>0, <2>1 DEF Flow
  <2>3. flow.last < MaxSlots =>
          [flow EXCEPT !.status = "ACTIVE", !.slot = flow.last + 1, !.last = flow.last + 1,
                       !.due = FALSE] \in Flow
    <3>1. flow.last < MaxSlots => flow.last + 1 \in Slots
      BY <1>0 DEF Slots
    <3> QED
      BY <1>0, <3>1 DEF Flow
  <2> QED
    BY <1>0, <1>2, <1>9, <2>2, <2>3 DEF Fail, seen
<1>10. ASSUME NEW w \in Workers,
              \/ ClaimRun(w) \/ FinishRun(w) \/ Release(w) \/ Settle(w) \/ StatementFails(w)
              \/ \E r \in Runs : TakeJob(w, r)
              \/ \E k \in StepNo : \/ ClaimStep(w, k) \/ FinishStep(w, k)
                                    \/ StepThrows(w, k) \/ FailStep(w, k)
       PROVE  flow' = flow
  BY <1>10 DEF ClaimRun, FinishRun, Release, Settle, StatementFails, TakeJob, ClaimStep,
               FinishStep, StepThrows, FailStep, storeVars
<1>11. ASSUME \/ \E p \in Processes : WorkerDies(p)
              \/ \E r \in Runs : \/ StallJob(r) \/ ExpireRun(r)
                                 \/ \E k \in StepNo : ExpireStep(r, k)
       PROVE  flow' = flow
  BY <1>11 DEF WorkerDies, StallJob, ExpireRun, ExpireStep
<1> QED
  BY <1>0, <1>3, <1>4, <1>5, <1>6, <1>7, <1>8, <1>9, <1>10, <1>11
     DEF Next, TriggersNext, WorkerNext, Clients
LEMMA EditsNext == ASSUME IInv, Next PROVE edits' \in 0..MaxEdits /\ edits <= edits'
<1>1. edits \in 0..MaxEdits /\ MaxEdits \in Nat
  BY DEF IInv, TypeOK, StoreTypeOK
<1>2. ASSUME \/ \E status \in {"ACTIVE", "PAUSED", "ERROR"} : SetStatus(status)
             \/ \E slot \in Slots \ {0} : SetTime(slot)
      PROVE  edits' \in 0..MaxEdits /\ edits <= edits'
  <2>1. edits < MaxEdits /\ edits' = edits + 1
    BY <1>2 DEF SetStatus, SetTime
  <2> QED
    BY <1>1, <2>1
<1>3. ASSUME NEW c \in Clients,
             \/ ReadDue(c) \/ CheckDue(c) \/ CreateScheduled(c) \/ CreateRecovery(c)
             \/ AddJob(c) \/ MarkFailed(c) \/ ClientDies(c)
             \/ \E k \in Keys : Trigger(c, k) \/ \E r \in Runs : CheckRecovery(c, k, r)
      PROVE  edits' = edits
  BY <1>3 DEF ReadDue, CheckDue, CreateScheduled, CreateRecovery, AddJob, MarkFailed,
              ClientDies, Trigger, CheckRecovery, storeVars
<1>4. TimeComes => edits' = edits
  BY DEF TimeComes
<1>5. ASSUME NEW w \in Workers,
             \/ ClaimRun(w) \/ FinishRun(w) \/ Succeed(w) \/ Release(w) \/ Fail(w)
             \/ Settle(w) \/ StatementFails(w) \/ \E r \in Runs : TakeJob(w, r)
             \/ \E k \in StepNo : \/ ClaimStep(w, k) \/ FinishStep(w, k)
                                   \/ StepThrows(w, k) \/ FailStep(w, k)
      PROVE  edits' = edits
  BY <1>5 DEF ClaimRun, FinishRun, Succeed, Release, Fail, Settle, StatementFails, TakeJob,
              ClaimStep, FinishStep, StepThrows, FailStep, storeVars
<1>6. ASSUME \/ \E p \in Processes : WorkerDies(p)
             \/ \E r \in Runs : \/ StallJob(r) \/ ExpireRun(r)
                                \/ \E k \in StepNo : ExpireStep(r, k)
      PROVE  edits' = edits
  BY <1>6 DEF WorkerDies, StallJob, ExpireRun, ExpireStep
<1> QED
  BY <1>1, <1>2, <1>3, <1>4, <1>5, <1>6 DEF Next, TriggersNext, WorkerNext, Clients

\* Only the death of a process changes a name.
LEMMA HostNext ==
  ASSUME IInv, Next
  PROVE  /\ host' = host /\ born' \in [Processes -> Nat]
         /\ born' = born \/ \E p \in Processes : WorkerDies(p)
<1>1. born \in [Processes -> Nat]
  BY DEF IInv, TypeOK, StoreTypeOK
<1>2. ASSUME TriggersNext PROVE host' = host /\ born' = born
  BY <1>2 DEF TriggersNext, TimeComes, ReadDue, CheckDue, CreateScheduled, CreateRecovery,
              Trigger, CheckRecovery, AddJob, MarkFailed, ClientDies, SetStatus, SetTime,
              storeVars
<1>3. ASSUME NEW p \in Processes, WorkerDies(p) PROVE host' = host /\ born' \in [Processes -> Nat]
  BY <1>1, <1>3 DEF WorkerDies
<1>4. ASSUME NEW w \in Workers,
             \/ ClaimRun(w) \/ FinishRun(w) \/ Succeed(w) \/ Release(w) \/ Fail(w)
             \/ Settle(w) \/ StatementFails(w) \/ \E r \in Runs : TakeJob(w, r)
             \/ \E k \in StepNo : \/ ClaimStep(w, k) \/ FinishStep(w, k)
                                   \/ StepThrows(w, k) \/ FailStep(w, k)
      PROVE  host' = host /\ born' = born
  BY <1>4 DEF ClaimRun, FinishRun, Succeed, Release, Fail, Settle, StatementFails, TakeJob,
              ClaimStep, FinishStep, StepThrows, FailStep, storeVars
<1>5. ASSUME \E r \in Runs : StallJob(r) \/ ExpireRun(r) \/ \E k \in StepNo : ExpireStep(r, k)
      PROVE  host' = host /\ born' = born
  BY <1>5 DEF StallJob, ExpireRun, ExpireStep
<1> QED
  BY <1>1, <1>2, <1>3, <1>4, <1>5 DEF Next, WorkerNext

-----------------------------------------------------------------------------
(* Type correctness, evidence and recoveries.                              *)

LEMMA GrowsNext == ASSUME IInv, Next PROVE Grows
BY RunNext, RowsNext

LEMMA JobInvNext == ASSUME IInv, Next PROVE job' \in [Runs -> Job] /\ Jobs'
BY GrowsNext, JobNext, JobsNext, AddJobJobs

LEMMA NextIInv == ASSUME IInv, Next PROVE IInv'
<1>1. StoreTypeOK'
  <2>1. run' \in [Runs -> Row] /\ step' \in [Runs -> [StepNo -> StepRow]]
    BY RunNext, RowsNext, StepNext, StepsNext
  <2>2. host' \in [Workers -> Processes] /\ born' \in [Processes -> Nat]
    BY HostNext DEF IInv, TypeOK, StoreTypeOK
  <2> QED
    BY <2>1, <2>2, FlowNext, EditsNext, FaultsNext, JobInvNext DEF StoreTypeOK
<1>2. ClientInv'
  BY ClientNext, GrowsNext
<1>3. WorkInv'
  BY WorkNext
<1>4. Leases' /\ RecoversFailed'
  BY RunNext, RowsNext, StepNext, StepsNext DEF Leases
<1> QED
  BY <1>1, <1>2, <1>3, <1>4, JobInvNext DEF IInv, TypeOK, ClientInv, WorkInv, Recoveries

LEMMA StutterIInv == ASSUME IInv, UNCHANGED vars PROVE IInv'
BY DEF vars, storeVars, workerVars, IInv, TypeOK, StoreTypeOK, TriggersTypeOK, WorkerTypeOK,
       Placed, Creators, Adders, Jobs, Leases, Recoveries, RecoversFailed

\* The inductive invariant holds in every reachable state of the engine.
THEOREM AutomationsInvariant == Spec => []IInv
<1>1. IInv /\ [Next]_vars => IInv'
  BY NextIInv, StutterIInv
<1> QED
  BY InitIInv, <1>1, PTL DEF Spec

\* Every variable of the engine keeps to its type, whatever happens.
THEOREM AutomationTypes == Spec => []TypeOK
<1>1. IInv => TypeOK
  BY DEF IInv
<1> QED
  BY <1>1, AutomationsInvariant, PTL

\* A recovery run names a run that is on record as failed, now and later, for
\* every interleaving of createRecoveryRun with workers and schedulers.
THEOREM RecoversFromFailed == Spec => []RecoversFailed
<1>1. IInv => RecoversFailed
  BY DEF IInv, Recoveries
<1> QED
  BY <1>1, AutomationsInvariant, PTL

\* No retry, redelivery, takeover, late worker or failed enqueue changes a run
\* that ended or a step with a result.
THEOREM EvidenceIsKept == Spec => EvidenceStays
<1> DEFINE Kept == /\ \A r \in Runs : run[r].status \in Ended => run'[r].status = run[r].status
                   /\ \A r \in Runs, k \in StepNo :
                        step[r][k].status \in {"COMPLETED", "BLOCKED"} => step'[r][k] = step[r][k]
<1>1. IInv /\ [Next]_vars => [Kept]_vars
  <2>1. ASSUME IInv, Next PROVE Kept
    BY <2>1, GrowsNext, StepNext, StepsNext DEF Grows
  <2> QED
    BY <2>1
<1> QED
  BY <1>1, AutomationsInvariant, PTL DEF Spec, EvidenceStays
-----------------------------------------------------------------------------
(* One executor.                                                           *)
(*                                                                         *)
(* The name alone does not tell two slots of a process apart.  What does,  *)
(* as long as no lease is overrun, is that the lease of a run lives while  *)
(* someone goes through its steps, or is about to give it up.              *)

Holding(w) == \/ wk[w].pc \in {"step", "exec", "fail"}
              \/ wk[w].pc = "release" /\ run[wk[w].r].status \notin Ended

Held(w) == LET r == wk[w].r
           IN run[r].status = "RUNNING" /\ run[r].live /\ run[r].owner = Me(w)

Sole ==
  "overrun" \notin faults =>
    /\ \A w \in Workers : Holding(w) => Held(w)
    /\ \A v, w \in Workers : Holding(v) /\ Holding(w) /\ wk[v].r = wk[w].r => v = w

Succeeded == \A w \in Workers : wk[w].pc = "success" => run[wk[w].r].status \in Ended

SoleInv == IInv /\ Sole /\ Succeeded

LEMMA SoleOneExecutor == SoleInv => OneExecutor
BY DEF SoleInv, Sole, OneExecutor, Executing, Holding

\* Nobody comes to hold a run, and what is held does not change.
LEMMA SoleKept ==
  ASSUME Sole, faults \subseteq faults',
         "overrun" \notin faults' => \A w \in Workers : Holding(w)' =>
           /\ Holding(w) /\ wk'[w].r = wk[w].r /\ Me(w)' = Me(w)
           /\ Held(w) => run'[wk[w].r] = run[wk[w].r]
  PROVE  Sole'
<1> SUFFICES ASSUME "overrun" \notin faults'
             PROVE  /\ \A w \in Workers : Holding(w)' => Held(w)'
                    /\ \A v, w \in Workers :
                         Holding(v)' /\ Holding(w)' /\ wk'[v].r = wk'[w].r => v = w
  BY DEF Sole
<1>1. "overrun" \notin faults
  OBVIOUS
<1>2. ASSUME NEW w \in Workers, Holding(w)' PROVE Held(w)'
  <2>1. Held(w) /\ wk'[w].r = wk[w].r /\ Me(w)' = Me(w) /\ run'[wk[w].r] = run[wk[w].r]
    BY <1>1, <1>2 DEF Sole
  <2> QED
    BY <2>1 DEF Held
<1>3. ASSUME NEW v \in Workers, NEW w \in Workers, Holding(v)', Holding(w)', wk'[v].r = wk'[w].r
      PROVE  v = w
  BY <1>1, <1>3 DEF Sole
<1> QED
  BY <1>2, <1>3

LEMMA SameName ==
  ASSUME host' = host, born' = born PROVE \A w \in Workers : Me(w)' = Me(w)
BY DEF Me

\* Workers that do nothing hold what they held.
LEMMA HeldBefore ==
  ASSUME IInv, Grows, NEW w \in Workers, wk'[w] = wk[w], Holding(w)' PROVE Holding(w)
<1>1. wk[w].pc = "release" => wk[w].r \in Runs
  BY DEF IInv, Placed
<1> QED
  BY <1>1 DEF Holding, Grows

\* The rows of running runs stay as they are.
LEMMA QuietSole ==
  ASSUME SoleInv, Grows, faults \subseteq faults', host' = host, born' = born, wk' = wk,
         \A w \in Workers : wk[w].pc # "idle" /\ Held(w) => run'[wk[w].r] = run[wk[w].r]
  PROVE  Sole'
<1>1. \A w \in Workers : Holding(w) => wk[w].pc # "idle"
  BY DEF Holding
<1> QED
  BY <1>1, SameName, HeldBefore, SoleKept DEF SoleInv

LEMMA TriggersSole == ASSUME SoleInv, Next, TriggersNext, UNCHANGED workerVars PROVE Sole'
<1>1. host' = host /\ born' = born /\ wk' = wk
  <2>1. ~ \E p \in Processes : WorkerDies(p) /\ born' # born
    BY DEF TriggersNext, TimeComes, ReadDue, CheckDue, CreateScheduled, CreateRecovery,
           Trigger, CheckRecovery, AddJob, MarkFailed, ClientDies, SetStatus, SetTime, storeVars
  <2> QED
    BY <2>1, HostNext DEF SoleInv, workerVars
<1>2. ASSUME NEW r \in Runs, run[r].status = "RUNNING" PROVE run'[r] = run[r]
  <2>1. ASSUME NEW q \in Runs, NEW key, NEW parent, Insert(q, key, parent) PROVE run'[r] = run[r]
    BY <1>2, <2>1 DEF Insert, SoleInv, IInv, TypeOK, StoreTypeOK
  <2>2. ASSUME NEW c \in Clients, MarkFailed(c) PROVE run'[r] = run[r]
    BY <1>2, <2>2 DEF MarkFailed, SoleInv, IInv, TypeOK, StoreTypeOK
  <2> QED
    BY <2>1, <2>2 DEF TriggersNext, TimeComes, ReadDue, CheckDue, CreateScheduled,
       CreateRecovery, Trigger, CheckRecovery, AddJob, ClientDies, SetStatus, SetTime, storeVars
<1>3. \A w \in Workers : wk[w].pc # "idle" => wk[w].r \in Runs
  BY DEF SoleInv, IInv, Placed
<1> QED
  BY <1>1, <1>2, <1>3, GrowsNext, FaultsNext, QuietSole DEF SoleInv, Held

\* Worker w moves, by itself or with its run.
LEMMA OneMoves ==
  ASSUME SoleInv, Grows, faults \subseteq faults', host' = host, born' = born,
         NEW w \in Workers, NEW x, wk' = [wk EXCEPT ![w] = x],
         Holding(w)' => Holding(w) /\ x.r = wk[w].r /\ run' = run,
         \/ run' = run
         \/ /\ Holding(w)
            /\ \A q \in Runs : q # wk[w].r => run'[q] = run[q]
  PROVE  Sole'
<1>1. /\ \A v \in Workers : wk'[v] = IF v = w THEN x ELSE wk[v]
      /\ \A v \in Workers : wk[v].pc # "idle" => wk[v].r \in Runs
  BY DEF SoleInv, IInv, TypeOK, WorkerTypeOK, Placed
<1>2. ASSUME "overrun" \notin faults', NEW v \in Workers, Holding(v)'
      PROVE  /\ Holding(v) /\ wk'[v].r = wk[v].r
             /\ Held(v) => run'[wk[v].r] = run[wk[v].r]
  <2>1. CASE v = w
    BY <1>1, <1>2, <2>1
  <2>2. CASE v # w
    <3>1. wk'[v] = wk[v]
      BY <1>1, <2>2
    <3>2. Holding(v)
      BY <1>2, <3>1, HeldBefore DEF SoleInv
    <3>3. wk[v].r \in Runs /\ (Holding(w) => wk[v].r # wk[w].r)
      BY <1>1, <1>2, <2>2, <3>2 DEF SoleInv, Sole, Holding
    <3> QED
      BY <3>1, <3>2, <3>3
  <2> QED
    BY <2>1, <2>2
<1> QED
  BY <1>2, SameName, SoleKept DEF SoleInv
Inside == {"step", "exec", "fail"}

LEMMA StaysSole ==
  ASSUME SoleInv, Grows, faults \subseteq faults', host' = host, born' = born, run' = run,
         NEW w \in Workers, NEW x, wk' = [wk EXCEPT ![w] = x],
         x.pc \in Inside \cup {"release"} =>
           /\ x.r = wk[w].r
           /\ wk[w].pc \in Inside \/ (x.pc = "release" /\ wk[w].pc = "success")
  PROVE  Sole'
<1>1. wk'[w] = x
  BY DEF SoleInv, IInv, TypeOK, WorkerTypeOK
<1>2. Holding(w)' => Holding(w) /\ x.r = wk[w].r
  BY <1>1 DEF Holding, Inside, SoleInv, Succeeded
<1> QED
  BY <1>2, OneMoves

LEMMA GotoShape ==
  ASSUME IInv, NEW w \in Workers, NEW pc, Goto(w, pc) \/ Leave(w, pc)
  PROVE  \E x : wk' = [wk EXCEPT ![w] = x] /\ x.pc = pc /\ x.r = wk[w].r
<1>1. wk[w] \in Worker
  BY DEF IInv, TypeOK, WorkerTypeOK
<1>2. CASE Goto(w, pc)
  <2>1. /\ [wk[w] EXCEPT !.pc = pc].pc = pc /\ [wk[w] EXCEPT !.pc = pc].r = wk[w].r
        /\ wk' = [wk EXCEPT ![w] = [wk[w] EXCEPT !.pc = pc]]
    BY <1>1, <1>2 DEF Goto, Worker
  <2> QED
    BY <2>1
<1>3. CASE Leave(w, pc)
  <2> DEFINE got == IdleWorker.got
             x == [wk[w] EXCEPT !.pc = pc, !.got = got]
  <2>1. wk' = [wk EXCEPT ![w] = x]
    BY <1>3 DEF Leave
  <2> HIDE DEF got
  <2>2. x.pc = pc /\ x.r = wk[w].r
    BY <1>1 DEF Worker
  <2> QED
    BY <2>1, <2>2
<1> QED
  BY <1>2, <1>3

LEMMA EndShape ==
  ASSUME NEW w \in Workers, NEW out, End(w, out)
  PROVE  \E x : wk' = [wk EXCEPT ![w] = x] /\ x.pc = "settle"
<1> DEFINE r == wk[w].r
           x == [IdleWorker EXCEPT !.pc = "settle", !.r = r, !.out = out]
<1>1. wk' = [wk EXCEPT ![w] = x]
  BY DEF End
<1> HIDE DEF r
<1>2. x.pc = "settle"
  BY DEF IdleWorker
<1> QED
  BY <1>1, <1>2

LEMMA FinishShape ==
  ASSUME NEW w \in Workers, NEW k \in StepNo, NEW result \in {"COMPLETED", "BLOCKED"},
         \A v \in Workers : wk[v] \in Worker,
         wk' = [wk EXCEPT ![w].pc = "step", ![w].got[k] = result]
  PROVE  \E x : wk' = [wk EXCEPT ![w] = x] /\ x.r = wk[w].r
<1> DEFINE got == [wk[w].got EXCEPT ![k] = result]
           x == [wk[w] EXCEPT !.pc = "step", !.got = got]
<1>1. wk' = [wk EXCEPT ![w] = x]
  BY DEF Worker
<1> HIDE DEF got
<1>2. x.r = wk[w].r
  BY DEF Worker
<1> HIDE DEF x
<1> QED
  BY <1>1, <1>2

LEMMA WorkerSole ==
  ASSUME SoleInv, Next, NEW w \in Workers, host' = host, born' = born,
         \/ ClaimRun(w) \/ FinishRun(w) \/ Succeed(w) \/ Release(w) \/ Fail(w)
         \/ Settle(w) \/ StatementFails(w) \/ \E r \in Runs : TakeJob(w, r)
         \/ \E k \in StepNo : \/ ClaimStep(w, k) \/ FinishStep(w, k)
                               \/ StepThrows(w, k) \/ FailStep(w, k)
  PROVE  Sole'
<1>0. /\ IInv /\ Grows /\ faults \subseteq faults' /\ \A v \in Workers : wk[v] \in Worker
      /\ (wk[w].pc # "idle" => wk[w].r \in Runs)
      /\ \A q \in Runs : run[q] \in Row
  BY GrowsNext, FaultsNext DEF SoleInv, IInv, TypeOK, WorkerTypeOK, StoreTypeOK, Placed
<1>1. CASE run' = run
  <2>1. ASSUME NEW x, wk' = [wk EXCEPT ![w] = x],
               x.pc \in Inside \cup {"release"} =>
                 /\ x.r = wk[w].r
                 /\ wk[w].pc \in Inside \/ (x.pc = "release" /\ wk[w].pc = "success")
        PROVE  Sole'
    BY <1>0, <1>1, <2>1, StaysSole
  <2>2. ASSUME NEW out, End(w, out) PROVE Sole'
    BY <2>1, <2>2, EndShape DEF Inside
  <2>3. ASSUME NEW pc, Goto(w, pc) \/ Leave(w, pc),
               \/ wk[w].pc \in Inside \/ pc \notin Inside \cup {"release"}
               \/ (pc = "release" /\ wk[w].pc = "success")
        PROVE  Sole'
    <3>1. PICK x : wk' = [wk EXCEPT ![w] = x] /\ x.pc = pc /\ x.r = wk[w].r
      BY <1>0, <2>3, GotoShape
    <3> QED
      BY <2>1, <2>3, <3>1
  <2>4. ASSUME NEW r \in Runs, TakeJob(w, r) PROVE Sole'
    <3> DEFINE x == [IdleWorker EXCEPT !.pc = "claim", !.r = r, !.made = job[r].made,
                                       !.seen = flow.slot]
    <3>1. wk' = [wk EXCEPT ![w] = x] /\ x.pc = "claim"
      BY <2>4 DEF TakeJob, IdleWorker
    <3> HIDE DEF x
    <3> QED
      BY <2>1, <3>1 DEF Inside
  <2>5. ASSUME Settle(w) PROVE Sole'
    BY <2>1, <2>5, IdleWorkerOK DEF Settle, Inside
  <2>6. ASSUME ClaimRun(w) PROVE Sole'
    <3>1. CASE Claimable(wk[w].r)
      <4> DEFINE r == wk[w].r
      <4>1. run'[r].status = "RUNNING" /\ run'[r].live /\ r \in Runs
        BY <1>0, <2>6, <3>1 DEF ClaimRun, Row, IInv, TypeOK, StoreTypeOK
      <4> QED
        BY <1>1, <3>1, <4>1 DEF Claimable
    <3> QED
      BY <2>2, <2>6, <3>1 DEF ClaimRun
  <2>7. ASSUME FinishRun(w) PROVE Sole'
    <3>1. wk[w].pc \in Inside /\ (Leave(w, "success") \/ Leave(w, "release"))
      BY <2>7 DEF FinishRun, Inside
    <3> QED
      BY <2>3, <3>1
  <2>8. ASSUME Release(w) PROVE Sole'
    <3>1. Goto(w, "failure") \/ End(w, "failed")
      BY <2>8 DEF Release
    <3> QED
      BY <2>2, <2>3, <3>1 DEF Inside
  <2>9. ASSUME Succeed(w) \/ Fail(w) PROVE Sole'
    BY <2>2, <2>9 DEF Succeed, Fail
  <2>10. ASSUME StatementFails(w) PROVE Sole'
    BY <2>2, <2>3, <2>10 DEF StatementFails, Inside
  <2>11. ASSUME NEW k \in StepNo, ClaimStep(w, k) \/ StepThrows(w, k) \/ FailStep(w, k)
         PROVE  Sole'
    BY <2>3, <2>11 DEF ClaimStep, StepThrows, FailStep, Inside
  <2>12. ASSUME NEW k \in StepNo, FinishStep(w, k) PROVE Sole'
    <3>1. wk[w].pc \in Inside
      BY <2>12 DEF FinishStep, Inside
    <3>2. ASSUME NEW result \in {"COMPLETED", "BLOCKED"},
                 wk' = [wk EXCEPT ![w].pc = "step", ![w].got[k] = result]
          PROVE  Sole'
      <4>1. PICK x : wk' = [wk EXCEPT ![w] = x] /\ x.r = wk[w].r
        BY <1>0, <3>2, FinishShape
      <4> QED
        BY <2>1, <3>1, <4>1
    <3> QED
      BY <2>3, <2>12, <3>1, <3>2 DEF FinishStep
  <2> QED
    BY <2>4, <2>5, <2>6, <2>7, <2>8, <2>9, <2>10, <2>11, <2>12
<1>2. ASSUME ClaimRun(w), Claimable(wk[w].r) PROVE Sole'
  <2> DEFINE r == wk[w].r
             got == Loaded(r)
             x == [wk[w] EXCEPT !.pc = "step", !.got = got]
  <2>1. /\ wk' = [wk EXCEPT ![w] = x] /\ r \in Runs
        /\ run' = [run EXCEPT ![r].status = "RUNNING", ![r].owner = Me(w), ![r].live = TRUE]
    BY <1>0, <1>2 DEF ClaimRun
  <2> HIDE DEF got
  <2>2. x.pc = "step" /\ x.r = r
    BY <1>0 DEF Worker
  <2> HIDE DEF x
  <2>3. /\ run'[r].status = "RUNNING" /\ run'[r].live /\ run'[r].owner = Me(w)
        /\ \A q \in Runs : q # r => run'[q] = run[q]
    BY <1>0, <2>1 DEF IInv, TypeOK, StoreTypeOK, Row
  <2>4. \A v \in Workers : wk'[v] = IF v = w THEN x ELSE wk[v]
    BY <1>0, <2>1 DEF IInv, TypeOK, WorkerTypeOK
  <2>5. \A v \in Workers : Me(v)' = Me(v)
    BY SameName
  <2>6. ASSUME "overrun" \notin faults', NEW v \in Workers \ {w}, Holding(v)'
        PROVE  Holding(v) /\ wk[v].r \in Runs /\ wk[v].r # r /\ Held(v)
    <3>1. Holding(v)
      BY <1>0, <2>4, <2>6, HeldBefore
    <3>2. Held(v)
      BY <1>0, <2>6, <3>1 DEF SoleInv, Sole
    <3> QED
      BY <1>0, <1>2, <3>1, <3>2 DEF Held, Claimable, Holding, IInv, Placed
  <2>7. ASSUME "overrun" \notin faults', NEW v \in Workers, Holding(v)' PROVE Held(v)'
    <3>1. CASE v = w
      BY <2>2, <2>3, <2>4, <2>5, <3>1 DEF Held
    <3>2. CASE v # w
      BY <2>3, <2>4, <2>5, <2>6, <2>7, <3>2 DEF Held
    <3> QED
      BY <3>1, <3>2
  <2>8. ASSUME "overrun" \notin faults', NEW u \in Workers, NEW v \in Workers,
               Holding(u)', Holding(v)', wk'[u].r = wk'[v].r
        PROVE  u = v
    BY <1>0, <2>2, <2>4, <2>6, <2>8 DEF SoleInv, Sole
  <2> QED
    BY <2>7, <2>8 DEF Sole
<1>3. ASSUME FinishRun(w), run' # run PROVE Sole'
  <2>1. /\ wk[w].pc = "step" /\ Leave(w, "success") /\ wk[w].r \in Runs
        /\ \A q \in Runs : q # wk[w].r => run'[q] = run[q]
    BY <1>0, <1>3 DEF FinishRun, IInv, TypeOK, StoreTypeOK
  <2>2. PICK x : wk' = [wk EXCEPT ![w] = x] /\ x.pc = "success"
    BY <1>0, <2>1, GotoShape
  <2>3. ~Holding(w)'
    BY <1>0, <2>2 DEF Holding, IInv, TypeOK, WorkerTypeOK
  <2> QED
    BY <1>0, <2>1, <2>2, <2>3, OneMoves DEF Holding
<1>4. ASSUME Release(w), run' # run PROVE Sole'
  <2>1. /\ wk[w].pc = "release" /\ run[wk[w].r].owner = Me(w) /\ wk[w].r \in Runs
        /\ \A q \in Runs : q # wk[w].r => run'[q] = run[q]
        /\ Goto(w, "failure") \/ End(w, "failed")
    BY <1>0, <1>4 DEF Release, IInv, TypeOK, StoreTypeOK
  <2>2. Holding(w)
    BY <1>0, <2>1, MeOwner DEF Holding, Ended, IInv, TypeOK, Leases
  <2>3. PICK x : wk' = [wk EXCEPT ![w] = x] /\ x.pc \in {"failure", "settle"}
    BY <1>0, <2>1, GotoShape, EndShape
  <2>4. ~Holding(w)'
    BY <1>0, <2>3 DEF Holding, IInv, TypeOK, WorkerTypeOK
  <2> QED
    BY <1>0, <2>1, <2>2, <2>3, <2>4, OneMoves
<1> QED
  <2>1. run' = run \/ (ClaimRun(w) /\ Claimable(wk[w].r)) \/ FinishRun(w) \/ Release(w)
    BY DEF ClaimRun, Succeed, Fail, Settle, StatementFails, TakeJob, ClaimStep, FinishStep,
           StepThrows, FailStep, storeVars
  <2> QED
    BY <1>1, <1>2, <1>3, <1>4, <2>1

LEMMA SucceededNext == ASSUME SoleInv, Next PROVE Succeeded'
<1> SUFFICES ASSUME NEW w \in Workers, wk'[w].pc = "success"
             PROVE  run'[wk'[w].r].status \in Ended
  BY DEF Succeeded
<1>0. /\ IInv /\ Grows /\ wk \in [Workers -> Worker] /\ \A v \in Workers : wk[v] \in Worker
      /\ \A v \in Workers : wk[v].pc # "idle" => wk[v].r \in Runs
  BY GrowsNext DEF SoleInv, IInv, TypeOK, WorkerTypeOK, Placed
<1>1. ASSUME wk'[w] = wk[w] PROVE run'[wk'[w].r].status \in Ended
  BY <1>0, <1>1 DEF SoleInv, Succeeded, Grows
<1>2. ASSUME NEW v \in Workers, NEW x, wk' = [wk EXCEPT ![v] = x], x.pc # "success"
      PROVE  run'[wk'[w].r].status \in Ended
  BY <1>0, <1>1, <1>2
<1>3. ASSUME NEW v \in Workers, NEW pc, Goto(v, pc) \/ Leave(v, pc), pc # "success"
      PROVE  run'[wk'[w].r].status \in Ended
  BY <1>0, <1>2, <1>3, GotoShape
<1>4. ASSUME NEW v \in Workers, NEW out, End(v, out) PROVE run'[wk'[w].r].status \in Ended
  BY <1>2, <1>4, EndShape
<1>5. ASSUME NEW v \in Workers, FinishRun(v) PROVE run'[wk'[w].r].status \in Ended
  <2>1. CASE OwnsRun(v)
    <3> DEFINE status == IF \A k \in StepNo : wk[v].got[k] = "COMPLETED"
                           THEN "COMPLETED" ELSE "PARTIAL"
    <3>1. /\ wk[v].r \in Runs /\ Leave(v, "success") /\ status \in Ended
          /\ run' = [run EXCEPT ![wk[v].r].status = status, ![wk[v].r].owner = Nobody,
                                ![wk[v].r].live = FALSE]
      BY <1>0, <1>5, <2>1 DEF FinishRun, Ended
    <3> HIDE DEF status
    <3>2. run \in [Runs -> Row] /\ run[wk[v].r] \in Row
      BY <1>0, <3>1 DEF IInv, TypeOK, StoreTypeOK
    <3>3. run'[wk[v].r].status \in Ended
      BY <3>1, <3>2 DEF Row
    <3>4. PICK x : wk' = [wk EXCEPT ![v] = x] /\ x.pc = "success" /\ x.r = wk[v].r
      BY <1>0, <3>1, GotoShape
    <3> QED
      BY <1>0, <1>1, <3>3, <3>4
  <2>2. CASE ~OwnsRun(v)
    BY <1>3, <1>5, <2>2 DEF FinishRun
  <2> QED
    BY <2>1, <2>2
<1>6. ASSUME NEW v \in Workers, NEW r \in Runs, TakeJob(v, r)
      PROVE  run'[wk'[w].r].status \in Ended
  <2> DEFINE x == [IdleWorker EXCEPT !.pc = "claim", !.r = r, !.made = job[r].made,
                                     !.seen = flow.slot]
  <2>1. wk' = [wk EXCEPT ![v] = x] /\ x.pc = "claim"
    BY <1>6 DEF TakeJob, IdleWorker
  <2> HIDE DEF x
  <2> QED
    BY <1>2, <2>1
<1>7. ASSUME NEW v \in Workers, ClaimRun(v) PROVE run'[wk'[w].r].status \in Ended
  <2>1. CASE Claimable(wk[v].r)
    <3> DEFINE got == Loaded(wk[v].r)
               x == [wk[v] EXCEPT !.pc = "step", !.got = got]
    <3>1. wk' = [wk EXCEPT ![v] = x]
      BY <1>7, <2>1 DEF ClaimRun
    <3> HIDE DEF got
    <3>2. x.pc = "step"
      BY <1>0 DEF Worker
    <3> HIDE DEF x
    <3> QED
      BY <1>2, <3>1, <3>2
  <2> QED
    BY <1>4, <1>7, <2>1 DEF ClaimRun
<1>8. ASSUME NEW v \in Workers, NEW k \in StepNo, FinishStep(v, k)
      PROVE  run'[wk'[w].r].status \in Ended
  <2>1. ASSUME NEW result, wk' = [wk EXCEPT ![v].pc = "step", ![v].got[k] = result]
        PROVE  run'[wk'[w].r].status \in Ended
    <3>1. wk[v] \in Worker
      BY <1>0
    <3>2. wk'[v].pc = "step" /\ (v # w => wk'[w] = wk[w])
      BY <1>0, <2>1, <3>1 DEF Worker
    <3> QED
      BY <1>1, <3>2
  <2> QED
    BY <1>3, <1>8, <2>1 DEF FinishStep
<1>9. ASSUME NEW v \in Workers,
             \/ Succeed(v) \/ Release(v) \/ Fail(v) \/ StatementFails(v)
             \/ \E k \in StepNo : ClaimStep(v, k) \/ StepThrows(v, k) \/ FailStep(v, k)
      PROVE  run'[wk'[w].r].status \in Ended
  BY <1>3, <1>4, <1>9 DEF Succeed, Release, Fail, StatementFails, ClaimStep, StepThrows, FailStep
<1>10. ASSUME NEW v \in Workers, Settle(v) PROVE run'[wk'[w].r].status \in Ended
  BY <1>2, <1>10, IdleWorkerOK DEF Settle
<1>11. ASSUME NEW p \in Processes, WorkerDies(p) PROVE run'[wk'[w].r].status \in Ended
  BY <1>1, <1>11, IdleWorkerOK DEF WorkerDies
<1>12. ASSUME NEW r \in Runs, StallJob(r) \/ ExpireRun(r) \/ \E k \in StepNo : ExpireStep(r, k)
       PROVE  run'[wk'[w].r].status \in Ended
  BY <1>1, <1>12 DEF StallJob, ExpireRun, ExpireStep
<1>13. ASSUME UNCHANGED workerVars PROVE run'[wk'[w].r].status \in Ended
  BY <1>1, <1>13 DEF workerVars
<1> QED
  BY <1>5, <1>6, <1>7, <1>8, <1>9, <1>10, <1>11, <1>12, <1>13 DEF Next, WorkerNext

LEMMA NextSoleInv == ASSUME SoleInv, Next PROVE SoleInv'
<1>0. IInv /\ Grows /\ faults \subseteq faults' /\ host' = host
  BY GrowsNext, FaultsNext, HostNext DEF SoleInv
<1>1. ASSUME NEW p \in Processes, WorkerDies(p) PROVE Sole'
  <2>1. run' = run /\ born' = [born EXCEPT ![p] = @ + 1]
    BY <1>1 DEF WorkerDies
  <2>2. ASSUME NEW w \in Workers, Holding(w)'
        PROVE  Holding(w) /\ wk'[w].r = wk[w].r /\ Me(w)' = Me(w)
    <3>1. wk'[w].pc # "idle"
      BY <2>2 DEF Holding
    <3>2. host[w] # p /\ wk'[w] = wk[w]
      BY <1>1, <3>1, IdleWorkerOK DEF WorkerDies
    <3>3. Me(w)' = Me(w)
      BY <1>0, <2>1, <3>2 DEF Me, IInv, TypeOK, StoreTypeOK
    <3> QED
      BY <1>0, <2>2, <3>2, <3>3, HeldBefore
  <2> QED
    BY <1>0, <2>1, <2>2, SoleKept DEF SoleInv
<1>2. ASSUME NEW r \in Runs, StallJob(r) \/ \E k \in StepNo : ExpireStep(r, k) PROVE Sole'
  BY <1>0, <1>2, QuietSole DEF StallJob, ExpireStep
<1>3. ASSUME NEW r \in Runs, ExpireRun(r) PROVE Sole'
  <2>1. wk' = wk /\ born' = born /\ \A q \in Runs : q # r => run'[q] = run[q]
    BY <1>0, <1>3 DEF ExpireRun, IInv, TypeOK, StoreTypeOK
  <2>2. CASE \E w \in Workers : Working(w, r) /\ OwnsRun(w)
    <3>1. "overrun" \in faults'
      BY <1>3, <2>2 DEF ExpireRun, Overrun, Suffer
    <3> QED
      BY <3>1 DEF Sole
  <2>3. CASE ~ \E w \in Workers : Working(w, r) /\ OwnsRun(w)
    <3>1. \A w \in Workers : wk[w].pc # "idle" /\ Held(w) => wk[w].r # r
      BY <2>3 DEF Held, Working, OwnsRun
    <3>2. \A w \in Workers : wk[w].pc # "idle" => wk[w].r \in Runs
      BY <1>0 DEF IInv, Placed
    <3> QED
      BY <1>0, <2>1, <3>1, <3>2, QuietSole
  <2> QED
    BY <2>2, <2>3
<1>4. Sole'
  <2>1. born' = born \/ \E p \in Processes : WorkerDies(p)
    BY <1>0, HostNext
  <2> QED
    BY <1>0, <1>1, <1>2, <1>3, <2>1, WorkerSole, TriggersSole DEF Next, WorkerNext
<1> QED
  BY <1>0, <1>4, NextIInv, SucceededNext DEF SoleInv

LEMMA StutterSole == ASSUME SoleInv, UNCHANGED vars PROVE SoleInv'
BY StutterIInv DEF SoleInv, Sole, Succeeded, Holding, Held, Me, vars, storeVars, workerVars

LEMMA InitSole == Init => SoleInv
BY InitIInv DEF SoleInv, Init, WorkerInit, IdleWorker, Sole, Succeeded, Holding

\* Unless a lease of ten minutes is overrun, no two workers go through the
\* steps of one run, although both slots of a process claim under one name
\* and BullMQ may hand a job out twice.
THEOREM OneExecutorOfARun == Spec => []OneExecutor
<1>1. SoleInv /\ [Next]_vars => SoleInv'
  BY NextSoleInv, StutterSole
<1>2. Spec => []SoleInv
  BY InitSole, <1>1, PTL DEF Spec
<1> QED
  BY <1>2, SoleOneExecutor, PTL
-----------------------------------------------------------------------------
(* One scheduled run.                                                      *)
(*                                                                         *)
(* All replicas that are about to create a run, and may still do so, want  *)
(* the same slot; whoever is first makes it known to all.                  *)

Scheduled(key) == key \in {"schedule"} \X Slots
Going(r) == run[r].status \in Active /\ Scheduled(run[r].key)
Wants(s) == client[s].pc \in {"check", "create"} /\ ~Known(client[s].key)

SameWish == \A s, t \in Schedulers : Wants(s) /\ Wants(t) => client[s].key = client[t].key
DueWish  == flow.due => \A s \in Schedulers : Wants(s) => client[s].key = <<"schedule", flow.slot>>
NoneGoing ==
  \A s \in Schedulers : Wants(s) /\ client[s].pc = "create" => \A r \in Runs : ~Going(r)

SlotInv == edits = 0 => OneScheduledRun /\ SameWish /\ DueWish /\ NoneGoing

LEMMA SlotOneScheduled == SlotInv => OneScheduledRun
BY DEF SlotInv, OneScheduledRun

UserKeys ==
  \A u \in Users : client[u].pc \in {"check", "create"} => ~Scheduled(client[u].key)

\* Runs are created by those three; others change runs that there are.
LEMMA RunKeys ==
  ASSUME IInv, Next, NEW r \in Runs
  PROVE  \/ /\ run'[r].key = run[r].key
            /\ run[r].status = "none" => run'[r].status = "none"
         \/ \E s \in Schedulers : CreateScheduled(s)
         \/ \E u \in Users : CreateRecovery(u) \/ \E k \in Keys : Trigger(u, k)
<1> DEFINE Same == /\ run'[r].key = run[r].key
                   /\ run[r].status = "none" => run'[r].status = "none"
<1>0. /\ run \in [Runs -> Row] /\ \A q \in Runs : run[q] \in Row
      /\ \A q \in Runs : run[q].owner # Nobody \/ run[q].live => run[q].status = "RUNNING"
      /\ \A w \in Workers : wk[w].pc # "idle" => wk[w].r \in Runs
  BY DEF IInv, TypeOK, StoreTypeOK, Leases, Placed
<1>1. ASSUME NEW c \in Clients, MarkFailed(c) PROVE Same
  <2>1. CASE run' = run
    BY <2>1
  <2>2. CASE run' # run
    <3>1. run[client[c].r].status = "PENDING"
          /\ run' = [run EXCEPT ![client[c].r].status = "FAILED"]
      BY <1>1, <2>2 DEF MarkFailed
    <3> QED
      BY <1>0, <3>1 DEF Row
  <2> QED
    BY <2>1, <2>2
<1>2. ASSUME NEW q \in Runs, NEW x \in Row, run' = [run EXCEPT ![q] = x],
             run[q].status # "none", x.key = run[q].key
      PROVE  Same
  BY <1>0, <1>2
<1>3. ASSUME NEW w \in Workers, ClaimRun(w) \/ FinishRun(w) \/ Release(w) PROVE Same
  <2> DEFINE q == wk[w].r
  <2>1. q \in Runs
    BY <1>0, <1>3 DEF ClaimRun, FinishRun, Release
  <2>2. CASE run' = run
    BY <2>2
  <2>3. CASE run' # run
    <3>1. run[q].status # "none"
      BY <1>0, <1>3, <2>1, <2>3, MeOwner
         DEF ClaimRun, Claimable, FinishRun, OwnsRun, Release, IInv, TypeOK
    <3>2. ASSUME NEW status, NEW owner, NEW live,
                 run' = [run EXCEPT ![q].status = status, ![q].owner = owner, ![q].live = live]
          PROVE  Same
      <4> HIDE DEF q
      <4> QED
        BY <1>0, <2>1, <3>1, <3>2 DEF Row
    <3>3. CASE ClaimRun(w)
      <4>1. run' = [run EXCEPT ![q].status = "RUNNING", ![q].owner = Me(w), ![q].live = TRUE]
        BY <2>3, <3>3 DEF ClaimRun
      <4> QED
        BY <3>2, <4>1
    <3>4. CASE FinishRun(w)
      <4> DEFINE status == IF \A k \in StepNo : wk[w].got[k] = "COMPLETED"
                             THEN "COMPLETED" ELSE "PARTIAL"
      <4>1. run' = [run EXCEPT ![q].status = status, ![q].owner = Nobody, ![q].live = FALSE]
        BY <2>3, <3>4 DEF FinishRun
      <4> HIDE DEF status
      <4> QED
        BY <3>2, <4>1
    <3>5. CASE Release(w)
      <4> DEFINE status == IF FinalTry(w) THEN "FAILED" ELSE "PENDING"
      <4>1. run' = [run EXCEPT ![q].status = status, ![q].owner = Nobody, ![q].live = FALSE]
        BY <2>3, <3>5 DEF Release
      <4> HIDE DEF status
      <4> QED
        BY <3>2, <4>1
    <3> QED
      BY <1>3, <3>3, <3>4, <3>5
  <2> QED
    BY <2>2, <2>3
<1>4. ASSUME NEW q \in Runs, ExpireRun(q) PROVE Same
  <2>1. run' = [run EXCEPT ![q].live = FALSE] /\ run[q].status = "RUNNING"
    BY <1>0, <1>4 DEF ExpireRun
  <2> QED
    BY <1>0, <2>1 DEF Row
<1>5. ASSUME NEW c \in Clients, \/ ReadDue(c) \/ CheckDue(c) \/ AddJob(c) \/ ClientDies(c)
                              \/ \E k \in Keys, q \in Runs : CheckRecovery(c, k, q)
      PROVE  run' = run
  BY <1>5 DEF ReadDue, CheckDue, AddJob, ClientDies, CheckRecovery, storeVars
<1>6. ASSUME \/ TimeComes \/ \E status \in {"ACTIVE", "PAUSED", "ERROR"} : SetStatus(status)
             \/ \E slot \in Slots \ {0} : SetTime(slot)
      PROVE  run' = run
  BY <1>6 DEF TimeComes, SetStatus, SetTime
<1>7. ASSUME NEW w \in Workers,
             \/ Succeed(w) \/ Fail(w) \/ Settle(w) \/ StatementFails(w)
             \/ \E q \in Runs : TakeJob(w, q)
             \/ \E k \in StepNo : \/ ClaimStep(w, k) \/ FinishStep(w, k)
                                   \/ StepThrows(w, k) \/ FailStep(w, k)
      PROVE  run' = run
  BY <1>7 DEF Succeed, Fail, Settle, StatementFails, TakeJob, ClaimStep, FinishStep,
              StepThrows, FailStep, storeVars
<1>8. ASSUME \/ \E p \in Processes : WorkerDies(p)
             \/ \E q \in Runs : StallJob(q) \/ \E k \in StepNo : ExpireStep(q, k)
      PROVE  run' = run
  BY <1>8 DEF WorkerDies, StallJob, ExpireStep
<1> QED
  BY <1>1, <1>3, <1>4, <1>5, <1>6, <1>7, <1>8 DEF Next, TriggersNext, WorkerNext, Clients

LEMMA InsertKeys ==
  ASSUME IInv, NEW q \in Runs, NEW key \in Key, NEW parent, Insert(q, key, parent)
  PROVE  /\ run'[q].key = key /\ run[q].status = "none" /\ run'[q].status = "PENDING"
         /\ \A r \in Runs : r # q => run'[r] = run[r]
BY DEF Insert, IInv, TypeOK, StoreTypeOK, NoRow

\* Only a scheduler gets a scheduled run going.
LEMMA GoingNext ==
  ASSUME IInv, UserKeys, Next, NEW r \in Runs, Going(r)',
         ~ \E s \in Schedulers : CreateScheduled(s)
  PROVE  Going(r)
<1>0. Grows /\ run' \in [Runs -> Row] /\ run[r] \in Row
  BY GrowsNext, RunNext, RowsNext DEF IInv, TypeOK, StoreTypeOK
<1>1. CASE run'[r].key = run[r].key /\ (run[r].status = "none" => run'[r].status = "none")
  BY <1>0, <1>1 DEF Going, Grows, Row, Active, Ended
<1>2. ASSUME NEW q \in Runs, NEW key \in Key, NEW parent, Insert(q, key, parent), ~Scheduled(key)
      PROVE  Going(r)
  BY <1>2, InsertKeys DEF Going
<1>3. ASSUME NEW u \in Users, NEW k \in Keys, Trigger(u, k) PROVE Going(r)
  <2>1. <<"user", k>> \in Key /\ ~Scheduled(<<"user", k>>)
    BY DEF Key, Scheduled
  <2> QED
    BY <1>2, <1>3, <2>1 DEF Trigger
<1>4. ASSUME NEW u \in Users, CreateRecovery(u) PROVE Going(r)
  <2>1. client[u].key \in Key /\ ~Scheduled(client[u].key)
    BY <1>4 DEF CreateRecovery, UserKeys, IInv, TypeOK, TriggersTypeOK, Client, Clients
  <2>2. run' = run \/ \E q \in Runs : Insert(q, client[u].key, client[u].parent)
    BY <1>4 DEF CreateRecovery
  <2> QED
    BY <1>2, <2>1, <2>2 DEF Going
<1> QED
  BY <1>1, <1>3, <1>4, RunKeys
LEMMA KnownNext == ASSUME IInv, Next, NEW key, Known(key) PROVE Known(key)'
<1>0. Grows
  BY GrowsNext
<1>1. PICK r \in Runs : run[r].status # "none" /\ run[r].key = key
  BY DEF Known
<1>2. ASSUME NEW q \in Runs, NEW k, NEW parent, Insert(q, k, parent) PROVE run'[r] = run[r]
  BY <1>1, <1>2 DEF Insert, IInv, TypeOK, StoreTypeOK
<1>3. run'[r].key = run[r].key
  BY <1>2, RunKeys DEF CreateScheduled, CreateRecovery, Trigger
<1> QED
  BY <1>0, <1>1, <1>3 DEF Known, Grows

\* A scheduler comes to want a slot that is due, and looks before it creates.
LEMMA WantsNext ==
  ASSUME IInv, Next, NEW s \in Schedulers, Wants(s)'
  PROVE  \/ ReadDue(s)
         \/ /\ Wants(s) /\ client'[s].key = client[s].key
            /\ client'[s].pc = "create" /\ client[s].pc # "create" => ~Busy /\ run' = run
<1> DEFINE Goal == \/ ReadDue(s)
                   \/ /\ Wants(s) /\ client'[s].key = client[s].key
                      /\ client'[s].pc = "create" /\ client[s].pc # "create" =>
                           ~Busy /\ run' = run
<1>0. client \in [Clients -> Client] /\ s \in Clients /\ \A c \in Clients : client[c] \in Client
  BY DEF IInv, TypeOK, TriggersTypeOK, Clients
<1>1. CASE client'[s] = client[s]
  BY <1>1, KnownNext DEF Wants
<1>2. ASSUME NEW c \in Clients, NEW x, client' = [client EXCEPT ![c] = x],
             x.pc \notin {"check", "create"}
      PROVE  Goal
  BY <1>0, <1>1, <1>2 DEF Wants
<1>3. ASSUME NEW c \in Clients, Stop(c) PROVE Goal
  BY <1>2, <1>3, IdleClientOK DEF Stop
<1>4. ASSUME NEW c \in Clients, NEW pc \in {"add", "mark"}, GoTo(c, pc) PROVE Goal
  <2>1. [client[c] EXCEPT !.pc = pc].pc = pc
    BY <1>0 DEF Client
  <2> QED
    BY <1>2, <1>4, <2>1 DEF GoTo
<1>5. ASSUME NEW c \in Clients, AddJob(c) \/ MarkFailed(c) \/ ClientDies(c) PROVE Goal
  BY <1>3, <1>4, <1>5 DEF AddJob, MarkFailed, ClientDies
<1>6. ASSUME NEW c \in Clients, CheckDue(c) PROVE Goal
  <2>1. CASE Stop(c)
    BY <1>3, <2>1
  <2>2. CASE GoTo(c, "create") /\ ~Known(client[c].key) /\ ~Busy
    <3>1. run' = run /\ client[c].pc = "check"
      BY <1>6 DEF CheckDue
    <3>2. c = s => client'[s].key = client[s].key
      BY <1>0, <2>2 DEF GoTo, Client
    <3>3. c # s => client'[s] = client[s]
      BY <1>0, <2>2 DEF GoTo
    <3> QED
      BY <1>1, <2>2, <3>1, <3>2, <3>3 DEF Wants
  <2> QED
    BY <1>6, <2>1, <2>2 DEF CheckDue
<1>7. ASSUME NEW c \in Clients, CreateScheduled(c) \/ CreateRecovery(c) PROVE Goal
  <2>1. CASE Stop(c)
    BY <1>3, <2>1
  <2>2. ASSUME NEW r \in Runs, client' = [client EXCEPT ![c].pc = "add", ![c].r = r] PROVE Goal
    <3> DEFINE v == [client[c] EXCEPT !.pc = "add", !.r = r]
    <3>1. v.pc = "add"
      BY <1>0 DEF Client
    <3>2. client' = [client EXCEPT ![c] = v]
      BY <1>0, <2>2
    <3> HIDE DEF v
    <3> QED
      BY <1>2, <3>1, <3>2
  <2> QED
    BY <1>7, <2>1, <2>2 DEF CreateScheduled, CreateRecovery
<1>8. ASSUME NEW u \in Users, NEW k \in Keys, Trigger(u, k) PROVE Goal
  BY <1>2, <1>8 DEF Trigger, Clients
<1>9. ASSUME NEW u \in Users, NEW k \in Keys, NEW r \in Runs, CheckRecovery(u, k, r) PROVE Goal
  BY <1>0, <1>1, <1>9 DEF CheckRecovery
<1>10. ASSUME NEW t \in Schedulers, ReadDue(t) PROVE Goal
  BY <1>0, <1>1, <1>10 DEF ReadDue
<1>11. ASSUME \/ (WorkerNext /\ UNCHANGED client) \/ TimeComes
              \/ \E status \in {"ACTIVE", "PAUSED", "ERROR"} : SetStatus(status)
              \/ \E slot \in Slots \ {0} : SetTime(slot)
       PROVE  Goal
  BY <1>1, <1>11 DEF TimeComes, SetStatus, SetTime
<1> QED
  BY <1>5, <1>6, <1>7, <1>8, <1>9, <1>10, <1>11 DEF Next, TriggersNext, Clients
LEMMA UserKeysNext == ASSUME IInv, UserKeys, Next PROVE UserKeys'
<1> SUFFICES ASSUME NEW u \in Users, client'[u].pc \in {"check", "create"}
             PROVE  ~Scheduled(client'[u].key)
  BY DEF UserKeys, Scheduled
<1> DEFINE Goal == ~Scheduled(client'[u].key)
<1>0. client \in [Clients -> Client] /\ u \in Clients /\ \A c \in Clients : client[c] \in Client
  BY DEF IInv, TypeOK, TriggersTypeOK, Clients
<1>1. CASE client'[u] = client[u]
  BY <1>1 DEF UserKeys
<1>2. ASSUME NEW c \in Clients, NEW x, client' = [client EXCEPT ![c] = x],
             x.pc \notin {"check", "create"}
      PROVE  Goal
  BY <1>0, <1>1, <1>2
<1>3. ASSUME NEW c \in Clients, Stop(c) PROVE Goal
  BY <1>2, <1>3, IdleClientOK DEF Stop
<1>4. ASSUME NEW c \in Clients, NEW pc \in {"add", "mark"}, GoTo(c, pc) PROVE Goal
  <2>1. [client[c] EXCEPT !.pc = pc].pc = pc
    BY <1>0 DEF Client
  <2> QED
    BY <1>2, <1>4, <2>1 DEF GoTo
<1>5. ASSUME NEW c \in Clients, AddJob(c) \/ MarkFailed(c) \/ ClientDies(c) PROVE Goal
  BY <1>3, <1>4, <1>5 DEF AddJob, MarkFailed, ClientDies
<1>6. ASSUME NEW c \in Clients, CreateScheduled(c) \/ CreateRecovery(c) PROVE Goal
  <2>1. CASE Stop(c)
    BY <1>3, <2>1
  <2>2. ASSUME NEW r \in Runs, client' = [client EXCEPT ![c].pc = "add", ![c].r = r] PROVE Goal
    <3> DEFINE v == [client[c] EXCEPT !.pc = "add", !.r = r]
    <3>1. v.pc = "add"
      BY <1>0 DEF Client
    <3>2. client' = [client EXCEPT ![c] = v]
      BY <1>0, <2>2
    <3> HIDE DEF v
    <3> QED
      BY <1>2, <3>1, <3>2
  <2> QED
    BY <1>6, <2>1, <2>2 DEF CreateScheduled, CreateRecovery
<1>7. ASSUME NEW s \in Schedulers, ReadDue(s) \/ CheckDue(s) PROVE Goal
  <2>1. client'[u] = client[u]
    BY <1>0, <1>7 DEF ReadDue, CheckDue, Stop, GoTo
  <2> QED
    BY <1>1, <2>1
<1>8. ASSUME NEW v \in Users, NEW k \in Keys, Trigger(v, k) PROVE Goal
  <2>1. PICK r \in Runs :
          client' = [client EXCEPT ![v] = [pc |-> "add", key |-> <<"user", k>>, parent |-> 0,
                                           r |-> r]]
    BY <1>8 DEF Trigger
  <2>2. v \in Clients
    BY DEF Clients
  <2> QED
    BY <1>2, <2>1, <2>2
<1>9. ASSUME NEW v \in Users, NEW k \in Keys, NEW r \in Runs, CheckRecovery(v, k, r) PROVE Goal
  <2>1. CASE v = u
    <3>1. client'[u].key = <<"user", k>>
      BY <1>0, <1>9, <2>1 DEF CheckRecovery, IdleClient
    <3> QED
      BY <3>1 DEF Scheduled
  <2>2. CASE v # u
    BY <1>0, <1>1, <1>9, <2>2 DEF CheckRecovery
  <2> QED
    BY <2>1, <2>2
<1>10. ASSUME \/ (WorkerNext /\ UNCHANGED client) \/ TimeComes
              \/ \E status \in {"ACTIVE", "PAUSED", "ERROR"} : SetStatus(status)
              \/ \E slot \in Slots \ {0} : SetTime(slot)
       PROVE  Goal
  BY <1>1, <1>10 DEF TimeComes, SetStatus, SetTime
<1> QED
  BY <1>5, <1>6, <1>7, <1>8, <1>9, <1>10 DEF Next, TriggersNext, Clients

\* A slot that is due came by itself.
LEMMA DueNext ==
  ASSUME IInv, Next, flow'.due
  PROVE  TimeComes \/ (flow.due /\ flow'.slot = flow.slot)
<1>0. flow \in Flow /\ NoTime \in Flow /\ ~NoTime.due
  <2>1. flow \in Flow /\ 0 \in Slots
    BY DEF IInv, TypeOK, StoreTypeOK, Slots
  <2> QED
    BY <2>1 DEF NoTime, Flow
<1>1. CASE flow' = flow
  BY <1>1
<1>2. ASSUME NEW status, \/ flow' = [NoTime EXCEPT !.status = status] \/ flow' = NoTime
                         \/ flow' = [flow EXCEPT !.status = status]
      PROVE  flow.due /\ flow'.slot = flow.slot
  BY <1>0, <1>2 DEF Flow
<1>3. ~NewTime
  BY <1>0 DEF NewTime, Flow
<1>4. ASSUME NEW c \in Clients, CheckDue(c) \/ CreateScheduled(c) \/ CreateRecovery(c)
      PROVE  flow.due /\ flow'.slot = flow.slot
  BY <1>1, <1>2, <1>3, <1>4 DEF CheckDue, Retired, CreateScheduled, CreateRecovery
<1>5. ASSUME NEW status \in {"ACTIVE", "PAUSED", "ERROR"}, SetStatus(status)
      PROVE  flow.due /\ flow'.slot = flow.slot
  BY <1>2, <1>5 DEF SetStatus
<1>6. ASSUME NEW slot \in Slots, SetTime(slot) PROVE FALSE
  BY <1>0, <1>6 DEF SetTime, Flow
<1>7. ASSUME NEW c \in Clients, \/ ReadDue(c) \/ AddJob(c) \/ MarkFailed(c) \/ ClientDies(c)
                              \/ \E k \in Keys : \/ Trigger(c, k)
                                                \/ \E r \in Runs : CheckRecovery(c, k, r)
      PROVE  flow' = flow
  BY <1>7 DEF ReadDue, AddJob, MarkFailed, ClientDies, Trigger, CheckRecovery, storeVars
<1>8. ASSUME NEW w \in Workers, Succeed(w) PROVE flow.due /\ flow'.slot = flow.slot
  BY <1>1, <1>2, <1>8 DEF Succeed
<1>9. ASSUME NEW w \in Workers, Fail(w) PROVE flow.due /\ flow'.slot = flow.slot
  <2>1. ASSUME NEW slot, NEW last, flow' = [flow EXCEPT !.status = "ACTIVE", !.slot = slot,
                                                        !.last = last, !.due = FALSE]
        PROVE  FALSE
    BY <1>0, <2>1 DEF Flow
  <2>2. ASSUME NEW slot, flow' = [flow EXCEPT !.status = "ACTIVE", !.slot = slot, !.due = FALSE]
        PROVE  FALSE
    BY <1>0, <2>2 DEF Flow
  <2> QED
    BY <1>1, <1>2, <1>9, <2>1, <2>2 DEF Fail
<1>10. ASSUME NEW w \in Workers,
              \/ ClaimRun(w) \/ FinishRun(w) \/ Release(w) \/ Settle(w) \/ StatementFails(w)
              \/ \E r \in Runs : TakeJob(w, r)
              \/ \E k \in StepNo : \/ ClaimStep(w, k) \/ FinishStep(w, k)
                                    \/ StepThrows(w, k) \/ FailStep(w, k)
       PROVE  flow' = flow
  BY <1>10 DEF ClaimRun, FinishRun, Release, Settle, StatementFails, TakeJob, ClaimStep,
               FinishStep, StepThrows, FailStep, storeVars
<1>11. ASSUME \/ \E p \in Processes : WorkerDies(p)
              \/ \E r \in Runs : \/ StallJob(r) \/ ExpireRun(r)
                                 \/ \E k \in StepNo : ExpireStep(r, k)
       PROVE  flow' = flow
  BY <1>11 DEF WorkerDies, StallJob, ExpireRun, ExpireStep
<1> QED
  BY <1>1, <1>4, <1>5, <1>6, <1>7, <1>8, <1>9, <1>10, <1>11
     DEF Next, TriggersNext, WorkerNext, Clients

LEMMA NextSlotInv == ASSUME IInv, UserKeys, SlotInv, Next PROVE SlotInv'
<1> SUFFICES ASSUME edits' = 0 PROVE OneScheduledRun' /\ SameWish' /\ DueWish' /\ NoneGoing'
  BY DEF SlotInv
<1>0. /\ edits = 0 /\ run \in [Runs -> Row]
      /\ OneScheduledRun /\ SameWish /\ DueWish /\ NoneGoing
  BY EditsNext DEF IInv, TypeOK, StoreTypeOK, SlotInv
<1>1. ASSUME NEW s \in Schedulers, CreateScheduled(s), ~Stop(s)
      PROVE  OneScheduledRun' /\ SameWish' /\ DueWish' /\ NoneGoing'
  <2>1. PICK q \in Runs : Insert(q, client[s].key, 0)
    BY <1>1 DEF CreateScheduled
  <2>2. client[s].pc = "create" /\ Wants(s) /\ client[s].key \in Key
    BY <1>1 DEF CreateScheduled, Wants, IInv, TypeOK, TriggersTypeOK, Client, Clients
  <2>3. \A r \in Runs : ~Going(r)
    BY <1>0, <2>2 DEF NoneGoing
  <2>4. run'[q].key = client[s].key /\ run[q].status = "none" /\ run'[q].status = "PENDING"
        /\ \A r \in Runs : r # q => run'[r] = run[r]
    BY <2>1, <2>2, InsertKeys
  <2>5. ASSUME NEW t \in Schedulers, Wants(t)' PROVE FALSE
    <3>1. ~ReadDue(t)
      BY <2>4 DEF ReadDue, storeVars
    <3>2. Wants(t) /\ client'[t].key = client[t].key
      BY <2>5, <3>1, WantsNext
    <3>3. client[t].key = client[s].key
      BY <1>0, <2>2, <3>2 DEF SameWish
    <3> QED
      BY <2>4, <2>5, <3>2, <3>3 DEF Wants, Known
  <2>6. \A r \in Runs : Going(r)' => r = q
    BY <2>3, <2>4 DEF Going
  <2>7. OneScheduledRun'
    BY <2>6 DEF OneScheduledRun, Going, Scheduled
  <2> QED
    BY <2>5, <2>7 DEF SameWish, DueWish, NoneGoing
<1>2. ASSUME ~ \E s \in Schedulers : CreateScheduled(s) /\ ~Stop(s)
      PROVE  OneScheduledRun' /\ SameWish' /\ DueWish' /\ NoneGoing'
  <2>1. ASSUME NEW r \in Runs, Going(r)' PROVE Going(r)
    <3>1. CASE \E s \in Schedulers : CreateScheduled(s)
      <4>1. PICK s \in Schedulers : CreateScheduled(s)
        BY <3>1
      <4>2. Stop(s)
        BY <1>2, <4>1
      <4>3. client'[s].pc = "idle"
        BY <4>2, IdleClientOK DEF Stop, IInv, TypeOK, TriggersTypeOK, Clients
      <4>4. ASSUME NEW q, client' = [client EXCEPT ![s].pc = "add", ![s].r = q]
            PROVE  FALSE
        <5>1. client \in [Clients -> Client] /\ s \in Clients
          BY DEF IInv, TypeOK, TriggersTypeOK, Clients
        <5>2. client'[s].pc = "add"
          BY <4>4, <5>1 DEF Client
        <5> QED
          BY <4>3, <5>2
      <4>5. run' = run
        BY <4>1, <4>4 DEF CreateScheduled
      <4> QED
        BY <2>1, <4>5 DEF Going
    <3> QED
      BY <2>1, <3>1, GoingNext
  <2>2. OneScheduledRun'
    <3> SUFFICES ASSUME NEW r \in Runs, NEW q \in Runs, Going(r)', Going(q)' PROVE r = q
      BY DEF OneScheduledRun, Going, Scheduled
    <3>1. Going(r) /\ Going(q)
      BY <2>1
    <3> QED
      BY <1>0, <3>1 DEF OneScheduledRun, Going, Scheduled
  <2>3. ASSUME NEW s \in Schedulers, Wants(s)', ReadDue(s)
        PROVE  client'[s].key = <<"schedule", flow.slot>> /\ flow.due /\ client'[s].pc = "check"
               /\ flow' = flow
    BY <2>3 DEF ReadDue, IdleClient, storeVars, IInv, TypeOK, TriggersTypeOK, Clients
  <2>4. SameWish'
    <3> SUFFICES ASSUME NEW s \in Schedulers, NEW t \in Schedulers, Wants(s)', Wants(t)'
                 PROVE  client'[s].key = client'[t].key
      BY DEF SameWish
    <3> QED
      BY <1>0, <2>3, WantsNext DEF SameWish, DueWish
  <2>5. DueWish'
    <3> SUFFICES ASSUME flow'.due, NEW s \in Schedulers, Wants(s)'
                 PROVE  client'[s].key = <<"schedule", flow'.slot>>
      BY DEF DueWish
    <3>1. CASE ReadDue(s)
      BY <2>3, <3>1
    <3>2. CASE ~ReadDue(s)
      <4>1. Wants(s) /\ client'[s].key = client[s].key
        BY <3>2, WantsNext
      <4>2. ~TimeComes
        BY <1>0, <4>1 DEF TimeComes, Wants
      <4>3. flow.due /\ flow'.slot = flow.slot
        BY <4>2, DueNext
      <4> QED
        BY <1>0, <4>1, <4>3 DEF DueWish
    <3> QED
      BY <3>1, <3>2
  <2>6. NoneGoing'
    <3> SUFFICES ASSUME NEW s \in Schedulers, Wants(s)', client'[s].pc = "create",
                        NEW r \in Runs, Going(r)'
                 PROVE  FALSE
      BY DEF NoneGoing
    <3>1. ~ReadDue(s)
      BY <2>3
    <3>2. /\ Wants(s)
          /\ client[s].pc # "create" => ~Busy /\ run' = run
      BY <3>1, WantsNext
    <3>3. Going(r)
      BY <2>1
    <3> QED
      BY <1>0, <3>2, <3>3 DEF NoneGoing, Going, Busy
  <2> QED
    BY <2>2, <2>4, <2>5, <2>6
<1> QED
  BY <1>1, <1>2

LEMMA InitSlotInv == Init => UserKeys /\ SlotInv
<1> SUFFICES ASSUME Init PROVE UserKeys /\ SlotInv
  OBVIOUS
<1>1. /\ \A c \in Clients : client[c].pc = "idle"
      /\ \A r \in Runs : run[r].status = "none"
  BY DEF Init, TriggersInit, StoreInit, IdleClient, NoRow
<1> QED
  BY <1>1 DEF UserKeys, SlotInv, OneScheduledRun, SameWish, DueWish, NoneGoing, Wants, Going,
              Active, Clients

LEMMA StutterSlotInv ==
  ASSUME UserKeys, SlotInv, UNCHANGED vars PROVE UserKeys' /\ SlotInv'
BY DEF UserKeys, SlotInv, OneScheduledRun, SameWish, DueWish, NoneGoing, Wants, Known, Going,
       Scheduled, vars, storeVars

\* As long as no user updates the flow (and ensureConnectedStoreOperatorFlows,
\* which is not modelled, gives it no time), the schedulers of any number of
\* replicas keep at most one run of it going, although enqueueDueFlows looks and
\* creates without a lock.
THEOREM OneScheduledRunAtATime == Spec => []OneScheduledRun
<1>1. UserKeys /\ SlotInv /\ IInv /\ [Next]_vars => (UserKeys /\ SlotInv)'
  BY UserKeysNext, NextSlotInv, StutterSlotInv
<1>2. Spec => [](UserKeys /\ SlotInv)
  BY InitSlotInv, <1>1, AutomationsInvariant, PTL DEF Spec
<1>3. UserKeys /\ SlotInv => OneScheduledRun
  BY SlotOneScheduled
<1> QED
  BY <1>2, <1>3, PTL
=============================================================================
