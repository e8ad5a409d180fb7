------------------------- MODULE AutomationsSafety -------------------------
(***************************************************************************)
(* More proofs about Automations, from the invariants of AutomationsProofs: *)
(* what the ledger says of a run, and what becomes of runs and jobs while  *)
(* certain faults do not happen.                                           *)
(*                                                                         *)
(* WorkerStep collects what one worker does; it touches its own slot, its  *)
(* run and its job only, which keeps the invariants of all other workers.  *)
(***************************************************************************)
EXTENDS AutomationsProofs

USE AutomationAssumption

WorkerStep(w) ==
  \/ ClaimRun(w) \/ FinishRun(w) \/ Succeed(w) \/ Release(w) \/ Fail(w)
  \/ Settle(w) \/ StatementFails(w) \/ \E r \in Runs : TakeJob(w, r)
  \/ \E k \in StepNo : \/ ClaimStep(w, k) \/ FinishStep(w, k)
                        \/ StepThrows(w, k) \/ FailStep(w, k)

LEMMA NextCases ==
  ASSUME Next
  PROVE  \/ TriggersNext /\ wk' = wk /\ dead' = dead
         \/ /\ client' = client
            /\ \/ \E w \in Workers : WorkerStep(w)
               \/ \E p \in Processes : WorkerDies(p)
               \/ \E r \in Runs : \/ StallJob(r) \/ ExpireRun(r)
                                  \/ \E k \in StepNo : ExpireStep(r, k)
BY DEF Next, WorkerNext, WorkerStep, workerVars

LEMMA Facts ==
  ASSUME IInv
  PROVE  /\ wk \in [Workers -> Worker] /\ \A w \in Workers : wk[w] \in Worker
         /\ \A w \in Workers : wk[w].pc # "idle" => wk[w].r \in Runs
         /\ run \in [Runs -> Row] /\ \A r \in Runs : run[r] \in Row
         /\ job \in [Runs -> Job] /\ \A r \in Runs : job[r] \in Job
         /\ step \in [Runs -> [StepNo -> StepRow]]
BY DEF IInv, TypeOK, StoreTypeOK, WorkerTypeOK, Placed

\* Where a worker goes, and what it takes along.
LEMMA GotoIs ==
  ASSUME IInv, NEW w \in Workers, NEW pc, Goto(w, pc)
  PROVE  /\ \A v \in Workers \ {w} : wk'[v] = wk[v]
         /\ wk'[w].pc = pc /\ wk'[w].r = wk[w].r /\ wk'[w].made = wk[w].made
         /\ wk'[w].got = wk[w].got /\ wk'[w].out = wk[w].out
<1>1. wk \in [Workers -> Worker] /\ wk[w] \in Worker
  BY Facts
<1> QED
  BY <1>1 DEF Goto, Worker

LEMMA LeaveIs ==
  ASSUME IInv, NEW w \in Workers, NEW pc, Leave(w, pc)
  PROVE  /\ \A v \in Workers \ {w} : wk'[v] = wk[v]
         /\ wk'[w].pc = pc /\ wk'[w].r = wk[w].r /\ wk'[w].made = wk[w].made
         /\ \A k \in StepNo : wk'[w].got[k] = "none"
<1>1. wk \in [Workers -> Worker] /\ wk[w] \in Worker
  BY Facts
<1> DEFINE got == IdleWorker.got
<1>2. wk' = [wk EXCEPT ![w].pc = pc, ![w].got = got]
  BY DEF Leave
<1>3. \A k \in StepNo : got[k] = "none"
  BY DEF IdleWorker
<1> HIDE DEF got
<1> QED
  BY <1>1, <1>2, <1>3 DEF Worker

LEMMA EndIs ==
  ASSUME IInv, NEW w \in Workers, NEW out, End(w, out)
  PROVE  /\ \A v \in Workers \ {w} : wk'[v] = wk[v]
         /\ wk'[w].pc = "settle" /\ wk'[w].r = wk[w].r /\ wk'[w].out = out
         /\ \A k \in StepNo : wk'[w].got[k] = "none"
<1>1. wk \in [Workers -> Worker]
  BY Facts
<1> DEFINE r == wk[w].r
           x == [IdleWorker EXCEPT !.pc = "settle", !.r = r, !.out = out]
<1>2. wk' = [wk EXCEPT ![w] = x]
  BY DEF End
<1> HIDE DEF r
<1>3. x.pc = "settle" /\ x.r = r /\ x.out = out /\ \A k \in StepNo : x.got[k] = "none"
  BY DEF IdleWorker
<1> HIDE DEF x
<1> QED
  BY <1>1, <1>2, <1>3 DEF r

LEMMA SettleIs ==
  ASSUME IInv, NEW w \in Workers, wk' = [wk EXCEPT ![w] = IdleWorker]
  PROVE  /\ \A v \in Workers \ {w} : wk'[v] = wk[v]
         /\ wk'[w].pc = "idle" /\ \A k \in StepNo : wk'[w].got[k] = "none"
BY Facts DEF IdleWorker

LEMMA TakeIs ==
  ASSUME IInv, NEW w \in Workers, NEW r \in Runs, TakeJob(w, r)
  PROVE  /\ \A v \in Workers \ {w} : wk'[v] = wk[v]
         /\ wk'[w].pc = "claim" /\ wk'[w].r = r /\ wk'[w].made = job[r].made
         /\ \A k \in StepNo : wk'[w].got[k] = "none"
<1> DEFINE x == [IdleWorker EXCEPT !.pc = "claim", !.r = r, !.made = job[r].made,
                                   !.seen = flow.slot]
<1>1. wk' = [wk EXCEPT ![w] = x]
  BY DEF TakeJob
<1>2. x.pc = "claim" /\ x.r = r /\ x.made = job[r].made /\ \A k \in StepNo : x.got[k] = "none"
  BY DEF IdleWorker
<1> HIDE DEF x
<1> QED
  BY <1>1, <1>2, Facts

LEMMA ClaimIs ==
  ASSUME IInv, NEW w \in Workers, ClaimRun(w), Claimable(wk[w].r)
  PROVE  /\ \A v \in Workers \ {w} : wk'[v] = wk[v]
         /\ wk'[w].pc = "step" /\ wk'[w].r = wk[w].r /\ wk'[w].made = wk[w].made
         /\ \A k \in StepNo : wk'[w].got[k] = Loaded(wk[w].r)[k]
<1>1. wk \in [Workers -> Worker] /\ wk[w] \in Worker
  BY Facts
<1> DEFINE got == Loaded(wk[w].r)
<1>2. wk' = [wk EXCEPT ![w].pc = "step", ![w].got = got]
  BY DEF ClaimRun
<1> HIDE DEF got
<1>3. wk'[w].got = got
  BY <1>1, <1>2 DEF Worker
<1> QED
  BY <1>1, <1>2, <1>3 DEF Worker, got

Enter(w, k, result) == wk' = [wk EXCEPT ![w].pc = "step", ![w].got[k] = result]

LEMMA FinishIs ==
  ASSUME IInv, NEW w \in Workers, NEW k \in StepNo, NEW result, Enter(w, k, result)
  PROVE  /\ \A v \in Workers \ {w} : wk'[v] = wk[v]
         /\ wk'[w].pc = "step" /\ wk'[w].r = wk[w].r /\ wk'[w].made = wk[w].made
         /\ \A j \in StepNo : wk'[w].got[j] = IF j = k THEN result ELSE wk[w].got[j]
<1>1. wk \in [Workers -> Worker] /\ wk[w] \in Worker
  BY Facts
<1> DEFINE got == [wk[w].got EXCEPT ![k] = result]
<1>2. wk' = [wk EXCEPT ![w].pc = "step", ![w].got = got]
  BY <1>1 DEF Worker, Enter
<1>3. \A j \in StepNo : got[j] = IF j = k THEN result ELSE wk[w].got[j]
  BY <1>1 DEF Worker
<1> HIDE DEF got
<1> QED
  BY <1>1, <1>2, <1>3 DEF Worker

-----------------------------------------------------------------------------
(* What the ledger says.                                                   *)
(*                                                                         *)
(* A worker's results are those of the ledger, where they stay, whoever    *)
(* wrote them; so a run ends as the ledger says.                           *)

Remembers == \A w \in Workers, k \in StepNo : wk[w].got[k] # "none" =>
               wk[w].pc # "idle" /\ step[wk[w].r][k].status = wk[w].got[k]

LedgerInv == IInv /\ Remembers /\ LedgerDecides

\* A result that a worker has was in the ledger, or is entered with this step.
LEMMA GotNext ==
  ASSUME IInv, Remembers, Next, NEW w \in Workers, NEW k \in StepNo, wk'[w].got[k] # "none"
  PROVE  /\ wk'[w].pc # "idle"
         /\ \/ step'[wk'[w].r][k].status = wk'[w].got[k]
            \/ /\ step[wk'[w].r][k].status \in {"COMPLETED", "BLOCKED"}
               /\ wk'[w].r \in Runs /\ wk'[w].got[k] = step[wk'[w].r][k].status
<1> DEFINE Got == /\ wk'[w].pc # "idle"
                  /\ \/ step'[wk'[w].r][k].status = wk'[w].got[k]
                     \/ /\ step[wk'[w].r][k].status \in {"COMPLETED", "BLOCKED"}
                        /\ wk'[w].r \in Runs /\ wk'[w].got[k] = step[wk'[w].r][k].status
<1>0. /\ \A v \in Workers : wk[v] \in Worker /\ (wk[v].pc # "idle" => wk[v].r \in Runs)
      /\ wk[w].got[k] \in {"none", "COMPLETED", "BLOCKED"}
  BY Facts DEF Worker
<1>1. ASSUME wk'[w].got[k] = wk[w].got[k], wk'[w].r = wk[w].r, wk'[w].pc # "idle"
      PROVE  Got
  <2>1. wk[w].pc # "idle" /\ step[wk[w].r][k].status = wk[w].got[k]
    BY <1>1 DEF Remembers
  <2> QED
    BY <1>0, <1>1, <2>1
<1>2. ASSUME wk'[w] = wk[w] PROVE Got
  BY <1>1, <1>2 DEF Remembers
<1>3. ASSUME NEW v \in Workers, NEW pc, pc # "idle", Goto(v, pc) \/ Leave(v, pc) PROVE Got
  BY <1>1, <1>2, <1>3, GotoIs, LeaveIs
<1>4. ASSUME NEW v \in Workers, NEW out, End(v, out) PROVE Got
  BY <1>2, <1>4, EndIs
<1>5. ASSUME NEW v \in Workers, NEW r \in Runs, TakeJob(v, r) PROVE Got
  BY <1>2, <1>5, TakeIs
<1>6. ASSUME NEW v \in Workers, ClaimRun(v) PROVE Got
  <2>1. CASE Claimable(wk[v].r)
    <3>1. wk[v].r \in Runs
      BY <1>0, <1>6 DEF ClaimRun
    <3>2. \A q \in Runs : Loaded(q)[k] = IF step[q][k].status \in {"COMPLETED", "BLOCKED"}
                                           THEN step[q][k].status ELSE "none"
      BY DEF Loaded
    <3> QED
      BY <1>2, <1>6, <2>1, <3>1, <3>2, ClaimIs
  <2> QED
    BY <1>4, <1>6, <2>1 DEF ClaimRun
<1>7. ASSUME NEW v \in Workers, NEW j \in StepNo, FinishStep(v, j) PROVE Got
  <2>1. ASSUME NEW result \in {"COMPLETED", "BLOCKED"},
               step' = [step EXCEPT ![wk[v].r][j] = [NoStep EXCEPT !.status = result]],
               Enter(v, j, result)
        PROVE  Got
    <3>1. wk[v].r \in Runs
      BY <1>0, <1>7 DEF FinishStep
    <3> DEFINE x == [NoStep EXCEPT !.status = result]
    <3>2. x.status = result
      BY DEF NoStep
    <3>3. step' = [step EXCEPT ![wk[v].r][j] = x]
      BY <2>1
    <3> HIDE DEF x
    <3>4. step'[wk[v].r][j].status = result
      BY <3>1, <3>2, <3>3, Facts
    <3> HIDE DEF Got
    <3>8. /\ \A u \in Workers \ {v} : wk'[u] = wk[u]
          /\ wk'[v].pc = "step" /\ wk'[v].r = wk[v].r
          /\ \A i \in StepNo : wk'[v].got[i] = IF i = j THEN result ELSE wk[v].got[i]
      BY <2>1, FinishIs
    <3>5. CASE v # w
      BY <1>2, <3>5, <3>8
    <3>6. CASE v = w /\ j = k
      <4>1. wk'[w].pc = "step" /\ wk'[w].r = wk[v].r /\ wk'[w].got[k] = result
        BY <3>6, <3>8
      <4> QED
        BY <3>4, <3>6, <4>1 DEF Got
    <3>7. CASE v = w /\ j # k
      <4>1. wk'[w].pc = "step" /\ wk'[w].r = wk[w].r /\ wk'[w].got[k] = wk[w].got[k]
        BY <3>7, <3>8
      <4> QED
        BY <1>1, <4>1
    <3> QED
      BY <3>5, <3>6, <3>7
  <2> QED
    BY <1>3, <1>7, <2>1 DEF FinishStep, Enter
<1>8. ASSUME NEW v \in Workers, \/ FinishRun(v) \/ Succeed(v) \/ Release(v) \/ Fail(v)
                               \/ StatementFails(v)
                               \/ \E j \in StepNo : \/ ClaimStep(v, j) \/ StepThrows(v, j)
                                                     \/ FailStep(v, j)
      PROVE  Got
  BY <1>3, <1>4, <1>8 DEF FinishRun, Succeed, Release, Fail, StatementFails, ClaimStep,
                          StepThrows, FailStep
<1>9. ASSUME NEW v \in Workers, Settle(v) PROVE Got
  <2>1. wk' = [wk EXCEPT ![v] = IdleWorker]
    BY <1>9 DEF Settle
  <2> QED
    BY <1>2, <2>1, SettleIs
<1>10. ASSUME NEW p \in Processes, WorkerDies(p) PROVE Got
  <2>1. wk'[w] = wk[w] \/ wk'[w] = IdleWorker
    BY <1>10 DEF WorkerDies
  <2> QED
    BY <1>2, <2>1 DEF IdleWorker
<1>11. ASSUME wk' = wk PROVE Got
  BY <1>2, <1>11
<1>12. ASSUME NEW r \in Runs, StallJob(r) \/ ExpireRun(r) \/ \E j \in StepNo : ExpireStep(r, j)
       PROVE  wk' = wk
  BY <1>12 DEF StallJob, ExpireRun, ExpireStep
<1> HIDE DEF Got
<1> QED
  <2>1. ASSUME NEW v \in Workers, WorkerStep(v) PROVE Got
    BY <1>5, <1>6, <1>7, <1>8, <1>9, <2>1 DEF WorkerStep
  <2>2. Got
    BY <1>10, <1>11, <1>12, <2>1, NextCases
  <2> QED
    BY <2>2 DEF Got

\* A client ends a run that is PENDING, a worker its own; only finishRun ends
\* one with COMPLETED or PARTIAL.
LEMMA EndsNext ==
  ASSUME IInv, Next, NEW r \in Runs, run'[r].status # run[r].status, run'[r].status \in Ended
  PROVE  \/ run[r].status = "PENDING" /\ run'[r].status = "FAILED"
         \/ \E w \in Workers : FinishRun(w) /\ OwnsRun(w) /\ wk[w].r = r
         \/ \E w \in Workers : Release(w) /\ wk[w].r = r /\ run'[r].status = "FAILED"
<1> DEFINE Ends == \/ run[r].status = "PENDING" /\ run'[r].status = "FAILED"
                   \/ \E w \in Workers : FinishRun(w) /\ OwnsRun(w) /\ wk[w].r = r
                   \/ \E w \in Workers : /\ Release(w) /\ wk[w].r = r
                                         /\ run'[r].status = "FAILED"
<1>0. /\ run \in [Runs -> Row] /\ \A q \in Runs : run[q] \in Row
      /\ \A w \in Workers : wk[w].pc # "idle" => wk[w].r \in Runs
  BY Facts
<1>1. ASSUME NEW q \in Runs, NEW key, NEW parent, Insert(q, key, parent) PROVE FALSE
  <2>1. run'[r] = run[r] \/ run'[r].status = "PENDING"
    BY <1>0, <1>1 DEF Insert, NoRow
  <2> QED
    BY <2>1 DEF Ended
<1>2. ASSUME NEW c \in Clients, MarkFailed(c) PROVE Ends
  <2>1. client[c].r \in Runs
    BY <1>2 DEF MarkFailed, IInv, Creators
  <2> QED
    BY <1>0, <1>2, <2>1 DEF MarkFailed, Row
<1>3. ASSUME TriggersNext PROVE Ends
  BY <1>1, <1>2, <1>3 DEF TriggersNext, TimeComes, ReadDue, CheckDue, CreateScheduled,
     CreateRecovery, Trigger, CheckRecovery, AddJob, ClientDies, SetStatus, SetTime,
     storeVars, Clients
<1>4. ASSUME NEW w \in Workers, ClaimRun(w) PROVE FALSE
  <2>1. wk[w].r \in Runs
    BY <1>0, <1>4 DEF ClaimRun
  <2>2. run'[r] = run[r] \/ run'[r].status = "RUNNING"
    BY <1>0, <1>4, <2>1 DEF ClaimRun, Row
  <2> QED
    BY <2>2 DEF Ended
<1>5. ASSUME NEW w \in Workers, FinishRun(w) PROVE Ends
  <2>1. wk[w].r \in Runs
    BY <1>0, <1>5 DEF FinishRun
  <2>2. OwnsRun(w) /\ wk[w].r = r
    BY <1>0, <1>5, <2>1 DEF FinishRun
  <2> QED
    BY <1>5, <2>2
<1>6. ASSUME NEW w \in Workers, Release(w) PROVE Ends
  <2>1. wk[w].r \in Runs
    BY <1>0, <1>6 DEF Release
  <2> DEFINE status == IF FinalTry(w) THEN "FAILED" ELSE "PENDING"
  <2>2. \/ run' = run
        \/ run' = [run EXCEPT ![wk[w].r].status = status, ![wk[w].r].owner = Nobody,
                              ![wk[w].r].live = FALSE]
    BY <1>6 DEF Release
  <2>3. status \in {"FAILED", "PENDING"}
    OBVIOUS
  <2> HIDE DEF status
  <2>4. run'[r] = run[r] \/ (run'[r].status = status /\ wk[w].r = r)
    BY <1>0, <2>1, <2>2 DEF Row
  <2> QED
    BY <1>6, <2>3, <2>4 DEF Ended
<1>7. ASSUME NEW w \in Workers, \/ Succeed(w) \/ Fail(w) \/ Settle(w) \/ StatementFails(w)
                               \/ \E q \in Runs : TakeJob(w, q)
                               \/ \E k \in StepNo : \/ ClaimStep(w, k) \/ FinishStep(w, k)
                                                     \/ StepThrows(w, k) \/ FailStep(w, k)
      PROVE  FALSE
  BY <1>7 DEF Succeed, Fail, Settle, StatementFails, TakeJob, ClaimStep, FinishStep,
              StepThrows, FailStep, storeVars
<1>8. ASSUME NEW q \in Runs, ExpireRun(q) PROVE FALSE
  <2>1. run'[r].status = run[r].status
    BY <1>0, <1>8 DEF ExpireRun, Row
  <2> QED
    BY <2>1
<1>9. ASSUME \/ \E p \in Processes : WorkerDies(p)
             \/ \E q \in Runs : StallJob(q) \/ \E k \in StepNo : ExpireStep(q, k)
      PROVE  FALSE
  BY <1>9 DEF WorkerDies, StallJob, ExpireStep
<1> HIDE DEF Ends
<1>10. Ends
  BY <1>3, <1>4, <1>5, <1>6, <1>7, <1>8, <1>9, NextCases DEF WorkerStep
<1> QED
  BY <1>10 DEF Ends

\* Only finishStep completes a step, and not one that is blocked.
LEMMA CompletesNext ==
  ASSUME IInv, Next, NEW r \in Runs, NEW k \in StepNo,
         step[r][k].status # "COMPLETED", step'[r][k].status = "COMPLETED"
  PROVE  \E w \in Workers : FinishStep(w, k) /\ ~Blocked(w, k) /\ wk[w].r = r
<1> DEFINE Completes == \E w \in Workers : FinishStep(w, k) /\ ~Blocked(w, k) /\ wk[w].r = r
<1>0. /\ step \in [Runs -> [StepNo -> StepRow]] /\ step[r][k] \in StepRow
      /\ \A w \in Workers : wk[w].pc # "idle" => wk[w].r \in Runs
  BY Facts
<1>1. ASSUME NEW q \in Runs, NEW j \in StepNo, NEW x, x.status # "COMPLETED",
             step' = [step EXCEPT ![q][j] = x]
      PROVE  FALSE
  <2>1. step'[r][k] = IF q = r /\ j = k THEN x ELSE step[r][k]
    BY <1>0, <1>1
  <2> QED
    BY <1>1, <2>1
<1>2. ASSUME NEW w \in Workers, NEW j \in StepNo, ClaimStep(w, j) PROVE FALSE
  <2> DEFINE x == [status |-> "RUNNING", owner |-> Me(w), live |-> TRUE]
  <2>1. wk[w].r \in Runs /\ (step' = step \/ step' = [step EXCEPT ![wk[w].r][j] = x])
    BY <1>0, <1>2 DEF ClaimStep
  <2>2. x.status # "COMPLETED"
    OBVIOUS
  <2> HIDE DEF x
  <2> QED
    BY <1>1, <2>1, <2>2
<1>3. ASSUME NEW w \in Workers, NEW j \in StepNo, FinishStep(w, j) PROVE Completes
  <2> DEFINE x(result) == [NoStep EXCEPT !.status = result]
  <2>1. wk[w].r \in Runs
    BY <1>0, <1>3 DEF FinishStep
  <2>2. PICK result \in IF Blocked(w, j) THEN {"BLOCKED"} ELSE {"COMPLETED", "BLOCKED"} :
          step' = step \/ step' = [step EXCEPT ![wk[w].r][j] = x(result)]
    BY <1>3 DEF FinishStep
  <2>3. x(result).status = result
    BY DEF NoStep
  <2> HIDE DEF x
  <2>4. result = "COMPLETED" /\ wk[w].r = r /\ j = k
    <3>1. step' = [step EXCEPT ![wk[w].r][j] = x(result)]
      BY <2>2
    <3>2. step'[r][k] = IF wk[w].r = r /\ j = k THEN x(result) ELSE step[r][k]
      BY <1>0, <2>1, <3>1
    <3> QED
      BY <2>3, <3>2
  <2> QED
    BY <1>3, <2>2, <2>4
<1>4. ASSUME NEW w \in Workers, NEW j \in StepNo, FailStep(w, j) PROVE FALSE
  <2> DEFINE x == [NoStep EXCEPT !.status = "FAILED"]
  <2>1. wk[w].r \in Runs /\ (step' = step \/ step' = [step EXCEPT ![wk[w].r][j] = x])
    BY <1>0, <1>4 DEF FailStep
  <2>2. x.status # "COMPLETED"
    BY DEF NoStep
  <2> HIDE DEF x
  <2> QED
    BY <1>1, <2>1, <2>2
<1>5. ASSUME NEW q \in Runs, NEW j \in StepNo, ExpireStep(q, j) PROVE FALSE
  <2> DEFINE x == [step[q][j] EXCEPT !.live = FALSE]
  <2>1. step' = [step EXCEPT ![q][j] = x]
    BY <1>5 DEF ExpireStep
  <2>2. step[q][j] \in StepRow
    BY <1>0
  <2>3. x.status = step[q][j].status
    BY <2>2 DEF StepRow
  <2> HIDE DEF x
  <2>4. step'[r][k].status = step[r][k].status
    BY <1>0, <2>1, <2>3
  <2> QED
    BY <2>4
<1>6. ASSUME TriggersNext PROVE FALSE
  BY <1>6 DEF TriggersNext, TimeComes, ReadDue, CheckDue, CreateScheduled, CreateRecovery,
              Trigger, CheckRecovery, AddJob, MarkFailed, ClientDies, SetStatus, SetTime,
              storeVars
<1>7. ASSUME NEW w \in Workers,
             \/ ClaimRun(w) \/ FinishRun(w) \/ Succeed(w) \/ Release(w) \/ Fail(w)
             \/ Settle(w) \/ StatementFails(w) \/ \E q \in Runs : TakeJob(w, q)
             \/ \E j \in StepNo : StepThrows(w, j)
      PROVE  FALSE
  BY <1>7 DEF ClaimRun, FinishRun, Succeed, Release, Fail, Settle, StatementFails, TakeJob,
              StepThrows, storeVars
<1>8. ASSUME (\E p \in Processes : WorkerDies(p)) \/ \E q \in Runs : StallJob(q) \/ ExpireRun(q)
      PROVE  FALSE
  BY <1>8 DEF WorkerDies, StallJob, ExpireRun
<1> HIDE DEF Completes
<1>9. Completes
  BY <1>2, <1>3, <1>4, <1>5, <1>6, <1>7, <1>8, NextCases DEF WorkerStep
<1> QED
  BY <1>9 DEF Completes

LEMMA RemembersNext == ASSUME IInv, Remembers, Next PROVE Remembers'
<1> SUFFICES ASSUME NEW w \in Workers, NEW k \in StepNo, wk'[w].got[k] # "none"
             PROVE  wk'[w].pc # "idle" /\ step'[wk'[w].r][k].status = wk'[w].got[k]
  BY DEF Remembers
<1>1. \A q \in Runs, j \in StepNo :
        step[q][j].status \in {"COMPLETED", "BLOCKED"} => step'[q][j] = step[q][j]
  BY StepNext, StepsNext
<1> QED
  BY <1>1, GotNext

LEMMA NextLedger == ASSUME LedgerInv, Next PROVE LedgerInv'
<1>0. /\ IInv /\ Remembers /\ LedgerDecides /\ IInv'
      /\ \A w \in Workers : wk[w] \in Worker
      /\ \A q \in Runs, j \in StepNo :
           step[q][j].status \in {"COMPLETED", "BLOCKED"} => step'[q][j] = step[q][j]
  BY Facts, NextIInv, StepNext, StepsNext DEF LedgerInv
<1>1. ASSUME NEW r \in Runs, run'[r].status \in {"COMPLETED", "PARTIAL"},
             run'[r].status # run[r].status
      PROVE  \A k \in StepNo :
               /\ step[r][k].status \in {"COMPLETED", "BLOCKED"}
               /\ run'[r].status = "COMPLETED" <=> \A j \in StepNo : step[r][j].status = "COMPLETED"
  <2>1. PICK w \in Workers : FinishRun(w) /\ OwnsRun(w) /\ wk[w].r = r
    BY <1>0, <1>1, EndsNext DEF Ended
  <2> DEFINE all == \A k \in StepNo : wk[w].got[k] = "COMPLETED"
             status == IF all THEN "COMPLETED" ELSE "PARTIAL"
  <2>2. /\ AllRun(w)
        /\ run' = [run EXCEPT ![r].status = status, ![r].owner = Nobody, ![r].live = FALSE]
    BY <2>1 DEF FinishRun
  <2>3. \A k \in StepNo : step[r][k].status = wk[w].got[k]
    BY <1>0, <2>1, <2>2 DEF AllRun, Remembers
  <2>4. \A k \in StepNo : wk[w].got[k] \in {"none", "COMPLETED", "BLOCKED"}
    BY <1>0 DEF Worker
  <2> HIDE DEF status
  <2>5. run'[r].status = status
    BY <1>0, <2>2, Facts DEF Row
  <2>6. all <=> \A j \in StepNo : step[r][j].status = "COMPLETED"
    BY <2>3
  <2>7. \A k \in StepNo : step[r][k].status \in {"COMPLETED", "BLOCKED"}
    BY <2>2, <2>3, <2>4 DEF AllRun
  <2> HIDE DEF all
  <2> QED
    BY <2>5, <2>6, <2>7 DEF status
<1>2. \A r \in Runs : run'[r].status \in {"COMPLETED", "PARTIAL"} =>
        /\ \A k \in StepNo : step[r][k].status \in {"COMPLETED", "BLOCKED"}
        /\ run'[r].status = "COMPLETED" => \A k \in StepNo : step[r][k].status = "COMPLETED"
        /\ run'[r].status = "PARTIAL" => \E k \in StepNo : step[r][k].status = "BLOCKED"
  <2> SUFFICES ASSUME NEW r \in Runs, run'[r].status \in {"COMPLETED", "PARTIAL"}
               PROVE  /\ \A k \in StepNo : step[r][k].status \in {"COMPLETED", "BLOCKED"}
                      /\ run'[r].status = "COMPLETED" =>
                           \A k \in StepNo : step[r][k].status = "COMPLETED"
                      /\ run'[r].status = "PARTIAL" =>
                           \E k \in StepNo : step[r][k].status = "BLOCKED"
    OBVIOUS
  <2>1. CASE run'[r].status = run[r].status
    BY <1>0, <2>1 DEF LedgerDecides
  <2>2. CASE run'[r].status # run[r].status
    <3>1. 1 \in StepNo
      BY DEF StepNo
    <3> QED
      BY <1>1, <2>2, <3>1
  <2> QED
    BY <2>1, <2>2
<1>3. \A r \in Runs, k \in StepNo \ {1} :
        step'[r][k].status = "COMPLETED" => step'[r][k - 1].status = "COMPLETED"
  <2> SUFFICES ASSUME NEW r \in Runs, NEW k \in StepNo \ {1}, step'[r][k].status = "COMPLETED"
               PROVE  step'[r][k - 1].status = "COMPLETED"
    OBVIOUS
  <2>1. k - 1 \in StepNo /\ k > 1
    BY DEF StepNo
  <2>2. step[r][k - 1].status = "COMPLETED"
    <3>1. CASE step[r][k].status = "COMPLETED"
      BY <1>0, <3>1 DEF LedgerDecides
    <3>2. CASE step[r][k].status # "COMPLETED"
      <4>1. PICK w \in Workers : FinishStep(w, k) /\ ~Blocked(w, k) /\ wk[w].r = r
        BY <1>0, <3>2, CompletesNext
      <4> QED
        BY <1>0, <2>1, <4>1 DEF Blocked, Remembers
    <3> QED
      BY <3>1, <3>2
  <2> QED
    BY <1>0, <2>1, <2>2
<1>4. LedgerDecides'
  BY <1>0, <1>2, <1>3 DEF LedgerDecides
<1> QED
  BY <1>0, <1>4, RemembersNext DEF LedgerInv

\* Whichever worker of whichever delivery ended it, also when leases are
\* overrun, a run ended as the ledger says; and no step was completed without
\* the one before it.
THEOREM LedgerDecidesEveryRun == Spec => []LedgerDecides
<1>1. Init => LedgerInv
  <2>1. ASSUME Init PROVE Remembers /\ LedgerDecides
    BY <2>1 DEF Init, StoreInit, WorkerInit, Remembers, LedgerDecides, IdleWorker, NoRow, NoStep
  <2> QED
    BY <2>1, InitIInv DEF LedgerInv
<1>2. LedgerInv /\ [Next]_vars => LedgerInv'
  <2>1. ASSUME LedgerInv, UNCHANGED vars PROVE LedgerInv'
    BY <2>1, StutterIInv DEF LedgerInv, Remembers, LedgerDecides, vars, storeVars, workerVars
  <2> QED
    BY <2>1, NextLedger
<1>3. LedgerInv => LedgerDecides
  BY DEF LedgerInv
<1> QED
  BY <1>1, <1>2, <1>3, PTL DEF Spec
-----------------------------------------------------------------------------
(* The job of a worker.                                                    *)
(*                                                                         *)
(* Unless BullMQ takes a job away from a worker that still runs, a worker  *)
(* holds the job it works on, and knows how many tries were made.          *)

WorkHeld ==
  "stall" \notin faults => \A w \in Workers : wk[w].pc # "idle" =>
    Holds(w) /\ (wk[w].pc # "settle" => wk[w].made = job[wk[w].r].made)

\* What a worker does to its slot and to its job.
LEMMA OwnMove ==
  ASSUME IInv, NEW w \in Workers, WorkerStep(w)
  PROVE  /\ \A v \in Workers \ {w} : wk'[v] = wk[v]
         /\ \/ \E r \in Runs : TakeJob(w, r)
            \/ Settle(w)
            \/ /\ wk[w].pc # "idle" /\ wk'[w].pc \notin {"idle", "claim"}
               /\ wk'[w].r = wk[w].r /\ job' = job
               /\ wk'[w].pc # "settle" => wk'[w].made = wk[w].made
<1> DEFINE Moves == /\ \A v \in Workers \ {w} : wk'[v] = wk[v]
                    /\ \/ \E r \in Runs : TakeJob(w, r)
                       \/ Settle(w)
                       \/ /\ wk[w].pc # "idle" /\ wk'[w].pc \notin {"idle", "claim"}
                          /\ wk'[w].r = wk[w].r /\ job' = job
                          /\ wk'[w].pc # "settle" => wk'[w].made = wk[w].made
<1>1. ASSUME wk[w].pc # "idle", job' = job,
             \/ \E pc \in Places : Goto(w, pc) \/ Leave(w, pc)
             \/ \E out \in {"completed", "failed"} : End(w, out)
      PROVE  Moves
  BY <1>1, GotoIs, LeaveIs, EndIs DEF Places
<1>2. ASSUME \/ FinishRun(w) \/ Succeed(w) \/ Release(w) \/ Fail(w) \/ StatementFails(w)
             \/ \E k \in StepNo : ClaimStep(w, k) \/ StepThrows(w, k) \/ FailStep(w, k)
      PROVE  Moves
  <2>1. wk[w].pc # "idle" /\ job' = job
    BY <1>2 DEF FinishRun, Succeed, Release, Fail, StatementFails, ClaimStep, StepThrows,
                FailStep, storeVars
  <2>2. \/ \E pc \in Places : Goto(w, pc) \/ Leave(w, pc)
        \/ \E out \in {"completed", "failed"} : End(w, out)
    BY <1>2 DEF FinishRun, Succeed, Release, Fail, StatementFails, ClaimStep, StepThrows,
                FailStep, Places
  <2> QED
    BY <1>1, <2>1, <2>2
<1>3. ASSUME ClaimRun(w) PROVE Moves
  <2>1. wk[w].pc # "idle" /\ job' = job
    BY <1>3 DEF ClaimRun
  <2>2. CASE Claimable(wk[w].r)
    BY <1>3, <2>1, <2>2, ClaimIs
  <2>3. CASE ~Claimable(wk[w].r)
    BY <1>1, <1>3, <2>1, <2>3 DEF ClaimRun
  <2> QED
    BY <2>2, <2>3
<1>4. ASSUME NEW k \in StepNo, FinishStep(w, k) PROVE Moves
  <2>1. wk[w].pc # "idle" /\ job' = job
    BY <1>4 DEF FinishStep
  <2>2. Goto(w, "fail") \/ \E result \in {"COMPLETED", "BLOCKED"} : Enter(w, k, result)
    BY <1>4 DEF FinishStep, Enter
  <2> QED
    BY <1>1, <2>1, <2>2, FinishIs DEF Places
<1>5. ASSUME Settle(w) PROVE Moves
  <2>1. wk' = [wk EXCEPT ![w] = IdleWorker]
    BY <1>5 DEF Settle
  <2> QED
    BY <1>5, <2>1, SettleIs
<1>6. ASSUME NEW r \in Runs, TakeJob(w, r) PROVE Moves
  BY <1>6, TakeIs
<1> HIDE DEF Moves
<1>7. Moves
  BY <1>2, <1>3, <1>4, <1>5, <1>6 DEF WorkerStep
<1> QED
  BY <1>7 DEF Moves

\* Nobody else touches the job of a worker.
LEMMA JobOfWorker ==
  ASSUME IInv, WorkHeld, Next, "stall" \notin faults', NEW w \in Workers, wk[w].pc # "idle",
         wk'[w] = wk[w]
  PROVE  job'[wk[w].r] = job[wk[w].r]
<1>0. /\ job \in [Runs -> Job] /\ wk \in [Workers -> Worker]
      /\ \A v \in Workers : wk[v].pc # "idle" => wk[v].r \in Runs
      /\ "stall" \notin faults /\ Holds(w)
  BY Facts, FaultsNext DEF WorkHeld
<1>1. ASSUME TriggersNext PROVE job'[wk[w].r] = job[wk[w].r]
  <2>1. ASSUME NEW c \in Clients, AddJob(c) PROVE job'[wk[w].r] = job[wk[w].r]
    <3>1. job[client[c].r].state = "absent"
      BY <2>1 DEF AddJob, IInv, Adders
    <3>2. wk[w].r # client[c].r
      BY <1>0, <3>1 DEF Holds
    <3> QED
      BY <1>0, <2>1, <3>2, AddJobJobs, GrowsNext
  <2> QED
    BY <1>1, <2>1 DEF TriggersNext, TimeComes, ReadDue, CheckDue, CreateScheduled,
       CreateRecovery, Trigger, CheckRecovery, MarkFailed, ClientDies, SetStatus, SetTime,
       storeVars
<1>2. ASSUME NEW v \in Workers, WorkerStep(v) PROVE job'[wk[w].r] = job[wk[w].r]
  <2>1. CASE \E r \in Runs : TakeJob(v, r)
    <3>1. PICK r \in Runs : TakeJob(v, r)
      BY <2>1
    <3>2. r # wk[w].r
      BY <1>0, <3>1 DEF TakeJob, Holds
    <3> QED
      BY <1>0, <3>1, <3>2 DEF TakeJob
  <2>2. CASE Settle(v)
    <3>1. wk'[v] = IdleWorker /\ wk[v].pc # "idle"
      BY <1>0, <2>2 DEF Settle
    <3>2. v # w
      BY <1>0, <3>1, IdleWorkerOK
    <3>3. Holds(v)
      BY <1>0, <3>1 DEF WorkHeld
    <3>4. wk[v].r # wk[w].r
      BY <1>0, <3>2, <3>3 DEF Holds
    <3> QED
      BY <1>0, <2>2, <3>4 DEF Settle
  <2> QED
    BY <1>2, <2>1, <2>2, OwnMove
<1>3. ASSUME NEW r \in Runs, StallJob(r) PROVE job'[wk[w].r] = job[wk[w].r]
  <2>1. ~Working(job[r].holder, r)
    BY <1>3 DEF StallJob, Suffer
  <2>2. wk[w].r # r
    BY <1>0, <2>1 DEF Holds, Working
  <2> QED
    BY <1>0, <1>3, <2>2 DEF StallJob
<1>4. ASSUME \/ \E p \in Processes : WorkerDies(p)
             \/ \E r \in Runs : ExpireRun(r) \/ \E k \in StepNo : ExpireStep(r, k)
      PROVE  job'[wk[w].r] = job[wk[w].r]
  BY <1>4 DEF WorkerDies, ExpireRun, ExpireStep
<1> QED
  BY <1>1, <1>2, <1>3, <1>4, NextCases

\* A worker goes on with its job, or takes one, or is as before, or idle.
LEMMA WorkerGoes ==
  ASSUME IInv, Next, NEW w \in Workers
  PROVE  \/ wk'[w] = wk[w] \/ wk'[w].pc = "idle"
         \/ \E r \in Runs : TakeJob(w, r)
         \/ /\ WorkerStep(w) /\ wk[w].pc # "idle" /\ wk'[w].pc \notin {"idle", "claim"}
            /\ wk'[w].r = wk[w].r /\ job' = job
            /\ wk'[w].pc # "settle" => wk'[w].made = wk[w].made
<1>1. ASSUME NEW p \in Processes, WorkerDies(p) PROVE wk'[w] = wk[w] \/ wk'[w].pc = "idle"
  BY <1>1, IdleWorkerOK DEF WorkerDies
<1>2. ASSUME Settle(w) PROVE wk'[w].pc = "idle"
  BY <1>2, SettleIs DEF Settle
<1>3. ASSUME NEW r \in Runs, StallJob(r) \/ ExpireRun(r) \/ \E k \in StepNo : ExpireStep(r, k)
      PROVE  wk' = wk
  BY <1>3 DEF StallJob, ExpireRun, ExpireStep
<1> QED
  BY <1>1, <1>2, <1>3, NextCases, OwnMove

LEMMA WorkHeldNext == ASSUME IInv, WorkHeld, Next PROVE WorkHeld'
<1> SUFFICES ASSUME "stall" \notin faults', NEW w \in Workers, wk'[w].pc # "idle"
             PROVE  Holds(w)' /\ (wk'[w].pc # "settle" => wk'[w].made = job'[wk'[w].r].made)
  BY DEF WorkHeld
<1>0. "stall" \notin faults /\ job \in [Runs -> Job] /\ \A r \in Runs : job[r] \in Job
  BY Facts, FaultsNext
<1>1. CASE wk'[w] = wk[w]
  BY <1>0, <1>1, JobOfWorker DEF WorkHeld, Holds
<1>2. ASSUME NEW r \in Runs, TakeJob(w, r)
      PROVE  Holds(w)' /\ wk'[w].made = job'[wk'[w].r].made
  <2>1. job'[r].state = "active" /\ job'[r].holder = w /\ job'[r].made = job[r].made
    BY <1>0, <1>2 DEF TakeJob, Job
  <2> QED
    BY <1>2, <2>1, TakeIs DEF Holds
<1>3. ASSUME wk[w].pc # "idle", wk'[w].pc \notin {"idle", "claim"}, wk'[w].r = wk[w].r,
             job' = job, wk'[w].pc # "settle" => wk'[w].made = wk[w].made,
             WorkerStep(w)
      PROVE  Holds(w)' /\ (wk'[w].pc # "settle" => wk'[w].made = job'[wk'[w].r].made)
  <2>1. Holds(w)'
    BY <1>0, <1>3 DEF WorkHeld, Holds
  <2>2. wk[w].pc = "settle" => Settle(w)
    BY <1>3 DEF WorkerStep, ClaimRun, FinishRun, Succeed, Release, Fail, StatementFails,
                TakeJob, ClaimStep, FinishStep, StepThrows, FailStep
  <2>3. Settle(w) => wk'[w].pc = "idle"
    BY SettleIs DEF Settle
  <2> QED
    BY <1>0, <1>3, <2>1, <2>2, <2>3 DEF WorkHeld
<1> QED
  BY <1>1, <1>2, <1>3, WorkerGoes
-----------------------------------------------------------------------------
(* What failed.                                                            *)
(*                                                                         *)
(* While no transaction fails and no lease is overrun, whoever gives a run *)
(* up still holds it, and whoever fails the flow has failed the run.  If   *)
(* BullMQ takes no job away either, a job is out of tries only when its    *)
(* run failed.                                                             *)

Released ==
  faults \cap {"database", "overrun"} = {} => \A w \in Workers :
    /\ wk[w].pc = "release" => Held(w)
    /\ wk[w].pc = "failure" => run[wk[w].r].status = "FAILED"

Settled ==
  faults \cap {"database", "overrun", "stall"} = {} => \A w \in Workers :
    wk[w].pc = "settle" /\ wk[w].out = "failed" =>
      job[wk[w].r].made + 1 < JobAttempts \/ run[wk[w].r].status = "FAILED"

FailInv == SoleInv /\ WorkHeld /\ Released /\ Settled /\ DeadHasFailed

\* A worker gets to give its run up from its steps.
LEMMA ToRelease ==
  ASSUME IInv, Next, NEW w \in Workers, "database" \notin faults', wk'[w].pc = "release",
         wk'[w] # wk[w]
  PROVE  /\ wk[w].pc \in {"step", "exec", "fail"} /\ wk'[w].r = wk[w].r
         /\ OwnsRun(w) => run' = run
<1>1. WorkerStep(w) /\ wk[w].pc # "idle" /\ wk'[w].r = wk[w].r
  BY WorkerGoes, TakeIs
<1>2. ~ClaimRun(w) /\ ~Settle(w) /\ ~Succeed(w) /\ ~Release(w) /\ ~Fail(w)
      /\ \A r \in Runs : ~TakeJob(w, r)
  <2>1. ASSUME ClaimRun(w) PROVE FALSE
    BY <2>1, ClaimIs, EndIs DEF ClaimRun
  <2>2. ASSUME Settle(w) PROVE FALSE
    BY <2>2, SettleIs DEF Settle
  <2>3. ASSUME \/ Succeed(w) \/ Fail(w) \/ Release(w) PROVE FALSE
    BY <2>3, EndIs, GotoIs DEF Succeed, Fail, Release
  <2> QED
    BY <2>1, <2>2, <2>3, TakeIs
<1>3. ASSUME FinishRun(w) \/ StatementFails(w)
      PROVE  /\ wk[w].pc \in {"step", "exec", "fail"}
             /\ OwnsRun(w) => run' = run
  <2>1. OwnsRun(w) /\ FinishRun(w) => FALSE
    <3>1. OwnsRun(w) /\ FinishRun(w) => Leave(w, "success")
      BY DEF FinishRun
    <3> QED
      BY <3>1, LeaveIs
  <2>2. StatementFails(w) => run' = run /\ wk[w].pc \in {"step", "exec", "fail"}
    <3> SUFFICES ASSUME StatementFails(w)
                 PROVE  run' = run /\ wk[w].pc \in {"step", "exec", "fail"}
      OBVIOUS
    <3>1. ~Suffer("database")
      BY DEF Suffer
    <3> QED
      BY <3>1 DEF StatementFails
  <2> QED
    BY <1>3, <2>1, <2>2 DEF FinishRun
<1>4. ASSUME NEW k \in StepNo, \/ ClaimStep(w, k) \/ FinishStep(w, k) \/ StepThrows(w, k)
                              \/ FailStep(w, k)
      PROVE  wk[w].pc \in {"step", "exec", "fail"} /\ run' = run
  BY <1>4 DEF ClaimStep, FinishStep, StepThrows, FailStep, storeVars
<1> QED
  BY <1>1, <1>2, <1>3, <1>4 DEF WorkerStep

\* A worker gets to fail the flow by failing its run.
LEMMA ToFailure ==
  ASSUME IInv, Next, NEW w \in Workers, wk'[w].pc = "failure", wk'[w] # wk[w]
  PROVE  Release(w) /\ FinalTry(w) /\ wk'[w].r = wk[w].r
<1>1. WorkerStep(w) /\ wk[w].pc # "idle" /\ wk'[w].r = wk[w].r
  BY WorkerGoes, TakeIs
<1>2. ASSUME ClaimRun(w) PROVE FALSE
  BY <1>2, ClaimIs, EndIs DEF ClaimRun
<1>3. ASSUME Settle(w) PROVE FALSE
  BY <1>3, SettleIs DEF Settle
<1>4. ASSUME \/ FinishRun(w) \/ Succeed(w) \/ Fail(w) \/ StatementFails(w) PROVE FALSE
  <2>1. \/ \E pc \in {"release", "success", "fail"} : Goto(w, pc) \/ Leave(w, pc)
        \/ \E out \in {"completed", "failed"} : End(w, out)
    BY <1>4 DEF FinishRun, Succeed, Fail, StatementFails
  <2> QED
    BY <2>1, LeaveIs, GotoIs, EndIs
<1>5. ASSUME NEW k \in StepNo, \/ ClaimStep(w, k) \/ StepThrows(w, k) \/ FailStep(w, k)
      PROVE  FALSE
  BY <1>5, LeaveIs, GotoIs DEF ClaimStep, StepThrows, FailStep
<1>6. ASSUME NEW k \in StepNo, FinishStep(w, k) PROVE FALSE
  <2>1. Goto(w, "fail") \/ \E result \in {"COMPLETED", "BLOCKED"} : Enter(w, k, result)
    BY <1>6 DEF FinishStep, Enter
  <2> QED
    BY <2>1, GotoIs, FinishIs
<1>7. Release(w) => FinalTry(w)
  BY EndIs DEF Release
<1> QED
  BY <1>1, <1>2, <1>3, <1>4, <1>5, <1>6, <1>7, TakeIs DEF WorkerStep

\* Release, by whoever owns the run.
LEMMA ReleaseIs ==
  ASSUME IInv, NEW w \in Workers, Release(w), run[wk[w].r].owner = Me(w)
  PROVE  /\ wk[w].r \in Runs
         /\ run'[wk[w].r].status = IF FinalTry(w) THEN "FAILED" ELSE "PENDING"
<1> DEFINE status == IF FinalTry(w) THEN "FAILED" ELSE "PENDING"
           r == wk[w].r
<1>1. r \in Runs /\ run \in [Runs -> Row] /\ run[r] \in Row
  BY Facts DEF Release
<1>2. run' = [run EXCEPT ![r].status = status, ![r].owner = Nobody, ![r].live = FALSE]
  BY DEF Release
<1> HIDE DEF status
<1>3. run'[r].status = status
  BY <1>1, <1>2 DEF Row
<1> QED
  BY <1>1, <1>3 DEF status

LEMMA ReleasedNext == ASSUME SoleInv, Released, Next PROVE Released'
<1> SUFFICES ASSUME faults' \cap {"database", "overrun"} = {}, NEW w \in Workers
             PROVE  /\ wk'[w].pc = "release" => Held(w)'
                    /\ wk'[w].pc = "failure" => run'[wk'[w].r].status = "FAILED"
  BY DEF Released
<1>0. /\ IInv /\ faults \cap {"database", "overrun"} = {} /\ Sole' /\ Grows
      /\ \A v \in Workers : wk[v].pc # "idle" => wk[v].r \in Runs
      /\ \A v \in Workers : Holding(v) => Held(v)
      /\ \A u, v \in Workers : Holding(u) /\ Holding(v) /\ wk[u].r = wk[v].r => u = v
  BY FaultsNext, NextSoleInv, GrowsNext, Facts DEF SoleInv, Sole
<1>1. ASSUME wk'[w].pc = "release" PROVE Held(w)'
  <2>1. run'[wk'[w].r].status \notin Ended
    <3>1. CASE wk'[w] = wk[w]
      <4>1. Held(w) /\ Holding(w) /\ wk[w].r \in Runs
        BY <1>0, <1>1, <3>1 DEF Released, Held, Holding, Ended
      <4>2. ASSUME run'[wk[w].r].status \in Ended PROVE FALSE
        <5>1. PICK v \in Workers : /\ (FinishRun(v) /\ OwnsRun(v)) \/ Release(v)
                                   /\ wk[v].r = wk[w].r
          BY <1>0, <4>1, <4>2, EndsNext DEF Held, Ended
        <5>2. Holding(v)
          BY <4>1, <5>1 DEF FinishRun, Release, Holding, Held, Ended
        <5>3. v = w
          BY <1>0, <4>1, <5>1, <5>2
        <5>4. Release(w)
          BY <1>1, <3>1, <5>1, <5>3 DEF FinishRun
        <5>5. wk'[w].pc \in {"failure", "settle"}
          BY <1>0, <5>4, GotoIs, EndIs DEF Release
        <5> QED
          BY <1>1, <5>5
      <4> QED
        BY <3>1, <4>2
    <3>2. CASE wk'[w] # wk[w]
      <4>1. /\ wk[w].pc \in {"step", "exec", "fail"} /\ wk'[w].r = wk[w].r
            /\ OwnsRun(w) => run' = run
        BY <1>0, <1>1, <3>2, ToRelease
      <4>2. Held(w)
        BY <1>0, <4>1 DEF Holding
      <4> QED
        BY <4>1, <4>2 DEF Held, OwnsRun, Ended
    <3> QED
      BY <3>1, <3>2
  <2> QED
    BY <1>0, <1>1, <2>1 DEF Sole, Holding
<1>2. ASSUME wk'[w].pc = "failure" PROVE run'[wk'[w].r].status = "FAILED"
  <2>1. CASE wk'[w] = wk[w]
    BY <1>0, <1>2, <2>1 DEF Released, Grows, Ended
  <2>2. CASE wk'[w] # wk[w]
    <3>1. Release(w) /\ FinalTry(w) /\ wk'[w].r = wk[w].r
      BY <1>0, <1>2, <2>2, ToFailure
    <3>2. run[wk[w].r].owner = Me(w)
      BY <1>0, <3>1 DEF Released, Release, Held
    <3> QED
      BY <1>0, <3>1, <3>2, ReleaseIs
  <2> QED
    BY <2>1, <2>2
<1> QED
  BY <1>1, <1>2

\* A worker fails its job after it released the run, or failed the flow.
LEMMA ToSettle ==
  ASSUME IInv, Next, NEW w \in Workers, "database" \notin faults', wk'[w].pc = "settle",
         wk'[w].out = "failed", wk'[w] # wk[w]
  PROVE  /\ (Release(w) /\ ~FinalTry(w)) \/ Fail(w)
         /\ wk'[w].r = wk[w].r /\ job' = job
<1>1. WorkerStep(w) /\ wk[w].pc # "idle" /\ wk'[w].r = wk[w].r /\ job' = job
  BY WorkerGoes, TakeIs
<1>2. ASSUME ClaimRun(w) PROVE FALSE
  <2>1. CASE Claimable(wk[w].r)
    BY <1>2, <2>1, ClaimIs
  <2>2. CASE ~Claimable(wk[w].r)
    <3>1. End(w, "completed")
      BY <1>2, <2>2 DEF ClaimRun
    <3> QED
      BY <3>1, EndIs
  <2> QED
    BY <2>1, <2>2
<1>3. ASSUME Settle(w) PROVE FALSE
  BY <1>3, SettleIs DEF Settle
<1>4. ASSUME \/ FinishRun(w) \/ Succeed(w) \/ StatementFails(w) PROVE FALSE
  <2>1. ~Suffer("database")
    BY DEF Suffer
  <2>2. \/ \E pc \in {"release", "success", "fail"} : Goto(w, pc) \/ Leave(w, pc)
        \/ End(w, "completed")
    BY <1>4, <2>1 DEF FinishRun, Succeed, StatementFails
  <2> QED
    BY <2>2, LeaveIs, GotoIs, EndIs
<1>5. ASSUME NEW k \in StepNo, \/ ClaimStep(w, k) \/ StepThrows(w, k) \/ FailStep(w, k)
      PROVE  FALSE
  BY <1>5, LeaveIs, GotoIs DEF ClaimStep, StepThrows, FailStep
<1>6. ASSUME NEW k \in StepNo, FinishStep(w, k) PROVE FALSE
  <2>1. Goto(w, "fail") \/ \E result \in {"COMPLETED", "BLOCKED"} : Enter(w, k, result)
    BY <1>6 DEF FinishStep, Enter
  <2> QED
    BY <2>1, GotoIs, FinishIs
<1>7. Release(w) => ~FinalTry(w)
  BY GotoIs DEF Release
<1> QED
  BY <1>1, <1>2, <1>3, <1>4, <1>5, <1>6, <1>7, TakeIs DEF WorkerStep

LEMMA SettledNext == ASSUME FailInv, Next PROVE Settled'
<1> SUFFICES ASSUME faults' \cap {"database", "overrun", "stall"} = {}, NEW w \in Workers,
                    wk'[w].pc = "settle", wk'[w].out = "failed"
             PROVE  \/ job'[wk'[w].r].made + 1 < JobAttempts
                    \/ run'[wk'[w].r].status = "FAILED"
  BY DEF Settled
<1>0. /\ IInv /\ faults \cap {"database", "overrun", "stall"} = {} /\ Grows
      /\ \A v \in Workers : wk[v].pc # "idle" => wk[v].r \in Runs
      /\ \A v \in Workers : wk[v] \in Worker
  BY FaultsNext, GrowsNext, Facts DEF FailInv, SoleInv
<1>1. CASE wk'[w] = wk[w]
  <2>1. job'[wk[w].r] = job[wk[w].r]
    BY <1>0, <1>1, JobOfWorker DEF FailInv
  <2>2. job[wk[w].r].made + 1 < JobAttempts \/ run[wk[w].r].status = "FAILED"
    BY <1>0, <1>1 DEF FailInv, Settled
  <2> QED
    BY <1>0, <1>1, <2>1, <2>2 DEF Grows, Ended
<1>2. CASE wk'[w] # wk[w]
  <2>1. /\ (Release(w) /\ ~FinalTry(w)) \/ Fail(w)
        /\ wk'[w].r = wk[w].r /\ job' = job
    BY <1>0, <1>2, ToSettle
  <2>2. CASE Release(w) /\ ~FinalTry(w)
    <3>1. wk[w].made = job[wk[w].r].made
      BY <1>0, <2>2 DEF FailInv, WorkHeld, Release
    <3>2. wk[w].made + 1 < JobAttempts
      BY <1>0, <2>2 DEF FinalTry, Worker
    <3> QED
      BY <2>1, <3>1, <3>2
  <2>3. CASE Fail(w)
    <3>1. run[wk[w].r].status = "FAILED" /\ run' = run
      BY <1>0, <2>3 DEF FailInv, Released, Fail
    <3> QED
      BY <2>1, <3>1
  <2> QED
    BY <2>1, <2>2, <2>3
<1> QED
  BY <1>1, <1>2

LEMMA DeadNext == ASSUME FailInv, Next PROVE DeadHasFailed'
<1> SUFFICES ASSUME faults' \subseteq {"redis", "crash", "restart"}, NEW r \in dead'
             PROVE  run'[r].status = "FAILED"
  BY DEF DeadHasFailed
<1>0. /\ IInv /\ faults \subseteq {"redis", "crash", "restart"} /\ Grows /\ dead \subseteq Runs
      /\ \A v \in Workers : wk[v].pc # "idle" => wk[v].r \in Runs
      /\ \A q \in Runs : job[q] \in Job
  BY FaultsNext, GrowsNext, Facts DEF FailInv, SoleInv, IInv, TypeOK, WorkerTypeOK
<1>1. CASE r \in dead
  BY <1>0, <1>1 DEF FailInv, DeadHasFailed, Grows, Ended
<1>2. CASE r \notin dead
  <2>1. PICK w \in Workers : Settle(w) /\ dead' # dead
    <3>1. ASSUME NEW w \in Workers, WorkerStep(w) PROVE dead' = dead \/ Settle(w)
      BY <3>1 DEF WorkerStep, ClaimRun, FinishRun, Succeed, Release, Fail, StatementFails,
                  TakeJob, ClaimStep, FinishStep, StepThrows, FailStep
    <3>2. ASSUME \/ \E p \in Processes : WorkerDies(p)
                 \/ \E q \in Runs : \/ StallJob(q) \/ ExpireRun(q)
                                    \/ \E k \in StepNo : ExpireStep(q, k)
          PROVE  dead' = dead
      BY <3>2 DEF WorkerDies, StallJob, ExpireRun, ExpireStep
    <3> QED
      BY <1>2, <3>1, <3>2, NextCases
  <2>2. /\ wk[w].pc = "settle" /\ wk[w].out = "failed" /\ r = wk[w].r /\ run' = run
        /\ job[wk[w].r].made + 1 >= JobAttempts
    BY <1>2, <2>1 DEF Settle
  <2>3. job[wk[w].r].made \in Nat /\ wk[w].r \in Runs
    BY <1>0, <2>2 DEF Job
  <2> QED
    BY <1>0, <2>2, <2>3 DEF FailInv, Settled
<1> QED
  BY <1>1, <1>2

\* Without an update, only a worker that fails the flow and a scheduler that
\* retires it put it into ERROR.
LEMMA ErrorNext ==
  ASSUME FailInv, Next, flow.status # "ERROR", flow'.status = "ERROR", edits' = edits,
         faults' \cap {"database", "overrun"} = {}
  PROVE  \E r \in Runs : run'[r].status = "FAILED"
<1>0. /\ IInv /\ faults \cap {"database", "overrun"} = {} /\ Grows /\ flow \in Flow
      /\ edits \in Nat /\ \A v \in Workers : wk[v].pc # "idle" => wk[v].r \in Runs
  BY FaultsNext, GrowsNext, Facts, AutomationAssumption
     DEF FailInv, SoleInv, IInv, TypeOK, StoreTypeOK
<1>1. \E r \in Runs : run[r].status = "FAILED"
  <2>1. ASSUME NEW c \in Clients, CheckDue(c) PROVE \E r \in Runs : run[r].status = "FAILED"
    <3>1. flow' = Retired
      BY <2>1 DEF CheckDue
    <3>2. NoTime \in Flow
      <4>1. 0 \in Slots
        BY DEF Slots
      <4> QED
        BY <1>0, <4>1 DEF NoTime, Flow
    <3>3. LatestEnded({"FAILED"})
      BY <3>1, <3>2 DEF Retired, Flow
    <3> QED
      BY <3>3 DEF LatestEnded
  <2>2. ASSUME NEW w \in Workers, Fail(w) PROVE \E r \in Runs : run[r].status = "FAILED"
    BY <1>0, <2>2 DEF FailInv, Released, Fail
  <2>3. ASSUME NEW status, SetStatus(status) PROVE FALSE
    BY <1>0, <2>3 DEF SetStatus
  <2>4. ASSUME TriggersNext PROVE \E c \in Clients : CheckDue(c)
    BY <1>0, <2>3, <2>4 DEF TriggersNext, TimeComes, ReadDue, CreateScheduled, CreateRecovery,
       Trigger, CheckRecovery, AddJob, MarkFailed, ClientDies, SetTime, storeVars,
       Clients, NewTime, NoTime, Flow
  <2>5. ASSUME NEW w \in Workers, WorkerStep(w) PROVE Fail(w)
    <3>1. Succeed(w) => flow'.status # "ERROR"
      BY <1>0, <2>5 DEF Succeed, NoTime, Flow
    <3> QED
      BY <2>5, <3>1 DEF WorkerStep, ClaimRun, FinishRun, Release, Settle, StatementFails,
         TakeJob, ClaimStep, FinishStep, StepThrows, FailStep, storeVars
  <2>6. ASSUME \/ \E p \in Processes : WorkerDies(p)
               \/ \E q \in Runs : \/ StallJob(q) \/ ExpireRun(q)
                                  \/ \E k \in StepNo : ExpireStep(q, k)
        PROVE  flow' = flow
    BY <2>6 DEF WorkerDies, StallJob, ExpireRun, ExpireStep
  <2> QED
    BY <2>1, <2>2, <2>4, <2>5, <2>6, NextCases
<1> QED
  BY <1>0, <1>1 DEF Grows, Ended

LEMMA NextFailInv == ASSUME FailInv, Next PROVE FailInv'
<1>1. SoleInv' /\ WorkHeld' /\ Released'
  BY NextSoleInv, WorkHeldNext, ReleasedNext DEF FailInv, SoleInv
<1> QED
  BY <1>1, SettledNext, DeadNext DEF FailInv

LEMMA InitFailInv == Init => FailInv
<1> SUFFICES ASSUME Init PROVE WorkHeld /\ Released /\ Settled /\ DeadHasFailed
  BY InitSole DEF FailInv
<1>1. \A w \in Workers : wk[w].pc = "idle"
  BY DEF Init, WorkerInit, IdleWorker
<1>2. dead = {}
  BY DEF Init, WorkerInit
<1> QED
  BY <1>1, <1>2 DEF WorkHeld, Released, Settled, DeadHasFailed

LEMMA StutterFailInv == ASSUME FailInv, UNCHANGED vars PROVE FailInv'
<1>1. SoleInv'
  BY StutterSole DEF FailInv
<1> QED
  BY <1>1 DEF FailInv, WorkHeld, Released, Settled, DeadHasFailed, Holds,
              Held, Me, vars, storeVars, workerVars

\* A dead letter of a run is about a failed run, which createRecoveryRun
\* accepts - with any number of crashes, as long as the database answers and
\* no lease and no job is taken from a worker that still runs.
THEOREM DeadLettersHaveFailed == Spec => []DeadHasFailed
<1>1. FailInv /\ [Next]_vars => FailInv'
  BY NextFailInv, StutterFailInv
<1>2. FailInv => DeadHasFailed
  BY DEF FailInv
<1> QED
  BY InitFailInv, <1>1, <1>2, PTL DEF Spec

\* A flow that was not in ERROR gets there by a user's update, or else a run
\* of it failed - whether a worker fails the flow or a scheduler retires it,
\* with crashes, restarts and stalls, unless the database fails or a lease is
\* overrun.
THEOREM ErrorsMeanFailures == Spec => ErrorMeansFailed
<1> DEFINE Enters == /\ flow.status # "ERROR" /\ flow'.status = "ERROR" /\ edits' = edits
                     /\ faults' \cap {"database", "overrun"} = {}
                     => \E r \in Runs : run'[r].status = "FAILED"
<1>1. FailInv /\ [Next]_vars => FailInv'
  BY NextFailInv, StutterFailInv
<1>2. FailInv /\ [Next]_vars => [Enters]_vars
  BY ErrorNext
<1> QED
  BY InitFailInv, <1>1, <1>2, PTL DEF Spec, ErrorMeansFailed
-----------------------------------------------------------------------------
(* Runs that wait.                                                         *)
(*                                                                         *)
(* While no process dies, no job is taken away and no transaction fails,   *)
(* a job and its run go together: a running run has the worker that holds  *)
(* the job, under whose name it runs, and a job ends with its run.         *)

AtWork(w) ==
  LET r == wk[w].r  s == run[r].status IN
  /\ wk[w].pc \in Inside \cup {"release"} => OwnsRun(w)
  /\ wk[w].pc = "claim" => s # "RUNNING"
  /\ wk[w].pc = "failure" => s \in Ended
  /\ wk[w].pc = "settle" =>
       /\ s # "RUNNING"
       /\ s \in Ended \/ (wk[w].out = "failed" /\ job[r].made + 1 < JobAttempts)

Carried(r) ==
  /\ job[r].state = "active" => job[r].holder \in Workers /\ Working(job[r].holder, r)
  /\ run[r].status = "RUNNING" => job[r].state = "active"
  /\ job[r].state \in {"completed", "failed"} => run[r].status \in Ended
  /\ run[r].status \in Active /\ job[r].state = "absent" =>
       \E c \in Clients : client[c].r = r /\ client[c].pc \in {"add", "mark"}

Lossless ==
  faults \subseteq {"redis", "overrun"} =>
    /\ \A w \in Workers : wk[w].pc # "idle" => AtWork(w)
    /\ \A r \in Runs : Carried(r)

CarriedInv == SoleInv /\ WorkHeld /\ Lossless

LEMMA CarriedHasJob == CarriedInv => ActiveRunHasJob
<1> SUFFICES ASSUME CarriedInv, faults \subseteq {"redis", "overrun"}, NEW r \in Runs,
                    run[r].status \in Active
             PROVE  \/ job[r].state \in {"waiting", "active"}
                    \/ \E c \in Clients : client[c].r = r /\ client[c].pc \in {"add", "mark"}
  BY DEF ActiveRunHasJob
<1>1. Carried(r) /\ job[r] \in Job
  BY Facts DEF CarriedInv, Lossless, SoleInv
<1> QED
  BY <1>1 DEF Carried, Job, Active, Ended

\* A worker comes to the steps of a run by claiming it, and stays there.
LEMMA ToSteps ==
  ASSUME IInv, Next, NEW w \in Workers, "database" \notin faults',
         wk'[w].pc \in Inside \cup {"release"}, wk'[w] # wk[w]
  PROVE  /\ wk'[w].r = wk[w].r
         /\ \/ ClaimRun(w) /\ Claimable(wk[w].r)
            \/ wk[w].pc \in Inside /\ (OwnsRun(w) => run' = run)
<1>1. WorkerStep(w) /\ wk[w].pc # "idle" /\ wk'[w].r = wk[w].r
  BY WorkerGoes, TakeIs DEF Inside
<1>2. CASE wk'[w].pc = "release"
  BY <1>2, ToRelease DEF Inside
<1>3. ASSUME ClaimRun(w) PROVE Claimable(wk[w].r)
  BY <1>3, EndIs DEF ClaimRun, Inside
<1>4. ASSUME FinishRun(w), wk'[w].pc # "release" PROVE FALSE
  <2>1. Leave(w, "success") \/ Leave(w, "release")
    BY <1>4 DEF FinishRun
  <2> QED
    BY <1>4, <2>1, LeaveIs DEF Inside
<1>5. ASSUME \/ Succeed(w) \/ Release(w) \/ Fail(w) \/ Settle(w) PROVE FALSE
  <2>1. \/ Goto(w, "failure") \/ End(w, "failed") \/ End(w, "completed")
        \/ wk' = [wk EXCEPT ![w] = IdleWorker]
    BY <1>5 DEF Succeed, Release, Fail, Settle
  <2> QED
    BY <2>1, GotoIs, EndIs, SettleIs DEF Inside
<1>6. ASSUME StatementFails(w), wk'[w].pc # "release"
      PROVE  wk[w].pc \in Inside /\ run' = run
  <2>1. ~Suffer("database")
    BY DEF Suffer
  <2> QED
    BY <1>6, <2>1 DEF StatementFails, Inside
<1>7. ASSUME NEW k \in StepNo, \/ ClaimStep(w, k) \/ FinishStep(w, k) \/ StepThrows(w, k)
                              \/ FailStep(w, k)
      PROVE  wk[w].pc \in Inside /\ run' = run
  BY <1>7 DEF ClaimStep, FinishStep, StepThrows, FailStep, storeVars, Inside
<1> QED
  BY <1>1, <1>2, <1>3, <1>4, <1>5, <1>6, <1>7, TakeIs DEF WorkerStep, Inside

\* A worker comes to an end with its job in one of these ways.
LEMMA ToEnd ==
  ASSUME IInv, Next, NEW w \in Workers, "database" \notin faults', wk'[w].pc = "settle",
         wk'[w] # wk[w]
  PROVE  /\ wk'[w].r = wk[w].r /\ job' = job
         /\ \/ ClaimRun(w) /\ ~Claimable(wk[w].r)
            \/ Succeed(w) \/ Fail(w)
            \/ Release(w) /\ ~FinalTry(w) /\ wk'[w].out = "failed"
<1>1. WorkerStep(w) /\ wk[w].pc # "idle" /\ wk'[w].r = wk[w].r /\ job' = job
  BY WorkerGoes, TakeIs
<1>2. ASSUME ClaimRun(w) PROVE ~Claimable(wk[w].r)
  BY <1>2, ClaimIs
<1>3. ASSUME Settle(w) PROVE FALSE
  BY <1>3, SettleIs DEF Settle
<1>4. ASSUME FinishRun(w) \/ StatementFails(w) PROVE FALSE
  <2>1. ~Suffer("database")
    BY DEF Suffer
  <2>2. \E pc \in {"release", "success", "fail"} : Goto(w, pc) \/ Leave(w, pc)
    BY <1>4, <2>1 DEF FinishRun, StatementFails
  <2> QED
    BY <2>2, LeaveIs, GotoIs
<1>5. ASSUME NEW k \in StepNo, \/ ClaimStep(w, k) \/ StepThrows(w, k) \/ FailStep(w, k)
      PROVE  FALSE
  BY <1>5, LeaveIs, GotoIs DEF ClaimStep, StepThrows, FailStep
<1>6. ASSUME NEW k \in StepNo, FinishStep(w, k) PROVE FALSE
  <2>1. Goto(w, "fail") \/ \E result \in {"COMPLETED", "BLOCKED"} : Enter(w, k, result)
    BY <1>6 DEF FinishStep, Enter
  <2> QED
    BY <2>1, GotoIs, FinishIs
<1>7. Release(w) => ~FinalTry(w) /\ wk'[w].out = "failed"
  BY GotoIs, EndIs DEF Release
<1> QED
  BY <1>1, <1>2, <1>3, <1>4, <1>5, <1>6, <1>7, TakeIs DEF WorkerStep

\* While a worker does nothing, its run is at most given up by a client.
LEMMA RunOfWorker ==
  ASSUME IInv, WorkHeld, Next, "stall" \notin faults', NEW w \in Workers, wk[w].pc # "idle",
         wk'[w] = wk[w]
  PROVE  LET r == wk[w].r IN
         \/ run'[r].status = run[r].status /\ run'[r].owner = run[r].owner
         \/ run[r].status = "PENDING" /\ run'[r].status = "FAILED"
<1> DEFINE r == wk[w].r
           Kept == \/ run'[r].status = run[r].status /\ run'[r].owner = run[r].owner
                   \/ run[r].status = "PENDING" /\ run'[r].status = "FAILED"
<1>0. /\ run \in [Runs -> Row] /\ \A q \in Runs : run[q] \in Row
      /\ \A v \in Workers : wk[v].pc # "idle" => wk[v].r \in Runs
      /\ r \in Runs /\ Holds(w) /\ "stall" \notin faults
  BY Facts, FaultsNext DEF WorkHeld
<1>1. run[r].status # "none"
  BY <1>0 DEF IInv, Jobs, Holds
<1>2. ASSUME NEW q \in Runs, NEW key, NEW parent, Insert(q, key, parent) PROVE Kept
  BY <1>0, <1>1, <1>2 DEF Insert
<1>3. ASSUME NEW c \in Clients, MarkFailed(c) PROVE Kept
  <2>1. client[c].r \in Runs
    BY <1>3 DEF MarkFailed, IInv, Creators
  <2>2. \/ run' = run
        \/ /\ run[client[c].r].status = "PENDING"
           /\ run' = [run EXCEPT ![client[c].r].status = "FAILED"]
    BY <1>3 DEF MarkFailed
  <2> QED
    BY <1>0, <2>1, <2>2 DEF Row
<1>4. ASSUME TriggersNext PROVE Kept
  BY <1>2, <1>3, <1>4 DEF TriggersNext, TimeComes, ReadDue, CheckDue, CreateScheduled,
     CreateRecovery, Trigger, CheckRecovery, AddJob, ClientDies, SetStatus, SetTime,
     storeVars, Clients
<1>5. ASSUME NEW v \in Workers, WorkerStep(v) PROVE Kept
  <2>1. CASE run' = run
    BY <2>1
  <2>2. CASE run' # run
    <3>1. ClaimRun(v) \/ FinishRun(v) \/ Release(v)
      BY <1>5, <2>2 DEF WorkerStep, Succeed, Fail, Settle, StatementFails, TakeJob, ClaimStep,
                        FinishStep, StepThrows, FailStep, storeVars
    <3>2. wk[v].pc # "idle"
      BY <3>1 DEF ClaimRun, FinishRun, Release
    <3>3. v # w
      <4>1. wk'[v].pc # wk[v].pc
        <5>1. ClaimRun(v) => wk[v].pc = "claim" /\ wk'[v].pc \in {"step", "settle"}
          BY ClaimIs, EndIs DEF ClaimRun
        <5>2. FinishRun(v) => wk[v].pc = "step" /\ wk'[v].pc \in {"success", "release"}
          BY LeaveIs DEF FinishRun
        <5>3. Release(v) => wk[v].pc = "release" /\ wk'[v].pc \in {"failure", "settle"}
          BY GotoIs, EndIs DEF Release
        <5> QED
          BY <3>1, <5>1, <5>2, <5>3
      <4> QED
        BY <4>1
    <3>4. wk[v].r # r
      BY <1>0, <3>2, <3>3 DEF WorkHeld, Holds
    <3> QED
      BY <1>0, <3>1, <3>4 DEF ClaimRun, FinishRun, Release
  <2> QED
    BY <2>1, <2>2
<1>6. ASSUME NEW q \in Runs, ExpireRun(q) PROVE Kept
  BY <1>0, <1>6 DEF ExpireRun, Row
<1>7. ASSUME \/ \E p \in Processes : WorkerDies(p)
             \/ \E q \in Runs : StallJob(q) \/ \E k \in StepNo : ExpireStep(q, k)
      PROVE  Kept
  BY <1>7 DEF WorkerDies, StallJob, ExpireStep
<1> HIDE DEF Kept
<1>8. Kept
  BY <1>4, <1>5, <1>6, <1>7, NextCases
<1> QED
  BY <1>8 DEF Kept

LEMMA SameNames ==
  ASSUME IInv, Next, "crash" \notin faults' PROVE \A w \in Workers : Me(w)' = Me(w)
<1>1. ~ \E p \in Processes : WorkerDies(p)
  BY DEF WorkerDies, Suffer
<1> QED
  BY <1>1, HostNext, SameName

LEMMA AtWorkNext ==
  ASSUME CarriedInv, Next, faults' \subseteq {"redis", "overrun"}, NEW w \in Workers,
         wk'[w].pc # "idle"
  PROVE  AtWork(w)'
<1>0. /\ IInv /\ IInv' /\ WorkHeld /\ Succeeded /\ Grows
      /\ faults \subseteq {"redis", "overrun"} /\ Me(w)' = Me(w)
      /\ \A v \in Workers : wk[v].pc # "idle" => AtWork(v) /\ Holds(v) /\ wk[v].r \in Runs
      /\ \A r \in Runs : Carried(r)
      /\ \A r \in Runs : run[r] \in Row /\ run'[r] \in Row
      /\ \A r \in Runs : run[r].status = "none" => job[r].state = "absent"
      /\ wk[w] \in Worker
  <2>1. IInv /\ IInv' /\ Grows /\ faults \subseteq {"redis", "overrun"} /\ Me(w)' = Me(w)
    BY NextIInv, GrowsNext, FaultsNext, SameNames DEF CarriedInv, SoleInv
  <2>2. \A r \in Runs : run[r] \in Row /\ run'[r] \in Row
    BY <2>1 DEF IInv, TypeOK, StoreTypeOK
  <2> QED
    BY <2>1, <2>2, Facts DEF CarriedInv, SoleInv, Lossless, WorkHeld, IInv, Jobs
<1>1. CASE wk'[w] = wk[w]
  <2>1. /\ job'[wk[w].r] = job[wk[w].r] /\ AtWork(w) /\ wk[w].r \in Runs
        /\ \/ run'[wk[w].r].status = run[wk[w].r].status /\ run'[wk[w].r].owner = run[wk[w].r].owner
           \/ run[wk[w].r].status = "PENDING" /\ run'[wk[w].r].status = "FAILED"
    BY <1>0, <1>1, JobOfWorker, RunOfWorker
  <2> QED
    BY <1>0, <1>1, <2>1 DEF AtWork, OwnsRun, Ended
<1>2. ASSUME NEW r \in Runs, TakeJob(w, r) PROVE AtWork(w)'
  <2>1. run' = run /\ job[r].state = "waiting"
    BY <1>2 DEF TakeJob
  <2>2. run[r].status # "RUNNING"
    BY <1>0, <2>1 DEF Carried
  <2>3. wk'[w].pc = "claim" /\ wk'[w].r = r
    BY <1>0, <1>2, TakeIs
  <2> QED
    BY <2>1, <2>2, <2>3 DEF AtWork, Inside
<1>3. CASE wk'[w] # wk[w] /\ wk'[w].pc \in Inside \cup {"release"}
  <2>1. /\ wk'[w].r = wk[w].r
        /\ \/ ClaimRun(w) /\ Claimable(wk[w].r)
           \/ wk[w].pc \in Inside /\ (OwnsRun(w) => run' = run)
    BY <1>0, <1>3, ToSteps
  <2>2. CASE ClaimRun(w) /\ Claimable(wk[w].r)
    <3>1. wk[w].r \in Runs /\ run \in [Runs -> Row]
      BY <1>0, <2>2, Facts DEF ClaimRun
    <3>2. run'[wk[w].r].status = "RUNNING" /\ run'[wk[w].r].owner = Me(w)
      BY <1>0, <2>2, <3>1 DEF ClaimRun, Row
    <3> QED
      BY <1>0, <1>3, <2>1, <3>2 DEF AtWork, OwnsRun, Inside
  <2>3. CASE wk[w].pc \in Inside /\ (OwnsRun(w) => run' = run)
    <3>1. OwnsRun(w) /\ run' = run
      BY <1>0, <2>3 DEF AtWork, Inside
    <3> QED
      BY <1>0, <1>3, <2>1, <3>1 DEF AtWork, OwnsRun, Inside
  <2> QED
    BY <2>1, <2>2, <2>3
<1>4. CASE wk'[w] # wk[w] /\ wk'[w].pc = "failure"
  <2>1. Release(w) /\ FinalTry(w) /\ wk'[w].r = wk[w].r
    BY <1>0, <1>4, ToFailure
  <2>2. run[wk[w].r].owner = Me(w)
    BY <1>0, <2>1 DEF AtWork, OwnsRun, Release, Inside
  <2>3. run'[wk[w].r].status = "FAILED"
    BY <1>0, <2>1, <2>2, ReleaseIs
  <2> QED
    BY <1>4, <2>1, <2>3 DEF AtWork, Inside, Ended
<1>5. CASE wk'[w] # wk[w] /\ wk'[w].pc = "settle"
  <2> DEFINE r == wk[w].r
  <2>1. /\ wk'[w].r = r /\ job' = job
        /\ \/ ClaimRun(w) /\ ~Claimable(r)
           \/ Succeed(w) \/ Fail(w)
           \/ Release(w) /\ ~FinalTry(w) /\ wk'[w].out = "failed"
    BY <1>0, <1>5, ToEnd
  <2>2. r \in Runs /\ AtWork(w) /\ Holds(w)
    BY <1>0, <2>1 DEF ClaimRun, Succeed, Fail, Release
  <2>3. CASE ClaimRun(w) /\ ~Claimable(r)
    <3>1. run' = run /\ run[r].status # "RUNNING" /\ run[r].status # "PENDING"
      BY <2>2, <2>3 DEF ClaimRun, AtWork, Claimable
    <3>2. run[r].status \in Ended
      BY <1>0, <2>2, <3>1 DEF Holds, Row, Active
    <3> QED
      BY <1>5, <2>1, <3>1, <3>2 DEF AtWork, Inside, Ended
  <2>4. CASE Succeed(w) \/ Fail(w)
    <3>1. run' = run /\ run[r].status \in Ended
      BY <1>0, <2>2, <2>4 DEF Succeed, Fail, Succeeded, AtWork
    <3> QED
      BY <1>5, <2>1, <3>1 DEF AtWork, Inside, Ended
  <2>5. CASE Release(w) /\ ~FinalTry(w) /\ wk'[w].out = "failed"
    <3>1. run[r].owner = Me(w)
      BY <2>2, <2>5 DEF AtWork, OwnsRun, Release, Inside
    <3>2. run'[r].status = "PENDING"
      BY <1>0, <2>5, <3>1, ReleaseIs
    <3>3. wk[w].made = job[r].made
      BY <1>0, <2>5 DEF WorkHeld, Release
    <3>4. job[r].made + 1 < JobAttempts
      BY <1>0, <2>5, <3>3 DEF FinalTry, Worker
    <3> QED
      BY <1>5, <2>1, <2>5, <3>2, <3>4 DEF AtWork, Inside
  <2> QED
    BY <2>1, <2>3, <2>4, <2>5
<1>6. CASE wk'[w].pc = "success"
  BY <1>6 DEF AtWork, Inside
<1>7. wk'[w].pc \in {"claim", "success", "failure", "settle"} \cup Inside \cup {"release"}
  BY <1>0, Facts DEF IInv, TypeOK, WorkerTypeOK, Worker, Inside
<1>8. wk'[w].pc = "claim" => wk'[w] = wk[w] \/ \E r \in Runs : TakeJob(w, r)
  BY <1>0, WorkerGoes
<1> QED
  BY <1>1, <1>2, <1>3, <1>4, <1>5, <1>6, <1>7, <1>8
\* What becomes of a job.
LEMMA JobChanges ==
  ASSUME IInv, Next, NEW r \in Runs, job'[r] # job[r]
  PROVE  \/ job[r].state = "absent" /\ job'[r].state = "waiting"
         \/ \E w \in Workers : TakeJob(w, r)
         \/ \E w \in Workers : Settle(w) /\ wk[w].r = r /\ Holds(w)
         \/ StallJob(r)
<1>0. /\ job \in [Runs -> Job] /\ \A q \in Runs : job[q] \in Job
      /\ \A w \in Workers : wk[w].pc # "idle" => wk[w].r \in Runs
  BY Facts
<1>1. ASSUME NEW c \in Clients, AddJob(c)
      PROVE  job[r].state = "absent" /\ job'[r].state = "waiting"
  <2> DEFINE q == client[c].r
             v == [job[q] EXCEPT !.state = "waiting"]
  <2>1. q \in Runs /\ job[q].state = "absent"
    BY <1>1 DEF AddJob, IInv, Creators, Adders
  <2>2. v.state = "waiting" /\ job' = [job EXCEPT ![q] = v]
    BY <1>0, <1>1, <2>1 DEF AddJob, Job
  <2> HIDE DEF v, q
  <2> QED
    BY <1>0, <2>1, <2>2
<1>2. ASSUME TriggersNext
      PROVE  job[r].state = "absent" /\ job'[r].state = "waiting"
  BY <1>1, <1>2 DEF TriggersNext, TimeComes, ReadDue, CheckDue, CreateScheduled,
       CreateRecovery, Trigger, CheckRecovery, MarkFailed, ClientDies, SetStatus, SetTime,
       storeVars
<1>3. ASSUME NEW w \in Workers, WorkerStep(w)
      PROVE  TakeJob(w, r) \/ (Settle(w) /\ wk[w].r = r /\ Holds(w))
  <2>1. ASSUME NEW q \in Runs, TakeJob(w, q) PROVE q = r
    BY <1>0, <2>1 DEF TakeJob
  <2>2. Settle(w) => wk[w].r = r /\ Holds(w)
    BY <1>0 DEF Settle
  <2> QED
    BY <1>3, <2>1, <2>2, OwnMove
<1>4. ASSUME NEW q \in Runs, StallJob(q) PROVE StallJob(r)
  <2>1. q = r
    BY <1>0, <1>4 DEF StallJob
  <2> QED
    BY <1>4, <2>1
<1>5. ASSUME \/ \E p \in Processes : WorkerDies(p)
             \/ \E q \in Runs : ExpireRun(q) \/ \E k \in StepNo : ExpireStep(q, k)
      PROVE  FALSE
  BY <1>5 DEF WorkerDies, ExpireRun, ExpireStep
<1> QED
  BY <1>2, <1>3, <1>4, <1>5, NextCases

\* A run starts when a worker claims it.
LEMMA StartsNext ==
  ASSUME IInv, Next, NEW r \in Runs, run[r].status # "RUNNING", run'[r].status = "RUNNING"
  PROVE  \E w \in Workers : ClaimRun(w) /\ wk[w].r = r
<1>0. /\ run \in [Runs -> Row] /\ \A q \in Runs : run[q] \in Row
      /\ \A w \in Workers : wk[w].pc # "idle" => wk[w].r \in Runs
  BY Facts
<1>1. ASSUME NEW q \in Runs, NEW key, NEW parent, Insert(q, key, parent) PROVE FALSE
  <2>1. run'[r] = run[r] \/ run'[r].status = "PENDING"
    BY <1>0, <1>1 DEF Insert, NoRow
  <2> QED
    BY <2>1
<1>2. ASSUME NEW c \in Clients, MarkFailed(c) PROVE FALSE
  <2>1. client[c].r \in Runs
    BY <1>2 DEF MarkFailed, IInv, Creators
  <2> QED
    BY <1>0, <1>2, <2>1 DEF MarkFailed, Row
<1>3. ~TriggersNext
  BY <1>1, <1>2 DEF TriggersNext, TimeComes, ReadDue, CheckDue, CreateScheduled,
     CreateRecovery, Trigger, CheckRecovery, AddJob, ClientDies, SetStatus, SetTime,
     storeVars, Clients
<1>4. ASSUME NEW w \in Workers, ClaimRun(w) PROVE wk[w].r = r
  BY <1>0, <1>4 DEF ClaimRun
<1>5. ASSUME NEW w \in Workers, FinishRun(w) \/ Release(w) PROVE FALSE
  <2> DEFINE end == IF \A k \in StepNo : wk[w].got[k] = "COMPLETED" THEN "COMPLETED" ELSE "PARTIAL"
             up == IF FinalTry(w) THEN "FAILED" ELSE "PENDING"
  <2>1. /\ wk[w].r \in Runs /\ end # "RUNNING" /\ up # "RUNNING"
        /\ \/ run' = run
           \/ \E status \in {end, up} :
                run' = [run EXCEPT ![wk[w].r].status = status, ![wk[w].r].owner = Nobody,
                                   ![wk[w].r].live = FALSE]
    BY <1>0, <1>5 DEF FinishRun, Release
  <2> HIDE DEF end, up
  <2>2. run[r] \in Row
    BY <1>0
  <2> QED
    BY <1>0, <2>1, <2>2 DEF Row
<1>6. ASSUME NEW w \in Workers,
             \/ Succeed(w) \/ Fail(w) \/ Settle(w) \/ StatementFails(w)
             \/ \E q \in Runs : TakeJob(w, q)
             \/ \E k \in StepNo : \/ ClaimStep(w, k) \/ FinishStep(w, k)
                                   \/ StepThrows(w, k) \/ FailStep(w, k)
      PROVE  FALSE
  BY <1>6 DEF Succeed, Fail, Settle, StatementFails, TakeJob, ClaimStep, FinishStep,
              StepThrows, FailStep, storeVars
<1>7. ASSUME NEW q \in Runs, ExpireRun(q) PROVE FALSE
  <2>1. run'[r].status = run[r].status
    BY <1>0, <1>7 DEF ExpireRun, Row
  <2> QED
    BY <2>1
<1>8. ASSUME \/ \E p \in Processes : WorkerDies(p)
             \/ \E q \in Runs : StallJob(q) \/ \E k \in StepNo : ExpireStep(q, k)
      PROVE  FALSE
  BY <1>8 DEF WorkerDies, StallJob, ExpireStep
<1> QED
  BY <1>3, <1>4, <1>5, <1>6, <1>7, <1>8, NextCases DEF WorkerStep

\* Whoever creates a run is about to add its job.
LEMMA CreatorNext ==
  ASSUME IInv, Next, NEW r \in Runs, run[r].status = "none", run'[r].status # "none"
  PROVE  \E c \in Clients : client'[c].r = r /\ client'[c].pc = "add"
<1>0. /\ run \in [Runs -> Row] /\ client \in [Clients -> Client]
      /\ \A c \in Clients : client[c] \in Client
      /\ \A w \in Workers : wk[w].pc # "idle" =>
           wk[w].r \in Runs
      /\ job[r].state = "absent"
  BY Facts DEF IInv, TypeOK, TriggersTypeOK, Jobs
<1>1. ASSUME NEW c \in Clients, NEW q \in Runs, NEW key, NEW parent, Insert(q, key, parent),
             client' = [client EXCEPT ![c].pc = "add", ![c].r = q]
      PROVE  client'[c].r = r /\ client'[c].pc = "add"
  <2>1. q = r
    BY <1>0, <1>1 DEF Insert
  <2> QED
    BY <1>0, <1>1, <2>1 DEF Client
<1>2. ASSUME NEW u \in Clients, NEW k \in Keys, Trigger(u, k)
      PROVE  client'[u].r = r /\ client'[u].pc = "add"
  <2>1. PICK q \in Runs :
          /\ Insert(q, <<"user", k>>, 0)
          /\ client' = [client EXCEPT ![u] = [pc |-> "add", key |-> <<"user", k>>,
                                              parent |-> 0, r |-> q]]
    BY <1>2 DEF Trigger
  <2>2. q = r
    BY <1>0, <2>1 DEF Insert
  <2> QED
    BY <1>0, <2>1, <2>2
<1>3. ASSUME NEW c \in Clients, CreateScheduled(c) \/ CreateRecovery(c)
      PROVE  client'[c].r = r /\ client'[c].pc = "add"
  <2>1. PICK q \in Runs, key \in {client[c].key}, parent \in {0, client[c].parent} :
             Insert(q, key, parent) /\ client' = [client EXCEPT ![c].pc = "add", ![c].r = q]
    BY <1>3 DEF CreateScheduled, CreateRecovery
  <2> QED
    BY <1>1, <2>1
<1>4. ASSUME NEW c \in Clients, MarkFailed(c) PROVE FALSE
  <2>1. client[c].r \in Runs /\ client[c].r # r
    BY <1>0, <1>4 DEF MarkFailed, IInv, Creators
  <2> QED
    BY <1>0, <1>4, <2>1 DEF MarkFailed
<1>5. ASSUME TriggersNext PROVE \E c \in Clients : client'[c].r = r /\ client'[c].pc = "add"
  BY <1>2, <1>3, <1>4, <1>5 DEF TriggersNext, TimeComes, ReadDue, CheckDue, CheckRecovery,
     AddJob, ClientDies, SetStatus, SetTime, storeVars, Clients
<1>6. ASSUME NEW w \in Workers, WorkerStep(w) PROVE FALSE
  <2>1. ClaimRun(w) \/ FinishRun(w) \/ Release(w)
    BY <1>6 DEF WorkerStep, Succeed, Fail, Settle, StatementFails, TakeJob, ClaimStep,
                FinishStep, StepThrows, FailStep, storeVars
  <2>2. wk[w].r = r
    BY <1>0, <2>1 DEF ClaimRun, FinishRun, Release
  <2>3. run[r].owner = Nobody /\ Me(w) # Nobody
    BY MeOwner DEF IInv, TypeOK, Leases
  <2> QED
    BY <2>1, <2>2, <2>3 DEF ClaimRun, FinishRun, Release, Claimable, OwnsRun
<1>7. ASSUME NEW q \in Runs, ExpireRun(q) PROVE FALSE
  <2>1. run[q].status = "RUNNING"
    BY <1>7 DEF ExpireRun, IInv, Leases
  <2> QED
    BY <1>0, <1>7, <2>1 DEF ExpireRun
<1>8. ASSUME \/ \E p \in Processes : WorkerDies(p)
             \/ \E q \in Runs : StallJob(q) \/ \E k \in StepNo : ExpireStep(q, k)
      PROVE  FALSE
  BY <1>8 DEF WorkerDies, StallJob, ExpireStep
<1> QED
  BY <1>5, <1>6, <1>7, <1>8, NextCases

\* A client that has a run to add goes on until its job is there, or the run
\* is not PENDING any more.
LEMMA CreatorStays ==
  ASSUME IInv, Next, NEW c \in Clients, client[c].pc \in {"add", "mark"},
         "restart" \notin faults', "database" \notin faults'
  PROVE  \/ client'[c].r = client[c].r /\ client'[c].pc \in {"add", "mark"}
         \/ job'[client[c].r].state # "absent"
         \/ run'[client[c].r].status = "FAILED"
         \/ run[client[c].r].status # "PENDING"
<1> DEFINE r == client[c].r
           Stays == \/ client'[c].r = r /\ client'[c].pc \in {"add", "mark"}
                    \/ job'[r].state # "absent"
                    \/ run'[r].status = "FAILED"
                    \/ run[r].status # "PENDING"
<1>0. /\ r \in Runs /\ client \in [Clients -> Client] /\ client[c] \in Client
      /\ job \in [Runs -> Job] /\ \A q \in Runs : job[q] \in Job
      /\ run \in [Runs -> Row] /\ \A q \in Runs : run[q] \in Row
  BY Facts DEF IInv, TypeOK, TriggersTypeOK, Creators
<1>1. ASSUME client'[c] = client[c] PROVE Stays
  BY <1>1
<1>2. ASSUME NEW d \in Clients, AddJob(d) PROVE Stays
  <2>1. CASE d # c
    BY <1>0, <1>1, <1>2, <2>1 DEF AddJob, Stop, GoTo
  <2>2. CASE d = c /\ Stop(d)
    <3>1. job' = [job EXCEPT ![r].state = "waiting"]
      <4>1. \/ job' = [job EXCEPT ![r].state = "waiting"]
            \/ GoTo(c, "mark")
        BY <1>2, <2>2 DEF AddJob
      <4>2. ~GoTo(c, "mark")
        <5>1. client'[c].pc = "idle"
          BY <1>0, <2>2, IdleClientOK DEF Stop
        <5> QED
          BY <1>0, <5>1 DEF GoTo, Client
      <4> QED
        BY <4>1, <4>2
    <3> QED
      BY <1>0, <3>1 DEF Job
  <2>3. CASE d = c /\ GoTo(d, "mark")
    BY <1>0, <2>3 DEF GoTo, Client
  <2> QED
    BY <1>2, <2>1, <2>2, <2>3 DEF AddJob
<1>3. ASSUME NEW d \in Clients, MarkFailed(d) PROVE Stays
  <2>1. CASE d # c
    BY <1>0, <1>1, <1>3, <2>1 DEF MarkFailed, Stop
  <2>2. CASE d = c /\ run[r].status = "PENDING"
    <3>1. run' = [run EXCEPT ![r].status = "FAILED"]
      BY <1>3, <2>2 DEF MarkFailed, Suffer
    <3> QED
      BY <1>0, <3>1 DEF Row
  <2> QED
    BY <2>1, <2>2
<1>4. ASSUME NEW d \in Clients, \/ ReadDue(d) \/ CheckDue(d) \/ CreateScheduled(d)
                               \/ CreateRecovery(d)
                               \/ \E k \in Keys : \/ Trigger(d, k)
                                                 \/ \E q \in Runs : CheckRecovery(d, k, q)
      PROVE  Stays
  <2>1. d # c
    BY <1>4 DEF ReadDue, CheckDue, CreateScheduled, CreateRecovery, Trigger, CheckRecovery
  <2>2. client'[c] = client[c]
    BY <1>0, <1>4, <2>1 DEF ReadDue, CheckDue, CreateScheduled, CreateRecovery, Trigger,
                            CheckRecovery, Stop, GoTo
  <2> QED
    BY <1>1, <2>2
<1>5. ASSUME NEW d \in Clients, ClientDies(d) PROVE FALSE
  BY <1>5 DEF ClientDies, Suffer
<1>6. ASSUME \/ TimeComes \/ \E status \in {"ACTIVE", "PAUSED", "ERROR"} : SetStatus(status)
             \/ \E slot \in Slots \ {0} : SetTime(slot)
      PROVE  client' = client
  BY <1>6 DEF TimeComes, SetStatus, SetTime
<1> HIDE DEF Stays
<1>7. Stays
  <2>1. ASSUME TriggersNext PROVE Stays
    BY <1>1, <1>2, <1>3, <1>4, <1>5, <1>6, <2>1 DEF TriggersNext, Clients
  <2> QED
    BY <1>1, <2>1, NextCases
<1> QED
  BY <1>7 DEF Stays

LEMMA CarriedNext ==
  ASSUME CarriedInv, Next, faults' \subseteq {"redis", "overrun"}, NEW r \in Runs
  PROVE  Carried(r)'
<1>0. /\ IInv /\ WorkHeld /\ Grows /\ faults \subseteq {"redis", "overrun"}
      /\ \A v \in Workers : wk[v].pc # "idle" => AtWork(v) /\ Holds(v) /\ wk[v].r \in Runs
      /\ Carried(r) /\ run[r] \in Row /\ job[r] \in Job
      /\ run'[r] \in Row /\ job'[r] \in Job
      /\ run \in [Runs -> Row] /\ job \in [Runs -> Job] /\ wk \in [Workers -> Worker]
  <2>1. IInv /\ IInv' /\ Grows /\ faults \subseteq {"redis", "overrun"}
    BY NextIInv, GrowsNext, FaultsNext DEF CarriedInv, SoleInv
  <2>2. run'[r] \in Row /\ job'[r] \in Job
    BY <2>1 DEF IInv, TypeOK, StoreTypeOK
  <2> QED
    BY <2>1, <2>2, Facts DEF CarriedInv, SoleInv, Lossless, WorkHeld
<1>1. \A p \in Processes : ~WorkerDies(p)
  BY DEF WorkerDies, Suffer
<1>2. ~StallJob(r)
  <2>1. job[r].state = "active" => Working(job[r].holder, r)
    BY <1>0 DEF Carried
  <2> QED
    BY <2>1 DEF StallJob, Suffer
<1>3. ASSUME NEW w \in Workers, TakeJob(w, r)
      PROVE  /\ job'[r].state = "active" /\ job'[r].holder = w /\ Working(w, r)'
             /\ run[r].status # "RUNNING" /\ run' = run
  <2>1. /\ job'[r].state = "active" /\ job'[r].holder = w /\ run' = run
        /\ job[r].state = "waiting"
    BY <1>0, <1>3 DEF TakeJob, Job
  <2>2. Working(w, r)'
    BY <1>0, <1>3, TakeIs DEF Working
  <2> QED
    BY <1>0, <2>1, <2>2 DEF Carried
<1>4. ASSUME NEW w \in Workers, Settle(w), wk[w].r = r, Holds(w)
      PROVE  /\ job'[r].state \in {"waiting", "completed", "failed"}
             /\ run[r].status # "RUNNING" /\ run' = run
             /\ job'[r].state # "waiting" => run[r].status \in Ended
  <2>1. AtWork(w) /\ wk[w].pc = "settle" /\ run' = run
    BY <1>0, <1>4 DEF Settle
  <2>2. run[r].status # "RUNNING"
    BY <1>4, <2>1 DEF AtWork
  <2>3. CASE job' = [job EXCEPT ![r].state = "completed", ![r].holder = NoOne]
             /\ wk[w].out = "completed"
    BY <1>0, <1>4, <2>1, <2>2, <2>3 DEF AtWork, Job
  <2>4. ASSUME NEW made, made < JobAttempts,
               job' = [job EXCEPT ![r].state = "waiting", ![r].made = made, ![r].holder = NoOne]
        PROVE  job'[r].state = "waiting"
    BY <1>0, <2>4 DEF Job
  <2>5. ASSUME job[r].made + 1 >= JobAttempts, wk[w].out = "failed", NEW made,
               job' = [job EXCEPT ![r].state = "failed", ![r].made = made, ![r].holder = NoOne]
        PROVE  job'[r].state = "failed" /\ run[r].status \in Ended
    <3>1. job'[r].state = "failed" /\ job[r].made \in Nat
      BY <1>0, <2>5 DEF Job
    <3>2. ~(job[r].made + 1 < JobAttempts)
      BY <2>5, <3>1
    <3> QED
      BY <1>4, <2>1, <3>1, <3>2 DEF AtWork
  <2> QED
    BY <1>4, <2>1, <2>2, <2>3, <2>4, <2>5 DEF Settle
<1>5. job'[r].state = "active" => job'[r].holder \in Workers /\ Working(job[r].holder, r)'
  <2> SUFFICES ASSUME job'[r].state = "active"
               PROVE  job'[r].holder \in Workers /\ Working(job[r].holder, r)'
    OBVIOUS
  <2>1. CASE job'[r] # job[r]
    BY <1>0, <1>2, <1>3, <1>4, <2>1, JobChanges
  <2>2. CASE job'[r] = job[r]
    <3> DEFINE h == job[r].holder
    <3>1. h \in Workers /\ wk[h].pc # "idle" /\ wk[h].r = r
      BY <1>0, <2>2 DEF Carried, Working
    <3> HIDE DEF h
    <3>2. ~Settle(h)
      <4>1. ASSUME Settle(h) PROVE FALSE
        <5>1. Holds(h)
          BY <1>0, <3>1
        <5> QED
          BY <1>4, <2>2, <3>1, <4>1, <5>1
      <4> QED
        BY <4>1
    <3>3. wk'[h].pc # "idle" /\ wk'[h].r = r
      <4>1. ASSUME NEW w \in Workers, WorkerStep(w), w # h PROVE wk'[h] = wk[h]
        BY <1>0, <3>1, <4>1, OwnMove
      <4>2. ASSUME WorkerStep(h) PROVE wk'[h].pc # "idle" /\ wk'[h].r = r
        <5>1. \A q \in Runs : ~TakeJob(h, q)
          BY <3>1 DEF TakeJob
        <5> QED
          BY <1>0, <3>1, <3>2, <4>2, <5>1, OwnMove
      <4>3. ASSUME NEW q \in Runs, StallJob(q) \/ ExpireRun(q) \/ \E k \in StepNo : ExpireStep(q, k)
            PROVE  wk' = wk
        BY <4>3 DEF StallJob, ExpireRun, ExpireStep
      <4> QED
        BY <1>1, <3>1, <4>1, <4>2, <4>3, NextCases
    <3> QED
      BY <2>2, <3>1, <3>3 DEF Working, h
  <2> QED
    BY <2>1, <2>2
<1>6. run'[r].status = "RUNNING" => job'[r].state = "active"
  <2> SUFFICES ASSUME run'[r].status = "RUNNING" PROVE job'[r].state = "active"
    OBVIOUS
  <2>1. CASE run[r].status = "RUNNING"
    <3>1. job[r].state = "active"
      BY <1>0, <2>1 DEF Carried
    <3> QED
      BY <1>0, <1>2, <1>3, <1>4, <2>1, <3>1, JobChanges
  <2>2. CASE run[r].status # "RUNNING"
    <3>1. PICK w \in Workers : ClaimRun(w) /\ wk[w].r = r
      BY <1>0, <2>2, StartsNext
    <3> QED
      BY <1>0, <3>1 DEF ClaimRun, Holds
  <2> QED
    BY <2>1, <2>2
<1>7. job'[r].state \in {"completed", "failed"} => run'[r].status \in Ended
  <2> SUFFICES ASSUME job'[r].state \in {"completed", "failed"} PROVE run'[r].status \in Ended
    OBVIOUS
  <2>1. CASE job'[r] = job[r]
    BY <1>0, <2>1 DEF Carried, Grows
  <2>2. CASE job'[r] # job[r]
    BY <1>0, <1>2, <1>3, <1>4, <2>2, JobChanges
  <2> QED
    BY <2>1, <2>2
<1>8. run'[r].status \in Active /\ job'[r].state = "absent" =>
        \E c \in Clients : client'[c].r = r /\ client'[c].pc \in {"add", "mark"}
  <2> SUFFICES ASSUME run'[r].status \in Active, job'[r].state = "absent"
               PROVE  \E c \in Clients : client'[c].r = r /\ client'[c].pc \in {"add", "mark"}
    OBVIOUS
  <2>1. job[r].state = "absent"
    <3>1. job'[r] = job[r]
      BY <1>0, <1>2, <1>3, <1>4, JobChanges
    <3> QED
      BY <3>1
  <2>2. CASE run[r].status = "none"
    BY <1>0, <2>2, CreatorNext DEF Active
  <2>3. CASE run[r].status \in Active
    <3>1. PICK c \in Clients : client[c].r = r /\ client[c].pc \in {"add", "mark"}
      BY <1>0, <2>1, <2>3 DEF Carried
    <3>2. run[r].status = "PENDING"
      BY <1>0, <2>1, <2>3 DEF Carried, Active
    <3>3. "restart" \notin faults' /\ "database" \notin faults'
      OBVIOUS
    <3>4. run'[r].status # "FAILED"
      BY DEF Active
    <3> QED
      BY <1>0, <3>1, <3>2, <3>3, <3>4, CreatorStays
  <2>4. run[r].status \notin Ended
    BY <1>0 DEF Grows, Active, Ended
  <2> QED
    BY <1>0, <2>2, <2>3, <2>4 DEF Row
<1> QED
  BY <1>5, <1>6, <1>7, <1>8 DEF Carried

LEMMA NextCarried == ASSUME CarriedInv, Next PROVE CarriedInv'
<1>1. SoleInv' /\ WorkHeld'
  BY NextSoleInv, WorkHeldNext DEF CarriedInv, SoleInv
<1>2. Lossless'
  BY AtWorkNext, CarriedNext DEF Lossless
<1> QED
  BY <1>1, <1>2 DEF CarriedInv

LEMMA InitCarried == Init => CarriedInv
<1> SUFFICES ASSUME Init PROVE WorkHeld /\ Lossless
  BY InitSole DEF CarriedInv
<1>1. \A w \in Workers : wk[w].pc = "idle"
  BY DEF Init, WorkerInit, IdleWorker
<1>2. \A r \in Runs : run[r].status = "none" /\ job[r].state = "absent"
  BY DEF Init, StoreInit, NoRow, NoJob
<1> QED
  BY <1>1, <1>2 DEF WorkHeld, Lossless, Carried, Active

LEMMA StutterCarried == ASSUME CarriedInv, UNCHANGED vars PROVE CarriedInv'
<1>1. SoleInv'
  BY StutterSole DEF CarriedInv
<1> QED
  BY <1>1 DEF CarriedInv, WorkHeld, Lossless, AtWork, Carried, Holds, OwnsRun, Me, Working,
              vars, storeVars, workerVars

\* A run that holds back its flow is going to be worked on: its job waits or
\* is worked on, or whoever created it has yet to add the job or to give up.
\* It takes a death, a lost job or a failed transaction to leave one behind;
\* Redis and overrun leases do not.
THEOREM ActiveRunsHaveJobs == Spec => []ActiveRunHasJob
<1>1. CarriedInv /\ [Next]_vars => CarriedInv'
  BY NextCarried, StutterCarried
<1> QED
  BY InitCarried, <1>1, CarriedHasJob, PTL DEF Spec
=============================================================================
