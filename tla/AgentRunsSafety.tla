--------------------------- MODULE AgentRunsSafety ---------------------------
(***************************************************************************)
(* The safety properties of AgentRuns, proved for all constants.           *)
(*                                                                         *)
(* Although some forty actions of five components write the tables, there  *)
(* are only seven things a step can do to the rows of runs: nothing, move  *)
(* an open row's older status, apply an event, create, delete, write an    *)
(* output, start the next attempt.  RowEffect lists them, the lemmas named *)
(* ...Effect show that every action is one of them, and each property is   *)
(* then proved about RowEffect alone.                                      *)
(***************************************************************************)
EXTENDS AgentRunsProofs

USE StoreAssumption

Used(r) == outbox[r][1].state # "none"        \* r was created, and perhaps deleted

CancelKey == <<"cancel", 0, "CANCELLED_BY_USER">>

Won == {"COMPLETED", "CANCELLED"}             \* the statuses both columns share

-----------------------------------------------------------------------------
(* The inductive invariant.                                                *)

EventInv == \A r \in Runs : /\ \A n \in Attempt : outbox[r][n].state # "none" => Used(r)
                            /\ Present(r) => Used(r)

KeyInv == \A r \in Runs : /\ ~Present(r) => keys[r] = {}
                          /\ CancelKey \in keys[r] => run[r].life = "CANCELLED"
                          /\ r \in cancelling => Used(r) /\ run[r].life \in {"CANCELLED", "NONE"}

\* Whatever a publisher, a worker or the queue holds was created: ids of deleted
\* runs in their hands cannot meet a new run.
PubInv == \A p \in Publishers : pub[p].pc # "idle" =>
            /\ Used(pub[p].r)
            /\ pub[p].pc # "requeue" => outbox[pub[p].r][pub[p].n].state # "none"
JobInv == \A r \in Runs : \A n \in Attempt : job[r][n].state # "absent" => Used(r)
WorkInv == \A w \in Workers :
             /\ wk[w].pc # "idle" => Used(wk[w].r)
             /\ wk[w].pc = "finish" /\ Present(wk[w].r) => run[wk[w].r].output > 0

Inv == /\ TypeInv /\ EventInv /\ KeyInv /\ PubInv /\ JobInv /\ WorkInv
       /\ TerminalStatusAgrees /\ EnqueuePerAttempt

-----------------------------------------------------------------------------
(* What a step does to the rows.                                           *)

Same(q) == run'[q] = run[q] /\ keys'[q] = keys[q]
OthersSame(r) == \A q \in Runs : q # r => Same(q)

OutboxKept == \A q \in Runs : \A n \in Attempt :
                outbox'[q][n].state = "none" <=> outbox[q][n].state = "none"
OutboxGains(r, m) == \A q \in Runs : \A n \in Attempt :
  outbox'[q][n].state = "none" <=> outbox[q][n].state = "none" /\ <<q, n>> # <<r, m>>

Nothing == (\A q \in Runs : Same(q)) /\ OutboxKept

MovesStatus(r) ==
  /\ OthersSame(r) /\ OutboxKept /\ keys'[r] = keys[r] /\ Present(r)
  /\ \/ run'[r].status = run[r].status
     \/ run[r].status \notin Won /\ run'[r].status \notin Won \cup {"NONE"}
  /\ run'[r].life = run[r].life /\ run'[r].attempt = run[r].attempt
  /\ run'[r].output = run[r].output

Applies(r, key, e) ==
  /\ OthersSame(r) /\ OutboxKept
  /\ Accepts(r, key, e) /\ run'[r] = Moved(run[r], e) /\ keys'[r] = keys[r] \cup {key}
  /\ key = CancelKey => e = "CANCELLED_BY_USER"
  /\ key \in ReportKeys => e = "EXECUTION_FINISHED"
  /\ e = "EXECUTION_FINISHED" => run[r].output > 0 \/ key \in ReportKeys

Creates(r) ==
  /\ OthersSame(r) /\ OutboxGains(r, 1)
  /\ Unused(r) /\ run'[r] = NewRow /\ keys'[r] = keys[r]

Deletes(r) ==
  /\ OthersSame(r) /\ OutboxKept
  /\ Present(r) /\ run'[r] = NoRow /\ keys'[r] = {}

Writes(r) ==
  /\ OthersSame(r) /\ OutboxKept /\ keys'[r] = keys[r]
  /\ run[r].life = "EXECUTING" /\ run'[r].life = "EXECUTING"
  /\ run'[r].status = run[r].status
  /\ run'[r].attempt = run[r].attempt /\ run'[r].output = run[r].attempt

NextAttempt(r) ==
  /\ OthersSame(r) /\ OutboxGains(r, run[r].attempt + 1) /\ keys'[r] = keys[r]
  /\ run[r].life = "RETRY_SCHEDULED" /\ run'[r].life = "RETRY_SCHEDULED"
  /\ run[r].attempt < MaxAttempt /\ run'[r].attempt = run[r].attempt + 1
  /\ run'[r].status = "RETRYING" /\ run'[r].output = run[r].output

RowEffect ==
  \/ Nothing
  \/ \E r \in Runs : \/ MovesStatus(r) \/ Creates(r) \/ Deletes(r) \/ Writes(r)
                     \/ NextAttempt(r)
                     \/ \E e \in Event : \E key \in Key : Applies(r, key, e)

LEMMA NothingEffect ==
  ASSUME UNCHANGED <<run, keys, outbox>> PROVE RowEffect
BY DEF RowEffect, Nothing, Same, OutboxKept

LEMMA OutboxUnchanged == ASSUME UNCHANGED outbox PROVE OutboxKept
BY DEF OutboxKept

LEMMA ApplyEffect ==
  ASSUME TypeInv, OutboxKept, NEW r \in Runs, NEW e \in Event, NEW key \in Key,
         key = CancelKey => e = "CANCELLED_BY_USER",
         key \in ReportKeys => e = "EXECUTION_FINISHED",
         e = "EXECUTION_FINISHED" => ~Present(r) \/ run[r].output > 0 \/ key \in ReportKeys,
         ApplyEvent(r, key, e)
  PROVE  RowEffect
<1>1. CASE UNCHANGED <<run, keys>>
  BY <1>1 DEF RowEffect, Nothing, Same
<1>2. CASE Accepts(r, key, e) /\ run' = [run EXCEPT ![r] = Moved(@, e)]
           /\ keys' = [keys EXCEPT ![r] = @ \cup {key}]
  <2>1. Applies(r, key, e)
    BY <1>2 DEF Applies, OthersSame, Same, TypeInv, RunOK, KeysOK, Accepts
  <2> QED
    BY <2>1 DEF RowEffect
<1> QED
  BY <1>1, <1>2 DEF ApplyEvent

LEMMA CreateEffect ==
  ASSUME TypeInv, EventInv, NEW r \in Runs, CreateRun(r), UNCHANGED keys PROVE RowEffect
<1>1. 1 \in Attempt
  BY DEF Attempt
<1>2. OthersSame(r) /\ run'[r] = NewRow /\ keys'[r] = keys[r] /\ Unused(r)
  BY DEF CreateRun, OthersSame, Same, TypeInv, RunOK
<1>3. OutboxGains(r, 1)
  BY <1>1 DEF CreateRun, NewEvent, OutboxGains, TypeInv, OutboxOK
<1> QED
  BY <1>2, <1>3 DEF RowEffect, Creates

LEMMA StatusEffect ==
  ASSUME NEW r \in Runs, MovesStatus(r) PROVE RowEffect
BY DEF RowEffect

-----------------------------------------------------------------------------
(* The publisher.                                                          *)

\* An update of an event that exists neither adds nor removes one.
LEMMA MarkKeepsOutbox ==
  ASSUME TypeInv, NEW r \in Runs, NEW n \in Attempt, NEW state, NEW holder, state # "none",
         outbox[r][n].state # "none", MarkEvent(r, n, state, holder)
  PROVE  OutboxKept
BY DEF TypeInv, OutboxOK, MarkEvent, OutboxKept

LEMMA DispatchableEffect ==
  ASSUME TypeInv, NEW r \in Runs, NEW n \in Attempt, NEW error,
         NEW status \in {"ENQUEUING", "QUEUED", "PENDING", "FAILED"},
         RunIfDispatchable(r, n, status, error), UNCHANGED keys, OutboxKept
  PROVE  RowEffect
<1>1. CASE UNCHANGED run
  BY <1>1 DEF RowEffect, Nothing, Same
<1>2. CASE /\ run[r].status \in Dispatchable
           /\ run' = [run EXCEPT ![r].status = status, ![r].error = error]
  <2>1. run[r] \in Row
    BY <1>2, PresentRow DEF TypeInv, Dispatchable
  <2>2. /\ run'[r].status = status /\ run'[r].life = run[r].life
        /\ run'[r].attempt = run[r].attempt /\ run'[r].output = run[r].output
    BY <1>2, <2>1 DEF TypeInv, RunOK, Row
  <2>3. MovesStatus(r)
    BY <1>2, <2>1, <2>2 DEF MovesStatus, OthersSame, Same, TypeInv, RunOK, Dispatchable, Won,
                            Present
  <2> QED
    BY <2>3, StatusEffect
<1> QED
  BY <1>1, <1>2 DEF RunIfDispatchable

\* Events never disappear, hence no id is used twice.
LEMMA UsedKept ==
  ASSUME TypeInv, RowEffect, NEW r \in Runs
  PROVE  /\ Used(r) => Used(r)'
         /\ \A n \in Attempt : outbox[r][n].state # "none" => outbox'[r][n].state # "none"
<1>1. 1 \in Attempt
  BY DEF Attempt
<1>2. \A n \in Attempt : outbox[r][n].state # "none" => outbox'[r][n].state # "none"
  BY DEF RowEffect, Nothing, MovesStatus, Applies, Creates, Deletes, Writes, NextAttempt,
         OutboxKept, OutboxGains
<1> QED
  BY <1>1, <1>2 DEF Used

\* A step of another component leaves what a worker holds in order.
LEMMA OutputKept ==
  ASSUME TypeInv, RowEffect, NEW r \in Runs, Used(r), Present(r)',
         Present(r) => run[r].output > 0
  PROVE  run'[r].output > 0
<1>1. CASE Same(r)
  BY <1>1 DEF Same, Present
<1>2. CASE Creates(r)
  BY <1>2 DEF Creates, Unused, Used
<1>3. CASE Deletes(r)
  BY <1>3 DEF Deletes, Present, NoRow
<1>4. CASE MovesStatus(r)
  BY <1>4 DEF MovesStatus
<1>5. CASE Writes(r)
  <2>1. run[r].attempt \in Attempt
    BY <1>5, PresentRow DEF Writes, TypeInv, RunOK, NoRow, Row
  <2> QED
    BY <1>5, <2>1 DEF Writes, Attempt
<1>6. CASE NextAttempt(r)
  <2>1. run[r] \in Row
    BY <1>6 DEF NextAttempt, TypeInv, RunOK, NoRow
  <2> QED
    BY <1>6, <2>1 DEF NextAttempt, Present, Row, Status, Terminal
<1>7. CASE \E e \in Event : \E key \in Key : Applies(r, key, e)
  <2>1. PICK e \in Event : run'[r] = Moved(run[r], e) /\ Present(r)
    BY <1>7 DEF Applies, Accepts
  <2>2. run[r] \in Row
    BY <2>1, PresentRow DEF TypeInv, Present
  <2>3. run'[r].output = run[r].output
    BY <2>1, <2>2 DEF Moved, Row
  <2> QED
    BY <2>1, <2>3
<1> QED
  BY <1>1, <1>2, <1>3, <1>4, <1>5, <1>6, <1>7
  DEF RowEffect, Nothing, MovesStatus, Applies, Creates, Deletes, Writes, NextAttempt, OthersSame

LEMMA WorkKept == ASSUME TypeInv, WorkInv, RowEffect, UNCHANGED wk PROVE WorkInv'
<1> SUFFICES ASSUME NEW w \in Workers, wk[w].pc # "idle"
             PROVE  /\ Used(wk[w].r)'
                    /\ wk[w].pc = "finish" /\ Present(wk[w].r)' => run'[wk[w].r].output > 0
  BY DEF WorkInv, Used, Present
<1>1. wk[w].r \in Runs /\ Used(wk[w].r)
  BY BusyWorkerOK DEF TypeInv, WorkInv
<1>2. Used(wk[w].r)'
  BY <1>1, UsedKept DEF Used
<1>3. ASSUME wk[w].pc = "finish", Present(wk[w].r)' PROVE run'[wk[w].r].output > 0
  BY <1>1, <1>3, OutputKept DEF WorkInv, Present
<1> QED
  BY <1>2, <1>3

LEMMA PubKept == ASSUME TypeInv, PubInv, RowEffect, UNCHANGED pub PROVE PubInv'
<1> SUFFICES ASSUME NEW p \in Publishers, pub[p].pc # "idle"
             PROVE  /\ Used(pub[p].r)'
                    /\ pub[p].pc # "requeue" => outbox'[pub[p].r][pub[p].n].state # "none"
  BY DEF PubInv, Used
<1>1. pub[p].r \in Runs /\ pub[p].n \in Attempt
  BY PubPlace DEF TypeInv
<1> QED
  BY <1>1, UsedKept DEF PubInv, Used

\* A publisher stays at its event, drops it, or takes one that exists.
LEMMA PubMove ==
  ASSUME TypeInv, PubInv, RowEffect, NEW p \in Publishers, NEW v, pub' = [pub EXCEPT ![p] = v],
         \/ v.pc = "idle"
         \/ /\ v.r = pub[p].r /\ v.n = pub[p].n /\ v.pc # "requeue"
            /\ pub[p].pc \notin {"idle", "requeue"}
         \/ v.r \in Runs /\ v.n \in Attempt /\ Used(v.r)
              /\ (v.pc # "requeue" => outbox[v.r][v.n].state # "none")
  PROVE  PubInv'
<1> SUFFICES ASSUME NEW q \in Publishers, pub'[q].pc # "idle"
             PROVE  /\ outbox'[pub'[q].r][1].state # "none"
                    /\ pub'[q].pc # "requeue" => outbox'[pub'[q].r][pub'[q].n].state # "none"
  BY DEF PubInv, Used
<1>1. /\ pub'[q].r \in Runs /\ pub'[q].n \in Attempt /\ Used(pub'[q].r)
      /\ pub'[q].pc # "requeue" => outbox[pub'[q].r][pub'[q].n].state # "none"
  <2>1. CASE q = p
    BY <2>1, PubPlace DEF PubInv, TypeInv, PubOK
  <2>2. CASE q # p
    BY <2>2, PubPlace DEF PubInv, TypeInv, PubOK
  <2> QED
    BY <2>1, <2>2
<1> QED
  BY <1>1, UsedKept DEF Used

LEMMA PubGotoMove ==
  ASSUME TypeInv, PubInv, RowEffect, NEW p \in Publishers, NEW pc, pc # "requeue",
         pub[p].pc \notin {"idle", "requeue"}, PubGoto(p, pc)
  PROVE  PubInv'
<1> DEFINE v == [pub[p] EXCEPT !.pc = pc]
<1>1. v.pc = pc /\ v.r = pub[p].r /\ v.n = pub[p].n
  BY DEF TypeInv, PubOK, BusyPublisher, IdlePublisher
<1>2. pub' = [pub EXCEPT ![p] = v]
  BY DEF PubGoto
<1> HIDE DEF v
<1> QED
  BY <1>1, <1>2, PubMove

LEMMA PubDoneMove ==
  ASSUME TypeInv, PubInv, RowEffect, NEW p \in Publishers, PubDone(p) PROVE PubInv'
BY PubMove DEF PubDone, IdlePublisher

LEMMA JobKept == ASSUME TypeInv, JobInv, RowEffect, UNCHANGED job PROVE JobInv'
BY UsedKept DEF JobInv, Used

LEMMA PublisherEffect ==
  ASSUME Inv, ByPublisher(PubNext) PROVE RowEffect /\ PubInv' /\ JobInv' /\ WorkInv'
<1> USE DEF Inv
<1> USE DEF TypeInv
<1>1. ASSUME NEW p \in Publishers, NEW r \in Runs, NEW n \in Attempt,
            ByPublisher(RecoverLock(p, r, n))
     PROVE  RowEffect /\ PubInv' /\ JobInv' /\ WorkInv'
  <2>5. OutboxKept
    BY <1>1, MarkKeepsOutbox DEF ByPublisher, RecoverLock
  <2>1. RowEffect
    BY <1>1, <2>5 DEF ByPublisher, RecoverLock, RowEffect, Nothing, Same
  <2>2. PubInv'
    BY <1>1, <2>1, PubKept DEF ByPublisher, RecoverLock
  <2>3. JobInv'
    BY <1>1, <2>1, JobKept DEF ByPublisher, RecoverLock, storeVars
  <2>4. WorkInv'
    BY <1>1, <2>1, WorkKept DEF ByPublisher, RecoverLock, workerVars
  <2> QED
    BY <2>1, <2>2, <2>3, <2>4
<1>2. ASSUME NEW p \in Publishers, NEW r \in Runs, ByPublisher(RecoverOrphan(p, r))
     PROVE  RowEffect /\ PubInv' /\ JobInv' /\ WorkInv'
  <2>5. run[r].attempt \in Attempt /\ Present(r)
    BY <1>2, PresentRow DEF ByPublisher, RecoverOrphan, Present
  <2>6. outbox[r][run[r].attempt].state # "none"
    BY <2>5 DEF EnqueuePerAttempt, Attempt
  <2>1. RowEffect
    BY <1>2, <2>6, NothingEffect DEF ByPublisher, RecoverOrphan
  <2>2. PubInv'
    BY <1>2, <2>1, PubKept DEF ByPublisher, RecoverOrphan
  <2>3. JobInv'
    BY <1>2, <2>1, JobKept DEF ByPublisher, RecoverOrphan, storeVars
  <2>4. WorkInv'
    BY <1>2, <2>1, WorkKept DEF ByPublisher, RecoverOrphan, workerVars
  <2> QED
    BY <2>1, <2>2, <2>3, <2>4
<1>3. ASSUME NEW p \in Publishers, NEW r \in Runs, NEW n \in Attempt,
            ByPublisher(ReadEvent(p, r, n))
     PROVE  RowEffect /\ PubInv' /\ JobInv' /\ WorkInv'
  <2>1. RowEffect
    BY <1>3, NothingEffect DEF ByPublisher, ReadEvent, storeVars
  <2>2. PubInv'
    BY <1>3, <2>1, PubMove DEF ByPublisher, ReadEvent, EventInv
  <2>3. JobInv'
    BY <1>3, <2>1, JobKept DEF ByPublisher, ReadEvent, storeVars
  <2>4. WorkInv'
    BY <1>3, <2>1, WorkKept DEF ByPublisher, ReadEvent, workerVars
  <2> QED
    BY <2>1, <2>2, <2>3, <2>4
<1>4. ASSUME NEW p \in Publishers, NEW r \in Runs, ByPublisher(ReadQueued(p, r))
     PROVE  RowEffect /\ PubInv' /\ JobInv' /\ WorkInv'
  <2>1. RowEffect
    BY <1>4, NothingEffect DEF ByPublisher, ReadQueued, storeVars
  <2>2. PubInv'
    <3>1. Used(r) /\ run[r].attempt \in Attempt
      BY <1>4, PresentRow DEF ByPublisher, ReadQueued, EventInv, Present
    <3> QED
      BY <1>4, <2>1, <3>1, PubMove DEF ByPublisher, ReadQueued
  <2>3. JobInv'
    BY <1>4, <2>1, JobKept DEF ByPublisher, ReadQueued, storeVars
  <2>4. WorkInv'
    BY <1>4, <2>1, WorkKept DEF ByPublisher, ReadQueued, workerVars
  <2> QED
    BY <2>1, <2>2, <2>3, <2>4
<1>5. ASSUME NEW p \in Publishers, ByPublisher(Requeue(p))
     PROVE  RowEffect /\ PubInv' /\ JobInv' /\ WorkInv'
  <2>1. RowEffect
    BY <1>5, NothingEffect DEF ByPublisher, Requeue, storeVars
  <2>2. PubInv'
    BY <1>5, <2>1, PubGotoMove, PubDoneMove DEF ByPublisher, Requeue
  <2>3. JobInv'
    <3>1. pub[p].r \in Runs /\ pub[p].n \in Attempt /\ Used(pub[p].r)
      BY <1>5, PubPlace DEF ByPublisher, Requeue, PubInv
    <3>2. \A q \in Runs : \A m \in Attempt : job'[q][m].state # "absent" =>
             job[q][m].state # "absent" \/ q = pub[p].r
      BY <1>5, <3>1 DEF ByPublisher, Requeue, AddJob, JobOK
    <3> QED
      BY <2>1, <3>1, <3>2, UsedKept DEF JobInv, Used
  <2>4. WorkInv'
    BY <1>5, <2>1, WorkKept DEF ByPublisher, Requeue, workerVars
  <2> QED
    BY <2>1, <2>2, <2>3, <2>4
<1>6. ASSUME NEW p \in Publishers, ByPublisher(ClaimEvent(p))
     PROVE  RowEffect /\ PubInv' /\ JobInv' /\ WorkInv'
  <2> DEFINE r == pub[p].r
             n == pub[p].n
  <2>0. r \in Runs /\ n \in Attempt /\ outbox[r][n].state # "none"
    BY <1>6, PubPlace DEF ByPublisher, ClaimEvent, PubInv
  <2>5. OutboxKept
    BY <1>6, <2>0, MarkKeepsOutbox, OutboxUnchanged DEF ByPublisher, ClaimEvent
  <2>1. RowEffect
    BY <1>6, <2>5 DEF ByPublisher, ClaimEvent, RowEffect, Nothing, Same
  <2>2. PubInv'
    BY <1>6, <2>1, PubGotoMove, PubDoneMove DEF ByPublisher, ClaimEvent
  <2>3. JobInv'
    BY <1>6, <2>1, JobKept DEF ByPublisher, ClaimEvent, storeVars
  <2>4. WorkInv'
    BY <1>6, <2>1, WorkKept DEF ByPublisher, ClaimEvent, workerVars
  <2> QED
    BY <2>1, <2>2, <2>3, <2>4
<1>7. ASSUME NEW p \in Publishers, ByPublisher(MarkEnqueuing(p))
     PROVE  RowEffect /\ PubInv' /\ JobInv' /\ WorkInv'
  <2> DEFINE r == pub[p].r
             n == pub[p].n
  <2>0. r \in Runs /\ n \in Attempt /\ outbox[r][n].state # "none"
    BY <1>7, PubPlace DEF ByPublisher, MarkEnqueuing, PubInv
  <2>5. OutboxKept
    BY <1>7, <2>0, MarkKeepsOutbox, OutboxUnchanged DEF ByPublisher, MarkEnqueuing
  <2>1. RowEffect
    BY <1>7, <2>0, <2>5, DispatchableEffect DEF ByPublisher, MarkEnqueuing
  <2>2. PubInv'
    BY <1>7, <2>1, PubGotoMove, PubDoneMove DEF ByPublisher, MarkEnqueuing
  <2>3. JobInv'
    BY <1>7, <2>1, JobKept DEF ByPublisher, MarkEnqueuing, storeVars
  <2>4. WorkInv'
    BY <1>7, <2>1, WorkKept DEF ByPublisher, MarkEnqueuing, workerVars
  <2> QED
    BY <2>1, <2>2, <2>3, <2>4
<1>8. ASSUME NEW p \in Publishers, ByPublisher(CheckRun(p))
     PROVE  RowEffect /\ PubInv' /\ JobInv' /\ WorkInv'
  <2> DEFINE r == pub[p].r
             n == pub[p].n
  <2>0. r \in Runs /\ n \in Attempt /\ outbox[r][n].state # "none"
    BY <1>8, PubPlace DEF ByPublisher, CheckRun, PubInv
  <2>5. OutboxKept
    BY <1>8, <2>0, MarkKeepsOutbox, OutboxUnchanged DEF ByPublisher, CheckRun
  <2>1. RowEffect
    BY <1>8, <2>5 DEF ByPublisher, CheckRun, RowEffect, Nothing, Same
  <2>2. PubInv'
    BY <1>8, <2>1, PubGotoMove, PubDoneMove DEF ByPublisher, CheckRun
  <2>3. JobInv'
    BY <1>8, <2>1, JobKept DEF ByPublisher, CheckRun, storeVars
  <2>4. WorkInv'
    BY <1>8, <2>1, WorkKept DEF ByPublisher, CheckRun, workerVars
  <2> QED
    BY <2>1, <2>2, <2>3, <2>4
<1>9. ASSUME NEW p \in Publishers, ByPublisher(AddToQueue(p))
     PROVE  RowEffect /\ PubInv' /\ JobInv' /\ WorkInv'
  <2>1. RowEffect
    BY <1>9, NothingEffect DEF ByPublisher, AddToQueue, storeVars
  <2>2. PubInv'
    BY <1>9, <2>1, PubGotoMove, PubDoneMove DEF ByPublisher, AddToQueue
  <2>3. JobInv'
    <3>1. pub[p].r \in Runs /\ pub[p].n \in Attempt /\ Used(pub[p].r)
      BY <1>9, PubPlace DEF ByPublisher, AddToQueue, PubInv
    <3>2. \A q \in Runs : \A m \in Attempt : job'[q][m].state # "absent" =>
             job[q][m].state # "absent" \/ q = pub[p].r
      BY <1>9, <3>1 DEF ByPublisher, AddToQueue, AddJob, JobOK
    <3> QED
      BY <2>1, <3>1, <3>2, UsedKept DEF JobInv, Used
  <2>4. WorkInv'
    BY <1>9, <2>1, WorkKept DEF ByPublisher, AddToQueue, workerVars
  <2> QED
    BY <2>1, <2>2, <2>3, <2>4
<1>10. ASSUME NEW p \in Publishers, ByPublisher(MarkPublished(p))
     PROVE  RowEffect /\ PubInv' /\ JobInv' /\ WorkInv'
  <2> DEFINE r == pub[p].r
             n == pub[p].n
  <2>0. r \in Runs /\ n \in Attempt /\ outbox[r][n].state # "none"
    BY <1>10, PubPlace DEF ByPublisher, MarkPublished, PubInv
  <2>5. OutboxKept
    BY <1>10, <2>0, MarkKeepsOutbox, OutboxUnchanged DEF ByPublisher, MarkPublished
  <2>1. RowEffect
    BY <1>10, <2>0, <2>5, DispatchableEffect DEF ByPublisher, MarkPublished
  <2>2. PubInv'
    BY <1>10, <2>1, PubGotoMove, PubDoneMove DEF ByPublisher, MarkPublished
  <2>3. JobInv'
    BY <1>10, <2>1, JobKept DEF ByPublisher, MarkPublished, storeVars
  <2>4. WorkInv'
    BY <1>10, <2>1, WorkKept DEF ByPublisher, MarkPublished, workerVars
  <2> QED
    BY <2>1, <2>2, <2>3, <2>4
<1>11. ASSUME NEW p \in Publishers, ByPublisher(RecordFailure(p))
     PROVE  RowEffect /\ PubInv' /\ JobInv' /\ WorkInv'
  <2> DEFINE r == pub[p].r
             n == pub[p].n
  <2>0. r \in Runs /\ n \in Attempt /\ outbox[r][n].state # "none"
    BY <1>11, PubPlace DEF ByPublisher, RecordFailure, PubInv
  <2>5. OutboxKept
    BY <1>11, <2>0 DEF ByPublisher, RecordFailure, OutboxKept, OutboxOK
  <2>1. RowEffect
    BY <1>11, <2>0, <2>5, DispatchableEffect DEF ByPublisher, RecordFailure
  <2>2. PubInv'
    BY <1>11, <2>1, PubGotoMove, PubDoneMove DEF ByPublisher, RecordFailure
  <2>3. JobInv'
    BY <1>11, <2>1, JobKept DEF ByPublisher, RecordFailure, storeVars
  <2>4. WorkInv'
    BY <1>11, <2>1, WorkKept DEF ByPublisher, RecordFailure, workerVars
  <2> QED
    BY <2>1, <2>2, <2>3, <2>4
<1>12. ASSUME NEW p \in Publishers, ByPublisher(PubQueryFails(p))
     PROVE  RowEffect /\ PubInv' /\ JobInv' /\ WorkInv'
  <2>1. RowEffect
    BY <1>12, NothingEffect DEF ByPublisher, PubQueryFails, storeVars
  <2>2. PubInv'
    BY <1>12, <2>1, PubGotoMove, PubDoneMove DEF ByPublisher, PubQueryFails
  <2>3. JobInv'
    BY <1>12, <2>1, JobKept DEF ByPublisher, PubQueryFails, storeVars
  <2>4. WorkInv'
    BY <1>12, <2>1, WorkKept DEF ByPublisher, PubQueryFails, workerVars
  <2> QED
    BY <2>1, <2>2, <2>3, <2>4
<1>13. ASSUME NEW p \in Publishers, ByPublisher(PubStops(p))
     PROVE  RowEffect /\ PubInv' /\ JobInv' /\ WorkInv'
  <2>1. RowEffect
    BY <1>13, NothingEffect DEF ByPublisher, PubStops, storeVars
  <2>2. PubInv'
    BY <1>13, <2>1, PubGotoMove, PubDoneMove DEF ByPublisher, PubStops
  <2>3. JobInv'
    BY <1>13, <2>1, JobKept DEF ByPublisher, PubStops, storeVars
  <2>4. WorkInv'
    BY <1>13, <2>1, WorkKept DEF ByPublisher, PubStops, workerVars
  <2> QED
    BY <2>1, <2>2, <2>3, <2>4
<1> QED
  BY <1>1, <1>2, <1>3, <1>4, <1>5, <1>6, <1>7, <1>8, <1>9, <1>10, <1>11, <1>12, <1>13
  DEF PubNext, PubStep, PubStart, ByPublisher

-----------------------------------------------------------------------------
(* The workers.                                                            *)

\* A worker stays with its run, drops it, or takes one that exists; it gets to
\* "finish" only with an output in the row.
LEMMA WorkMove ==
  ASSUME TypeInv, WorkInv, RowEffect, NEW w \in Workers, NEW v, wk' = [wk EXCEPT ![w] = v],
         \/ v.pc = "idle"
         \/ v.r \in Runs /\ Used(v.r) /\ (v.pc = "finish" => run'[v.r].output > 0)
  PROVE  WorkInv'
<1> SUFFICES ASSUME NEW u \in Workers, wk'[u].pc # "idle"
             PROVE  /\ outbox'[wk'[u].r][1].state # "none"
                    /\ wk'[u].pc = "finish" /\ run'[wk'[u].r].status # "NONE" =>
                          run'[wk'[u].r].output > 0
  BY DEF WorkInv, Used, Present
<1>1. CASE u = w
  BY <1>1, UsedKept DEF Used, TypeInv, WkOK
<1>2. CASE u # w
  <2>1. wk'[u] = wk[u] /\ wk[u].r \in Runs /\ Used(wk[u].r)
    BY <1>2, BusyWorkerOK DEF WorkInv, TypeInv, WkOK
  <2>2. ASSUME wk[u].pc = "finish", Present(wk[u].r)' PROVE run'[wk[u].r].output > 0
    BY <2>1, <2>2, OutputKept DEF WorkInv, Present
  <2> QED
    BY <2>1, <2>2, UsedKept DEF Used, Present
<1> QED
  BY <1>1, <1>2

\* The three ways a worker goes on.
LEMMA WorkGoes ==
  ASSUME TypeInv, WorkInv, RowEffect, NEW w \in Workers, wk[w].pc # "idle", NEW x, x # "finish",
         Goto(w, x) \/ Return(w, x) \/ Throw(w, x)
  PROVE  WorkInv'
<1>1. wk[w].r \in Runs /\ Used(wk[w].r) /\ wk[w] \in BusyWorker
  BY BusyWorkerOK DEF WorkInv, TypeInv
<1>2. ASSUME Goto(w, x) PROVE WorkInv'
  <2> DEFINE v == [wk[w] EXCEPT !.pc = x]
  <2>1. v.pc # "finish" /\ v.r = wk[w].r
    BY <1>1 DEF BusyWorker
  <2>2. wk' = [wk EXCEPT ![w] = v]
    BY <1>2 DEF Goto
  <2> HIDE DEF v
  <2> QED
    BY <1>1, <2>1, <2>2, WorkMove
<1>3. ASSUME Return(w, x) PROVE WorkInv'
  <2> DEFINE v == [wk[w] EXCEPT !.pc = IF wk[w].held THEN "release" ELSE "settle", !.out = x]
  <2>1. v.pc # "finish" /\ v.r = wk[w].r
    BY <1>1 DEF BusyWorker
  <2>2. wk' = [wk EXCEPT ![w] = v]
    BY <1>3 DEF Return, TypeInv, WkOK
  <2> HIDE DEF v
  <2> QED
    BY <1>1, <2>1, <2>2, WorkMove
<1>4. ASSUME Throw(w, x) PROVE WorkInv'
  <2> DEFINE v == [wk[w] EXCEPT !.pc = "catch",
                                !.out = IF wk[w].base = "VERIFYING" THEN "fatal" ELSE x]
  <2>1. v.pc # "finish" /\ v.r = wk[w].r
    BY <1>1 DEF BusyWorker
  <2>2. wk' = [wk EXCEPT ![w] = v]
    BY <1>4 DEF Throw, TypeInv, WkOK
  <2> HIDE DEF v
  <2> QED
    BY <1>1, <2>1, <2>2, WorkMove
<1> QED
  BY <1>2, <1>3, <1>4

LEMMA WorkerEventEffect ==
  ASSUME TypeInv, WorkInv, NEW w \in Workers, NEW from, NEW e \in Event, NEW after,
         wk[w].pc # "idle", e = "EXECUTION_FINISHED" => wk[w].pc = "finish",
         after.r = wk[w].r, after.pc # "finish", WorkerEvent(w, from, e, after)
  PROVE  RowEffect /\ WorkInv'
<1> DEFINE r == wk[w].r
           key == WorkerKey(wk[w].n, e)
<1>1. r \in Runs /\ Used(r) /\ key \in Key /\ key # CancelKey /\ key \notin ReportKeys
  BY BusyWorkerOK, WorkerKeyOK DEF TypeInv, WorkInv, WorkerKey, CancelKey, ReportKeys
<1>2. OutboxKept
  BY OutboxUnchanged DEF WorkerEvent
<1>3. RowEffect
  <2>1. CASE ApplyEvent(r, key, e)
    BY <1>1, <1>2, <2>1, ApplyEffect DEF WorkInv
  <2>2. CASE UNCHANGED <<run, keys>>
    BY <1>2, <2>2 DEF RowEffect, Nothing, Same
  <2> QED
    BY <2>1, <2>2 DEF WorkerEvent
<1>4. CASE wk' = [wk EXCEPT ![w] = after]
  BY <1>1, <1>3, <1>4, WorkMove
<1>5. CASE Throw(w, "fatal") \/ Throw(w, "retry")
  BY <1>3, <1>5, WorkGoes
<1> QED
  BY <1>3, <1>4, <1>5 DEF WorkerEvent

LEMMA JobMove ==
  ASSUME TypeInv, JobInv, RowEffect, NEW r \in Runs, NEW n \in Attempt, Used(r), NEW j,
         job' = [job EXCEPT ![r][n] = j]
  PROVE  JobInv'
<1> SUFFICES ASSUME NEW q \in Runs, NEW m \in Attempt, job'[q][m].state # "absent"
             PROVE  outbox'[q][1].state # "none"
  BY DEF JobInv, Used
<1>1. Used(q)
  BY DEF JobInv, TypeInv, JobOK
<1> QED
  BY <1>1, UsedKept DEF Used

LEMMA WorkerEffect ==
  ASSUME Inv, ByWorker(WorkerNext) PROVE RowEffect /\ PubInv' /\ JobInv' /\ WorkInv'
<1> USE DEF Inv
<1> USE DEF TypeInv
<1>1. ASSUME NEW w \in Workers, NEW r \in Runs, NEW n \in Attempt,
            ByWorker(TakeJob(w, r, n))
     PROVE  RowEffect /\ PubInv' /\ JobInv' /\ WorkInv'
  <2>1. RowEffect
    BY <1>1, NothingEffect DEF ByWorker, TakeJob, storeVars
  <2>2. PubInv'
    BY <1>1, <2>1, PubKept DEF ByWorker, TakeJob
  <2>5. Used(r)
    BY <1>1 DEF ByWorker, TakeJob, JobInv
  <2>3. JobInv'
    BY <1>1, <2>1, <2>5, JobMove DEF ByWorker, TakeJob, MarkJob
  <2>4. WorkInv'
    BY <1>1, <2>1, <2>5, WorkMove DEF ByWorker, TakeJob
  <2> QED
    BY <2>1, <2>2, <2>3, <2>4
<1>2. ASSUME NEW w \in Workers, ByWorker(ReadRun(w))
     PROVE  RowEffect /\ PubInv' /\ JobInv' /\ WorkInv'
  <2>1. RowEffect
    BY <1>2, NothingEffect DEF ByWorker, ReadRun, storeVars
  <2>2. PubInv'
    BY <1>2, <2>1, PubKept DEF ByWorker, ReadRun
  <2>3. JobInv'
    BY <1>2, <2>1, JobKept DEF ByWorker, ReadRun, storeVars
  <2>0. wk[w].r \in Runs /\ wk[w].n \in Attempt /\ Used(wk[w].r)
    BY <1>2, BusyWorkerOK DEF ByWorker, ReadRun, WorkInv
  <2>4. WorkInv'
    <3> DEFINE v == [wk[w] EXCEPT !.pc = "claim", !.base = run[wk[w].r].life,
                                !.ls = run[wk[w].r].life]
    <3>1. CASE Return(w, "completed")
      BY <1>2, <2>1, <3>1, WorkGoes DEF ByWorker, ReadRun
    <3>2. CASE wk' = [wk EXCEPT ![w] = v]
      <4>1. v.r = wk[w].r /\ v.pc # "finish"
        BY <1>2, BusyWorkerOK DEF ByWorker, ReadRun, BusyWorker
      <4> HIDE DEF v
      <4> QED
        BY <2>0, <2>1, <3>2, <4>1, WorkMove
    <3> QED
      BY <1>2, <3>1, <3>2 DEF ByWorker, ReadRun, WkOK
  <2> QED
    BY <2>1, <2>2, <2>3, <2>4
<1>3. ASSUME NEW w \in Workers, ByWorker(ClaimRun(w))
     PROVE  RowEffect /\ PubInv' /\ JobInv' /\ WorkInv'
  <2>0. wk[w].r \in Runs /\ wk[w].n \in Attempt /\ Used(wk[w].r)
    BY <1>3, BusyWorkerOK DEF ByWorker, ClaimRun, WorkInv
  <2>1. RowEffect
    <3> DEFINE r == wk[w].r
    <3>1. OutboxKept
      BY <1>3, OutboxUnchanged DEF ByWorker, ClaimRun
    <3>2. CASE UNCHANGED run
      BY <1>3, <3>1, <3>2 DEF ByWorker, ClaimRun, RowEffect, Nothing, Same
    <3>3. CASE run' # run
      <4>1. run[r] \in Row /\ run[r].status \notin Won
        BY <1>3, <2>0, <3>3, PresentRow DEF ByWorker, ClaimRun, Claimable, Won
      <4>2. MovesStatus(r)
        BY <1>3, <2>0, <3>1, <3>3, <4>1
        DEF ByWorker, ClaimRun, MovesStatus, OthersSame, Same, RunOK, Row, Status,
           Present, Terminal, Won
      <4> QED
        BY <2>0, <4>2, StatusEffect
    <3> QED
      BY <3>2, <3>3
  <2>2. PubInv'
    BY <1>3, <2>1, PubKept DEF ByWorker, ClaimRun
  <2>3. JobInv'
    BY <1>3, <2>1, JobKept DEF ByWorker, ClaimRun, storeVars
  <2>4. WorkInv'
    BY <1>3, <2>1, WorkGoes DEF ByWorker, ClaimRun, Begin
  <2> QED
    BY <2>1, <2>2, <2>3, <2>4
<1>4. ASSUME NEW w \in Workers, ByWorker(ReadFails(w))
     PROVE  RowEffect /\ PubInv' /\ JobInv' /\ WorkInv'
  <2>1. RowEffect
    BY <1>4, NothingEffect DEF ByWorker, ReadFails, storeVars
  <2>2. PubInv'
    BY <1>4, <2>1, PubKept DEF ByWorker, ReadFails
  <2>3. JobInv'
    BY <1>4, <2>1, JobKept DEF ByWorker, ReadFails, storeVars
  <2>4. WorkInv'
    BY <1>4, <2>1, WorkGoes DEF ByWorker, ReadFails
  <2> QED
    BY <2>1, <2>2, <2>3, <2>4
<1>5. ASSUME NEW w \in Workers, ByWorker(BeginEvent(w))
     PROVE  RowEffect /\ PubInv' /\ JobInv' /\ WorkInv'
  <2> DEFINE from == wk[w].ls
             to == Target[BeginWith[from]]
             after == IF from = "CREATED" THEN [wk[w] EXCEPT !.ls = to]
                      ELSE [wk[w] EXCEPT !.pc = "lease", !.ls = to, !.base = to]
  <2>5. from \in Starting /\ wk[w] \in BusyWorker /\ wk[w].pc = "begin"
    BY <1>5, BusyWorkerOK DEF ByWorker, BeginEvent, WkOK
  <2>6. BeginWith[from] \in Event /\ BeginWith[from] # "EXECUTION_FINISHED"
    BY <2>5 DEF Starting, BeginWith, Event
  <2>7. after.r = wk[w].r /\ after.pc # "finish"
    BY <2>5 DEF BusyWorker
  <2>8. WorkerEvent(w, from, BeginWith[from], after)
    BY <1>5 DEF ByWorker, BeginEvent
  <2> HIDE DEF from, to, after
  <2>1. RowEffect /\ WorkInv'
    BY <1>5, <2>5, <2>6, <2>7, <2>8, WorkerEventEffect
  <2>2. PubInv'
    BY <1>5, <2>1, PubKept DEF ByWorker, BeginEvent
  <2>3. JobInv'
    BY <1>5, <2>1, JobKept DEF ByWorker, BeginEvent, WorkerEvent, storeVars
  <2> QED
    BY <2>1, <2>2, <2>3
<1>6. ASSUME NEW w \in Workers, ByWorker(AcquireLease(w))
     PROVE  RowEffect /\ PubInv' /\ JobInv' /\ WorkInv'
  <2>1. RowEffect
    BY <1>6, NothingEffect DEF ByWorker, AcquireLease, storeVars
  <2>2. PubInv'
    BY <1>6, <2>1, PubKept DEF ByWorker, AcquireLease
  <2>3. JobInv'
    BY <1>6, <2>1, JobKept DEF ByWorker, AcquireLease, storeVars
  <2>0. wk[w].r \in Runs /\ wk[w].n \in Attempt /\ Used(wk[w].r)
    BY <1>6, BusyWorkerOK DEF ByWorker, AcquireLease, WorkInv
  <2>4. WorkInv'
    <3> DEFINE v == [wk[w] EXCEPT !.pc = "calling", !.held = TRUE]
    <3>1. CASE Return(w, "completed") \/ Throw(w, "retry")
      BY <1>6, <2>1, <3>1, WorkGoes DEF ByWorker, AcquireLease
    <3>2. CASE wk' = [wk EXCEPT ![w] = v]
      <4>1. v.r = wk[w].r /\ v.pc # "finish"
        BY <1>6, BusyWorkerOK DEF ByWorker, AcquireLease, BusyWorker
      <4> HIDE DEF v
      <4> QED
        BY <2>0, <2>1, <3>2, <4>1, WorkMove
    <3> QED
      BY <1>6, <3>1, <3>2 DEF ByWorker, AcquireLease, WkOK
  <2> QED
    BY <2>1, <2>2, <2>3, <2>4
<1>7. ASSUME NEW w \in Workers, ByWorker(ProviderFails(w))
     PROVE  RowEffect /\ PubInv' /\ JobInv' /\ WorkInv'
  <2>1. RowEffect
    BY <1>7, NothingEffect DEF ByWorker, ProviderFails, storeVars
  <2>2. PubInv'
    BY <1>7, <2>1, PubKept DEF ByWorker, ProviderFails
  <2>3. JobInv'
    BY <1>7, <2>1, JobKept DEF ByWorker, ProviderFails, storeVars
  <2>4. WorkInv'
    BY <1>7, <2>1, WorkGoes DEF ByWorker, ProviderFails
  <2> QED
    BY <2>1, <2>2, <2>3, <2>4
<1>8. ASSUME NEW w \in Workers, ByWorker(ReadLatest(w))
     PROVE  RowEffect /\ PubInv' /\ JobInv' /\ WorkInv'
  <2>1. RowEffect
    BY <1>8, NothingEffect DEF ByWorker, ReadLatest, storeVars
  <2>2. PubInv'
    BY <1>8, <2>1, PubKept DEF ByWorker, ReadLatest
  <2>3. JobInv'
    BY <1>8, <2>1, JobKept DEF ByWorker, ReadLatest, storeVars
  <2>0. wk[w].r \in Runs /\ wk[w].n \in Attempt /\ Used(wk[w].r)
    BY <1>8, BusyWorkerOK DEF ByWorker, ReadLatest, WorkInv
  <2>4. WorkInv'
    <3> DEFINE v == [wk[w] EXCEPT !.base = run[wk[w].r].life,
                       !.pc = IF run[wk[w].r].life = "WAITING_TOOL" THEN "toolresult" ELSE "write"]
    <3>1. CASE Return(w, "completed")
      BY <1>8, <2>1, <3>1, WorkGoes DEF ByWorker, ReadLatest
    <3>2. CASE wk' = [wk EXCEPT ![w] = v]
      <4>1. v.r = wk[w].r /\ v.pc # "finish"
        BY <1>8, BusyWorkerOK DEF ByWorker, ReadLatest, BusyWorker
      <4> HIDE DEF v
      <4> QED
        BY <2>0, <2>1, <3>2, <4>1, WorkMove
    <3> QED
      BY <1>8, <3>1, <3>2 DEF ByWorker, ReadLatest, WkOK
  <2> QED
    BY <2>1, <2>2, <2>3, <2>4
<1>9. ASSUME NEW w \in Workers, ByWorker(ToolResult(w))
     PROVE  RowEffect /\ PubInv' /\ JobInv' /\ WorkInv'
  <2> DEFINE after == [wk[w] EXCEPT !.pc = "write", !.base = "EXECUTING"]
  <2>5. after.r = wk[w].r /\ after.pc # "finish" /\ wk[w].pc # "idle"
    BY <1>9, BusyWorkerOK DEF ByWorker, ToolResult, BusyWorker
  <2>6. WorkerEvent(w, wk[w].base, "TOOL_RESULT_RECEIVED", after)
    BY <1>9 DEF ByWorker, ToolResult
  <2>7. "TOOL_RESULT_RECEIVED" \in Event
    BY DEF Event
  <2> HIDE DEF after
  <2>1. RowEffect /\ WorkInv'
    BY <1>9, <2>5, <2>6, <2>7, WorkerEventEffect
  <2>2. PubInv'
    BY <1>9, <2>1, PubKept DEF ByWorker, ToolResult
  <2>3. JobInv'
    BY <1>9, <2>1, JobKept DEF ByWorker, ToolResult, WorkerEvent, storeVars
  <2> QED
    BY <2>1, <2>2, <2>3
<1>10. ASSUME NEW w \in Workers, ByWorker(WriteOutput(w))
     PROVE  RowEffect /\ PubInv' /\ JobInv' /\ WorkInv'
  <2>0. wk[w].r \in Runs /\ wk[w].n \in Attempt /\ Used(wk[w].r)
    BY <1>10, BusyWorkerOK DEF ByWorker, WriteOutput, WorkInv
  <2>5. OutboxKept
    BY <1>10, OutboxUnchanged DEF ByWorker, WriteOutput
  <2>6. CASE Return(w, "completed") /\ UNCHANGED run
    <3>1. RowEffect
      BY <1>10, <2>5, <2>6 DEF ByWorker, WriteOutput, RowEffect, Nothing, Same
    <3>2. WorkInv'
      BY <1>10, <2>6, <3>1, WorkGoes DEF ByWorker, WriteOutput
    <3> QED
      BY <1>10, <3>1, <3>2, PubKept, JobKept DEF ByWorker, WriteOutput
  <2>7. CASE /\ run[wk[w].r].attempt = wk[w].n /\ run[wk[w].r].life = "EXECUTING"
             /\ run' = [run EXCEPT ![wk[w].r].output = wk[w].n, ![wk[w].r].error = "none"]
             /\ Goto(w, "finish")
    <3> DEFINE r == wk[w].r
               v == [wk[w] EXCEPT !.pc = "finish"]
    <3>1. run[r] \in Row
      BY <2>0, <2>7 DEF RunOK, NoRow
    <3>2. Writes(r) /\ run'[r].output = wk[w].n
      BY <1>10, <2>0, <2>5, <2>7, <3>1
      DEF ByWorker, WriteOutput, Writes, OthersSame, Same, RunOK, Row
    <3>3. RowEffect
      BY <2>0, <3>2 DEF RowEffect
    <3>4. wk' = [wk EXCEPT ![w] = v] /\ v.r = r
      BY <1>10, <2>7, BusyWorkerOK DEF ByWorker, WriteOutput, Goto, BusyWorker
    <3>5. run'[r].output > 0
      BY <2>0, <3>2 DEF Attempt
    <3> HIDE DEF v
    <3>6. WorkInv'
      BY <1>10, <2>0, <3>3, <3>4, <3>5, WorkMove
    <3> QED
      BY <1>10, <3>3, <3>6, PubKept, JobKept DEF ByWorker, WriteOutput
  <2> QED
    BY <1>10, <2>6, <2>7 DEF ByWorker, WriteOutput
<1>11. ASSUME NEW w \in Workers, ByWorker(FinishExecution(w))
     PROVE  RowEffect /\ PubInv' /\ JobInv' /\ WorkInv'
  <2> DEFINE after == [wk[w] EXCEPT !.pc = "verify", !.base = "VERIFYING"]
  <2>5. after.r = wk[w].r /\ after.pc # "finish" /\ wk[w].pc # "idle"
    BY <1>11, BusyWorkerOK DEF ByWorker, FinishExecution, BusyWorker
  <2>6. WorkerEvent(w, wk[w].base, "EXECUTION_FINISHED", after)
    BY <1>11 DEF ByWorker, FinishExecution
  <2>7. "EXECUTION_FINISHED" \in Event /\ wk[w].pc = "finish"
    BY <1>11 DEF Event, ByWorker, FinishExecution
  <2> HIDE DEF after
  <2>1. RowEffect /\ WorkInv'
    BY <1>11, <2>5, <2>6, <2>7, WorkerEventEffect
  <2>2. PubInv'
    BY <1>11, <2>1, PubKept DEF ByWorker, FinishExecution
  <2>3. JobInv'
    BY <1>11, <2>1, JobKept DEF ByWorker, FinishExecution, WorkerEvent, storeVars
  <2> QED
    BY <2>1, <2>2, <2>3
<1>12. ASSUME NEW w \in Workers, ByWorker(PassVerification(w))
     PROVE  RowEffect /\ PubInv' /\ JobInv' /\ WorkInv'
  <2> DEFINE after == [wk[w] EXCEPT !.pc = "score", !.base = "COMPLETED"]
  <2>5. after.r = wk[w].r /\ after.pc # "finish" /\ wk[w].pc # "idle"
    BY <1>12, BusyWorkerOK DEF ByWorker, PassVerification, BusyWorker
  <2>6. WorkerEvent(w, wk[w].base, "VERIFICATION_PASSED", after)
    BY <1>12 DEF ByWorker, PassVerification
  <2>7. "VERIFICATION_PASSED" \in Event
    BY DEF Event
  <2> HIDE DEF after
  <2>1. RowEffect /\ WorkInv'
    BY <1>12, <2>5, <2>6, <2>7, WorkerEventEffect
  <2>2. PubInv'
    BY <1>12, <2>1, PubKept DEF ByWorker, PassVerification
  <2>3. JobInv'
    BY <1>12, <2>1, JobKept DEF ByWorker, PassVerification, WorkerEvent, storeVars
  <2> QED
    BY <2>1, <2>2, <2>3
<1>13. ASSUME NEW w \in Workers, ByWorker(Score(w))
     PROVE  RowEffect /\ PubInv' /\ JobInv' /\ WorkInv'
  <2>1. RowEffect
    BY <1>13, NothingEffect, CreateEffect DEF ByWorker, Score
  <2>2. PubInv'
    BY <1>13, <2>1, PubKept DEF ByWorker, Score
  <2>3. JobInv'
    BY <1>13, <2>1, JobKept DEF ByWorker, Score, storeVars
  <2>4. WorkInv'
    BY <1>13, <2>1, WorkGoes DEF ByWorker, Score
  <2> QED
    BY <2>1, <2>2, <2>3, <2>4
<1>14. ASSUME NEW w \in Workers, ByWorker(StatementFails(w))
     PROVE  RowEffect /\ PubInv' /\ JobInv' /\ WorkInv'
  <2>1. RowEffect
    BY <1>14, NothingEffect DEF ByWorker, StatementFails, storeVars
  <2>2. PubInv'
    BY <1>14, <2>1, PubKept DEF ByWorker, StatementFails
  <2>3. JobInv'
    BY <1>14, <2>1, JobKept DEF ByWorker, StatementFails, storeVars
  <2>4. WorkInv'
    BY <1>14, <2>1, WorkGoes DEF ByWorker, StatementFails, LifecyclePc
  <2> QED
    BY <2>1, <2>2, <2>3, <2>4
<1>15. ASSUME NEW w \in Workers, ByWorker(CatchEvent(w))
     PROVE  RowEffect /\ PubInv' /\ JobInv' /\ WorkInv'
  <2>0. wk[w].r \in Runs /\ wk[w].n \in Attempt /\ Used(wk[w].r)
    BY <1>15, BusyWorkerOK DEF ByWorker, CatchEvent, WorkInv
  <2>1. RowEffect
    <3> DEFINE e == ErrorEvent(wk[w].out)
               key == WorkerKey(wk[w].n, e)
    <3>1. /\ e \in Event /\ key \in Key /\ key # CancelKey /\ e # "EXECUTION_FINISHED"
          /\ key \notin ReportKeys
      BY <2>0, WorkerKeyOK DEF ErrorEvent, Event, WorkerKey, CancelKey, ReportKeys
    <3>2. OutboxKept
      BY <1>15, OutboxUnchanged DEF ByWorker, CatchEvent
    <3>3. CASE ApplyEvent(wk[w].r, key, e)
      BY <2>0, <3>1, <3>2, <3>3, ApplyEffect
    <3>4. CASE UNCHANGED <<run, keys>>
      BY <3>2, <3>4 DEF RowEffect, Nothing, Same
    <3> QED
      BY <1>15, <3>3, <3>4 DEF ByWorker, CatchEvent
  <2>2. PubInv'
    BY <1>15, <2>1, PubKept DEF ByWorker, CatchEvent
  <2>3. JobInv'
    BY <1>15, <2>1, JobKept DEF ByWorker, CatchEvent, storeVars
  <2>4. WorkInv'
    BY <1>15, <2>1, WorkGoes DEF ByWorker, CatchEvent
  <2> QED
    BY <2>1, <2>2, <2>3, <2>4
<1>16. ASSUME NEW w \in Workers, ByWorker(CatchWrite(w))
     PROVE  RowEffect /\ PubInv' /\ JobInv' /\ WorkInv'
  <2>0. wk[w].r \in Runs /\ wk[w].n \in Attempt /\ Used(wk[w].r)
    BY <1>16, BusyWorkerOK DEF ByWorker, CatchWrite, WorkInv
  <2>1. RowEffect
    <3> DEFINE r == wk[w].r
    <3>1. OutboxKept
      BY <1>16, OutboxUnchanged DEF ByWorker, CatchWrite
    <3>2. CASE UNCHANGED run
      BY <1>16, <3>1, <3>2 DEF ByWorker, CatchWrite, RowEffect, Nothing, Same
    <3>3. CASE run' # run
      <4>1. run[r] \in Row /\ run[r].status \notin Won
        BY <1>16, <2>0, <3>3, PresentRow DEF ByWorker, CatchWrite, Won
      <4>2. MovesStatus(r)
        BY <1>16, <2>0, <3>1, <3>3, <4>1
        DEF ByWorker, CatchWrite, MovesStatus, OthersSame, Same, RunOK, Row, Status,
           Present, Terminal, Won
      <4> QED
        BY <2>0, <4>2, StatusEffect
    <3> QED
      BY <3>2, <3>3
  <2>2. PubInv'
    BY <1>16, <2>1, PubKept DEF ByWorker, CatchWrite
  <2>3. JobInv'
    BY <1>16, <2>1, JobKept DEF ByWorker, CatchWrite, storeVars
  <2>4. WorkInv'
    BY <1>16, <2>1, BusyWorkerOK, WorkGoes DEF ByWorker, CatchWrite, BusyWorker
  <2> QED
    BY <2>1, <2>2, <2>3, <2>4
<1>17. ASSUME NEW w \in Workers, ByWorker(ReleaseLease(w))
     PROVE  RowEffect /\ PubInv' /\ JobInv' /\ WorkInv'
  <2>1. RowEffect
    BY <1>17, NothingEffect DEF ByWorker, ReleaseLease, storeVars
  <2>2. PubInv'
    BY <1>17, <2>1, PubKept DEF ByWorker, ReleaseLease
  <2>3. JobInv'
    BY <1>17, <2>1, JobKept DEF ByWorker, ReleaseLease, storeVars
  <2>0. wk[w].r \in Runs /\ wk[w].n \in Attempt /\ Used(wk[w].r)
    BY <1>17, BusyWorkerOK DEF ByWorker, ReleaseLease, WorkInv
  <2>4. WorkInv'
    <3> DEFINE v == [wk[w] EXCEPT !.pc = "settle", !.held = FALSE]
    <3>1. v.r = wk[w].r /\ v.pc # "finish"
      BY <1>17, BusyWorkerOK DEF ByWorker, ReleaseLease, BusyWorker
    <3>2. wk' = [wk EXCEPT ![w] = v]
      BY <1>17 DEF ByWorker, ReleaseLease, WkOK
    <3> HIDE DEF v
    <3> QED
      BY <2>0, <2>1, <3>1, <3>2, WorkMove
  <2> QED
    BY <2>1, <2>2, <2>3, <2>4
<1>18. ASSUME NEW w \in Workers, ByWorker(Settle(w))
     PROVE  RowEffect /\ PubInv' /\ JobInv' /\ WorkInv'
  <2>1. RowEffect
    BY <1>18, NothingEffect DEF ByWorker, Settle, storeVars
  <2>2. PubInv'
    BY <1>18, <2>1, PubKept DEF ByWorker, Settle
  <2>0. wk[w].r \in Runs /\ wk[w].n \in Attempt /\ Used(wk[w].r)
    BY <1>18, BusyWorkerOK DEF ByWorker, Settle, WorkInv
  <2>3. JobInv'
    <3>1. CASE UNCHANGED job
      BY <2>1, <3>1, JobKept
    <3>2. ASSUME NEW state, NEW made, MarkJob(wk[w].r, wk[w].n, state, made, NoOne)
          PROVE  JobInv'
      BY <2>0, <2>1, <3>2, JobMove DEF MarkJob
    <3> QED
      BY <1>18, <3>1, <3>2 DEF ByWorker, Settle
  <2>5. CASE wk' = [wk EXCEPT ![w] = IdleWorker]
    BY <1>18, <2>1, <2>2, <2>3, <2>5, WorkMove DEF IdleWorker
  <2>6. CASE Goto(w, "onfailed")
    BY <1>18, <2>1, <2>2, <2>3, <2>6, WorkGoes DEF ByWorker, Settle, Goto
  <2> QED
    BY <1>18, <2>5, <2>6 DEF ByWorker, Settle, Goto
<1>19. ASSUME NEW w \in Workers, ByWorker(OnFailed(w))
     PROVE  RowEffect /\ PubInv' /\ JobInv' /\ WorkInv'
  <2>1. RowEffect
    BY <1>19, NothingEffect DEF ByWorker, OnFailed, storeVars
  <2>2. PubInv'
    BY <1>19, <2>1, PubKept DEF ByWorker, OnFailed
  <2>3. JobInv'
    BY <1>19, <2>1, JobKept DEF ByWorker, OnFailed, storeVars
  <2>0. wk[w].r \in Runs /\ wk[w].n \in Attempt /\ Used(wk[w].r)
    BY <1>19, BusyWorkerOK DEF ByWorker, OnFailed, WorkInv
  <2>5. CASE wk' = [wk EXCEPT ![w] = IdleWorker]
    BY <1>19, <2>1, <2>2, <2>3, <2>5, WorkMove DEF IdleWorker
  <2> DEFINE v == [wk[w] EXCEPT !.pc = "finalize", !.base = run[wk[w].r].life]
  <2>6. CASE wk' = [wk EXCEPT ![w] = v]
    <3>1. v.r = wk[w].r /\ v.pc # "finish"
      BY <1>19, BusyWorkerOK DEF ByWorker, OnFailed, BusyWorker
    <3> HIDE DEF v
    <3> QED
      BY <1>19, <2>0, <2>1, <2>2, <2>3, <2>6, <3>1, WorkMove
  <2> QED
    BY <1>19, <2>5, <2>6 DEF ByWorker, OnFailed, WkOK
<1>20. ASSUME NEW w \in Workers, ByWorker(Finalize(w))
     PROVE  RowEffect /\ PubInv' /\ JobInv' /\ WorkInv'
  <2>0. wk[w].r \in Runs /\ wk[w].n \in Attempt /\ Used(wk[w].r)
    BY <1>20, BusyWorkerOK DEF ByWorker, Finalize, WorkInv
  <2>1. RowEffect
    <3> DEFINE e == IF wk[w].base = "CREATED" THEN "FATAL_ERROR" ELSE "NON_RETRYABLE_ERROR"
               key == WorkerKey(wk[w].n, e)
    <3>1. /\ e \in Event /\ key \in Key /\ key # CancelKey /\ e # "EXECUTION_FINISHED"
          /\ key \notin ReportKeys
      BY <2>0, WorkerKeyOK DEF Event, WorkerKey, CancelKey, ReportKeys
    <3>2. OutboxKept
      BY <1>20, OutboxUnchanged DEF ByWorker, Finalize
    <3>3. CASE ApplyEvent(wk[w].r, key, e)
      BY <2>0, <3>1, <3>2, <3>3, ApplyEffect
    <3>4. CASE UNCHANGED <<run, keys>>
      BY <3>2, <3>4 DEF RowEffect, Nothing, Same
    <3> QED
      BY <1>20, <3>3, <3>4 DEF ByWorker, Finalize
  <2>2. PubInv'
    BY <1>20, <2>1, PubKept DEF ByWorker, Finalize
  <2>3. JobInv'
    BY <1>20, <2>1, JobKept DEF ByWorker, Finalize, storeVars
  <2>4. WorkInv'
    BY <1>20, <2>1, WorkMove DEF ByWorker, Finalize, IdleWorker
  <2> QED
    BY <2>1, <2>2, <2>3, <2>4
<1>21. ASSUME NEW w \in Workers, ByWorker(WorkerCrash(w))
     PROVE  RowEffect /\ PubInv' /\ JobInv' /\ WorkInv'
  <2>1. RowEffect
    BY <1>21, NothingEffect DEF ByWorker, WorkerCrash, storeVars
  <2>2. PubInv'
    BY <1>21, <2>1, PubKept DEF ByWorker, WorkerCrash
  <2>3. JobInv'
    BY <1>21, <2>1, JobKept DEF ByWorker, WorkerCrash, storeVars
  <2>4. WorkInv'
    BY <1>21, <2>1, WorkMove DEF ByWorker, WorkerCrash, IdleWorker
  <2> QED
    BY <2>1, <2>2, <2>3, <2>4
<1>22. ASSUME NEW r \in Runs, NEW n \in Attempt, ByWorker(StallJob(r, n))
     PROVE  RowEffect /\ PubInv' /\ JobInv' /\ WorkInv'
  <2>1. RowEffect
    BY <1>22, NothingEffect DEF ByWorker, StallJob, storeVars
  <2>2. PubInv'
    BY <1>22, <2>1, PubKept DEF ByWorker, StallJob
  <2>5. Used(r)
    BY <1>22 DEF ByWorker, StallJob, JobInv
  <2>3. JobInv'
    BY <1>22, <2>1, <2>5, JobMove DEF ByWorker, StallJob
  <2>4. WorkInv'
    BY <1>22, <2>1, WorkKept DEF ByWorker, StallJob
  <2> QED
    BY <2>1, <2>2, <2>3, <2>4
<1>23. ASSUME NEW r \in Runs, ByWorker(ExpireLease(r))
     PROVE  RowEffect /\ PubInv' /\ JobInv' /\ WorkInv'
  <2>1. RowEffect
    BY <1>23, NothingEffect DEF ByWorker, ExpireLease, storeVars
  <2>2. PubInv'
    BY <1>23, <2>1, PubKept DEF ByWorker, ExpireLease
  <2>3. JobInv'
    BY <1>23, <2>1, JobKept DEF ByWorker, ExpireLease, storeVars
  <2>4. WorkInv'
    BY <1>23, <2>1, WorkKept DEF ByWorker, ExpireLease
  <2> QED
    BY <2>1, <2>2, <2>3, <2>4
<1>24. ASSUME NEW r \in Runs, ByWorker(RunAges(r))
     PROVE  RowEffect /\ PubInv' /\ JobInv' /\ WorkInv'
  <2>1. RowEffect
    <3>1. run[r] \in Row
      BY <1>24 DEF ByWorker, RunAges, RunOK, NoRow
    <3>2. MovesStatus(r)
      BY <1>24, <3>1, OutboxUnchanged
      DEF ByWorker, RunAges, MovesStatus, OthersSame, Same, RunOK, Row, Status, Present, Terminal
    <3> QED
      BY <3>2, StatusEffect
  <2>2. PubInv'
    BY <1>24, <2>1, PubKept DEF ByWorker, RunAges
  <2>3. JobInv'
    BY <1>24, <2>1, JobKept DEF ByWorker, RunAges, storeVars
  <2>4. WorkInv'
    BY <1>24, <2>1, WorkKept DEF ByWorker, RunAges
  <2> QED
    BY <2>1, <2>2, <2>3, <2>4
<1> QED
  BY <1>1, <1>2, <1>3, <1>4, <1>5, <1>6, <1>7, <1>8, <1>9, <1>10, <1>11, <1>12, <1>13,
         <1>14, <1>15, <1>16, <1>17, <1>18, <1>19, <1>20, <1>21, <1>22, <1>23, <1>24
  DEF WorkerNext, WorkerStep, WorkerFault, ByWorker

-----------------------------------------------------------------------------
(* Recovery, the API and retention.                                        *)

LEMMA RecoveryEventEffect ==
  ASSUME TypeInv, NEW s \in Recoverers, rec[s].pc # "idle", NEW suffix \in Event, NEW e \in Event,
         e # "EXECUTION_FINISHED", NEW after, RecoveryEvent(s, suffix, e, after)
  PROVE  RowEffect
<1> DEFINE key == RecoveryKey(rec[s].n, suffix)
<1>1. rec[s].r \in Runs /\ key \in Key /\ key # CancelKey /\ key \notin ReportKeys
  BY BusyScanOK DEF TypeInv, BusyScan, RecoveryKey, Key, Attempt, CancelKey, ReportKeys
<1>2. OutboxKept
  BY OutboxUnchanged DEF RecoveryEvent
<1>3. CASE ApplyEvent(rec[s].r, key, e)
  BY <1>1, <1>2, <1>3, ApplyEffect
<1>4. CASE UNCHANGED <<run, keys>>
  BY <1>2, <1>4 DEF RowEffect, Nothing, Same
<1> QED
  BY <1>3, <1>4 DEF RecoveryEvent

LEMMA RecoveryEffect == ASSUME Inv, ByRecovery(RecoveryNext) PROVE RowEffect
<1> USE DEF Inv
<1>1. ASSUME NEW s \in Recoverers, StartScan(s) \/ DropLease(s) \/ ScanBreaks(s) PROVE RowEffect
  BY <1>1, NothingEffect DEF StartScan, DropLease, ScanBreaks, storeVars
<1>2. ASSUME NEW s \in Recoverers, FailVerifying(s) PROVE RowEffect
  BY <1>2, RecoveryEventEffect DEF FailVerifying, Event
<1>3. ASSUME NEW s \in Recoverers, WalkEvent(s) PROVE RowEffect
  <2> DEFINE e == IF rec[s].ls = "CREATED" THEN "PLAN_STARTED" ELSE "TOOL_CALL_REQUESTED"
  <2>1. e \in Event /\ e # "EXECUTION_FINISHED" /\ rec[s].pc # "idle"
    BY <1>3 DEF Event, WalkEvent
  <2> QED
    BY <1>3, <2>1, RecoveryEventEffect DEF WalkEvent
<1>4. ASSUME NEW s \in Recoverers, ScheduleRetry(s) PROVE RowEffect
  BY <1>4, RecoveryEventEffect DEF ScheduleRetry, Event
<1>5. ASSUME NEW s \in Recoverers, StartAttempt(s) PROVE RowEffect
  <2> DEFINE r == rec[s].r
             n == rec[s].n
  <2>1. r \in Runs /\ n \in Attempt /\ n < MaxAttempt /\ n + 1 \in Attempt
    BY <1>5, BusyScanOK DEF StartAttempt, TypeInv, BusyScan, Attempt
  <2>2. CASE UNCHANGED <<run, outbox, lease>>
    BY <1>5, <2>2, NothingEffect DEF StartAttempt
  <2>3. CASE /\ run[r].attempt = n /\ run[r].life = "RETRY_SCHEDULED"
             /\ run' = [run EXCEPT ![r].attempt = n + 1, ![r].status = "RETRYING",
                                   ![r].error = "other"]
             /\ NewEvent(r, n + 1)
    <3>1. run[r] \in Row
      BY <2>1, <2>3 DEF TypeInv, RunOK, NoRow
    <3>2. OutboxGains(r, n + 1)
      BY <2>1, <2>3 DEF NewEvent, OutboxGains, TypeInv, OutboxOK
    <3>3. OthersSame(r) /\ keys'[r] = keys[r]
      BY <1>5, <2>1, <2>3 DEF StartAttempt, OthersSame, Same, TypeInv, RunOK
    <3>4. /\ run'[r].life = "RETRY_SCHEDULED" /\ run'[r].attempt = n + 1
          /\ run'[r].status = "RETRYING" /\ run'[r].output = run[r].output
      BY <2>1, <2>3, <3>1 DEF TypeInv, RunOK, Row
    <3>5. NextAttempt(r)
      BY <2>1, <2>3, <3>2, <3>3, <3>4 DEF NextAttempt
    <3> QED
      BY <2>1, <3>5 DEF RowEffect
  <2> QED
    BY <1>5, <2>2, <2>3 DEF StartAttempt
<1> QED
  BY <1>1, <1>2, <1>3, <1>4, <1>5 DEF ByRecovery, RecoveryNext, RecoveryStep

LEMMA CancelStatusIdle ==
  ASSUME Inv, NEW r \in Runs, CancelStatus(r) PROVE run' = run
<1>1. run[r].status \in Terminal \cup {"NONE"}
  BY DEF Inv, CancelStatus, KeyInv, TerminalStatusAgrees, TypeInv, RunOK, Row, NoRow, Lifecycle,
         Terminal
<1> QED
  BY <1>1 DEF CancelStatus

LEMMA ApiEffect ==
  ASSUME Inv, ApiNext \/ (\E r \in Runs, n \in Attempt : EvictJob(r, n))
  PROVE  RowEffect /\ PubInv' /\ JobInv' /\ WorkInv'
<1> USE DEF Inv
<1>1. CASE ApiNext
  <2>1. ASSUME NEW r \in Runs, Create(r) PROVE RowEffect
    BY <2>1, CreateEffect DEF Create
  <2>2. ASSUME NEW r \in Runs, Cancel(r) PROVE RowEffect
    BY <2>2, ApplyEffect, OutboxUnchanged DEF Cancel, CancelKey, Key, Event, ReportKeys
  <2>3. ASSUME NEW r \in Runs, CancelStatus(r) PROVE RowEffect
    BY <2>3, CancelStatusIdle, NothingEffect DEF CancelStatus
  <2>4. ASSUME NEW r \in Runs, Remove(r) PROVE RowEffect
    <3>1. Deletes(r)
      BY <2>4, OutboxUnchanged DEF Remove, Deletes, OthersSame, Same, TypeInv, RunOK, KeysOK
    <3> QED
      BY <3>1 DEF RowEffect
  <2>5. ASSUME NEW r \in Runs, NEW c \in Runs, Retry(r, c) PROVE RowEffect
    BY <2>5, CreateEffect DEF Retry
  <2>6. ASSUME NEW r \in Runs, NEW n \in Attempt, NEW e \in AgentEvents, AgentReports(r, n, e)
        PROVE  RowEffect
    <3> DEFINE key == <<"agent", n, e>>
    <3>1. /\ e \in Event /\ key \in Key /\ key # CancelKey
          /\ e = "EXECUTION_FINISHED" <=> key \in ReportKeys
      BY ApiAssumption DEF Key, CancelKey, ReportKeys, Attempt
    <3>2. OutboxKept /\ ApplyEvent(r, key, e)
      BY <2>6, OutboxUnchanged DEF AgentReports
    <3> QED
      BY <2>6, <3>1, <3>2, ApplyEffect
  <2>7. RowEffect
    BY <1>1, <2>1, <2>2, <2>3, <2>4, <2>5, <2>6 DEF ApiNext
  <2>8. UNCHANGED <<pub, wk, job>>
    BY <1>1 DEF ApiNext, Create, Cancel, CancelStatus, Remove, Retry, AgentReports, workerVars
  <2> QED
    BY <2>7, <2>8, PubKept, WorkKept, JobKept
<1>2. ASSUME NEW r \in Runs, NEW n \in Attempt, EvictJob(r, n)
      PROVE  RowEffect /\ PubInv' /\ JobInv' /\ WorkInv'
  <2>1. RowEffect
    BY <1>2, NothingEffect DEF EvictJob
  <2>2. JobInv'
    BY <1>2, <2>1, JobMove DEF EvictJob, JobInv
  <2> QED
    BY <1>2, <2>1, <2>2, PubKept, WorkKept DEF EvictJob, workerVars
<1> QED
  BY <1>1, <1>2

-----------------------------------------------------------------------------
(* The rows after a step.                                                  *)

EventsSame(r) == \A n \in Attempt : outbox'[r][n].state = "none" <=> outbox[r][n].state = "none"

EventGained(r, m) ==
  \A n \in Attempt : outbox'[r][n].state = "none" <=> outbox[r][n].state = "none" /\ n # m

\* What a step does to one row.
LEMMA OneRow ==
  ASSUME RowEffect, NEW r \in Runs
  PROVE  \/ Same(r) /\ EventsSame(r)
         \/ MovesStatus(r) /\ EventsSame(r)
         \/ Creates(r) /\ EventGained(r, 1)
         \/ Deletes(r) /\ EventsSame(r)
         \/ Writes(r) /\ EventsSame(r)
         \/ NextAttempt(r) /\ EventGained(r, run[r].attempt + 1)
         \/ \E e \in Event : \E key \in Key : Applies(r, key, e) /\ EventsSame(r)
<1>1. CASE Nothing
  BY <1>1 DEF Nothing, OutboxKept, EventsSame
<1>2. ASSUME NEW q \in Runs, q # r, OthersSame(q),
             OutboxKept \/ OutboxGains(q, 1) \/ OutboxGains(q, run[q].attempt + 1)
      PROVE  Same(r) /\ EventsSame(r)
  BY <1>2 DEF OthersSame, OutboxKept, OutboxGains, EventsSame
<1>3. CASE \E q \in Runs : q # r /\ ( \/ MovesStatus(q) \/ Creates(q) \/ Deletes(q) \/ Writes(q)
             \/ NextAttempt(q) \/ \E e \in Event : \E key \in Key : Applies(q, key, e) )
  BY <1>2, <1>3 DEF MovesStatus, Creates, Deletes, Writes, NextAttempt, Applies
<1>4. CASE \/ MovesStatus(r) \/ Creates(r) \/ Deletes(r) \/ Writes(r) \/ NextAttempt(r)
           \/ \E e \in Event : \E key \in Key : Applies(r, key, e)
  BY <1>4 DEF MovesStatus, Creates, Deletes, Writes, NextAttempt, Applies, EventsSame,
              EventGained, OutboxKept, OutboxGains
<1> QED
  BY <1>1, <1>3, <1>4 DEF RowEffect

\* What an applied event leaves behind.
LEMMA AppliedRow ==
  ASSUME TypeInv, NEW r \in Runs, NEW e \in Event, NEW key \in Key, Applies(r, key, e)
  PROVE  /\ run[r] \in Row /\ Present(r) /\ Present(r)' /\ run[r].life \notin Terminal
         /\ run'[r].life = Target[e] /\ run'[r].status = Legacy(Target[e])
         /\ run'[r].attempt = run[r].attempt /\ run'[r].output = run[r].output
         /\ e \in Accepted(run[r].life)
<1>1. run[r] \in Row /\ Present(r) /\ e \in Accepted(run[r].life)
  BY PresentRow DEF Applies, Accepts, TypeInv, Present
<1>2. run[r].life \notin Terminal
  BY <1>1 DEF Accepted, Transitions, Terminal
<1>3. /\ run'[r].life = Target[e] /\ run'[r].status = Legacy(Target[e])
      /\ run'[r].attempt = run[r].attempt /\ run'[r].output = run[r].output
  BY <1>1 DEF Applies, Moved, Row
<1>4. Present(r)'
  BY <1>3, TargetIsLifecycle, LegacyIsStatus DEF Present, Status, Terminal
<1> QED
  BY <1>1, <1>2, <1>3, <1>4

LEMMA NextRows ==
  ASSUME Inv, RowEffect, TypeInv'
  PROVE  /\ EventInv' /\ TerminalStatusAgrees' /\ EnqueuePerAttempt'
         /\ \A r \in Runs : /\ ~Present(r)' => keys'[r] = {}
                            /\ CancelKey \in keys'[r] => run'[r].life = "CANCELLED"
                            /\ Used(r) /\ run[r].life \in {"CANCELLED", "NONE"} =>
                                 run'[r].life \in {"CANCELLED", "NONE"}
<1> DEFINE Goal(r) ==
      /\ \A n \in Attempt : outbox'[r][n].state # "none" => outbox'[r][1].state # "none"
      /\ run'[r].status # "NONE" => outbox'[r][1].state # "none"
      /\ \A t \in {"COMPLETED", "CANCELLED"} : run'[r].status = t <=> run'[r].life = t
      /\ run'[r].status # "NONE" =>
           \A n \in Attempt : outbox'[r][n].state # "none" <=> n <= run'[r].attempt
      /\ run'[r].status = "NONE" => keys'[r] = {}
      /\ CancelKey \in keys'[r] => run'[r].life = "CANCELLED"
      /\ Used(r) /\ run[r].life \in {"CANCELLED", "NONE"} => run'[r].life \in {"CANCELLED", "NONE"}
<1>1. ASSUME NEW r \in Runs PROVE Goal(r)
  <2>1. 1 \in Attempt /\ \A n \in Attempt : n \in Nat /\ 1 <= n
    BY DEF Attempt
  <2>2. run[r] \in Row \/ run[r] = NoRow
    BY DEF Inv, TypeInv, RunOK
  <2>3. /\ \A n \in Attempt : outbox[r][n].state # "none" => outbox[r][1].state # "none"
        /\ run[r].status # "NONE" => outbox[r][1].state # "none"
        /\ \A t \in {"COMPLETED", "CANCELLED"} : run[r].status = t <=> run[r].life = t
        /\ run[r].status # "NONE" =>
             \A n \in Attempt : outbox[r][n].state # "none" <=> n <= run[r].attempt
        /\ run[r].status = "NONE" => keys[r] = {}
        /\ CancelKey \in keys[r] => run[r].life = "CANCELLED"
    BY DEF Inv, EventInv, KeyInv, TerminalStatusAgrees, EnqueuePerAttempt, Used, Present
  <2>4. CASE Same(r) /\ EventsSame(r)
    BY <2>1, <2>3, <2>4 DEF Same, EventsSame
  <2>5. CASE MovesStatus(r) /\ EventsSame(r)
    BY <2>1, <2>3, <2>5 DEF MovesStatus, EventsSame, Present, Won
  <2>6. CASE Creates(r) /\ EventGained(r, 1)
    BY <2>1, <2>3, <2>6 DEF Creates, EventGained, Unused, Used, Present, NewRow
  <2>7. CASE Deletes(r) /\ EventsSame(r)
    BY <2>1, <2>3, <2>7 DEF Deletes, EventsSame, NoRow
  <2>8. CASE Writes(r) /\ EventsSame(r)
    BY <2>1, <2>3, <2>8 DEF Writes, EventsSame
  <2>9. CASE NextAttempt(r) /\ EventGained(r, run[r].attempt + 1)
    <3>1. run[r] \in Row /\ run[r].attempt \in Attempt /\ run[r].status # "NONE"
      BY <2>2, <2>9 DEF NextAttempt, NoRow, Row, Status, Terminal
    <3>2. \A n \in Attempt : n # run[r].attempt + 1 =>
             (n <= run[r].attempt <=> n <= run[r].attempt + 1)
      BY <3>1 DEF Attempt
    <3>3. ~(run[r].attempt + 1 <= run[r].attempt) /\ run[r].attempt + 1 # 1
      BY <3>1 DEF Attempt
    <3> QED
      BY <2>1, <2>3, <2>9, <3>1, <3>2, <3>3 DEF NextAttempt, EventGained
  <2>10. ASSUME NEW e \in Event, NEW key \in Key, Applies(r, key, e), EventsSame(r) PROVE Goal(r)
    <3>1. \A t \in {"COMPLETED", "CANCELLED"} : Legacy(Target[e]) = t <=> Target[e] = t
      BY TargetIsLifecycle DEF Legacy, Terminal, Lifecycle
    <3>2. CancelKey \in keys'[r] => Target[e] = "CANCELLED"
      BY <2>3, <2>10, AppliedRow DEF Applies, Target, Inv, Terminal
    <3> QED
      BY <2>1, <2>3, <2>10, <3>1, <3>2, AppliedRow DEF EventsSame, Inv, Present, Terminal, Row,
                                                   Lifecycle
  <2> QED
    BY <2>4, <2>5, <2>6, <2>7, <2>8, <2>9, <2>10, OneRow
<1> QED
  BY <1>1 DEF EventInv, TerminalStatusAgrees, EnqueuePerAttempt, Used, Present

-----------------------------------------------------------------------------
(* The invariant holds, and with it the properties.                        *)

LEMMA InitInv == ASSUME Init PROVE Inv
<1>1. TypeInv
  BY InitTypeInv
<1>2. 1 \in Attempt
  BY DEF Attempt
<1> QED
  BY <1>1, <1>2
  DEF Inv, EventInv, KeyInv, PubInv, JobInv, WorkInv, TerminalStatusAgrees, EnqueuePerAttempt,
      Init, StoreInit, PubInit, WorkerInit, NoRow, NoEvent, NoJob, IdlePublisher, IdleWorker,
      Used, Present, CancelKey

LEMMA StepEffect ==
  ASSUME Inv, Next
  PROVE  RowEffect /\ PubInv' /\ JobInv' /\ WorkInv' /\ TypeInv'
<1>1. CASE ApiNext \/ \E r \in Runs, n \in Attempt : EvictJob(r, n)
  BY <1>1, ApiEffect, ApiTypes DEF Inv
<1>2. CASE ByPublisher(PubNext)
  BY <1>2, PublisherEffect, PublisherTypes DEF Inv
<1>3. CASE ByWorker(WorkerNext)
  BY <1>3, WorkerEffect, WorkerTypes DEF Inv
<1>4. CASE ByRecovery(RecoveryNext)
  <2>1. RowEffect
    BY <1>4, RecoveryEffect
  <2>2. UNCHANGED <<pub, wk, job>>
    BY <1>4 DEF ByRecovery, RecoveryNext, RecoveryStep, workerVars, storeVars, StartScan,
                DropLease, FailVerifying, WalkEvent, ScheduleRetry, StartAttempt, ScanBreaks,
                RecoveryEvent
  <2> QED
    BY <1>4, <2>1, <2>2, PubKept, WorkKept, JobKept, RecoveryTypes DEF Inv
<1> QED
  BY <1>1, <1>2, <1>3, <1>4 DEF Next

\* Only Cancel adds a run to cancelling, when its life is CANCELLED.
LEMMA CancellingStep ==
  ASSUME Inv, Next, NEW r \in Runs, r \in cancelling', r \notin cancelling
  PROVE  Used(r) /\ run'[r].life = "CANCELLED"
<1>1. PICK q \in Runs : Cancel(q)
  BY DEF Next, ApiNext, Create, Cancel, CancelStatus, Remove, Retry, AgentReports, EvictJob,
         ByPublisher, ByWorker, ByRecovery
<1>2. q = r /\ ApplyEvent(r, CancelKey, "CANCELLED_BY_USER")
  BY <1>1 DEF Cancel, CancelKey
<1>3. Present(r)
  BY <1>2 DEF ApplyEvent, Replays, Accepts
<1>4. CASE Replays(r, CancelKey) /\ UNCHANGED <<run, keys>>
  BY <1>3, <1>4 DEF Replays, Inv, KeyInv, EventInv
<1>5. CASE run' = [run EXCEPT ![r] = Moved(@, "CANCELLED_BY_USER")]
  <2>1. run[r] \in Row
    BY <1>3, PresentRow DEF Inv, TypeInv, Present
  <2> QED
    BY <1>3, <1>5, <2>1 DEF Inv, TypeInv, RunOK, EventInv, Moved, Row, Target
<1> QED
  BY <1>2, <1>4, <1>5 DEF ApplyEvent

LEMMA StepInv == ASSUME Inv, [Next]_vars PROVE Inv'
<1>1. CASE Next
  <2>1. RowEffect /\ PubInv' /\ JobInv' /\ WorkInv' /\ TypeInv'
    BY <1>1, StepEffect
  <2>2. ASSUME NEW r \in Runs, r \in cancelling'
        PROVE  outbox'[r][1].state # "none" /\ run'[r].life \in {"CANCELLED", "NONE"}
    <3>1. Used(r)
      BY <1>1, <2>2, CancellingStep DEF Inv, KeyInv
    <3>2. run'[r].life \in {"CANCELLED", "NONE"}
      BY <1>1, <2>1, <2>2, CancellingStep, NextRows DEF Inv, KeyInv
    <3> QED
      BY <2>1, <3>1, <3>2, UsedKept DEF Inv, Used
  <2>3. KeyInv'
    BY <2>1, <2>2, NextRows DEF KeyInv, Used, Present
  <2> QED
    BY <2>1, <2>3, NextRows DEF Inv
<1>2. CASE UNCHANGED vars
  <2> USE <1>2 DEF vars, storeVars, workerVars
  <2>1. TypeInv'
    BY TypeInvStutter DEF Inv
  <2>2. EventInv' /\ KeyInv' /\ PubInv' /\ JobInv' /\ WorkInv'
    BY DEF Inv, EventInv, KeyInv, PubInv, JobInv, WorkInv, Used, Present
  <2>3. TerminalStatusAgrees' /\ EnqueuePerAttempt'
    BY DEF Inv, TerminalStatusAgrees, EnqueuePerAttempt, Present
  <2> QED
    BY <2>1, <2>2, <2>3 DEF Inv
<1> QED
  BY <1>1, <1>2

LEMMA InvInvariant == Spec => []Inv
BY InitInv, StepInv, PTL DEF Spec

\* The two status columns agree on success and on cancellation in every
\* reachable state: publisher, worker, recovery and API write the older column
\* under guards that never contradict the lifecycle.
THEOREM StatusColumnsAgree == Spec => []TerminalStatusAgrees
BY InvInvariant, PTL DEF Inv

\* The outbox holds one enqueue event for every attempt up to the current one,
\* and none beyond it.
THEOREM OutboxMatchesAttempts == Spec => []EnqueuePerAttempt
BY InvInvariant, PTL DEF Inv

\* A lifecycle that is COMPLETED, FAILED or CANCELLED stays so until the row is
\* deleted.
THEOREM TerminalStays == Spec => TerminalIsFinal
<1>1. ASSUME Inv, [Next]_vars, NEW r \in Runs, run[r].life \in Terminal
      PROVE  run'[r].life \in {run[r].life, "NONE"}
  <2>1. CASE UNCHANGED vars
    BY <2>1 DEF vars, storeVars
  <2>2. CASE Next
    <3>1. RowEffect
      BY <1>1, <2>2, StepEffect
    <3> QED
      BY <1>1, <3>1, OneRow, AppliedRow
      DEF Inv, Same, MovesStatus, Creates, Deletes, Writes, NextAttempt, EventInv, Unused, Used,
          Terminal, NoRow, TypeInv, RunOK, Present, Row, Status
  <2> QED
    BY <1>1, <2>1, <2>2
<1>2. Inv /\ [Next]_vars =>
        [\A r \in Runs : run[r].life \in Terminal => run'[r].life \in {run[r].life, "NONE"}]_vars
  BY <1>1
<1> QED
  BY <1>2, InvInvariant, PTL DEF Spec, TerminalIsFinal

\* Attempts grow one at a time, and only out of RETRY_SCHEDULED.
THEOREM AttemptsStep == Spec => AttemptsGrow
<1> DEFINE Grows == \A r \in Runs : Present(r) /\ Present(r)' /\ run'[r].attempt # run[r].attempt =>
                       run'[r].attempt = run[r].attempt + 1 /\ run[r].life = "RETRY_SCHEDULED"
<1>1. ASSUME Inv, Next PROVE Grows
  <2>1. RowEffect
    BY <1>1, StepEffect
  <2> QED
    BY <1>1, <2>1, OneRow, AppliedRow
    DEF Inv, Same, MovesStatus, Creates, Deletes, Writes, NextAttempt, Unused, Present, NoRow
<1>2. Inv /\ [Next]_vars => [Grows]_vars
  BY <1>1
<1> QED
  BY <1>2, InvInvariant, PTL DEF Spec, AttemptsGrow

-----------------------------------------------------------------------------
(* Completion.  A run gets to VERIFYING only by EXECUTION_FINISHED, and a  *)
(* worker reports that only after its output was written (WorkInv); what   *)
(* the agent reports stays on record under a key of its own.               *)

LEMMA StepOutput ==
  ASSUME Inv, CompletedHasOutput, [Next]_vars
  PROVE  CompletedHasOutput'
<1>1. CASE UNCHANGED vars
  BY <1>1 DEF vars, storeVars, CompletedHasOutput, Vouched
<1>2. CASE Next
  <2> SUFFICES ASSUME NEW r \in Runs, run'[r].life \in {"VERIFYING", "COMPLETED"}
               PROVE  run'[r].output > 0 \/ Vouched(r)'
    BY DEF CompletedHasOutput
  <2>1. run[r].life \in {"VERIFYING", "COMPLETED"} => run[r].output > 0 \/ Vouched(r)
    BY DEF CompletedHasOutput
  <2>2. CASE Same(r) \/ MovesStatus(r)
    BY <2>1, <2>2 DEF Same, MovesStatus, Vouched
  <2>3. CASE Creates(r) \/ Deletes(r) \/ Writes(r) \/ NextAttempt(r)
    BY <2>3 DEF Creates, Deletes, Writes, NextAttempt, NewRow, NoRow
  <2>4. ASSUME NEW e \in Event, NEW key \in Key, Applies(r, key, e)
        PROVE  run'[r].output > 0 \/ Vouched(r)'
    <3>1. run'[r].life = Target[e] /\ run'[r].output = run[r].output /\ e \in Accepted(run[r].life)
          /\ run[r] \in Row
      BY <2>4, AppliedRow DEF Inv
    <3>2. e = "EXECUTION_FINISHED" \/ e = "VERIFICATION_PASSED"
      BY <3>1 DEF Target, Event
    <3>3. e = "VERIFICATION_PASSED" => run[r].life = "VERIFYING"
      BY <3>1 DEF Accepted, Transitions, Always, Row, Lifecycle, Terminal
    <3>4. Vouched(r) \/ key \in ReportKeys => Vouched(r)'
      BY <2>4 DEF Applies, Vouched
    <3> QED
      BY <2>1, <2>4, <3>1, <3>2, <3>3, <3>4 DEF Applies
  <2> QED
    BY <1>2, <2>2, <2>3, <2>4, OneRow, StepEffect
<1> QED
  BY <1>1, <1>2

\* Whatever the remote agent reports by its callback, and whatever faults
\* happen, a run is completed with an output, unless the agent itself reported
\* that it finished.
THEOREM CompletionHasOutput == Spec => []CompletedHasOutput
<1>1. Init => CompletedHasOutput
  BY DEF Init, StoreInit, NoRow, CompletedHasOutput
<1>2. Inv /\ CompletedHasOutput /\ [Next]_vars => CompletedHasOutput'
  BY StepOutput
<1> QED
  BY <1>1, <1>2, InvInvariant, PTL DEF Spec

-----------------------------------------------------------------------------
(* Refinement: what a step does to a row is one action of AgentRunPromise  *)
(* or, seen from there, nothing.                                           *)

SameView(r) == /\ Phase(r)' = Phase(r) /\ run'[r].attempt = run[r].attempt
               /\ run'[r].output = run[r].output /\ Vouched(r)' = Vouched(r)

LEMMA InitPromise == ASSUME Init PROVE Promise!Init
<1>1. 1 \in Attempt
  BY DEF Attempt
<1> QED
  BY <1>1 DEF Promise!Init, Init, StoreInit, Phase, Present, NoRow, NoEvent, Vouched

LEMMA SameViews ==
  ASSUME \A r \in Runs : SameView(r) PROVE UNCHANGED Promise!promiseVars
BY DEF SameView, Promise!promiseVars

LEMMA OneView ==
  ASSUME Inv, NEW r \in Runs, OthersSame(r), \A q \in Runs : q # r => EventsSame(q)
  PROVE  \A q \in Runs : q # r => SameView(q)
<1>1. 1 \in Attempt
  BY DEF Attempt
<1> QED
  BY <1>1 DEF OthersSame, Same, EventsSame, SameView, Phase, Present, Vouched

\* One row changes: the functions Promise is given change at one argument.
LEMMA ViewStep ==
  ASSUME NEW r \in Runs, \A q \in Runs : q # r => SameView(q), NEW p, Phase(r)' = p
  PROVE  /\ [q \in Runs |-> Phase(q)]' = [[q \in Runs |-> Phase(q)] EXCEPT ![r] = p]
         /\ [q \in Runs |-> run[q].attempt]'
              = [[q \in Runs |-> run[q].attempt] EXCEPT ![r] = run'[r].attempt]
         /\ [q \in Runs |-> run[q].output]'
              = [[q \in Runs |-> run[q].output] EXCEPT ![r] = run'[r].output]
         /\ {q \in Runs : Vouched(q)}' = IF Vouched(r)' THEN {q \in Runs : Vouched(q)} \cup {r}
                                         ELSE {q \in Runs : Vouched(q)} \ {r}
<1>1. \A q \in Runs : q # r => /\ Phase(q)' = Phase(q) /\ run'[q].attempt = run[q].attempt
                               /\ run'[q].output = run[q].output /\ Vouched(q)' = Vouched(q)
  BY DEF SameView
<1>2. [q \in Runs |-> Phase(q)]' = [q \in Runs |-> Phase(q)']
  OBVIOUS
<1>3. [q \in Runs |-> Phase(q)'] = [[q \in Runs |-> Phase(q)] EXCEPT ![r] = p]
  BY <1>1
<1>4. {q \in Runs : Vouched(q)}' = {q \in Runs : Vouched(q)'}
  OBVIOUS
<1> QED
  BY <1>1, <1>2, <1>3, <1>4

\* The phase of a row, by what a step does to it.
LEMMA PhaseStep ==
  ASSUME Inv, CompletedHasOutput, TypeInv', NEW r \in Runs
  PROVE  /\ (Same(r) \/ MovesStatus(r)) /\ EventsSame(r) => SameView(r)
         /\ Creates(r) /\ EventGained(r, 1) =>
              /\ Phase(r) = "unborn" /\ Phase(r)' = "open" /\ run'[r].attempt = 1
              /\ run'[r].output = run[r].output /\ Vouched(r)' = Vouched(r)
         /\ Deletes(r) /\ EventsSame(r) =>
              /\ Phase(r) \notin {"unborn", "deleted"} /\ Phase(r)' = "deleted"
              /\ run'[r].attempt = 0 /\ run'[r].output = 0 /\ ~Vouched(r)'
         /\ Writes(r) \/ NextAttempt(r) =>
              Phase(r) = "open" /\ Phase(r)' = "open" /\ Vouched(r)' = Vouched(r)
         /\ \A e \in Event : \A key \in Key : Applies(r, key, e) =>
              /\ Phase(r) = "open"
              /\ Phase(r)' = IF Target[e] = "COMPLETED" THEN "completed"
                             ELSE IF Target[e] = "FAILED" THEN "failed"
                             ELSE IF Target[e] = "CANCELLED" THEN "cancelled" ELSE "open"
              /\ Target[e] = "COMPLETED" => run[r].output > 0 \/ Vouched(r)
              /\ Vouched(r) => Vouched(r)'
              /\ Vouched(r) # Vouched(r)' => Target[e] = "VERIFYING"
<1> USE DEF Inv
<1>0. 1 \in Attempt /\ (run[r] \in Row \/ run[r] = NoRow)
  BY DEF Attempt, TypeInv, RunOK
<1>1. (Same(r) \/ MovesStatus(r)) /\ EventsSame(r) => SameView(r)
  BY <1>0 DEF Same, MovesStatus, EventsSame, SameView, Phase, Present, Won, Vouched
<1>2. Creates(r) /\ EventGained(r, 1) =>
        /\ Phase(r) = "unborn" /\ Phase(r)' = "open" /\ run'[r].attempt = 1
        /\ run'[r].output = run[r].output /\ Vouched(r)' = Vouched(r)
  BY <1>0 DEF Vouched, Creates, EventGained, Phase, Present, Unused, NewRow, NoRow, Row, Status,
              Terminal
<1>3. Deletes(r) /\ EventsSame(r) =>
        /\ Phase(r) \notin {"unborn", "deleted"} /\ Phase(r)' = "deleted"
        /\ run'[r].attempt = 0 /\ run'[r].output = 0 /\ ~Vouched(r)'
  BY <1>0 DEF Deletes, EventsSame, Vouched, Phase, Present, EventInv, Used, NoRow
<1>4. Writes(r) \/ NextAttempt(r) =>
        Phase(r) = "open" /\ Phase(r)' = "open" /\ Vouched(r)' = Vouched(r)
  BY <1>0 DEF Vouched, Writes, NextAttempt, Phase, Present, NoRow, Row, Status, Terminal, TypeInv,
              RunOK
<1>5. ASSUME NEW e \in Event, NEW key \in Key, Applies(r, key, e)
      PROVE  /\ Phase(r) = "open"
             /\ Phase(r)' = IF Target[e] = "COMPLETED" THEN "completed"
                            ELSE IF Target[e] = "FAILED" THEN "failed"
                            ELSE IF Target[e] = "CANCELLED" THEN "cancelled" ELSE "open"
             /\ Target[e] = "COMPLETED" => run[r].output > 0 \/ Vouched(r)
             /\ Vouched(r) => Vouched(r)'
             /\ Vouched(r) # Vouched(r)' => Target[e] = "VERIFYING"
  <2>1. Target[e] = "COMPLETED" => run[r].life = "VERIFYING"
    BY <1>5, AppliedRow DEF Target, Event, Accepted, Transitions, Always, Row, Lifecycle, Terminal
  <2>2. /\ Vouched(r) => Vouched(r)'
        /\ Vouched(r) # Vouched(r)' => key \in ReportKeys
    BY <1>5 DEF Applies, Vouched
  <2>3. key \in ReportKeys => Target[e] = "VERIFYING"
    BY <1>5 DEF Applies, Target
  <2>4. /\ Phase(r) = "open"
        /\ Phase(r)' = IF Target[e] = "COMPLETED" THEN "completed"
                       ELSE IF Target[e] = "FAILED" THEN "failed"
                       ELSE IF Target[e] = "CANCELLED" THEN "cancelled" ELSE "open"
        /\ Target[e] = "COMPLETED" => run[r].output > 0 \/ Vouched(r)
    BY <1>5, <2>1, AppliedRow DEF Phase, Present, Terminal, CompletedHasOutput
  <2> QED
    BY <2>2, <2>3, <2>4
<1> QED
  BY <1>1, <1>2, <1>3, <1>4, <1>5

LEMMA StepPromise ==
  ASSUME Inv, CompletedHasOutput, [Next]_vars PROVE [Promise!Next]_(Promise!promiseVars)
<1>1. CASE UNCHANGED vars
  <2>1. \A r \in Runs : SameView(r)
    BY <1>1 DEF vars, storeVars, SameView, Phase, Present, Vouched
  <2> QED
    BY <2>1, SameViews
<1>2. CASE Next
  <2>1. RowEffect /\ TypeInv'
    BY <1>2, StepEffect
  <2>2. CASE Nothing
    <3>1. \A r \in Runs : Same(r) /\ EventsSame(r)
      BY <2>2 DEF Nothing, OutboxKept, EventsSame
    <3> QED
      BY <2>1, <3>1, PhaseStep, SameViews
  <2>3. ASSUME NEW r \in Runs,
               \/ MovesStatus(r) \/ Creates(r) \/ Deletes(r) \/ Writes(r) \/ NextAttempt(r)
               \/ \E e \in Event : \E key \in Key : Applies(r, key, e)
        PROVE  [Promise!Next]_(Promise!promiseVars)
    <3>1. \A q \in Runs : q # r => SameView(q)
      <4>1. OthersSame(r) /\ \A q \in Runs : q # r => EventsSame(q)
        BY <2>3 DEF MovesStatus, Creates, Deletes, Writes, NextAttempt, Applies, OutboxKept,
                    OutboxGains, EventsSame
      <4> QED
        BY <4>1, OneView
    <3>2. CASE MovesStatus(r)
      <4>1. EventsSame(r)
        BY <3>2 DEF MovesStatus, OutboxKept, EventsSame
      <4>2. \A q \in Runs : SameView(q)
        BY <2>1, <3>1, <3>2, <4>1, PhaseStep
      <4> QED
        BY <4>2, SameViews
    <3>3. CASE Creates(r)
      <4>1. EventGained(r, 1)
        BY <3>3 DEF Creates, OutboxGains, EventGained
      <4>2. /\ Phase(r) = "unborn" /\ Phase(r)' = "open" /\ run'[r].attempt = 1
            /\ run'[r].output = run[r].output /\ Vouched(r)' = Vouched(r)
        BY <2>1, <3>3, <4>1, PhaseStep
      <4>3. Promise!Submit(r)
        BY <3>1, <4>2, ViewStep DEF Promise!Submit
      <4> QED
        BY <4>3 DEF Promise!Next
    <3>4. CASE Deletes(r)
      <4>1. EventsSame(r)
        BY <3>4 DEF Deletes, OutboxKept, EventsSame
      <4>2. /\ Phase(r) \notin {"unborn", "deleted"} /\ Phase(r)' = "deleted"
            /\ run'[r].attempt = 0 /\ run'[r].output = 0 /\ ~Vouched(r)'
        BY <2>1, <3>4, <4>1, PhaseStep
      <4>3. Phase(r) \in {"open"} \cup Promise!Ended
        BY <4>2 DEF Phase, Promise!Ended
      <4>4. Promise!Delete(r)
        BY <3>1, <4>2, <4>3, ViewStep DEF Promise!Delete
      <4> QED
        BY <4>4 DEF Promise!Next
    <3>5. CASE Writes(r)
      <4>1. Phase(r) = "open" /\ Phase(r)' = "open" /\ Vouched(r)' = Vouched(r)
        BY <2>1, <3>5, PhaseStep
      <4>2. run'[r].output = run[r].attempt /\ run'[r].attempt = run[r].attempt
        BY <3>5 DEF Writes
      <4>3. \A q \in Runs : Phase(q)' = Phase(q) /\ run'[q].attempt = run[q].attempt
        BY <3>1, <4>1, <4>2 DEF SameView
      <4>4. /\ [q \in Runs |-> Phase(q)]' = [q \in Runs |-> Phase(q)]
            /\ [q \in Runs |-> run[q].attempt]' = [q \in Runs |-> run[q].attempt]
        BY <4>3
      <4>5. Promise!Produce(r)
        BY <3>1, <4>1, <4>2, <4>4, ViewStep DEF Promise!Produce
      <4> QED
        BY <4>5 DEF Promise!Next
    <3>6. CASE NextAttempt(r)
      <4>1. Phase(r) = "open" /\ Phase(r)' = "open" /\ Vouched(r)' = Vouched(r)
        BY <2>1, <3>6, PhaseStep
      <4>2. /\ run[r].attempt < MaxAttempt /\ run'[r].attempt = run[r].attempt + 1
            /\ run'[r].output = run[r].output
        BY <3>6 DEF NextAttempt
      <4>3. \A q \in Runs : Phase(q)' = Phase(q) /\ run'[q].output = run[q].output
        BY <3>1, <4>1, <4>2 DEF SameView
      <4>4. /\ [q \in Runs |-> Phase(q)]' = [q \in Runs |-> Phase(q)]
            /\ [q \in Runs |-> run[q].output]' = [q \in Runs |-> run[q].output]
        BY <4>3
      <4>5. Promise!TryAgain(r)
        BY <3>1, <4>1, <4>2, <4>4, ViewStep DEF Promise!TryAgain
      <4> QED
        BY <4>5 DEF Promise!Next
    <3>7. ASSUME NEW e \in Event, NEW key \in Key, Applies(r, key, e)
          PROVE  [Promise!Next]_(Promise!promiseVars)
      <4> DEFINE to == IF Target[e] = "COMPLETED" THEN "completed"
                       ELSE IF Target[e] = "FAILED" THEN "failed"
                       ELSE IF Target[e] = "CANCELLED" THEN "cancelled" ELSE "open"
      <4>1. /\ Phase(r) = "open" /\ Phase(r)' = to
            /\ Target[e] = "COMPLETED" => run[r].output > 0 \/ Vouched(r)
            /\ Vouched(r) => Vouched(r)'
            /\ Vouched(r) # Vouched(r)' => Target[e] = "VERIFYING"
        BY <2>1, <3>7, PhaseStep
      <4>2. run'[r].attempt = run[r].attempt /\ run'[r].output = run[r].output
        BY <3>7, AppliedRow DEF Inv
      <4>3. CASE to = "open"
        <5>1. CASE Vouched(r)' = Vouched(r)
          <6>1. \A q \in Runs : SameView(q)
            BY <3>1, <4>1, <4>2, <4>3, <5>1 DEF SameView
          <6> QED
            BY <6>1, SameViews
        <5>2. CASE Vouched(r)' # Vouched(r)
          <6>1. Vouched(r)' /\ Phase(r)' = Phase(r)
            <7>1. Vouched(r) \in BOOLEAN /\ Vouched(r)' \in BOOLEAN
              BY DEF Vouched
            <7> QED
              BY <4>1, <4>3, <5>2, <7>1
          <6>2. Promise!Vouch(r)
            BY <3>1, <4>1, <4>2, <6>1, ViewStep DEF Promise!Vouch
          <6> QED
            BY <6>2 DEF Promise!Next
        <5> QED
          BY <5>1, <5>2
      <4>4. CASE to \in Promise!Ended
        <5>1. to = "completed" => run[r].output > 0 \/ Vouched(r)
          BY <4>1
        <5>3. Vouched(r)' = Vouched(r)
          BY <4>1, <4>4 DEF Promise!Ended
        <5> HIDE DEF to
        <5>2. Promise!End(r, to)
          BY <3>1, <4>1, <4>2, <5>1, <5>3, ViewStep DEF Promise!End
        <5> QED
          BY <4>4, <5>2 DEF Promise!Next
      <4> QED
        BY <4>3, <4>4 DEF Promise!Ended
    <3> QED
      BY <2>3, <3>2, <3>3, <3>4, <3>5, <3>6, <3>7
  <2> QED
    BY <2>1, <2>2, <2>3 DEF RowEffect
<1> QED
  BY <1>1, <1>2

\* The subsystem implements AgentRunPromise for any number of runs, attempts,
\* publishers, workers and scans, whatever faults happen, and whatever the
\* remote agent reports.
THEOREM PromiseHolds == Spec => PromiseKept
<1>1. Init => Promise!Init
  BY InitPromise
<1>2. Inv /\ CompletedHasOutput /\ [Next]_vars => [Promise!Next]_(Promise!promiseVars)
  BY StepPromise
<1> QED
  BY <1>1, <1>2, InvInvariant, CompletionHasOutput, PTL DEF Spec, PromiseKept, Promise!Spec

-----------------------------------------------------------------------------
(* The queue: a job is added before its run is shown as QUEUED, and only   *)
(* retention takes a job away.                                             *)

JobPresent(r, n) == job[r][n].state # "absent"

QueueInv == QueuedHasJob /\ \A p \in Publishers : pub[p].pc = "publish" =>
                                                    JobPresent(pub[p].r, pub[p].n)

JobsStay   == \A r \in Runs : \A n \in Attempt :
                job[r][n].state # "absent" => job'[r][n].state # "absent"
NoneQueued == \A r \in Runs : run'[r].status = "QUEUED" => run[r].status = "QUEUED"
NoneAdded  == \A p \in Publishers : pub'[p].pc = "publish" => pub'[p] = pub[p]

LEMMA SetJobStays ==
  ASSUME TypeInv, NEW r \in Runs, NEW n \in Attempt, NEW j, j.state # "absent",
         job' = [job EXCEPT ![r][n] = j]
  PROVE  JobsStay /\ job'[r][n].state # "absent"
BY DEF JobsStay, TypeInv, JobOK

\* Settling or taking a job leaves a job where one was.
LEMMA MarkJobStays ==
  ASSUME TypeInv, NEW r \in Runs, NEW n \in Attempt, NEW state, state # "absent", NEW made,
         NEW holder, MarkJob(r, n, state, made, holder)
  PROVE  JobsStay
<1> DEFINE j == [state |-> state, made |-> made, stalls |-> job[r][n].stalls, holder |-> holder]
<1>1. job' = [job EXCEPT ![r][n] = j]
  BY DEF MarkJob, TypeInv
<1>2. j.state # "absent"
  OBVIOUS
<1> HIDE DEF j
<1> QED
  BY <1>1, <1>2, SetJobStays

LEMMA SetStatusQueues ==
  ASSUME TypeInv, NEW r \in Runs, NEW row, row.status # "QUEUED", run' = [run EXCEPT ![r] = row]
  PROVE  NoneQueued
BY DEF NoneQueued, TypeInv, RunOK

LEMMA DispatchableQueues ==
  ASSUME TypeInv, NEW r \in Runs, NEW n, NEW error, NEW status, status # "QUEUED",
         RunIfDispatchable(r, n, status, error)
  PROVE  NoneQueued
<1>1. CASE UNCHANGED run
  BY <1>1 DEF NoneQueued
<1>2. CASE run[r].status \in Dispatchable
           /\ run' = [run EXCEPT ![r].status = status, ![r].error = error]
  <2> DEFINE row == [run[r] EXCEPT !.status = status, !.error = error]
  <2>1. row.status # "QUEUED"
    BY <1>2, PresentRow DEF TypeInv, Dispatchable, Row
  <2>2. run' = [run EXCEPT ![r] = row]
    BY <1>2 DEF TypeInv, RunOK
  <2> HIDE DEF row
  <2> QED
    BY <2>1, <2>2, SetStatusQueues
<1> QED
  BY <1>1, <1>2 DEF RunIfDispatchable

LEMMA ApplyQueues ==
  ASSUME TypeInv, NEW r \in Runs, NEW e \in Event, NEW key, ApplyEvent(r, key, e)
  PROVE  NoneQueued
<1>1. CASE UNCHANGED run
  BY <1>1 DEF NoneQueued
<1>2. CASE Accepts(r, key, e) /\ run' = [run EXCEPT ![r] = Moved(@, e)]
  <2> DEFINE row == Moved(run[r], e)
  <2>1. run[r] \in Row
    BY <1>2, PresentRow DEF TypeInv, Accepts, Present
  <2>2. row.status # "QUEUED"
    BY <2>1 DEF Moved, Row, Legacy, Terminal
  <2>3. run' = [run EXCEPT ![r] = row]
    BY <1>2 DEF TypeInv, RunOK
  <2> HIDE DEF row
  <2> QED
    BY <2>2, <2>3, SetStatusQueues
<1> QED
  BY <1>1, <1>2 DEF ApplyEvent

LEMMA CreateQueues ==
  ASSUME TypeInv, NEW r \in Runs, CreateRun(r) PROVE NoneQueued
BY SetStatusQueues DEF CreateRun, NewRow

LEMMA PubSets ==
  ASSUME TypeInv, NEW p \in Publishers, NEW v, v.pc # "publish", pub' = [pub EXCEPT ![p] = v]
  PROVE  NoneAdded
BY DEF NoneAdded, TypeInv, PubOK

LEMMA PubGoes ==
  ASSUME TypeInv, NEW p \in Publishers, NEW pc, pc # "publish", pub[p].pc # "idle",
         PubGoto(p, pc) \/ PubDone(p)
  PROVE  NoneAdded
<1>1. CASE PubDone(p)
  BY <1>1, PubSets DEF PubDone, IdlePublisher
<1>2. CASE PubGoto(p, pc)
  <2> DEFINE v == [pub[p] EXCEPT !.pc = pc]
  <2>1. v.pc = pc
    BY DEF TypeInv, PubOK, BusyPublisher, IdlePublisher
  <2>2. pub' = [pub EXCEPT ![p] = v]
    BY <1>2 DEF PubGoto, TypeInv, PubOK
  <2> HIDE DEF v
  <2> QED
    BY <2>1, <2>2, PubSets
<1> QED
  BY <1>1, <1>2

\* Two steps of a publisher get a run to QUEUED; no other step comes near it.
LEMMA PublisherQueue ==
  ASSUME TypeInv, ByPublisher(PubNext)
  PROVE  JobsStay /\ ( \/ \E p \in Publishers : MarkPublished(p) \/ AddToQueue(p)
                       \/ NoneQueued /\ NoneAdded )
<1>0. JobsStay
  <2>1. CASE UNCHANGED job
    BY <2>1 DEF JobsStay
  <2>2. ASSUME NEW p \in Publishers, Requeue(p) \/ AddToQueue(p), job' # job PROVE JobsStay
    <3>1. pub[p].r \in Runs /\ pub[p].n \in Attempt
      BY <2>2, PubPlace DEF TypeInv, Requeue, AddToQueue
    <3>2. job' = [job EXCEPT ![pub[p].r][pub[p].n] = FreshJob]
      BY <2>2 DEF Requeue, AddToQueue, AddJob
    <3>3. FreshJob.state # "absent"
      BY DEF FreshJob, NoJob
    <3> QED
      BY <3>1, <3>2, <3>3, SetJobStays
  <2>3. ASSUME NEW p \in Publishers, NEW r \in Runs, PubStart(p, r) PROVE UNCHANGED job
    BY <2>3 DEF PubStart, ReadQueued, RecoverOrphan, RecoverLock, ReadEvent, storeVars
  <2>4. ASSUME NEW p \in Publishers, PubStep(p) PROVE \/ UNCHANGED job
                                                     \/ Requeue(p) \/ AddToQueue(p)
    BY <2>4 DEF PubStep, ClaimEvent, MarkEnqueuing, CheckRun, MarkPublished, RecordFailure,
                storeVars
  <2>5. ASSUME NEW p \in Publishers, PubQueryFails(p) \/ PubStops(p) PROVE UNCHANGED job
    BY <2>5 DEF PubQueryFails, PubStops
  <2> QED
    BY <2>1, <2>2, <2>3, <2>4, <2>5 DEF ByPublisher, PubNext
<1>1. ASSUME NEW p \in Publishers, NEW r \in Runs, PubStart(p, r) PROVE NoneQueued /\ NoneAdded
  <2>1. UNCHANGED run
    BY <1>1 DEF PubStart, ReadQueued, RecoverOrphan, RecoverLock, ReadEvent, storeVars
  <2>2. NoneAdded
    <3>1. CASE UNCHANGED pub
      BY <3>1 DEF NoneAdded
    <3>2. CASE ReadQueued(p, r)
      BY <3>2, PubSets DEF ReadQueued
    <3>3. ASSUME NEW n \in Attempt, ReadEvent(p, r, n) PROVE NoneAdded
      BY <3>3, PubSets DEF ReadEvent
    <3> QED
      BY <1>1, <3>1, <3>2, <3>3 DEF PubStart, RecoverOrphan, RecoverLock
  <2> QED
    BY <2>1, <2>2 DEF NoneQueued
<1>2. ASSUME NEW p \in Publishers,
             Requeue(p) \/ ClaimEvent(p) \/ CheckRun(p) \/ PubQueryFails(p) \/ PubStops(p)
      PROVE  NoneQueued /\ NoneAdded
  <2>1. UNCHANGED run
    BY <1>2 DEF Requeue, ClaimEvent, CheckRun, PubQueryFails, PubStops
  <2>2. NoneAdded
    BY <1>2, PubGoes DEF Requeue, ClaimEvent, CheckRun, PubQueryFails, PubStops
  <2> QED
    BY <2>1, <2>2 DEF NoneQueued
<1>3. ASSUME NEW p \in Publishers, MarkEnqueuing(p) PROVE NoneQueued /\ NoneAdded
  <2>1. pub[p].r \in Runs
    BY <1>3, PubPlace DEF TypeInv, MarkEnqueuing
  <2>2. NoneQueued
    BY <1>3, <2>1, DispatchableQueues DEF MarkEnqueuing
  <2>3. NoneAdded
    BY <1>3, PubGoes DEF MarkEnqueuing
  <2> QED
    BY <2>2, <2>3
<1>4. ASSUME NEW p \in Publishers, RecordFailure(p) PROVE NoneQueued /\ NoneAdded
  <2>1. pub[p].r \in Runs
    BY <1>4, PubPlace DEF TypeInv, RecordFailure
  <2>2. NoneQueued
    BY <1>4, <2>1, DispatchableQueues DEF RecordFailure
  <2>3. NoneAdded
    BY <1>4, PubGoes DEF RecordFailure
  <2> QED
    BY <2>2, <2>3
<1> QED
  BY <1>0, <1>1, <1>2, <1>3, <1>4 DEF ByPublisher, PubNext, PubStep

LEMMA WorkerJobs == ASSUME TypeInv, ByWorker(WorkerNext) PROVE JobsStay
<1>1. CASE UNCHANGED job
  BY <1>1 DEF JobsStay
<1>2. ASSUME NEW w \in Workers, NEW r \in Runs, NEW n \in Attempt, TakeJob(w, r, n) PROVE JobsStay
  BY <1>2, MarkJobStays DEF TakeJob
<1>3. ASSUME NEW w \in Workers, Settle(w), job' # job PROVE JobsStay
  <2>1. wk[w].r \in Runs /\ wk[w].n \in Attempt
    BY <1>3, BusyWorkerOK DEF TypeInv, Settle
  <2> QED
    <3>1. ASSUME NEW state \in {"completed", "failed", "waiting"}, NEW made,
                 MarkJob(wk[w].r, wk[w].n, state, made, NoOne)
          PROVE  JobsStay
      BY <2>1, <3>1, MarkJobStays
    <3> QED
      BY <1>3, <3>1 DEF Settle
<1>4. ASSUME NEW r \in Runs, NEW n \in Attempt, StallJob(r, n) PROVE JobsStay
  <2> DEFINE j == [state |-> "waiting", made |-> job[r][n].made, holder |-> NoOne,
                   stalls |-> IF job[r][n].stalls < 2 THEN job[r][n].stalls + 1 ELSE 2]
  <2>1. job' = [job EXCEPT ![r][n] = j] /\ j.state # "absent"
    BY <1>4 DEF StallJob, TypeInv, JobOK
  <2> HIDE DEF j
  <2> QED
    BY <2>1, SetJobStays
<1>5. ASSUME NEW w \in Workers, WorkerStep(w) PROVE Settle(w) \/ UNCHANGED job
  BY <1>5 DEF WorkerStep, ReadRun, ClaimRun, BeginEvent, WorkerEvent, AcquireLease, ProviderFails,
              ReadLatest, ToolResult, WriteOutput, FinishExecution, PassVerification, Score,
              CatchEvent, CatchWrite, ReleaseLease, OnFailed, Finalize, storeVars
<1>6. ASSUME NEW w \in Workers, WorkerFault(w) PROVE UNCHANGED job
  BY <1>6 DEF WorkerFault, ReadFails, StatementFails, WorkerCrash, storeVars
<1>7. ASSUME NEW r \in Runs, ExpireLease(r) \/ RunAges(r) PROVE UNCHANGED job
  BY <1>7 DEF ExpireLease, RunAges, storeVars
<1> QED
  BY <1>1, <1>2, <1>3, <1>4, <1>5, <1>6, <1>7 DEF ByWorker, WorkerNext

LEMMA WorkerEventQueues ==
  ASSUME TypeInv, NEW w \in Workers, NEW from, NEW e \in Event, NEW after, wk[w].pc # "idle",
         WorkerEvent(w, from, e, after)
  PROVE  NoneQueued
<1>1. CASE UNCHANGED run
  BY <1>1 DEF NoneQueued
<1>2. CASE ApplyEvent(wk[w].r, WorkerKey(wk[w].n, e), e)
  BY <1>2, ApplyQueues, BusyWorkerOK DEF TypeInv
<1> QED
  BY <1>1, <1>2 DEF WorkerEvent

LEMMA WorkerQueue == ASSUME TypeInv, ByWorker(WorkerNext) PROVE NoneQueued
<1> USE DEF TypeInv
<1>1. CASE UNCHANGED run
  BY <1>1 DEF NoneQueued
<1>2. ASSUME NEW w \in Workers, ClaimRun(w), run' # run PROVE NoneQueued
  <2>1. wk[w].r \in Runs
    BY <1>2, BusyWorkerOK DEF ClaimRun
  <2>2. run[wk[w].r] \in Row
    BY <1>2, <2>1, PresentRow DEF ClaimRun, Claimable
  <2> DEFINE row == [run[wk[w].r] EXCEPT !.status = "RUNNING", !.error = "none",
                                         !.started = IF @ = "no" THEN "recent" ELSE @]
  <2>3. run' = [run EXCEPT ![wk[w].r] = row]
    BY <1>2, <2>1, <2>2 DEF ClaimRun, RunOK, Row
  <2>4. row.status # "QUEUED"
    BY <2>2 DEF Row
  <2> HIDE DEF row
  <2> QED
    BY <2>1, <2>3, <2>4, SetStatusQueues
<1>3. ASSUME NEW w \in Workers, BeginEvent(w) PROVE NoneQueued
  <2>1. BeginWith[wk[w].ls] \in Event
    BY <1>3 DEF BeginEvent, WkOK, Starting, BeginWith, Event
  <2> QED
    BY <1>3, <2>1, WorkerEventQueues DEF BeginEvent
<1>4. ASSUME NEW w \in Workers, ToolResult(w) \/ FinishExecution(w) \/ PassVerification(w)
      PROVE  NoneQueued
  BY <1>4, WorkerEventQueues DEF ToolResult, FinishExecution, PassVerification, Event
<1>5. ASSUME NEW w \in Workers, WriteOutput(w), run' # run PROVE NoneQueued
  <2>1. wk[w].r \in Runs /\ run[wk[w].r].status = "RUNNING"
    BY <1>5, BusyWorkerOK DEF WriteOutput
  <2>2. run[wk[w].r] \in Row
    BY <2>1, PresentRow
  <2> DEFINE row == [run[wk[w].r] EXCEPT !.output = wk[w].n, !.error = "none"]
  <2>3. run' = [run EXCEPT ![wk[w].r] = row]
    BY <1>5, <2>1 DEF WriteOutput, RunOK
  <2>4. row.status # "QUEUED"
    BY <2>1, <2>2 DEF Row
  <2> HIDE DEF row
  <2> QED
    BY <2>1, <2>3, <2>4, SetStatusQueues
<1>6. ASSUME NEW w \in Workers, Score(w) PROVE NoneQueued
  BY <1>1, <1>6, CreateQueues DEF Score
<1>7. ASSUME NEW w \in Workers, CatchEvent(w) PROVE NoneQueued
  <2>1. wk[w].r \in Runs /\ ErrorEvent(wk[w].out) \in Event
    BY <1>7, BusyWorkerOK DEF CatchEvent, ErrorEvent, Event
  <2> QED
    BY <1>1, <1>7, <2>1, ApplyQueues DEF CatchEvent
<1>8. ASSUME NEW w \in Workers, CatchWrite(w), run' # run PROVE NoneQueued
  <2> DEFINE retry == wk[w].out = "retry"
             row == [run[wk[w].r] EXCEPT !.status = IF retry THEN "RETRYING" ELSE "FAILED",
                                         !.error = IF retry THEN "AGENT_RETRYING" ELSE "other"]
  <2>1. wk[w].r \in Runs /\ run[wk[w].r].status \in {"RUNNING", "RETRYING", "FAILED"}
    BY <1>8, BusyWorkerOK DEF CatchWrite
  <2>2. run[wk[w].r] \in Row
    BY <2>1, PresentRow
  <2>3. run' = [run EXCEPT ![wk[w].r] = row]
    BY <1>8, <2>1 DEF CatchWrite, RunOK
  <2>4. row.status # "QUEUED"
    BY <2>2 DEF Row
  <2> HIDE DEF row
  <2> QED
    BY <2>1, <2>3, <2>4, SetStatusQueues
<1>9. ASSUME NEW w \in Workers, Finalize(w) PROVE NoneQueued
  <2>1. wk[w].r \in Runs
    BY <1>9, BusyWorkerOK DEF Finalize
  <2>2. CASE UNCHANGED run
    BY <1>1, <2>2
  <2>3. CASE run' # run
    <3> DEFINE e == IF wk[w].base = "CREATED" THEN "FATAL_ERROR" ELSE "NON_RETRYABLE_ERROR"
    <3>1. e \in Event
      BY DEF Event
    <3>2. ApplyEvent(wk[w].r, WorkerKey(wk[w].n, e), e)
      BY <1>9, <2>3 DEF Finalize
    <3> HIDE DEF e
    <3> QED
      BY <2>1, <3>1, <3>2, ApplyQueues
  <2> QED
    BY <2>2, <2>3
<1>10. ASSUME NEW r \in Runs, RunAges(r) PROVE NoneQueued
  <2> DEFINE row == [run[r] EXCEPT !.started = "old"]
  <2>1. run[r] \in Row
    BY <1>10 DEF RunAges, RunOK, NoRow
  <2>2. row.status = run[r].status
    BY <2>1 DEF Row
  <2>3. run' = [run EXCEPT ![r] = row]
    BY <1>10 DEF RunAges, RunOK
  <2> HIDE DEF row
  <2> QED
    BY <2>2, <2>3 DEF NoneQueued, RunOK
<1>11. ASSUME NEW w \in Workers, \/ ReadRun(w) \/ AcquireLease(w) \/ ProviderFails(w)
                                 \/ ReadLatest(w) \/ ReleaseLease(w) \/ Settle(w) \/ OnFailed(w)
       PROVE  NoneQueued
  <2>1. UNCHANGED run
    BY <1>11 DEF ReadRun, AcquireLease, ProviderFails, ReadLatest, ReleaseLease, Settle, OnFailed,
                 storeVars
  <2> QED
    BY <1>1, <2>1
<1>12. ASSUME NEW w \in Workers, WorkerFault(w) PROVE NoneQueued
  <2>1. UNCHANGED run
    BY <1>12 DEF WorkerFault, ReadFails, StatementFails, WorkerCrash, storeVars
  <2> QED
    BY <1>1, <2>1
<1>13. ASSUME NEW r \in Runs, \/ ExpireLease(r)
                              \/ \E n \in Attempt : \/ StallJob(r, n)
                                                     \/ \E w \in Workers : TakeJob(w, r, n)
       PROVE  NoneQueued
  <2>1. UNCHANGED run
    BY <1>13 DEF ExpireLease, StallJob, TakeJob, storeVars
  <2> QED
    BY <1>1, <2>1
<1>14. ASSUME NEW w \in Workers, WorkerStep(w) PROVE NoneQueued
  BY <1>1, <1>2, <1>3, <1>4, <1>5, <1>6, <1>7, <1>8, <1>9, <1>11, <1>14 DEF WorkerStep
<1> QED
  BY <1>10, <1>12, <1>13, <1>14 DEF ByWorker, WorkerNext

LEMMA RecoveryQueue == ASSUME TypeInv, ByRecovery(RecoveryNext) PROVE NoneQueued
<1>1. CASE UNCHANGED run
  BY <1>1 DEF NoneQueued
<1>2. ASSUME NEW s \in Recoverers, FailVerifying(s) \/ WalkEvent(s) \/ ScheduleRetry(s)
      PROVE  NoneQueued
  <2>1. rec[s].r \in Runs
    BY <1>2, BusyScanOK DEF TypeInv, FailVerifying, WalkEvent, ScheduleRetry
  <2>2. ASSUME NEW suffix, NEW e \in Event, NEW after, RecoveryEvent(s, suffix, e, after)
        PROVE  NoneQueued
    BY <1>1, <2>1, <2>2, ApplyQueues DEF RecoveryEvent
  <2> QED
    BY <1>2, <2>2 DEF FailVerifying, WalkEvent, ScheduleRetry, Event
<1>3. ASSUME NEW s \in Recoverers, StartAttempt(s), run' # run PROVE NoneQueued
  <2> DEFINE row == [run[rec[s].r] EXCEPT !.attempt = rec[s].n + 1, !.status = "RETRYING",
                                          !.error = "other"]
  <2>1. rec[s].r \in Runs
    BY <1>3, BusyScanOK DEF TypeInv, StartAttempt
  <2>2. run[rec[s].r] \in Row
    BY <1>3, <2>1 DEF StartAttempt, TypeInv, RunOK, NoRow
  <2>3. run' = [run EXCEPT ![rec[s].r] = row]
    BY <1>3, <2>1 DEF StartAttempt, TypeInv, RunOK
  <2>4. row.status # "QUEUED"
    BY <2>2 DEF Row
  <2> HIDE DEF row
  <2> QED
    BY <2>1, <2>3, <2>4, SetStatusQueues
<1> QED
  BY <1>1, <1>2, <1>3 DEF ByRecovery, RecoveryNext, RecoveryStep, StartScan, DropLease, ScanBreaks,
                          storeVars

LEMMA ApiQueue == ASSUME TypeInv, ApiNext PROVE NoneQueued /\ UNCHANGED <<job, pub>>
<1>1. UNCHANGED <<job, pub>>
  BY DEF ApiNext, Create, Cancel, CancelStatus, Remove, Retry, AgentReports
<1>2. ASSUME NEW r \in Runs, Create(r) \/ \E q \in Runs : Retry(q, r) PROVE NoneQueued
  BY <1>2, CreateQueues DEF Create, Retry
<1>3. ASSUME NEW r \in Runs, Cancel(r) PROVE NoneQueued
  BY <1>3, ApplyQueues DEF Cancel, Event
<1>4. ASSUME NEW r \in Runs, NEW n \in Attempt, NEW e \in AgentEvents, AgentReports(r, n, e)
      PROVE  NoneQueued
  BY <1>4, ApplyQueues, ApiAssumption DEF AgentReports
<1>5. ASSUME NEW r \in Runs, CancelStatus(r) PROVE NoneQueued
  <2> DEFINE row == [run[r] EXCEPT !.status = "CANCELLED"]
  <2>1. CASE UNCHANGED run
    BY <2>1 DEF NoneQueued
  <2>2. CASE run' # run
    <3>1. run' = [run EXCEPT ![r] = row]
      BY <1>5, <2>2 DEF CancelStatus, TypeInv, RunOK
    <3>2. run[r] \in Row
      BY <1>5, <2>2, PresentRow DEF CancelStatus, TypeInv
    <3>3. row.status # "QUEUED"
      BY <3>2 DEF Row
    <3> HIDE DEF row
    <3> QED
      BY <3>1, <3>3, SetStatusQueues
  <2> QED
    BY <2>1, <2>2
<1>6. ASSUME NEW r \in Runs, Remove(r) PROVE NoneQueued
  BY <1>6, SetStatusQueues DEF Remove, NoRow
<1> QED
  BY <1>1, <1>2, <1>3, <1>4, <1>5, <1>6 DEF ApiNext

\* A run that stays QUEUED stays at its attempt.
LEMMA QueuedAttempt ==
  ASSUME Inv, RowEffect, NEW r \in Runs, run[r].status = "QUEUED", run'[r].status = "QUEUED"
  PROVE  run'[r].attempt = run[r].attempt
<1>1. ASSUME NEW e \in Event, NEW key \in Key, Applies(r, key, e) PROVE FALSE
  BY <1>1, AppliedRow DEF Inv, Legacy, Terminal
<1> QED
  BY <1>1, OneRow DEF Same, MovesStatus, Creates, Deletes, Writes, NextAttempt, NewRow, NoRow

LEMMA QueueSteady ==
  ASSUME Inv, QueueInv, RowEffect, JobsStay, NoneQueued, NoneAdded PROVE QueueInv'
<1>1. ASSUME NEW r \in Runs, run'[r].status = "QUEUED"
      PROVE  job'[r][run'[r].attempt].state # "absent"
  <2>1. run[r].status = "QUEUED" /\ run'[r].attempt = run[r].attempt
    BY <1>1, QueuedAttempt DEF NoneQueued
  <2>2. run[r].attempt \in Attempt /\ job[r][run[r].attempt].state # "absent"
    BY <2>1, PresentRow DEF QueueInv, QueuedHasJob, Inv, TypeInv
  <2> QED
    BY <2>1, <2>2 DEF JobsStay
<1>2. ASSUME NEW p \in Publishers, pub'[p].pc = "publish"
      PROVE  job'[pub'[p].r][pub'[p].n].state # "absent"
  <2>1. pub'[p] = pub[p]
    BY <1>2 DEF NoneAdded
  <2>2. pub[p].r \in Runs /\ pub[p].n \in Attempt /\ JobPresent(pub[p].r, pub[p].n)
    BY <1>2, <2>1, PubPlace DEF QueueInv, Inv, TypeInv
  <2> QED
    BY <2>1, <2>2 DEF JobPresent, JobsStay
<1> QED
  BY <1>1, <1>2 DEF QueueInv, QueuedHasJob, JobPresent

LEMMA AddedQueue ==
  ASSUME Inv, QueueInv, JobsStay, NEW p \in Publishers, AddToQueue(p) PROVE QueueInv'
<1>1. pub[p].r \in Runs /\ pub[p].n \in Attempt
  BY PubPlace DEF AddToQueue, Inv, TypeInv
<1>2. QueuedHasJob'
  <2>1. \A r \in Runs : run[r].status = "QUEUED" => run[r].attempt \in Attempt
    BY PresentRow DEF Inv, TypeInv
  <2>2. UNCHANGED run
    BY DEF AddToQueue
  <2> QED
    BY <2>1, <2>2 DEF JobsStay, QueueInv, QueuedHasJob
<1>3. ASSUME NEW q \in Publishers, pub'[q].pc = "publish"
      PROVE  job'[pub'[q].r][pub'[q].n].state # "absent"
  <2>1. CASE q # p
    <3>1. pub'[q] = pub[q]
      BY <2>1 DEF AddToQueue, PubGoto, Inv, TypeInv, PubOK
    <3>2. pub[q].r \in Runs /\ pub[q].n \in Attempt /\ JobPresent(pub[q].r, pub[q].n)
      BY <1>3, <3>1, PubPlace DEF QueueInv, Inv, TypeInv
    <3> QED
      BY <3>1, <3>2 DEF JobPresent, JobsStay
  <2>2. CASE q = p
    <3>1. pub'[p].r = pub[p].r /\ pub'[p].n = pub[p].n
      BY DEF AddToQueue, PubGoto, Inv, TypeInv, PubOK, BusyPublisher, IdlePublisher
    <3>2. AddJob(pub[p].r, pub[p].n)
      BY <1>3, <2>2 DEF AddToQueue, PubGoto, Inv, TypeInv, PubOK, BusyPublisher, IdlePublisher
    <3>3. job'[pub[p].r][pub[p].n].state # "absent"
      <4>1. pub[p].r \in Runs /\ pub[p].n \in Attempt
        BY PubPlace DEF Inv, TypeInv, AddToQueue
      <4>2. FreshJob.state # "absent"
        BY DEF FreshJob, NoJob
      <4>3. CASE job[pub[p].r][pub[p].n].state = "absent"
        BY <3>2, <4>1, <4>2, <4>3, SetJobStays DEF AddJob, Inv
      <4> QED
        BY <3>2, <4>3 DEF AddJob
    <3> QED
      BY <2>2, <3>1, <3>3
  <2> QED
    BY <2>1, <2>2
<1> QED
  BY <1>2, <1>3 DEF QueueInv, JobPresent

LEMMA PublishedQueue ==
  ASSUME Inv, QueueInv, RowEffect, NEW p \in Publishers, MarkPublished(p) PROVE QueueInv'
<1>1. pub[p].r \in Runs /\ pub[p].n \in Attempt /\ JobPresent(pub[p].r, pub[p].n)
  BY PubPlace DEF MarkPublished, Inv, TypeInv, QueueInv
<1>2. UNCHANGED job
  BY DEF MarkPublished
<1>3. ASSUME NEW r \in Runs, run'[r].status = "QUEUED"
      PROVE  job[r][run'[r].attempt].state # "absent"
  <2>1. CASE run[r].status = "QUEUED"
    BY <1>3, <2>1, QueuedAttempt DEF QueueInv, QueuedHasJob
  <2>2. CASE run[r].status # "QUEUED"
    <3>1. /\ r = pub[p].r /\ run[r].attempt = pub[p].n /\ run[r].status \in Dispatchable
          /\ run' = [run EXCEPT ![r].status = "QUEUED", ![r].error = run[r].error]
      BY <1>1, <1>3, <2>2 DEF MarkPublished, RunIfDispatchable, Inv, TypeInv, RunOK
    <3>2. run[r] \in Row
      BY <3>1, PresentRow DEF Dispatchable, Inv, TypeInv
    <3>3. run'[r].attempt = run[r].attempt
      BY <3>1, <3>2 DEF Inv, TypeInv, RunOK, Row
    <3> QED
      BY <1>1, <3>1, <3>3 DEF JobPresent
  <2> QED
    BY <2>1, <2>2
<1>4. NoneAdded
  BY PubGoes DEF MarkPublished, Inv
<1>5. ASSUME NEW q \in Publishers, pub'[q].pc = "publish"
      PROVE  job[pub'[q].r][pub'[q].n].state # "absent"
  BY <1>4, <1>5 DEF NoneAdded, QueueInv, JobPresent
<1> QED
  BY <1>2, <1>3, <1>5 DEF QueueInv, QueuedHasJob, JobPresent

LEMMA StepQueue ==
  ASSUME "evict" \notin FaultKinds, Inv, QueueInv, [Next]_vars PROVE QueueInv'
<1>1. CASE UNCHANGED vars
  BY <1>1 DEF vars, storeVars, QueueInv, QueuedHasJob, JobPresent
<1>2. CASE Next
  <2>1. RowEffect /\ TypeInv
    BY <1>2, StepEffect DEF Inv
  <2>2. UNCHANGED job => JobsStay
    BY DEF JobsStay
  <2>3. UNCHANGED pub => NoneAdded
    BY DEF NoneAdded
  <2>4. CASE ApiNext
    BY <2>1, <2>2, <2>3, <2>4, ApiQueue, QueueSteady
  <2>5. CASE ByPublisher(PubNext)
    BY <2>1, <2>5, PublisherQueue, QueueSteady, AddedQueue, PublishedQueue
  <2>6. CASE ByWorker(WorkerNext)
    <3>1. UNCHANGED pub
      BY <2>6 DEF ByWorker
    <3> QED
      BY <2>1, <2>3, <2>6, <3>1, WorkerJobs, WorkerQueue, QueueSteady
  <2>7. CASE ByRecovery(RecoveryNext)
    <3>1. UNCHANGED <<pub, job>>
      BY <2>7 DEF ByRecovery, RecoveryNext, RecoveryStep, storeVars, StartScan, DropLease,
                  FailVerifying, WalkEvent, ScheduleRetry, StartAttempt, ScanBreaks, RecoveryEvent
    <3> QED
      BY <2>1, <2>2, <2>3, <2>7, <3>1, RecoveryQueue, QueueSteady
  <2>8. ASSUME NEW r \in Runs, NEW n \in Attempt, EvictJob(r, n) PROVE FALSE
    BY <2>8 DEF EvictJob, Suffer
  <2> QED
    BY <1>2, <2>4, <2>5, <2>6, <2>7, <2>8 DEF Next
<1> QED
  BY <1>1, <1>2

\* As long as retention drops no job, a run shown as QUEUED has the job of its
\* current attempt in Redis, however publishers, scans and workers interleave
\* and whatever fails: MarkPublished commits QUEUED only after queue.add, and
\* nobody but retention removes a job.
THEOREM QueuedRunsHaveJobs ==
  ASSUME "evict" \notin FaultKinds PROVE Spec => []QueuedHasJob
<1>1. Init => QueueInv
  BY DEF Init, StoreInit, PubInit, NoRow, IdlePublisher, QueueInv, QueuedHasJob
<1>2. Inv /\ QueueInv /\ [Next]_vars => QueueInv'
  BY StepQueue
<1>3. QueueInv => QueuedHasJob
  BY DEF QueueInv
<1> QED
  BY <1>1, <1>2, <1>3, InvInvariant, PTL DEF Spec

-----------------------------------------------------------------------------
(* Provider calls: the job of an attempt is active, and held by the one    *)
(* worker that works on the attempt, unless BullMQ takes it away.          *)

Outside == {"idle", "onfailed", "finalize"}       \* places outside process()

HeldInv == \A w \in Workers : wk[w].pc \notin Outside =>
             /\ job[wk[w].r][wk[w].n].state = "active"
             /\ job[wk[w].r][wk[w].n].holder = w

NoNewWork  == \A w \in Workers : wk'[w].pc \notin Outside =>
                /\ wk[w].pc \notin Outside
                /\ wk'[w].r = wk[w].r /\ wk'[w].n = wk[w].n
ActiveKept == \A r \in Runs : \A n \in Attempt :
                job[r][n].state = "active" => job'[r][n] = job[r][n]

LEMMA HeldSteady == ASSUME TypeInv, HeldInv, NoNewWork, ActiveKept PROVE HeldInv'
<1> SUFFICES ASSUME NEW w \in Workers, wk'[w].pc \notin Outside
             PROVE  /\ job'[wk'[w].r][wk'[w].n].state = "active"
                    /\ job'[wk'[w].r][wk'[w].n].holder = w
  BY DEF HeldInv, Outside
<1>1. wk[w].pc \notin Outside /\ wk'[w].r = wk[w].r /\ wk'[w].n = wk[w].n
  BY DEF NoNewWork
<1>2. wk[w].r \in Runs /\ wk[w].n \in Attempt
  BY <1>1, BusyWorkerOK DEF TypeInv, Outside
<1> QED
  BY <1>1, <1>2 DEF HeldInv, ActiveKept

LEMMA SetJobActive ==
  ASSUME TypeInv, NEW r \in Runs, NEW n \in Attempt, NEW j, job[r][n].state # "active",
         job' = [job EXCEPT ![r][n] = j]
  PROVE  ActiveKept
BY DEF ActiveKept, TypeInv, JobOK

LEMMA WorkerStays ==
  ASSUME TypeInv, NEW w \in Workers, NEW v, wk' = [wk EXCEPT ![w] = v],
         \/ v.pc \in Outside
         \/ wk[w].pc \notin Outside /\ v.r = wk[w].r /\ v.n = wk[w].n
  PROVE  NoNewWork
BY DEF NoNewWork, TypeInv, WkOK

LEMMA WorkerWalks ==
  ASSUME TypeInv, NEW w \in Workers, wk[w].pc \notin Outside
  PROVE  /\ \A pc : Goto(w, pc) => NoNewWork
         /\ \A out : Return(w, out) => NoNewWork
         /\ \A out : Throw(w, out) => NoNewWork
<1>1. wk[w] \in BusyWorker
  BY BusyWorkerOK DEF TypeInv, Outside
<1>2. ASSUME NEW pc, Goto(w, pc) PROVE NoNewWork
  BY <1>1, <1>2 DEF Goto, NoNewWork, TypeInv, WkOK, BusyWorker
<1>3. ASSUME NEW out, Return(w, out) PROVE NoNewWork
  BY <1>1, <1>3 DEF Return, NoNewWork, TypeInv, WkOK, BusyWorker
<1>4. ASSUME NEW out, Throw(w, out) PROVE NoNewWork
  BY <1>1, <1>4 DEF Throw, NoNewWork, TypeInv, WkOK, BusyWorker
<1> QED
  BY <1>2, <1>3, <1>4

LEMMA WorkerEventWork ==
  ASSUME TypeInv, NEW w \in Workers, NEW from, NEW e, NEW after,
         after.r = wk[w].r /\ after.n = wk[w].n, wk[w].pc \notin Outside,
         WorkerEvent(w, from, e, after)
  PROVE  NoNewWork
<1>1. CASE wk' = [wk EXCEPT ![w] = after]
  BY <1>1, WorkerStays
<1>2. CASE Throw(w, "fatal") \/ Throw(w, "retry")
  BY <1>2, WorkerWalks
<1> QED
  BY <1>1, <1>2 DEF WorkerEvent

\* What a worker does between TakeJob and Settle.
InProcess(w) ==
  \/ ReadRun(w) \/ ReadFails(w) \/ ClaimRun(w) \/ BeginEvent(w) \/ AcquireLease(w)
  \/ ProviderFails(w) \/ ReadLatest(w) \/ ToolResult(w) \/ WriteOutput(w) \/ FinishExecution(w)
  \/ PassVerification(w) \/ Score(w) \/ StatementFails(w) \/ CatchEvent(w) \/ CatchWrite(w)
  \/ ReleaseLease(w)

LEMMA InProcessWork ==
  ASSUME TypeInv, NEW w \in Workers, InProcess(w) PROVE NoNewWork /\ UNCHANGED job
<1> USE DEF TypeInv
<1>10. wk[w].pc \notin Outside
  BY DEF InProcess, ReadRun, ReadFails, ClaimRun, BeginEvent, AcquireLease, ProviderFails,
         ReadLatest, ToolResult, WriteOutput, FinishExecution, PassVerification, Score,
         StatementFails, CatchEvent, CatchWrite, ReleaseLease, LifecyclePc, Outside
<1>0. UNCHANGED job
  BY DEF InProcess, ReadRun, ReadFails, ClaimRun, BeginEvent, WorkerEvent, AcquireLease,
         ProviderFails, ReadLatest, ToolResult, WriteOutput, FinishExecution, PassVerification,
         Score, StatementFails, CatchEvent, CatchWrite, ReleaseLease, storeVars
<1> SUFFICES NoNewWork
  BY <1>0
<1>1. ASSUME NEW v, wk' = [wk EXCEPT ![w] = v],
             v.r = wk[w].r /\ v.n = wk[w].n
      PROVE  NoNewWork
  BY <1>1, <1>10, WorkerStays
<1>2. CASE ReadRun(w)
  <2> DEFINE v == [wk[w] EXCEPT !.pc = "claim", !.base = run[wk[w].r].life,
                                !.ls = run[wk[w].r].life]
  <2>1. v.r = wk[w].r /\ v.n = wk[w].n
    BY <1>2, BusyWorkerOK DEF ReadRun, BusyWorker
  <2>2. Return(w, "completed") \/ wk' = [wk EXCEPT ![w] = v]
    BY <1>2 DEF ReadRun, WkOK
  <2> HIDE DEF v
  <2> QED
    BY <1>1, <1>2, <2>1, <2>2, <1>10, WorkerWalks DEF ReadRun
<1>3. CASE ClaimRun(w)
  BY <1>3, <1>10, WorkerWalks DEF ClaimRun, Begin
<1>4. CASE \/ ReadFails(w) \/ ProviderFails(w) \/ WriteOutput(w) \/ Score(w) \/ StatementFails(w)
           \/ CatchEvent(w) \/ CatchWrite(w)
  BY <1>4, <1>10, WorkerWalks
  DEF ReadFails, ProviderFails, WriteOutput, Score, StatementFails, CatchEvent, CatchWrite,
      LifecyclePc
<1>5. CASE BeginEvent(w)
  <2> DEFINE from == wk[w].ls
             to == Target[BeginWith[from]]
             after == IF from = "CREATED" THEN [wk[w] EXCEPT !.ls = to]
                      ELSE [wk[w] EXCEPT !.pc = "lease", !.ls = to, !.base = to]
  <2>1. wk[w] \in BusyWorker /\ wk[w].pc = "begin"
    BY <1>5, BusyWorkerOK DEF BeginEvent
  <2>2. after.r = wk[w].r /\ after.n = wk[w].n
    BY <2>1 DEF BusyWorker
  <2>3. WorkerEvent(w, from, BeginWith[from], after)
    BY <1>5 DEF BeginEvent
  <2> HIDE DEF from, to, after
  <2> QED
    BY <2>1, <2>2, <2>3, <1>10, WorkerEventWork
<1>6. CASE AcquireLease(w)
  <2> DEFINE v == [wk[w] EXCEPT !.pc = "calling", !.held = TRUE]
  <2>1. v.r = wk[w].r /\ v.n = wk[w].n
    BY <1>6, BusyWorkerOK DEF AcquireLease, BusyWorker
  <2>2. Return(w, "completed") \/ Throw(w, "retry") \/ wk' = [wk EXCEPT ![w] = v]
    BY <1>6 DEF AcquireLease, WkOK
  <2> HIDE DEF v
  <2> QED
    BY <1>1, <1>6, <2>1, <2>2, <1>10, WorkerWalks DEF AcquireLease
<1>7. CASE ToolResult(w) \/ FinishExecution(w) \/ PassVerification(w)
  <2>1. wk[w] \in BusyWorker
    BY <1>7, BusyWorkerOK DEF ToolResult, FinishExecution, PassVerification
  <2>2. ASSUME NEW pc, NEW base
        PROVE  /\ [wk[w] EXCEPT !.pc = pc, !.base = base].r = wk[w].r
               /\ [wk[w] EXCEPT !.pc = pc, !.base = base].n = wk[w].n
    BY <2>1 DEF BusyWorker
  <2> QED
    BY <1>7, <2>2, <1>10, WorkerEventWork DEF ToolResult, FinishExecution, PassVerification
<1>8. CASE ReadLatest(w)
  <2> DEFINE v == [wk[w] EXCEPT !.base = run[wk[w].r].life,
                     !.pc = IF run[wk[w].r].life = "WAITING_TOOL" THEN "toolresult" ELSE "write"]
  <2>1. v.r = wk[w].r /\ v.n = wk[w].n
    BY <1>8, BusyWorkerOK DEF ReadLatest, BusyWorker
  <2>2. Return(w, "completed") \/ wk' = [wk EXCEPT ![w] = v]
    BY <1>8 DEF ReadLatest, WkOK
  <2> HIDE DEF v
  <2> QED
    BY <1>1, <1>8, <2>1, <2>2, <1>10, WorkerWalks DEF ReadLatest
<1>9. CASE ReleaseLease(w)
  <2> DEFINE v == [wk[w] EXCEPT !.pc = "settle", !.held = FALSE]
  <2>1. v.r = wk[w].r /\ v.n = wk[w].n
    BY <1>9, BusyWorkerOK DEF ReleaseLease, BusyWorker
  <2>2. wk' = [wk EXCEPT ![w] = v]
    BY <1>9 DEF ReleaseLease, WkOK
  <2> HIDE DEF v
  <2> QED
    BY <1>1, <1>9, <2>1, <2>2 DEF ReleaseLease
<1> QED
  BY <1>2, <1>3, <1>4, <1>5, <1>6, <1>7, <1>8, <1>9 DEF InProcess

LEMMA TakenWork ==
  ASSUME TypeInv, HeldInv, NEW w \in Workers, NEW r \in Runs, NEW n \in Attempt, TakeJob(w, r, n)
  PROVE  HeldInv'
<1> DEFINE doomed == job[r][n].stalls = 2
           v == [pc |-> IF doomed THEN "onfailed" ELSE "read", r |-> r, n |-> n, base |-> "NONE",
                 ls |-> "NONE", out |-> "none", held |-> FALSE]
<1>1. ActiveKept
  BY SetJobActive DEF TakeJob, MarkJob
<1>2. wk' = [wk EXCEPT ![w] = v]
  BY DEF TakeJob
<1>3. CASE doomed
  <2>1. v.pc \in Outside
    BY <1>3 DEF Outside
  <2> HIDE DEF v
  <2> QED
    BY <1>1, <1>2, <2>1, WorkerStays, HeldSteady
<1>4. CASE ~doomed
  <2>1. job'[r][n].state = "active" /\ job'[r][n].holder = w
    BY <1>4 DEF TakeJob, MarkJob, TypeInv, JobOK
  <2>2. v.pc \notin Outside /\ v.r = r /\ v.n = n
    BY <1>4 DEF Outside
  <2> HIDE DEF v, doomed
  <2> SUFFICES ASSUME NEW u \in Workers, wk'[u].pc \notin Outside
               PROVE  /\ job'[wk'[u].r][wk'[u].n].state = "active"
                      /\ job'[wk'[u].r][wk'[u].n].holder = u
    BY DEF HeldInv, Outside
  <2>3. CASE u = w
    BY <1>2, <2>1, <2>2, <2>3 DEF TypeInv, WkOK
  <2>4. CASE u # w
    <3>1. wk'[u] = wk[u]
      BY <1>2, <2>4 DEF TypeInv, WkOK
    <3>2. wk[u].r \in Runs /\ wk[u].n \in Attempt
      BY <3>1, BusyWorkerOK DEF TypeInv, Outside
    <3> QED
      BY <1>1, <3>1, <3>2 DEF HeldInv, ActiveKept
  <2> QED
    BY <2>3, <2>4
<1> QED
  BY <1>3, <1>4

\* Whoever settles a job was its only worker.
LEMMA SettledWork ==
  ASSUME TypeInv, HeldInv, NEW w \in Workers, Settle(w) PROVE HeldInv'
<1>1. /\ wk[w].r \in Runs /\ wk[w].n \in Attempt /\ wk[w] \in BusyWorker
      /\ job[wk[w].r][wk[w].n].holder = w
  BY BusyWorkerOK DEF Settle, TypeInv, HeldInv, Outside
<1>2. wk'[w].pc \in Outside /\ \A u \in Workers : u # w => wk'[u] = wk[u]
  <2>1. CASE wk' = [wk EXCEPT ![w] = IdleWorker]
    BY <2>1 DEF TypeInv, WkOK, IdleWorker, Outside
  <2>2. CASE wk' = [wk EXCEPT ![w].pc = "onfailed"]
    BY <1>1, <2>2 DEF TypeInv, WkOK, BusyWorker, Outside
  <2> QED
    BY <2>1, <2>2 DEF Settle
<1>3. \A r \in Runs : \A n \in Attempt : <<r, n>> # <<wk[w].r, wk[w].n>> => job'[r][n] = job[r][n]
  <2>1. CASE job' = job
    BY <2>1
  <2>2. ASSUME NEW state, NEW made, MarkJob(wk[w].r, wk[w].n, state, made, NoOne)
        PROVE  \A r \in Runs : \A n \in Attempt :
                 <<r, n>> # <<wk[w].r, wk[w].n>> => job'[r][n] = job[r][n]
    BY <1>1, <2>2 DEF MarkJob, TypeInv, JobOK
  <2> QED
    BY <2>1, <2>2 DEF Settle
<1> SUFFICES ASSUME NEW u \in Workers, wk'[u].pc \notin Outside
             PROVE  /\ job'[wk'[u].r][wk'[u].n].state = "active"
                    /\ job'[wk'[u].r][wk'[u].n].holder = u
  BY DEF HeldInv, Outside
<1>4. wk'[u] = wk[u] /\ u # w
  BY <1>2
<1>5. wk[u].r \in Runs /\ wk[u].n \in Attempt
  BY <1>4, BusyWorkerOK DEF TypeInv, Outside
<1>6. job[wk[u].r][wk[u].n].state = "active" /\ job[wk[u].r][wk[u].n].holder = u
  BY <1>4 DEF HeldInv
<1>7. <<wk[u].r, wk[u].n>> # <<wk[w].r, wk[w].n>>
  BY <1>1, <1>4, <1>6
<1> QED
  BY <1>3, <1>4, <1>5, <1>6, <1>7

LEMMA StalledWork ==
  ASSUME "stall" \notin FaultKinds, TypeInv, HeldInv, NEW r \in Runs, NEW n \in Attempt,
         StallJob(r, n)
  PROVE  HeldInv'
<1>1. /\ UNCHANGED wk /\ job[r][n].state = "active"
      /\ \A q \in Runs : \A m \in Attempt : <<q, m>> # <<r, n>> => job'[q][m] = job[q][m]
  BY DEF StallJob, TypeInv, JobOK
<1>2. ASSUME NEW u \in Workers, wk[u].pc \notin Outside PROVE <<wk[u].r, wk[u].n>> # <<r, n>>
  <2> SUFFICES ASSUME wk[u].r = r, wk[u].n = n PROVE FALSE
    OBVIOUS
  <2>1. job[r][n].holder = u /\ Working(u, r, n)
    BY <1>2 DEF HeldInv, Working, Outside
  <2> QED
    BY <2>1 DEF StallJob, Suffer
<1> SUFFICES ASSUME NEW u \in Workers, wk'[u].pc \notin Outside
             PROVE  /\ job'[wk'[u].r][wk'[u].n].state = "active"
                    /\ job'[wk'[u].r][wk'[u].n].holder = u
  BY DEF HeldInv, Outside
<1>3. wk[u].r \in Runs /\ wk[u].n \in Attempt
  BY <1>1, BusyWorkerOK DEF TypeInv, Outside
<1> QED
  BY <1>1, <1>2, <1>3 DEF HeldInv

LEMMA PublisherFrame ==
  ASSUME ByPublisher(PubNext)
  PROVE  /\ UNCHANGED <<wk, lease>>
         /\ UNCHANGED job \/ \E p \in Publishers : Requeue(p) \/ AddToQueue(p)
<1> DEFINE Goal == /\ UNCHANGED lease
                   /\ UNCHANGED job \/ \E p \in Publishers : Requeue(p) \/ AddToQueue(p)
<1>1. ASSUME NEW p \in Publishers, NEW r \in Runs, PubStart(p, r) PROVE Goal
  BY <1>1 DEF PubStart, ReadQueued, RecoverOrphan, RecoverLock, ReadEvent, storeVars
<1>2. ASSUME NEW p \in Publishers, PubStep(p) PROVE Goal
  <2>1. ASSUME ~Requeue(p), ~AddToQueue(p) PROVE UNCHANGED <<lease, job>>
    BY <1>2, <2>1 DEF PubStep, ClaimEvent, MarkEnqueuing, CheckRun, MarkPublished, RecordFailure
  <2>2. CASE Requeue(p) \/ AddToQueue(p)
    BY <2>2 DEF Requeue, AddToQueue
  <2> QED
    BY <2>1, <2>2
<1>3. ASSUME NEW p \in Publishers, PubQueryFails(p) \/ PubStops(p) PROVE Goal
  BY <1>3 DEF PubQueryFails, PubStops
<1>4. PubNext /\ UNCHANGED wk
  BY DEF ByPublisher, workerVars
<1> HIDE DEF Goal
<1>5. Goal
  BY <1>1, <1>2, <1>3, <1>4 DEF PubNext
<1> QED
  BY <1>4, <1>5 DEF Goal

LEMMA PublisherHeld == ASSUME TypeInv, ByPublisher(PubNext) PROVE ActiveKept /\ UNCHANGED wk
<1>2. ASSUME UNCHANGED job PROVE ActiveKept
  BY <1>2 DEF ActiveKept
<1>3. ASSUME NEW p \in Publishers, Requeue(p) \/ AddToQueue(p), job' # job PROVE ActiveKept
  <2>1. pub[p].r \in Runs /\ pub[p].n \in Attempt
    BY <1>3, PubPlace DEF TypeInv, Requeue, AddToQueue
  <2>2. /\ job[pub[p].r][pub[p].n].state # "active"
        /\ job' = [job EXCEPT ![pub[p].r][pub[p].n] = FreshJob]
    BY <1>3 DEF Requeue, AddToQueue, AddJob
  <2> QED
    BY <2>1, <2>2, SetJobActive
<1> QED
  BY <1>2, <1>3, PublisherFrame

LEMMA WorkerHeld ==
  ASSUME "stall" \notin FaultKinds, TypeInv, HeldInv, ByWorker(WorkerNext) PROVE HeldInv'
<1>1. UNCHANGED job => ActiveKept
  BY DEF ActiveKept
<1>2. ASSUME NEW w \in Workers, InProcess(w) PROVE HeldInv'
  BY <1>1, <1>2, InProcessWork, HeldSteady
<1>3. ASSUME NEW w \in Workers, OnFailed(w) \/ Finalize(w) \/ WorkerCrash(w) PROVE HeldInv'
  <2> DEFINE v == [wk[w] EXCEPT !.pc = "finalize", !.base = run[wk[w].r].life]
  <2>1. wk' = [wk EXCEPT ![w] = IdleWorker] \/ (OnFailed(w) /\ wk' = [wk EXCEPT ![w] = v])
    BY <1>3 DEF OnFailed, Finalize, WorkerCrash, TypeInv, WkOK
  <2>2. IdleWorker.pc \in Outside /\ (OnFailed(w) => v.pc \in Outside)
    BY BusyWorkerOK DEF OnFailed, IdleWorker, Outside, TypeInv, BusyWorker
  <2>3. UNCHANGED job
    BY <1>3 DEF OnFailed, Finalize, WorkerCrash, storeVars
  <2> HIDE DEF v
  <2> QED
    BY <1>1, <2>1, <2>2, <2>3, WorkerStays, HeldSteady
<1>4. ASSUME NEW r \in Runs, ExpireLease(r) \/ RunAges(r) PROVE HeldInv'
  BY <1>4 DEF ExpireLease, RunAges, HeldInv, Outside
<1> QED
  BY <1>2, <1>3, <1>4, TakenWork, SettledWork, StalledWork
  DEF ByWorker, WorkerNext, WorkerStep, WorkerFault, InProcess

LEMMA StepHeld ==
  ASSUME "stall" \notin FaultKinds, TypeInv, HeldInv, [Next]_vars PROVE HeldInv'
<1>1. CASE UNCHANGED <<wk, job>>
  BY <1>1 DEF HeldInv, Outside
<1>2. CASE Next
  <2>1. UNCHANGED wk => NoNewWork
    BY DEF NoNewWork
  <2>2. CASE ApiNext
    BY <1>1, <2>2 DEF ApiNext, Create, Cancel, CancelStatus, Remove, Retry, AgentReports, workerVars
  <2>3. CASE ByPublisher(PubNext)
    BY <2>1, <2>3, PublisherHeld, HeldSteady
  <2>4. CASE ByWorker(WorkerNext)
    BY <2>4, WorkerHeld
  <2>5. CASE ByRecovery(RecoveryNext)
    BY <1>1, <2>5 DEF ByRecovery, RecoveryNext, RecoveryStep, storeVars, workerVars, StartScan,
                      DropLease, FailVerifying, WalkEvent, ScheduleRetry, StartAttempt, ScanBreaks,
                      RecoveryEvent
  <2>6. ASSUME NEW r \in Runs, NEW n \in Attempt, EvictJob(r, n) PROVE HeldInv'
    <3>1. ActiveKept /\ UNCHANGED wk
      BY <2>6, SetJobActive DEF EvictJob, workerVars
    <3> QED
      BY <2>1, <3>1, HeldSteady
  <2> QED
    BY <1>2, <2>2, <2>3, <2>4, <2>5, <2>6 DEF Next
<1> QED
  BY <1>1, <1>2 DEF vars, storeVars, workerVars

\* As long as BullMQ takes no job from a worker that still runs, the queue alone
\* keeps the workers apart, for any number of slots per process and although
\* scans reset rows, leases expire, jobs are retried and replaced, and users
\* cancel, retry and remove runs.
THEOREM QueueKeepsCallsApart ==
  ASSUME "stall" \notin FaultKinds PROVE Spec => []OneCallPerAttempt
<1>1. Init => HeldInv
  BY DEF Init, WorkerInit, IdleWorker, HeldInv, Outside
<1>2. TypeInv /\ HeldInv /\ [Next]_vars => HeldInv'
  BY StepHeld
<1>3. HeldInv => OneCallPerAttempt
  BY DEF HeldInv, OneCallPerAttempt, Calling, Outside
<1> QED
  BY <1>1, <1>2, <1>3, TypeInvInvariant, PTL DEF Spec
=============================================================================
