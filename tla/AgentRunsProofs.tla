--------------------------- MODULE AgentRunsProofs ---------------------------
(***************************************************************************)
(* Proofs about AgentRuns, for any number of runs, attempts, workers,      *)
(* publishers, recovery scans and faults.                                  *)
(***************************************************************************)
EXTENDS AgentRuns, TLAPS

USE StoreAssumption

-----------------------------------------------------------------------------
(* The lifecycle automaton.                                                *)

\* Every event a status accepts is an event of the table.
LEMMA AcceptedIsEvent ==
  ASSUME NEW s \in Lifecycle, NEW e \in Accepted(s) PROVE e \in Event
BY DEF Accepted, Transitions, Always, Event, Lifecycle, Terminal

\* Every event leads to a status of the lifecycle.
LEMMA TargetIsLifecycle == \A e \in Event : Target[e] \in Lifecycle
BY DEF Target, Event, Lifecycle, Terminal

LEMMA LegacyIsStatus == \A s \in Lifecycle : Legacy(s) \in Status
BY DEF Legacy, Lifecycle, Terminal, Status

LEMMA MovedIsRow ==
  ASSUME NEW row \in Row, NEW e \in Event PROVE Moved(row, e) \in Row
BY TargetIsLifecycle, LegacyIsStatus DEF Moved, Row, Attempt

-----------------------------------------------------------------------------
(* Type correctness.  Two counters stay in their range only because a       *)
(* component gives up in time, so the types are strengthened by that.       *)

RunOK    == run \in [Runs -> Row \cup {NoRow}]
KeysOK   == keys \in [Runs -> SUBSET Key]
LeaseOK  == lease \in [Runs -> Lease \cup {NoLease}]
FaultsOK == faults \in 0..MaxFaults
DeadOK   == dead \subseteq (Runs \X Attempt) /\ children \in [Runs -> SUBSET Runs]
RecOK    == rec \in [Recoverers -> BusyScan \cup {IdleScan}]
ApiOK    == cancelling \subseteq Runs

\* beginLifecycleAttempt applies an event from three statuses only.
WkOK == /\ wk \in [Workers -> BusyWorker \cup {IdleWorker}]
        /\ \A w \in Workers : wk[w].pc = "begin" => wk[w].ls \in Starting

\* An event that is still to be published has a try left.
OutboxOK ==
  /\ outbox \in [Runs -> [Attempt -> OutboxRow]]
  /\ \A r \in Runs : \A n \in Attempt :
       outbox[r][n].state \in {"none", "PENDING", "PROCESSING", "RETRYING"} =>
         outbox[r][n].tries < PublishAttempts
PubOK ==
  /\ pub \in [Publishers -> BusyPublisher \cup {IdlePublisher}]
  /\ \A p \in Publishers : pub[p].tries < PublishAttempts

\* A job that is not over has an attempt left.
JobOK ==
  /\ job \in [Runs -> [Attempt -> Job]]
  /\ \A r \in Runs : \A n \in Attempt :
       job[r][n].state \in {"absent", "waiting", "active"} => job[r][n].made < JobAttempts

TypeInv == /\ RunOK /\ KeysOK /\ OutboxOK /\ LeaseOK /\ JobOK /\ FaultsOK
           /\ PubOK /\ WkOK /\ DeadOK /\ RecOK /\ ApiOK

LEMMA TypeInvTypeOK == TypeInv => TypeOK
BY DEF TypeInv, RunOK, KeysOK, OutboxOK, LeaseOK, JobOK, FaultsOK, PubOK, WkOK, DeadOK,
       RecOK, ApiOK, TypeOK, StoreTypeOK, PubTypeOK, WorkerTypeOK, RecoveryTypeOK

LEMMA InitTypeInv == Init => TypeInv
<1> SUFFICES ASSUME Init PROVE TypeInv
  OBVIOUS
<1> USE DEF Init, StoreInit, PubInit, WorkerInit, RecoveryInit
<1>1. RunOK /\ KeysOK /\ LeaseOK /\ FaultsOK
  BY DEF RunOK, KeysOK, LeaseOK, FaultsOK
<1>2. OutboxOK
  BY DEF OutboxOK, OutboxRow, NoEvent
<1>3. JobOK
  BY DEF JobOK, Job, NoJob
<1>4. PubOK /\ WkOK /\ RecOK
  BY DEF PubOK, IdlePublisher, WkOK, IdleWorker, RecOK
<1>5. DeadOK /\ ApiOK
  BY DEF DeadOK, ApiOK
<1> QED
  BY <1>1, <1>2, <1>3, <1>4, <1>5 DEF TypeInv

LEMMA PresentRow ==
  ASSUME RunOK, NEW r \in Runs, run[r].status # "NONE"
  PROVE  /\ run[r] \in Row /\ run[r].attempt \in Attempt /\ run[r].life \in Lifecycle
         /\ run[r].status \in Status
BY DEF RunOK, Row, NoRow

Unpublished == {"none", "PENDING", "PROCESSING", "RETRYING"}

\* The guarded update of a run's status.
LEMMA MarkRun ==
  ASSUME RunOK, NEW r \in Runs, NEW n \in Attempt, NEW status \in Status, NEW error,
         run[r] \in Row => error \in {"none", "AGENT_RETRYING", "other"},
         RunIfDispatchable(r, n, status, error)
  PROVE  RunOK'
<1>1. CASE run' = run
  BY <1>1 DEF RunOK
<1>2. CASE run' # run
  <2> DEFINE row == [run[r] EXCEPT !.status = status, !.error = error]
  <2>1. run[r].status \in Dispatchable
    BY <1>2 DEF RunIfDispatchable
  <2>2. run[r] \in Row
    BY <2>1 DEF RunOK, NoRow, Dispatchable
  <2>3. row \in Row
    BY <2>2 DEF Row
  <2>4. run' = [run EXCEPT ![r] = row]
    BY <1>2, <2>2 DEF RunIfDispatchable, RunOK
  <2> HIDE DEF row
  <2> QED
    BY <2>3, <2>4 DEF RunOK
<1> QED
  BY <1>1, <1>2

LEMMA MarkOutbox ==
  ASSUME OutboxOK, NEW r \in Runs, NEW n \in Attempt,
         NEW state \in {"PENDING", "PROCESSING", "RETRYING", "PUBLISHED", "DEAD_LETTERED"},
         NEW holder \in Publishers \cup {NoOne},
         state \in Unpublished => outbox[r][n].state \in Unpublished,
         MarkEvent(r, n, state, holder)
  PROVE  OutboxOK'
BY DEF OutboxOK, OutboxRow, MarkEvent, Unpublished

LEMMA NewEventOK ==
  ASSUME OutboxOK, NEW r \in Runs, NEW n \in Attempt, NewEvent(r, n) PROVE OutboxOK'
BY DEF OutboxOK, OutboxRow, NewEvent

LEMMA SetJob ==
  ASSUME JobOK, NEW r \in Runs, NEW n \in Attempt, NEW j \in Job,
         j.state \in {"absent", "waiting", "active"} => j.made < JobAttempts,
         job' = [job EXCEPT ![r][n] = j]
  PROVE  JobOK'
BY DEF JobOK, Job

LEMMA FreshJobOK == FreshJob \in Job /\ FreshJob.made < JobAttempts
BY DEF FreshJob, NoJob, Job

LEMMA PubPlace ==
  ASSUME PubOK, NEW p \in Publishers, pub[p].pc # "idle"
  PROVE  /\ pub[p].r \in Runs /\ pub[p].n \in Attempt
         /\ pub[p].tries \in 0..PublishAttempts
BY DEF PubOK, BusyPublisher, IdlePublisher

LEMMA PublisherTypes == ASSUME TypeInv, ByPublisher(PubNext) PROVE TypeInv'
<1> USE DEF TypeInv
<1>1. ASSUME NEW p \in Publishers, NEW r \in Runs, NEW n \in Attempt,
            ByPublisher(RecoverLock(p, r, n))
     PROVE  TypeInv'
  <2>1. OutboxOK'
    BY <1>1 DEF ByPublisher, RecoverLock, OutboxOK, OutboxRow, MarkEvent
  <2>2. FaultsOK'
    BY <1>1 DEF ByPublisher, RecoverLock, FaultsOK, Suffer
  <2>3. /\ RunOK' /\ KeysOK' /\ LeaseOK' /\ JobOK' /\ PubOK'
       /\ WkOK' /\ DeadOK' /\ RecOK' /\ ApiOK'
    BY <1>1 DEF ByPublisher, RecoverLock, storeVars, workerVars, RunOK, KeysOK,
           LeaseOK, JobOK, PubOK, WkOK, DeadOK, RecOK, ApiOK
  <2> QED
    BY <2>1, <2>2, <2>3 DEF TypeInv
<1>2. ASSUME NEW p \in Publishers, NEW r \in Runs, ByPublisher(RecoverOrphan(p, r))
     PROVE  TypeInv'
  <2> DEFINE n == run[r].attempt
  <2>1. OutboxOK'
    <3>1. n \in Attempt
      BY <1>2, PresentRow DEF ByPublisher, RecoverOrphan
    <3>2. CASE outbox[r][n].state = "none"
      BY <1>2, <3>1, <3>2, NewEventOK DEF ByPublisher, RecoverOrphan
    <3>3. CASE outbox[r][n].state # "none"
      BY <1>2, <3>3 DEF ByPublisher, RecoverOrphan, OutboxOK
    <3> QED
      BY <3>2, <3>3
  <2>2. /\ RunOK' /\ KeysOK' /\ LeaseOK' /\ JobOK' /\ FaultsOK'
       /\ PubOK' /\ WkOK' /\ DeadOK' /\ RecOK' /\ ApiOK'
    BY <1>2 DEF ByPublisher, RecoverOrphan, storeVars, workerVars, RunOK,
           KeysOK, LeaseOK, JobOK, FaultsOK, PubOK, WkOK, DeadOK, RecOK, ApiOK
  <2> QED
    BY <2>1, <2>2 DEF TypeInv
<1>3. ASSUME NEW p \in Publishers, NEW r \in Runs, NEW n \in Attempt,
            ByPublisher(ReadEvent(p, r, n))
     PROVE  TypeInv'
  <2>1. PubOK'
    BY <1>3 DEF ByPublisher, ReadEvent, PubOK, BusyPublisher, IdlePublisher, OutboxOK,
           OutboxRow
  <2>2. /\ RunOK' /\ KeysOK' /\ OutboxOK' /\ LeaseOK' /\ JobOK'
       /\ FaultsOK' /\ WkOK' /\ DeadOK' /\ RecOK' /\ ApiOK'
    BY <1>3 DEF ByPublisher, ReadEvent, storeVars, workerVars, RunOK, KeysOK,
           OutboxOK, LeaseOK, JobOK, FaultsOK, WkOK, DeadOK, RecOK, ApiOK
  <2> QED
    BY <2>1, <2>2 DEF TypeInv
<1>4. ASSUME NEW p \in Publishers, NEW r \in Runs, ByPublisher(ReadQueued(p, r))
     PROVE  TypeInv'
  <2>1. PubOK'
    <3> DEFINE v == [pc |-> "requeue", r |-> r, n |-> run[r].attempt,
                   seen |-> "none", tries |-> 0]
    <3>1. run[r].attempt \in Attempt
      BY <1>4, PresentRow DEF ByPublisher, ReadQueued
    <3>2. v \in BusyPublisher /\ v.tries < PublishAttempts
      BY <3>1 DEF BusyPublisher, IdlePublisher
    <3> HIDE DEF v
    <3>3. pub' = [pub EXCEPT ![p] = v]
      BY <1>4 DEF ByPublisher, ReadQueued, v
    <3> QED
      BY <3>2, <3>3 DEF PubOK
  <2>2. /\ RunOK' /\ KeysOK' /\ OutboxOK' /\ LeaseOK' /\ JobOK'
       /\ FaultsOK' /\ WkOK' /\ DeadOK' /\ RecOK' /\ ApiOK'
    BY <1>4 DEF ByPublisher, ReadQueued, storeVars, workerVars, RunOK, KeysOK,
           OutboxOK, LeaseOK, JobOK, FaultsOK, WkOK, DeadOK, RecOK, ApiOK
  <2> QED
    BY <2>1, <2>2 DEF TypeInv
<1>5. ASSUME NEW p \in Publishers, ByPublisher(Requeue(p))
     PROVE  TypeInv'
  <2>1. JobOK'
    <3>1. pub[p].r \in Runs /\ pub[p].n \in Attempt
      BY <1>5, PubPlace DEF ByPublisher, Requeue
    <3>2. UNCHANGED job \/ job' = [job EXCEPT ![pub[p].r][pub[p].n] = FreshJob]
      BY <1>5 DEF ByPublisher, Requeue
    <3>3. CASE UNCHANGED job
      BY <3>3 DEF JobOK
    <3> QED
      BY <3>1, <3>2, <3>3, SetJob, FreshJobOK
  <2>2. FaultsOK'
    BY <1>5 DEF ByPublisher, Requeue, FaultsOK, Suffer
  <2>3. PubOK'
    BY <1>5 DEF ByPublisher, Requeue, PubOK, BusyPublisher, IdlePublisher, PubDone
  <2>4. /\ RunOK' /\ KeysOK' /\ OutboxOK' /\ LeaseOK' /\ WkOK'
       /\ DeadOK' /\ RecOK' /\ ApiOK'
    BY <1>5 DEF ByPublisher, Requeue, storeVars, workerVars, RunOK, KeysOK,
           OutboxOK, LeaseOK, WkOK, DeadOK, RecOK, ApiOK
  <2> QED
    BY <2>1, <2>2, <2>3, <2>4 DEF TypeInv
<1>6. ASSUME NEW p \in Publishers, ByPublisher(ClaimEvent(p))
     PROVE  TypeInv'
  <2>1. OutboxOK'
    <3>1. pub[p].r \in Runs /\ pub[p].n \in Attempt
      BY <1>6, PubPlace DEF ByPublisher, ClaimEvent
    <3>2. pub[p].seen \in Unpublished
      BY <1>6 DEF PubOK, BusyPublisher, IdlePublisher, Unpublished
    <3>3. CASE UNCHANGED outbox
      BY <3>3 DEF OutboxOK
    <3> QED
      BY <1>6, <3>1, <3>2, <3>3, MarkOutbox DEF ByPublisher, ClaimEvent
  <2>2. PubOK'
    BY <1>6 DEF ByPublisher, ClaimEvent, PubOK, BusyPublisher, IdlePublisher, PubDone,
           PubGoto
  <2>3. /\ RunOK' /\ KeysOK' /\ LeaseOK' /\ JobOK' /\ FaultsOK'
       /\ WkOK' /\ DeadOK' /\ RecOK' /\ ApiOK'
    BY <1>6 DEF ByPublisher, ClaimEvent, storeVars, workerVars, RunOK, KeysOK,
           LeaseOK, JobOK, FaultsOK, WkOK, DeadOK, RecOK, ApiOK
  <2> QED
    BY <2>1, <2>2, <2>3 DEF TypeInv
<1>7. ASSUME NEW p \in Publishers, ByPublisher(MarkEnqueuing(p))
     PROVE  TypeInv'
  <2>1. RunOK'
    <3>1. pub[p].r \in Runs /\ pub[p].n \in Attempt /\ "ENQUEUING" \in Status
      BY <1>7, PubPlace DEF ByPublisher, MarkEnqueuing, Status
    <3>2. RunIfDispatchable(pub[p].r, pub[p].n, "ENQUEUING", run[pub[p].r].error)
      BY <1>7 DEF ByPublisher, MarkEnqueuing
    <3>3. run[pub[p].r] \in Row => run[pub[p].r].error \in {"none", "AGENT_RETRYING", "other"}
      BY DEF Row
    <3> QED
      BY <3>1, <3>2, <3>3, MarkRun
  <2>2. PubOK'
    BY <1>7 DEF ByPublisher, MarkEnqueuing, PubOK, BusyPublisher, IdlePublisher, PubGoto
  <2>3. /\ KeysOK' /\ OutboxOK' /\ LeaseOK' /\ JobOK' /\ FaultsOK'
       /\ WkOK' /\ DeadOK' /\ RecOK' /\ ApiOK'
    BY <1>7 DEF ByPublisher, MarkEnqueuing, storeVars, workerVars, KeysOK,
           OutboxOK, LeaseOK, JobOK, FaultsOK, WkOK, DeadOK, RecOK, ApiOK
  <2> QED
    BY <2>1, <2>2, <2>3 DEF TypeInv
<1>8. ASSUME NEW p \in Publishers, ByPublisher(CheckRun(p))
     PROVE  TypeInv'
  <2>1. OutboxOK'
    <3>1. pub[p].r \in Runs /\ pub[p].n \in Attempt
      BY <1>8, PubPlace DEF ByPublisher, CheckRun
    <3>3. CASE UNCHANGED outbox
      BY <3>3 DEF OutboxOK
    <3> QED
      BY <1>8, <3>1, <3>3, MarkOutbox DEF ByPublisher, CheckRun, Unpublished
  <2>2. PubOK'
    BY <1>8 DEF ByPublisher, CheckRun, PubOK, BusyPublisher, IdlePublisher, PubDone,
           PubGoto
  <2>3. /\ RunOK' /\ KeysOK' /\ LeaseOK' /\ JobOK' /\ FaultsOK'
       /\ WkOK' /\ DeadOK' /\ RecOK' /\ ApiOK'
    BY <1>8 DEF ByPublisher, CheckRun, storeVars, workerVars, RunOK, KeysOK,
           LeaseOK, JobOK, FaultsOK, WkOK, DeadOK, RecOK, ApiOK
  <2> QED
    BY <2>1, <2>2, <2>3 DEF TypeInv
<1>9. ASSUME NEW p \in Publishers, ByPublisher(AddToQueue(p))
     PROVE  TypeInv'
  <2>1. JobOK'
    <3>1. pub[p].r \in Runs /\ pub[p].n \in Attempt
      BY <1>9, PubPlace DEF ByPublisher, AddToQueue
    <3>2. UNCHANGED job \/ job' = [job EXCEPT ![pub[p].r][pub[p].n] = FreshJob]
      BY <1>9 DEF ByPublisher, AddToQueue, AddJob
    <3>3. CASE UNCHANGED job
      BY <3>3 DEF JobOK
    <3> QED
      BY <3>1, <3>2, <3>3, SetJob, FreshJobOK
  <2>2. FaultsOK'
    BY <1>9 DEF ByPublisher, AddToQueue, FaultsOK, Suffer
  <2>3. PubOK'
    BY <1>9 DEF ByPublisher, AddToQueue, PubOK, BusyPublisher, IdlePublisher, PubGoto
  <2>4. /\ RunOK' /\ KeysOK' /\ OutboxOK' /\ LeaseOK' /\ WkOK'
       /\ DeadOK' /\ RecOK' /\ ApiOK'
    BY <1>9 DEF ByPublisher, AddToQueue, storeVars, workerVars, RunOK, KeysOK,
           OutboxOK, LeaseOK, WkOK, DeadOK, RecOK, ApiOK
  <2> QED
    BY <2>1, <2>2, <2>3, <2>4 DEF TypeInv
<1>10. ASSUME NEW p \in Publishers, ByPublisher(MarkPublished(p))
     PROVE  TypeInv'
  <2>1. RunOK'
    <3>1. pub[p].r \in Runs /\ pub[p].n \in Attempt /\ "QUEUED" \in Status
      BY <1>10, PubPlace DEF ByPublisher, MarkPublished, Status
    <3>2. RunIfDispatchable(pub[p].r, pub[p].n, "QUEUED", run[pub[p].r].error)
      BY <1>10 DEF ByPublisher, MarkPublished
    <3>3. run[pub[p].r] \in Row => run[pub[p].r].error \in {"none", "AGENT_RETRYING", "other"}
      BY DEF Row
    <3> QED
      BY <3>1, <3>2, <3>3, MarkRun
  <2>2. OutboxOK'
    <3>1. pub[p].r \in Runs /\ pub[p].n \in Attempt
      BY <1>10, PubPlace DEF ByPublisher, MarkPublished
    <3> QED
      BY <1>10, <3>1, MarkOutbox DEF ByPublisher, MarkPublished, Unpublished
  <2>3. PubOK'
    BY <1>10 DEF ByPublisher, MarkPublished, PubOK, BusyPublisher, IdlePublisher,
           PubDone
  <2>4. /\ KeysOK' /\ LeaseOK' /\ JobOK' /\ FaultsOK' /\ WkOK'
       /\ DeadOK' /\ RecOK' /\ ApiOK'
    BY <1>10 DEF ByPublisher, MarkPublished, storeVars, workerVars, KeysOK,
           LeaseOK, JobOK, FaultsOK, WkOK, DeadOK, RecOK, ApiOK
  <2> QED
    BY <2>1, <2>2, <2>3, <2>4 DEF TypeInv
<1>11. ASSUME NEW p \in Publishers, ByPublisher(RecordFailure(p))
     PROVE  TypeInv'
  <2>1. RunOK'
    <3>1. pub[p].r \in Runs /\ pub[p].n \in Attempt
      BY <1>11, PubPlace DEF ByPublisher, RecordFailure
    <3>2. PICK status \in {"FAILED", "PENDING"} :
            RunIfDispatchable(pub[p].r, pub[p].n, status, "other")
      BY <1>11 DEF ByPublisher, RecordFailure
    <3>3. status \in Status
      BY DEF Status, Terminal
    <3> QED
      BY <3>1, <3>2, <3>3, MarkRun
  <2>2. OutboxOK'
    <3> DEFINE r == pub[p].r
               n == pub[p].n
    <3>1. r \in Runs /\ n \in Attempt /\ pub[p].tries + 1 \in 0..PublishAttempts
      BY <1>11, PubPlace DEF ByPublisher, RecordFailure, PubOK, BusyPublisher, IdlePublisher
    <3>2. outbox[r][n] \in OutboxRow
      BY <3>1 DEF OutboxOK
    <3> DEFINE tries == pub[p].tries + 1
               v == [state  |-> IF ~Present(r) \/ tries >= PublishAttempts
                                  THEN "DEAD_LETTERED" ELSE "RETRYING",
                     tries  |-> IF Present(r) THEN tries ELSE outbox[r][n].tries,
                     locked |-> NoOne]
    <3>3. /\ v.state \in {"DEAD_LETTERED", "RETRYING"} /\ v.locked = NoOne
          /\ v.tries \in {pub[p].tries + 1, outbox[r][n].tries}
          /\ v.state = "RETRYING" => v.tries < PublishAttempts
      BY <3>1, StoreAssumption DEF StoreAssumption
    <3>5. outbox' = [outbox EXCEPT ![r][n] = v]
      BY <1>11, <3>1 DEF ByPublisher, RecordFailure, OutboxOK
    <3>4. v \in OutboxRow
      BY <3>1, <3>2, <3>3 DEF OutboxRow
    <3> HIDE DEF v, r, n
    <3> QED
      BY <3>1, <3>3, <3>4, <3>5 DEF OutboxOK
  <2>3. PubOK'
    BY <1>11 DEF ByPublisher, RecordFailure, PubOK, BusyPublisher, IdlePublisher,
           PubDone
  <2>4. /\ KeysOK' /\ LeaseOK' /\ JobOK' /\ FaultsOK' /\ WkOK'
       /\ DeadOK' /\ RecOK' /\ ApiOK'
    BY <1>11 DEF ByPublisher, RecordFailure, storeVars, workerVars, KeysOK,
           LeaseOK, JobOK, FaultsOK, WkOK, DeadOK, RecOK, ApiOK
  <2> QED
    BY <2>1, <2>2, <2>3, <2>4 DEF TypeInv
<1>12. ASSUME NEW p \in Publishers, ByPublisher(PubQueryFails(p))
     PROVE  TypeInv'
  <2>1. FaultsOK'
    BY <1>12 DEF ByPublisher, PubQueryFails, FaultsOK, Suffer
  <2>2. PubOK'
    BY <1>12 DEF ByPublisher, PubQueryFails, PubOK, BusyPublisher, IdlePublisher,
           PubGoto
  <2>3. /\ RunOK' /\ KeysOK' /\ OutboxOK' /\ LeaseOK' /\ JobOK'
       /\ WkOK' /\ DeadOK' /\ RecOK' /\ ApiOK'
    BY <1>12 DEF ByPublisher, PubQueryFails, storeVars, workerVars, RunOK,
           KeysOK, OutboxOK, LeaseOK, JobOK, WkOK, DeadOK, RecOK, ApiOK
  <2> QED
    BY <2>1, <2>2, <2>3 DEF TypeInv
<1>13. ASSUME NEW p \in Publishers, ByPublisher(PubStops(p))
     PROVE  TypeInv'
  <2>1. FaultsOK'
    BY <1>13 DEF ByPublisher, PubStops, FaultsOK, Suffer
  <2>2. PubOK'
    BY <1>13 DEF ByPublisher, PubStops, PubOK, BusyPublisher, IdlePublisher, PubDone
  <2>3. /\ RunOK' /\ KeysOK' /\ OutboxOK' /\ LeaseOK' /\ JobOK'
       /\ WkOK' /\ DeadOK' /\ RecOK' /\ ApiOK'
    BY <1>13 DEF ByPublisher, PubStops, storeVars, workerVars, RunOK, KeysOK,
           OutboxOK, LeaseOK, JobOK, WkOK, DeadOK, RecOK, ApiOK
  <2> QED
    BY <2>1, <2>2, <2>3 DEF TypeInv
<1> QED
  BY <1>1, <1>2, <1>3, <1>4, <1>5, <1>6, <1>7, <1>8, <1>9, <1>10, <1>11, <1>12, <1>13
  DEF PubNext, PubStep, PubStart, ByPublisher

LEMMA ApplyEventTypes ==
  ASSUME RunOK, KeysOK, NEW r \in Runs, NEW e \in Event, NEW key \in Key,
         ApplyEvent(r, key, e)
  PROVE  RunOK' /\ KeysOK'
<1>1. CASE Replays(r, key) /\ UNCHANGED <<run, keys>>
  BY <1>1 DEF RunOK, KeysOK
<1>2. CASE Accepts(r, key, e) /\ run' = [run EXCEPT ![r] = Moved(@, e)]
           /\ keys' = [keys EXCEPT ![r] = @ \cup {key}]
  <2>1. run[r] \in Row
    BY <1>2, PresentRow DEF Accepts, Present
  <2>2. Moved(run[r], e) \in Row
    BY <2>1, MovedIsRow
  <2> QED
    BY <1>2, <2>2 DEF RunOK, KeysOK
<1> QED
  BY <1>1, <1>2 DEF ApplyEvent

LEMMA BusyWorkerOK ==
  ASSUME WkOK, NEW w \in Workers, wk[w].pc # "idle"
  PROVE  /\ wk[w] \in BusyWorker /\ wk[w].r \in Runs /\ wk[w].n \in Attempt
         /\ wk[w].base \in Lifecycle \cup {"NONE"} /\ wk[w].ls \in Lifecycle \cup {"NONE"}
         /\ wk[w].n \in 0..MaxAttempt
BY DEF WkOK, BusyWorker, IdleWorker, Attempt

\* A worker goes on to another place with another lifecycle status.
LEMMA MovedWorkerOK ==
  ASSUME NEW v \in BusyWorker, NEW pc \in {"write", "verify", "score"}, NEW base \in Lifecycle
  PROVE  LET after == [v EXCEPT !.pc = pc, !.base = base] IN
         after \in BusyWorker /\ after.pc = pc
<1> DEFINE after == [v EXCEPT !.pc = pc, !.base = base]
<1>1. base \in Lifecycle \cup {"NONE"}
  OBVIOUS
<1> HIDE DEF Lifecycle
<1>2. after \in BusyWorker /\ after.pc = pc
  BY <1>1 DEF BusyWorker
<1> QED
  BY <1>2

LEMMA SetWorker ==
  ASSUME WkOK, NEW w \in Workers, NEW v \in BusyWorker \cup {IdleWorker},
         v.pc = "begin" => v.ls \in Starting, wk' = [wk EXCEPT ![w] = v]
  PROVE  WkOK'
BY DEF WkOK

Places == {"read", "claim", "begin", "lease", "calling", "toolresult", "write", "finish",
           "verify", "score", "catch", "catchwrite", "release", "settle", "onfailed", "finalize"}

LEMMA GotoOK ==
  ASSUME WkOK, NEW w \in Workers, NEW pc \in Places, wk[w].pc # "idle",
         pc = "begin" => wk[w].ls \in Starting, Goto(w, pc)
  PROVE  WkOK'
<1>1. [wk[w] EXCEPT !.pc = pc] \in BusyWorker
  BY BusyWorkerOK DEF BusyWorker, Places
<1> QED
  BY <1>1, SetWorker, BusyWorkerOK DEF Goto, BusyWorker

Outcomes == {"none", "completed", "retry", "fatal"}

LEMMA ReturnOK ==
  ASSUME WkOK, NEW w \in Workers, NEW out \in Outcomes, wk[w].pc # "idle", Return(w, out)
  PROVE  WkOK'
<1> DEFINE pc == IF wk[w].held THEN "release" ELSE "settle"
           v  == [wk[w] EXCEPT !.pc = pc, !.out = out]
<1>1. pc \in {"release", "settle"}
  OBVIOUS
<1>2. wk' = [wk EXCEPT ![w] = v]
  BY DEF Return, WkOK
<1> HIDE DEF pc
<1>3. wk[w] \in BusyWorker
  BY BusyWorkerOK
<1>4. v \in BusyWorker /\ v.pc # "begin"
  BY <1>1, <1>3 DEF BusyWorker, Outcomes
<1> QED
  BY <1>2, <1>4, SetWorker

LEMMA ThrowOK ==
  ASSUME WkOK, NEW w \in Workers, NEW out \in Outcomes, wk[w].pc # "idle", Throw(w, out)
  PROVE  WkOK'
<1> DEFINE o == IF wk[w].base = "VERIFYING" THEN "fatal" ELSE out
           v == [wk[w] EXCEPT !.pc = "catch", !.out = o]
<1>1. o \in Outcomes
  BY DEF Outcomes
<1>2. wk' = [wk EXCEPT ![w] = v]
  BY DEF Throw, WkOK
<1> HIDE DEF o
<1>3. wk[w] \in BusyWorker
  BY BusyWorkerOK
<1>4. v \in BusyWorker /\ v.pc # "begin"
  BY <1>1, <1>3 DEF BusyWorker, Outcomes
<1> QED
  BY <1>2, <1>4, SetWorker

LEMMA WorkerKeyOK ==
  ASSUME NEW n \in Attempt, NEW e \in Event PROVE WorkerKey(n, e) \in Key
BY DEF WorkerKey, Key, Attempt

LEMMA WorkerEventTypes ==
  ASSUME TypeInv, NEW w \in Workers, NEW from, NEW e \in Event, NEW after \in BusyWorker,
         after.pc = "begin" => after.ls \in Starting, wk[w].pc # "idle",
         WorkerEvent(w, from, e, after)
  PROVE  RunOK' /\ KeysOK' /\ WkOK'
<1> USE DEF TypeInv
<1> DEFINE r == wk[w].r
           key == WorkerKey(wk[w].n, e)
<1>1. r \in Runs /\ key \in Key
  BY BusyWorkerOK, WorkerKeyOK
<1>2. CASE ApplyEvent(r, key, e) /\ wk' = [wk EXCEPT ![w] = after]
  BY <1>1, <1>2, ApplyEventTypes, SetWorker
<1>3. CASE (Throw(w, "fatal") \/ Throw(w, "retry")) /\ UNCHANGED <<run, keys>>
  <2>1. WkOK'
    BY <1>3, ThrowOK DEF Outcomes
  <2> QED
    BY <1>3, <2>1 DEF RunOK, KeysOK
<1> QED
  BY <1>2, <1>3 DEF WorkerEvent

LEMMA MarkJobOK ==
  ASSUME JobOK, NEW r \in Runs, NEW n \in Attempt,
         NEW state \in {"waiting", "active", "completed", "failed"},
         NEW made \in 0..JobAttempts, NEW holder \in Workers \cup {NoOne},
         state \in {"waiting", "active"} => made < JobAttempts,
         MarkJob(r, n, state, made, holder)
  PROVE  JobOK'
<1> DEFINE j == [state |-> state, made |-> made, stalls |-> job[r][n].stalls, holder |-> holder]
<1>1. j \in Job
  BY DEF JobOK, Job
<1>2. job' = [job EXCEPT ![r][n] = j]
  BY DEF MarkJob, JobOK
<1> QED
  BY <1>1, <1>2, SetJob

LEMMA WorkerTypes == ASSUME TypeInv, ByWorker(WorkerNext) PROVE TypeInv'
<1> USE DEF TypeInv
<1>1. ASSUME NEW w \in Workers, NEW r \in Runs, NEW n \in Attempt,
            ByWorker(TakeJob(w, r, n))
     PROVE  TypeInv'
  <2>1. JobOK'
    <3>1. job[r][n].made \in 0..JobAttempts /\ job[r][n].made < JobAttempts
      BY <1>1 DEF ByWorker, TakeJob, JobOK, Job
    <3> QED
      BY <1>1, <3>1, MarkJobOK DEF ByWorker, TakeJob
  <2>2. WkOK'
    BY <1>1, SetWorker DEF ByWorker, TakeJob, WkOK, BusyWorker, IdleWorker
  <2>3. /\ RunOK' /\ KeysOK' /\ OutboxOK' /\ LeaseOK' /\ FaultsOK'
        /\ PubOK' /\ DeadOK' /\ RecOK' /\ ApiOK'
    BY <1>1 DEF ByWorker, TakeJob, storeVars, workerVars, RunOK, KeysOK,
           OutboxOK, LeaseOK, FaultsOK, PubOK, DeadOK, RecOK, ApiOK
  <2> QED
    BY <2>1, <2>2, <2>3 DEF TypeInv
<1>2. ASSUME NEW w \in Workers, ByWorker(ReadRun(w))
     PROVE  TypeInv'
  <2>1. WkOK'
    BY <1>2, ReturnOK, BusyWorkerOK, PresentRow DEF ByWorker, ReadRun, WkOK, BusyWorker,
           IdleWorker, Outcomes, Present
  <2>2. /\ RunOK' /\ KeysOK' /\ OutboxOK' /\ LeaseOK' /\ JobOK'
        /\ FaultsOK' /\ PubOK' /\ DeadOK' /\ RecOK' /\ ApiOK'
    BY <1>2 DEF ByWorker, ReadRun, storeVars, workerVars, RunOK, KeysOK,
           OutboxOK, LeaseOK, JobOK, FaultsOK, PubOK, DeadOK, RecOK, ApiOK
  <2> QED
    BY <2>1, <2>2 DEF TypeInv
<1>3. ASSUME NEW w \in Workers, ByWorker(ClaimRun(w))
     PROVE  TypeInv'
  <2>1. RunOK'
    BY <1>3, PresentRow, BusyWorkerOK DEF ByWorker, ClaimRun, RunOK, Row, Status,
           Claimable
  <2>2. WkOK'
    BY <1>3, ReturnOK, GotoOK, ThrowOK DEF ByWorker, ClaimRun, WkOK, BusyWorker,
           IdleWorker, Outcomes, Places, Begin
  <2>3. /\ KeysOK' /\ OutboxOK' /\ LeaseOK' /\ JobOK' /\ FaultsOK'
        /\ PubOK' /\ DeadOK' /\ RecOK' /\ ApiOK'
    BY <1>3 DEF ByWorker, ClaimRun, storeVars, workerVars, KeysOK, OutboxOK,
           LeaseOK, JobOK, FaultsOK, PubOK, DeadOK, RecOK, ApiOK
  <2> QED
    BY <2>1, <2>2, <2>3 DEF TypeInv
<1>4. ASSUME NEW w \in Workers, ByWorker(ReadFails(w))
     PROVE  TypeInv'
  <2>1. FaultsOK'
    BY <1>4 DEF ByWorker, ReadFails, FaultsOK, Suffer
  <2>2. WkOK'
    BY <1>4, ReturnOK DEF ByWorker, ReadFails, WkOK, BusyWorker, IdleWorker, Outcomes
  <2>3. /\ RunOK' /\ KeysOK' /\ OutboxOK' /\ LeaseOK' /\ JobOK'
        /\ PubOK' /\ DeadOK' /\ RecOK' /\ ApiOK'
    BY <1>4 DEF ByWorker, ReadFails, storeVars, workerVars, RunOK, KeysOK,
           OutboxOK, LeaseOK, JobOK, PubOK, DeadOK, RecOK, ApiOK
  <2> QED
    BY <2>1, <2>2, <2>3 DEF TypeInv
<1>5. ASSUME NEW w \in Workers, ByWorker(BeginEvent(w))
     PROVE  TypeInv'
  <2>1. RunOK' /\ KeysOK' /\ WkOK'
    <3> DEFINE from == wk[w].ls
               e == BeginWith[from]
               to == Target[e]
               after == IF from = "CREATED" THEN [wk[w] EXCEPT !.ls = to]
                        ELSE [wk[w] EXCEPT !.pc = "lease", !.ls = to, !.base = to]
    <3>1. from \in Starting /\ wk[w] \in BusyWorker /\ wk[w].pc = "begin"
      BY <1>5, BusyWorkerOK DEF ByWorker, BeginEvent, WkOK
    <3>2. e \in Event /\ to \in Lifecycle /\ (from = "CREATED" => to = "PLANNING")
      BY <3>1 DEF Starting, BeginWith, Event, Target, Lifecycle, Terminal
    <3>3. after \in BusyWorker /\ (after.pc = "begin" => after.ls \in Starting)
      BY <3>1, <3>2 DEF BusyWorker, Starting
    <3>4. WorkerEvent(w, from, e, after)
      BY <1>5 DEF ByWorker, BeginEvent
    <3> QED
      BY <3>1, <3>2, <3>3, <3>4, WorkerEventTypes
  <2>2. /\ OutboxOK' /\ LeaseOK' /\ JobOK' /\ FaultsOK' /\ PubOK'
        /\ DeadOK' /\ RecOK' /\ ApiOK'
    BY <1>5 DEF ByWorker, BeginEvent, WorkerEvent, storeVars, workerVars,
           OutboxOK, LeaseOK, JobOK, FaultsOK, PubOK, DeadOK, RecOK, ApiOK
  <2> QED
    BY <2>1, <2>2 DEF TypeInv
<1>6. ASSUME NEW w \in Workers, ByWorker(AcquireLease(w))
     PROVE  TypeInv'
  <2>1. LeaseOK'
    <3>1. wk[w].r \in Runs /\ Owner(w, wk[w].n) \in LeaseOwner
      BY <1>6, BusyWorkerOK DEF ByWorker, AcquireLease, LeaseOwner
    <3>2. [owner |-> Owner(w, wk[w].n), live |-> TRUE] \in Lease
      BY <3>1 DEF Lease
    <3>3. CASE UNCHANGED lease
      BY <3>3 DEF LeaseOK
    <3>4. CASE lease' = [lease EXCEPT ![wk[w].r] = [owner |-> Owner(w, wk[w].n), live |-> TRUE]]
      BY <3>1, <3>2, <3>4 DEF LeaseOK
    <3> QED
      BY <1>6, <3>3, <3>4 DEF ByWorker, AcquireLease
  <2>2. WkOK'
    BY <1>6, ReturnOK, ThrowOK, BusyWorkerOK DEF ByWorker, AcquireLease, WkOK,
           BusyWorker, IdleWorker, Outcomes
  <2>3. /\ RunOK' /\ KeysOK' /\ OutboxOK' /\ JobOK' /\ FaultsOK'
        /\ PubOK' /\ DeadOK' /\ RecOK' /\ ApiOK'
    BY <1>6 DEF ByWorker, AcquireLease, storeVars, workerVars, RunOK, KeysOK,
           OutboxOK, JobOK, FaultsOK, PubOK, DeadOK, RecOK, ApiOK
  <2> QED
    BY <2>1, <2>2, <2>3 DEF TypeInv
<1>7. ASSUME NEW w \in Workers, ByWorker(ProviderFails(w))
     PROVE  TypeInv'
  <2>1. WkOK'
    BY <1>7, ThrowOK DEF ByWorker, ProviderFails, WkOK, BusyWorker, IdleWorker, Outcomes
  <2>2. /\ RunOK' /\ KeysOK' /\ OutboxOK' /\ LeaseOK' /\ JobOK'
        /\ FaultsOK' /\ PubOK' /\ DeadOK' /\ RecOK' /\ ApiOK'
    BY <1>7 DEF ByWorker, ProviderFails, storeVars, workerVars, RunOK, KeysOK,
           OutboxOK, LeaseOK, JobOK, FaultsOK, PubOK, DeadOK, RecOK, ApiOK
  <2> QED
    BY <2>1, <2>2 DEF TypeInv
<1>8. ASSUME NEW w \in Workers, ByWorker(ReadLatest(w))
     PROVE  TypeInv'
  <2>1. WkOK'
    BY <1>8, ReturnOK, BusyWorkerOK, PresentRow DEF ByWorker, ReadLatest, WkOK,
           BusyWorker, IdleWorker, Outcomes, Present
  <2>2. /\ RunOK' /\ KeysOK' /\ OutboxOK' /\ LeaseOK' /\ JobOK'
        /\ FaultsOK' /\ PubOK' /\ DeadOK' /\ RecOK' /\ ApiOK'
    BY <1>8 DEF ByWorker, ReadLatest, storeVars, workerVars, RunOK, KeysOK,
           OutboxOK, LeaseOK, JobOK, FaultsOK, PubOK, DeadOK, RecOK, ApiOK
  <2> QED
    BY <2>1, <2>2 DEF TypeInv
<1>9. ASSUME NEW w \in Workers, ByWorker(ToolResult(w))
     PROVE  TypeInv'
  <2>1. RunOK' /\ KeysOK' /\ WkOK'
    <3> DEFINE after == [wk[w] EXCEPT !.pc = "write", !.base = "EXECUTING"]
    <3>0. wk[w] \in BusyWorker /\ wk[w].pc # "idle"
      BY <1>9, BusyWorkerOK DEF ByWorker, ToolResult
    <3>4. "EXECUTING" \in Lifecycle
      BY DEF Lifecycle, Terminal
    <3>1. after \in BusyWorker /\ after.pc # "begin" /\ wk[w].pc # "idle"
      BY <3>0, <3>4, MovedWorkerOK
    <3>2. WorkerEvent(w, wk[w].base, "TOOL_RESULT_RECEIVED", after)
      BY <1>9 DEF ByWorker, ToolResult
    <3> QED
      BY <3>1, <3>2, WorkerEventTypes DEF Event
  <2>2. /\ OutboxOK' /\ LeaseOK' /\ JobOK' /\ FaultsOK' /\ PubOK'
        /\ DeadOK' /\ RecOK' /\ ApiOK'
    BY <1>9 DEF ByWorker, ToolResult, WorkerEvent, storeVars, workerVars,
           OutboxOK, LeaseOK, JobOK, FaultsOK, PubOK, DeadOK, RecOK, ApiOK
  <2> QED
    BY <2>1, <2>2 DEF TypeInv
<1>10. ASSUME NEW w \in Workers, ByWorker(WriteOutput(w))
     PROVE  TypeInv'
  <2>1. RunOK'
    BY <1>10, PresentRow, BusyWorkerOK DEF ByWorker, WriteOutput, RunOK, Row, Status
  <2>2. WkOK'
    BY <1>10, ReturnOK, GotoOK DEF ByWorker, WriteOutput, WkOK, BusyWorker, IdleWorker,
           Outcomes, Places
  <2>3. /\ KeysOK' /\ OutboxOK' /\ LeaseOK' /\ JobOK' /\ FaultsOK'
        /\ PubOK' /\ DeadOK' /\ RecOK' /\ ApiOK'
    BY <1>10 DEF ByWorker, WriteOutput, storeVars, workerVars, KeysOK,
           OutboxOK, LeaseOK, JobOK, FaultsOK, PubOK, DeadOK, RecOK, ApiOK
  <2> QED
    BY <2>1, <2>2, <2>3 DEF TypeInv
<1>11. ASSUME NEW w \in Workers, ByWorker(FinishExecution(w))
     PROVE  TypeInv'
  <2>1. RunOK' /\ KeysOK' /\ WkOK'
    <3> DEFINE after == [wk[w] EXCEPT !.pc = "verify", !.base = "VERIFYING"]
    <3>0. wk[w] \in BusyWorker /\ wk[w].pc # "idle"
      BY <1>11, BusyWorkerOK DEF ByWorker, FinishExecution
    <3>4. "VERIFYING" \in Lifecycle
      BY DEF Lifecycle, Terminal
    <3>1. after \in BusyWorker /\ after.pc # "begin" /\ wk[w].pc # "idle"
      BY <3>0, <3>4, MovedWorkerOK
    <3>2. WorkerEvent(w, wk[w].base, "EXECUTION_FINISHED", after)
      BY <1>11 DEF ByWorker, FinishExecution
    <3> QED
      BY <3>1, <3>2, WorkerEventTypes DEF Event
  <2>2. /\ OutboxOK' /\ LeaseOK' /\ JobOK' /\ FaultsOK' /\ PubOK'
        /\ DeadOK' /\ RecOK' /\ ApiOK'
    BY <1>11 DEF ByWorker, FinishExecution, WorkerEvent, storeVars, workerVars,
           OutboxOK, LeaseOK, JobOK, FaultsOK, PubOK, DeadOK, RecOK, ApiOK
  <2> QED
    BY <2>1, <2>2 DEF TypeInv
<1>12. ASSUME NEW w \in Workers, ByWorker(PassVerification(w))
     PROVE  TypeInv'
  <2>1. RunOK' /\ KeysOK' /\ WkOK'
    <3> DEFINE after == [wk[w] EXCEPT !.pc = "score", !.base = "COMPLETED"]
    <3>0. wk[w] \in BusyWorker /\ wk[w].pc # "idle"
      BY <1>12, BusyWorkerOK DEF ByWorker, PassVerification
    <3>4. "COMPLETED" \in Lifecycle
      BY DEF Lifecycle, Terminal
    <3>1. after \in BusyWorker /\ after.pc # "begin" /\ wk[w].pc # "idle"
      BY <3>0, <3>4, MovedWorkerOK
    <3>2. WorkerEvent(w, wk[w].base, "VERIFICATION_PASSED", after)
      BY <1>12 DEF ByWorker, PassVerification
    <3> QED
      BY <3>1, <3>2, WorkerEventTypes DEF Event
  <2>2. /\ OutboxOK' /\ LeaseOK' /\ JobOK' /\ FaultsOK' /\ PubOK'
        /\ DeadOK' /\ RecOK' /\ ApiOK'
    BY <1>12 DEF ByWorker, PassVerification, WorkerEvent, storeVars, workerVars,
           OutboxOK, LeaseOK, JobOK, FaultsOK, PubOK, DeadOK, RecOK, ApiOK
  <2> QED
    BY <2>1, <2>2 DEF TypeInv
<1>13. ASSUME NEW w \in Workers, ByWorker(Score(w))
     PROVE  TypeInv'
  <2>1. RunOK'
    BY <1>13 DEF ByWorker, Score, RunOK, CreateRun, Unused, NewRow, Row, Lifecycle,
           Status, Attempt
  <2>2. OutboxOK'
    <3>1. CASE UNCHANGED outbox
      BY <3>1 DEF OutboxOK
    <3>2. ASSUME NEW c \in Runs, CreateRun(c) PROVE OutboxOK'
      <4>1. 1 \in Attempt
        BY DEF Attempt
      <4> QED
        BY <3>2, <4>1, NewEventOK DEF CreateRun
    <3> QED
      BY <1>13, <3>1, <3>2 DEF ByWorker, Score
  <2>3. DeadOK'
    BY <1>13, BusyWorkerOK DEF ByWorker, Score, DeadOK
  <2>4. WkOK'
    BY <1>13, ReturnOK DEF ByWorker, Score, WkOK, BusyWorker, IdleWorker, Outcomes
  <2>5. /\ KeysOK' /\ LeaseOK' /\ JobOK' /\ FaultsOK' /\ PubOK'
        /\ RecOK' /\ ApiOK'
    BY <1>13 DEF ByWorker, Score, storeVars, workerVars, KeysOK, LeaseOK,
           JobOK, FaultsOK, PubOK, RecOK, ApiOK
  <2> QED
    BY <2>1, <2>2, <2>3, <2>4, <2>5 DEF TypeInv
<1>14. ASSUME NEW w \in Workers, ByWorker(StatementFails(w))
     PROVE  TypeInv'
  <2>1. FaultsOK'
    BY <1>14 DEF ByWorker, StatementFails, FaultsOK, Suffer
  <2>2. WkOK'
    BY <1>14, ThrowOK DEF ByWorker, StatementFails, WkOK, BusyWorker, IdleWorker,
           Outcomes, LifecyclePc
  <2>3. /\ RunOK' /\ KeysOK' /\ OutboxOK' /\ LeaseOK' /\ JobOK'
        /\ PubOK' /\ DeadOK' /\ RecOK' /\ ApiOK'
    BY <1>14 DEF ByWorker, StatementFails, storeVars, workerVars, RunOK,
           KeysOK, OutboxOK, LeaseOK, JobOK, PubOK, DeadOK, RecOK, ApiOK
  <2> QED
    BY <2>1, <2>2, <2>3 DEF TypeInv
<1>15. ASSUME NEW w \in Workers, ByWorker(CatchEvent(w))
     PROVE  TypeInv'
  <2>1. RunOK' /\ KeysOK'
    <3> DEFINE e == ErrorEvent(wk[w].out)
               key == WorkerKey(wk[w].n, e)
    <3>1. wk[w].r \in Runs /\ e \in Event /\ key \in Key
      BY <1>15, BusyWorkerOK, WorkerKeyOK DEF ByWorker, CatchEvent, ErrorEvent, Event
    <3>2. CASE UNCHANGED <<run, keys>>
      BY <3>2 DEF RunOK, KeysOK
    <3>3. CASE ApplyEvent(wk[w].r, key, e)
      BY <3>1, <3>3, ApplyEventTypes
    <3> QED
      BY <1>15, <3>2, <3>3 DEF ByWorker, CatchEvent
  <2>2. FaultsOK'
    BY <1>15 DEF ByWorker, CatchEvent, FaultsOK, Suffer
  <2>3. WkOK'
    BY <1>15, GotoOK DEF ByWorker, CatchEvent, WkOK, BusyWorker, IdleWorker, Places
  <2>4. /\ OutboxOK' /\ LeaseOK' /\ JobOK' /\ PubOK' /\ DeadOK'
        /\ RecOK' /\ ApiOK'
    BY <1>15 DEF ByWorker, CatchEvent, storeVars, workerVars, OutboxOK,
           LeaseOK, JobOK, PubOK, DeadOK, RecOK, ApiOK
  <2> QED
    BY <2>1, <2>2, <2>3, <2>4 DEF TypeInv
<1>16. ASSUME NEW w \in Workers, ByWorker(CatchWrite(w))
     PROVE  TypeInv'
  <2>1. RunOK'
    BY <1>16, PresentRow, BusyWorkerOK DEF ByWorker, CatchWrite, RunOK, Row, Status,
           Terminal
  <2>2. FaultsOK'
    BY <1>16 DEF ByWorker, CatchWrite, FaultsOK, Suffer
  <2>3. WkOK'
    BY <1>16, ReturnOK DEF ByWorker, CatchWrite, WkOK, BusyWorker, IdleWorker, Outcomes
  <2>4. /\ KeysOK' /\ OutboxOK' /\ LeaseOK' /\ JobOK' /\ PubOK'
        /\ DeadOK' /\ RecOK' /\ ApiOK'
    BY <1>16 DEF ByWorker, CatchWrite, storeVars, workerVars, KeysOK, OutboxOK,
           LeaseOK, JobOK, PubOK, DeadOK, RecOK, ApiOK
  <2> QED
    BY <2>1, <2>2, <2>3, <2>4 DEF TypeInv
<1>17. ASSUME NEW w \in Workers, ByWorker(ReleaseLease(w))
     PROVE  TypeInv'
  <2>1. LeaseOK'
    BY <1>17, BusyWorkerOK DEF ByWorker, ReleaseLease, LeaseOK
  <2>2. FaultsOK'
    BY <1>17 DEF ByWorker, ReleaseLease, FaultsOK, Suffer
  <2>3. WkOK'
    <3> DEFINE v == [wk[w] EXCEPT !.pc = "settle", !.held = FALSE]
    <3>0. wk[w] \in BusyWorker
      BY <1>17, BusyWorkerOK DEF ByWorker, ReleaseLease
    <3>1. v \in BusyWorker /\ v.pc # "begin"
      BY <3>0 DEF BusyWorker
    <3>2. wk' = [wk EXCEPT ![w] = v]
      BY <1>17 DEF ByWorker, ReleaseLease
    <3> QED
      BY <3>1, <3>2, SetWorker
  <2>4. /\ RunOK' /\ KeysOK' /\ OutboxOK' /\ JobOK' /\ PubOK'
        /\ DeadOK' /\ RecOK' /\ ApiOK'
    BY <1>17 DEF ByWorker, ReleaseLease, storeVars, workerVars, RunOK, KeysOK,
           OutboxOK, JobOK, PubOK, DeadOK, RecOK, ApiOK
  <2> QED
    BY <2>1, <2>2, <2>3, <2>4 DEF TypeInv
<1>18. ASSUME NEW w \in Workers, ByWorker(Settle(w))
     PROVE  TypeInv'
  <2>1. JobOK'
    <3> DEFINE r == wk[w].r
               n == wk[w].n
    <3>1. r \in Runs /\ n \in Attempt
      BY <1>18, BusyWorkerOK DEF ByWorker, Settle
    <3>2. job[r][n].made \in 0..JobAttempts
      BY <3>1 DEF JobOK, Job
    <3>3. CASE UNCHANGED job
      BY <3>3 DEF JobOK
    <3>4. CASE MarkJob(r, n, "completed", job[r][n].made, NoOne)
      BY <3>1, <3>2, <3>4, MarkJobOK
    <3>5. ASSUME job[r][n].state = "active", NEW state \in {"failed", "waiting"},
                 state = "waiting" => job[r][n].made + 1 < JobAttempts,
                 MarkJob(r, n, state, job[r][n].made + 1, NoOne)
          PROVE  JobOK'
      <4>1. job[r][n].made < JobAttempts
        BY <3>1, <3>5 DEF JobOK
      <4>2. job[r][n].made + 1 \in 0..JobAttempts
        BY <3>2, <4>1
      <4> QED
        BY <3>1, <3>5, <4>2, MarkJobOK
    <3>6. JobAttempts \in Nat
      BY StoreAssumption DEF StoreAssumption
    <3>7. CASE job[r][n].state = "active" /\ wk[w].out # "completed" /\ ~UNCHANGED job
      <4> DEFINE state == IF wk[w].out = "fatal" \/ job[r][n].made + 1 >= JobAttempts
                            THEN "failed" ELSE "waiting"
      <4>1. MarkJob(r, n, state, job[r][n].made + 1, NoOne)
        BY <1>18, <3>7 DEF ByWorker, Settle
      <4>2. state \in {"failed", "waiting"} /\
            (state = "waiting" => job[r][n].made + 1 < JobAttempts)
        BY <3>2, <3>6
      <4> HIDE DEF state
      <4> QED
        BY <3>5, <3>7, <4>1, <4>2
    <3> QED
      BY <1>18, <3>3, <3>4, <3>7 DEF ByWorker, Settle
  <2>2. WkOK'
    BY <1>18, BusyWorkerOK, SetWorker DEF ByWorker, Settle, WkOK, BusyWorker, IdleWorker
  <2>3. /\ RunOK' /\ KeysOK' /\ OutboxOK' /\ LeaseOK' /\ FaultsOK'
        /\ PubOK' /\ DeadOK' /\ RecOK' /\ ApiOK'
    BY <1>18 DEF ByWorker, Settle, storeVars, workerVars, RunOK, KeysOK,
           OutboxOK, LeaseOK, FaultsOK, PubOK, DeadOK, RecOK, ApiOK
  <2> QED
    BY <2>1, <2>2, <2>3 DEF TypeInv
<1>19. ASSUME NEW w \in Workers, ByWorker(OnFailed(w))
     PROVE  TypeInv'
  <2>1. WkOK'
    BY <1>19, BusyWorkerOK, SetWorker, PresentRow DEF ByWorker, OnFailed, WkOK,
           BusyWorker, IdleWorker, Present
  <2>2. DeadOK'
    BY <1>19, BusyWorkerOK DEF ByWorker, OnFailed, DeadOK
  <2>3. /\ RunOK' /\ KeysOK' /\ OutboxOK' /\ LeaseOK' /\ JobOK'
        /\ FaultsOK' /\ PubOK' /\ RecOK' /\ ApiOK'
    BY <1>19 DEF ByWorker, OnFailed, storeVars, workerVars, RunOK, KeysOK,
           OutboxOK, LeaseOK, JobOK, FaultsOK, PubOK, RecOK, ApiOK
  <2> QED
    BY <2>1, <2>2, <2>3 DEF TypeInv
<1>20. ASSUME NEW w \in Workers, ByWorker(Finalize(w))
     PROVE  TypeInv'
  <2>1. RunOK' /\ KeysOK'
    <3> DEFINE e == IF wk[w].base = "CREATED" THEN "FATAL_ERROR" ELSE "NON_RETRYABLE_ERROR"
               key == WorkerKey(wk[w].n, e)
    <3>1. wk[w].r \in Runs /\ e \in Event /\ key \in Key
      BY <1>20, BusyWorkerOK, WorkerKeyOK DEF ByWorker, Finalize, Event
    <3>2. CASE UNCHANGED <<run, keys>>
      BY <3>2 DEF RunOK, KeysOK
    <3>3. CASE ApplyEvent(wk[w].r, key, e)
      BY <3>1, <3>3, ApplyEventTypes
    <3> QED
      BY <1>20, <3>2, <3>3 DEF ByWorker, Finalize
  <2>2. FaultsOK'
    BY <1>20 DEF ByWorker, Finalize, FaultsOK, Suffer
  <2>3. WkOK'
    BY <1>20, SetWorker DEF ByWorker, Finalize, WkOK, BusyWorker, IdleWorker
  <2>4. DeadOK'
    BY <1>20, BusyWorkerOK DEF ByWorker, Finalize, DeadOK
  <2>5. OutboxOK' /\ LeaseOK' /\ JobOK' /\ PubOK' /\ RecOK' /\ ApiOK'
    BY <1>20 DEF ByWorker, Finalize, storeVars, workerVars, OutboxOK, LeaseOK,
           JobOK, PubOK, RecOK, ApiOK
  <2> QED
    BY <2>1, <2>2, <2>3, <2>4, <2>5 DEF TypeInv
<1>21. ASSUME NEW w \in Workers, ByWorker(WorkerCrash(w))
     PROVE  TypeInv'
  <2>1. FaultsOK'
    BY <1>21 DEF ByWorker, WorkerCrash, FaultsOK, Suffer
  <2>2. WkOK'
    BY <1>21, SetWorker DEF ByWorker, WorkerCrash, WkOK, BusyWorker, IdleWorker
  <2>3. /\ RunOK' /\ KeysOK' /\ OutboxOK' /\ LeaseOK' /\ JobOK'
        /\ PubOK' /\ DeadOK' /\ RecOK' /\ ApiOK'
    BY <1>21 DEF ByWorker, WorkerCrash, storeVars, workerVars, RunOK, KeysOK,
           OutboxOK, LeaseOK, JobOK, PubOK, DeadOK, RecOK, ApiOK
  <2> QED
    BY <2>1, <2>2, <2>3 DEF TypeInv
<1>22. ASSUME NEW r \in Runs, NEW n \in Attempt, ByWorker(StallJob(r, n))
     PROVE  TypeInv'
  <2>1. JobOK'
    <3> DEFINE j == [state |-> "waiting", made |-> job[r][n].made, holder |-> NoOne,
                     stalls |-> IF job[r][n].stalls < 2 THEN job[r][n].stalls + 1 ELSE 2]
    <3>1. job[r][n] \in Job /\ job[r][n].made < JobAttempts
      BY <1>22 DEF ByWorker, StallJob, JobOK
    <3>3. (IF job[r][n].stalls < 2 THEN job[r][n].stalls + 1 ELSE 2) \in 0..2
      BY <3>1 DEF Job
    <3>4. j \in Job /\ j.made < JobAttempts
      BY <3>1, <3>3 DEF Job
    <3>2. job' = [job EXCEPT ![r][n] = j]
      BY <1>22 DEF ByWorker, StallJob
    <3> QED
      BY <3>2, <3>4, SetJob
  <2>2. FaultsOK'
    BY <1>22 DEF ByWorker, StallJob, FaultsOK, Suffer
  <2>3. /\ RunOK' /\ KeysOK' /\ OutboxOK' /\ LeaseOK' /\ PubOK'
        /\ WkOK' /\ DeadOK' /\ RecOK' /\ ApiOK'
    BY <1>22 DEF ByWorker, StallJob, storeVars, workerVars, RunOK, KeysOK,
           OutboxOK, LeaseOK, PubOK, WkOK, DeadOK, RecOK, ApiOK
  <2> QED
    BY <2>1, <2>2, <2>3 DEF TypeInv
<1>23. ASSUME NEW r \in Runs, ByWorker(ExpireLease(r))
     PROVE  TypeInv'
  <2>1. LeaseOK'
    <3>1. lease[r] \in Lease
      BY <1>23 DEF ByWorker, ExpireLease, LeaseOK, NoLease
    <3>2. [lease[r] EXCEPT !.live = FALSE] \in Lease
      BY <3>1 DEF Lease
    <3> QED
      BY <1>23, <3>2 DEF ByWorker, ExpireLease, LeaseOK
  <2>2. FaultsOK'
    BY <1>23 DEF ByWorker, ExpireLease, FaultsOK, Suffer
  <2>3. /\ RunOK' /\ KeysOK' /\ OutboxOK' /\ JobOK' /\ PubOK'
        /\ WkOK' /\ DeadOK' /\ RecOK' /\ ApiOK'
    BY <1>23 DEF ByWorker, ExpireLease, storeVars, workerVars, RunOK, KeysOK,
           OutboxOK, JobOK, PubOK, WkOK, DeadOK, RecOK, ApiOK
  <2> QED
    BY <2>1, <2>2, <2>3 DEF TypeInv
<1>24. ASSUME NEW r \in Runs, ByWorker(RunAges(r))
     PROVE  TypeInv'
  <2>1. RunOK'
    BY <1>24 DEF ByWorker, RunAges, RunOK, Row, NoRow
  <2>2. /\ KeysOK' /\ OutboxOK' /\ LeaseOK' /\ JobOK' /\ FaultsOK'
        /\ PubOK' /\ WkOK' /\ DeadOK' /\ RecOK' /\ ApiOK'
    BY <1>24 DEF ByWorker, RunAges, storeVars, workerVars, KeysOK, OutboxOK,
           LeaseOK, JobOK, FaultsOK, PubOK, WkOK, DeadOK, RecOK, ApiOK
  <2> QED
    BY <2>1, <2>2 DEF TypeInv
<1> QED
  BY <1>1, <1>2, <1>3, <1>4, <1>5, <1>6, <1>7, <1>8, <1>9, <1>10, <1>11, <1>12, <1>13,
         <1>14, <1>15, <1>16, <1>17, <1>18, <1>19, <1>20, <1>21, <1>22, <1>23, <1>24
  DEF WorkerNext, WorkerStep, WorkerFault, ByWorker

LEMMA BusyScanOK ==
  ASSUME RecOK, NEW s \in Recoverers, rec[s].pc # "idle"
  PROVE  /\ rec[s] \in BusyScan /\ rec[s].r \in Runs /\ rec[s].n \in Attempt
         /\ rec[s].todo \subseteq Snapshot /\ rec[s].ls \in Lifecycle
BY DEF RecOK, BusyScan, IdleScan

LEMMA SetScan ==
  ASSUME RecOK, NEW s \in Recoverers, NEW v \in BusyScan \cup {IdleScan},
         rec' = [rec EXCEPT ![s] = v]
  PROVE  RecOK'
BY DEF RecOK

LEMMA AbortScanOK ==
  ASSUME RecOK, NEW s \in Recoverers, AbortScan(s) PROVE RecOK'
BY SetScan DEF AbortScan

LEMMA ConsiderOK ==
  ASSUME RecOK, NEW s \in Recoverers, NEW c \in Snapshot, NEW rest \in SUBSET Snapshot,
         Consider(s, c, rest)
  PROVE  RecOK'
<1> DEFINE v == [pc |-> FirstStep(c.ls), todo |-> rest, r |-> c.r, n |-> c.n, ls |-> c.ls]
<1>1. CASE AbortScan(s)
  BY <1>1, AbortScanOK
<1>2. CASE rec' = [rec EXCEPT ![s] = v]
  <2>1. v \in BusyScan
    BY DEF BusyScan, Snapshot, FirstStep
  <2> QED
    BY <1>2, <2>1, SetScan
<1> QED
  BY <1>1, <1>2 DEF Consider

LEMMA NextCandidateOK ==
  ASSUME RecOK, NEW s \in Recoverers, rec[s].pc # "idle", NextCandidate(s) PROVE RecOK'
BY BusyScanOK, AbortScanOK, ConsiderOK DEF NextCandidate

LEMMA RecoveryEventTypes ==
  ASSUME TypeInv, NEW s \in Recoverers, NEW suffix \in Event, NEW e \in Event,
         NEW after \in BusyScan, rec[s].pc # "idle", RecoveryEvent(s, suffix, e, after)
  PROVE  RunOK' /\ KeysOK' /\ RecOK'
<1> USE DEF TypeInv
<1> DEFINE key == RecoveryKey(rec[s].n, suffix)
<1>1. rec[s].r \in Runs /\ key \in Key
  BY BusyScanOK DEF RecoveryKey, Key, Attempt
<1>2. CASE ApplyEvent(rec[s].r, key, e) /\ rec' = [rec EXCEPT ![s] = after]
  BY <1>1, <1>2, ApplyEventTypes, SetScan
<1>3. CASE AbortScan(s) /\ UNCHANGED <<run, keys>>
  BY <1>3, AbortScanOK DEF RunOK, KeysOK
<1> QED
  BY <1>2, <1>3 DEF RecoveryEvent

LEMMA RecoveryTypes == ASSUME TypeInv, ByRecovery(RecoveryNext) PROVE TypeInv'
<1> USE DEF TypeInv
<1>1. ASSUME NEW s \in Recoverers, ByRecovery(StartScan(s))
     PROVE  TypeInv'
  <2>1. RecOK'
    <3> DEFINE found == {[r |-> r, n |-> run[r].attempt, ls |-> run[r].life] :
                           r \in {q \in Runs : Abandoned(q)}}
    <3>1. ASSUME NEW r \in Runs, Abandoned(r)
          PROVE  [r |-> r, n |-> run[r].attempt, ls |-> run[r].life] \in Snapshot
      <4>1. run[r].attempt \in Attempt /\ run[r].life \in Lifecycle
        BY <3>1, PresentRow DEF Abandoned
      <4> QED
        BY <4>1 DEF Snapshot
    <3>2. found \subseteq Snapshot
      BY <3>1
    <3> HIDE DEF found
    <3>3. PICK c \in found : Consider(s, c, found \ {c})
      BY <1>1 DEF ByRecovery, StartScan, found
    <3> QED
      BY <3>2, <3>3, ConsiderOK
  <2>2. /\ RunOK' /\ KeysOK' /\ OutboxOK' /\ LeaseOK' /\ JobOK'
        /\ FaultsOK' /\ PubOK' /\ WkOK' /\ DeadOK' /\ ApiOK'
    BY <1>1 DEF ByRecovery, StartScan, storeVars, workerVars, RunOK, KeysOK,
           OutboxOK, LeaseOK, JobOK, FaultsOK, PubOK, WkOK, DeadOK, ApiOK
  <2> QED
    BY <2>1, <2>2 DEF TypeInv
<1>2. ASSUME NEW s \in Recoverers, ByRecovery(DropLease(s))
     PROVE  TypeInv'
  <2>1. LeaseOK'
    BY <1>2, BusyScanOK DEF ByRecovery, DropLease, LeaseOK
  <2>2. RecOK'
    BY <1>2, NextCandidateOK DEF ByRecovery, DropLease, RecOK, BusyScan, IdleScan
  <2>3. /\ RunOK' /\ KeysOK' /\ OutboxOK' /\ JobOK' /\ FaultsOK'
        /\ PubOK' /\ WkOK' /\ DeadOK' /\ ApiOK'
    BY <1>2 DEF ByRecovery, DropLease, storeVars, workerVars, RunOK, KeysOK,
           OutboxOK, JobOK, FaultsOK, PubOK, WkOK, DeadOK, ApiOK
  <2> QED
    BY <2>1, <2>2, <2>3 DEF TypeInv
<1>3. ASSUME NEW s \in Recoverers, ByRecovery(FailVerifying(s))
     PROVE  TypeInv'
  <2>1. RunOK' /\ KeysOK' /\ RecOK'
    <3> DEFINE after == [rec[s] EXCEPT !.pc = "unlease"]
    <3>1. after \in BusyScan /\ rec[s].pc # "idle"
      BY <1>3, BusyScanOK DEF ByRecovery, FailVerifying, BusyScan
    <3>2. RecoveryEvent(s, "VERIFICATION_FAILED", "VERIFICATION_FAILED", after)
      BY <1>3 DEF ByRecovery, FailVerifying
    <3> QED
      BY <3>1, <3>2, RecoveryEventTypes DEF Event
  <2>2. /\ OutboxOK' /\ LeaseOK' /\ JobOK' /\ FaultsOK' /\ PubOK'
        /\ WkOK' /\ DeadOK' /\ ApiOK'
    BY <1>3 DEF ByRecovery, FailVerifying, RecoveryEvent, storeVars, workerVars,
           OutboxOK, LeaseOK, JobOK, FaultsOK, PubOK, WkOK, DeadOK, ApiOK
  <2> QED
    BY <2>1, <2>2 DEF TypeInv
<1>4. ASSUME NEW s \in Recoverers, ByRecovery(WalkEvent(s))
     PROVE  TypeInv'
  <2>1. RunOK' /\ KeysOK' /\ RecOK'
    <3> DEFINE e == IF rec[s].ls = "CREATED" THEN "PLAN_STARTED" ELSE "TOOL_CALL_REQUESTED"
               after == [rec[s] EXCEPT !.ls = Target[e],
                                       !.pc = IF e = "PLAN_STARTED" THEN "walk" ELSE "retry"]
    <3>1. e \in Event /\ Target[e] \in Lifecycle /\ rec[s].pc = "walk"
      BY <1>4, TargetIsLifecycle DEF ByRecovery, WalkEvent, Event
    <3>2. after \in BusyScan
      BY <3>1, BusyScanOK DEF BusyScan
    <3>3. RecoveryEvent(s, e, e, after)
      BY <1>4 DEF ByRecovery, WalkEvent
    <3> QED
      BY <3>1, <3>2, <3>3, RecoveryEventTypes
  <2>2. /\ OutboxOK' /\ LeaseOK' /\ JobOK' /\ FaultsOK' /\ PubOK'
        /\ WkOK' /\ DeadOK' /\ ApiOK'
    BY <1>4 DEF ByRecovery, WalkEvent, RecoveryEvent, storeVars, workerVars,
           OutboxOK, LeaseOK, JobOK, FaultsOK, PubOK, WkOK, DeadOK, ApiOK
  <2> QED
    BY <2>1, <2>2 DEF TypeInv
<1>5. ASSUME NEW s \in Recoverers, ByRecovery(ScheduleRetry(s))
     PROVE  TypeInv'
  <2>1. RunOK' /\ KeysOK' /\ RecOK'
    <3> DEFINE after == [rec[s] EXCEPT !.pc = "bump"]
    <3>1. after \in BusyScan /\ rec[s].pc # "idle"
      BY <1>5, BusyScanOK DEF ByRecovery, ScheduleRetry, BusyScan
    <3>2. RecoveryEvent(s, "RETRYABLE_ERROR", "RETRYABLE_ERROR", after)
      BY <1>5 DEF ByRecovery, ScheduleRetry
    <3> QED
      BY <3>1, <3>2, RecoveryEventTypes DEF Event
  <2>2. /\ OutboxOK' /\ LeaseOK' /\ JobOK' /\ FaultsOK' /\ PubOK'
        /\ WkOK' /\ DeadOK' /\ ApiOK'
    BY <1>5 DEF ByRecovery, ScheduleRetry, RecoveryEvent, storeVars, workerVars,
           OutboxOK, LeaseOK, JobOK, FaultsOK, PubOK, WkOK, DeadOK, ApiOK
  <2> QED
    BY <2>1, <2>2 DEF TypeInv
<1>6. ASSUME NEW s \in Recoverers, ByRecovery(StartAttempt(s))
     PROVE  TypeInv'
  <2>1. RunOK'
    <3>1. rec[s].r \in Runs /\ rec[s].n + 1 \in Attempt
      BY <1>6, BusyScanOK DEF ByRecovery, StartAttempt, Attempt
    <3>2. CASE run[rec[s].r].life = "RETRY_SCHEDULED"
      <4>1. run[rec[s].r] \in Row
        BY <3>1, <3>2 DEF RunOK, NoRow
      <4> QED
        BY <1>6, <3>1, <3>2, <4>1 DEF ByRecovery, StartAttempt, RunOK, Row, Status
    <3> QED
      BY <1>6, <3>2 DEF ByRecovery, StartAttempt, RunOK
  <2>2. OutboxOK'
    <3>1. rec[s].r \in Runs /\ rec[s].n + 1 \in Attempt
      BY <1>6, BusyScanOK DEF ByRecovery, StartAttempt, Attempt
    <3>2. CASE UNCHANGED outbox
      BY <3>2 DEF OutboxOK
    <3>3. CASE NewEvent(rec[s].r, rec[s].n + 1)
      BY <3>1, <3>3, NewEventOK
    <3> QED
      BY <1>6, <3>2, <3>3 DEF ByRecovery, StartAttempt
  <2>3. LeaseOK'
    BY <1>6, BusyScanOK DEF ByRecovery, StartAttempt, LeaseOK
  <2>4. RecOK'
    BY <1>6, NextCandidateOK DEF ByRecovery, StartAttempt, RecOK, BusyScan, IdleScan
  <2>5. /\ KeysOK' /\ JobOK' /\ FaultsOK' /\ PubOK' /\ WkOK'
        /\ DeadOK' /\ ApiOK'
    BY <1>6 DEF ByRecovery, StartAttempt, storeVars, workerVars, KeysOK, JobOK,
           FaultsOK, PubOK, WkOK, DeadOK, ApiOK
  <2> QED
    BY <2>1, <2>2, <2>3, <2>4, <2>5 DEF TypeInv
<1>7. ASSUME NEW s \in Recoverers, ByRecovery(ScanBreaks(s))
     PROVE  TypeInv'
  <2>1. FaultsOK'
    BY <1>7 DEF ByRecovery, ScanBreaks, FaultsOK, Suffer
  <2>2. RecOK'
    BY <1>7, AbortScanOK DEF ByRecovery, ScanBreaks, RecOK, BusyScan, IdleScan
  <2>3. /\ RunOK' /\ KeysOK' /\ OutboxOK' /\ LeaseOK' /\ JobOK'
        /\ PubOK' /\ WkOK' /\ DeadOK' /\ ApiOK'
    BY <1>7 DEF ByRecovery, ScanBreaks, storeVars, workerVars, RunOK, KeysOK,
           OutboxOK, LeaseOK, JobOK, PubOK, WkOK, DeadOK, ApiOK
  <2> QED
    BY <2>1, <2>2, <2>3 DEF TypeInv
<1> QED
  BY <1>1, <1>2, <1>3, <1>4, <1>5, <1>6, <1>7
  DEF RecoveryNext, RecoveryStep, ByRecovery

LEMMA ApiTypes == ASSUME TypeInv, ApiNext \/ (\E r \in Runs, n \in Attempt : EvictJob(r, n))
                  PROVE TypeInv'
<1> USE DEF TypeInv
<1>1. ASSUME NEW r \in Runs, Create(r)
     PROVE  TypeInv'
  <2>1. RunOK'
    BY <1>1 DEF Create, RunOK, CreateRun, Unused, NewRow, Row, Lifecycle, Status,
           Attempt
  <2>2. OutboxOK'
    <3>1. 1 \in Attempt
      BY DEF Attempt
    <3> QED
      BY <1>1, <3>1, NewEventOK DEF Create, CreateRun
  <2>3. /\ KeysOK' /\ LeaseOK' /\ JobOK' /\ FaultsOK' /\ PubOK'
        /\ WkOK' /\ DeadOK' /\ RecOK' /\ ApiOK'
    BY <1>1 DEF Create, storeVars, workerVars, KeysOK, LeaseOK, JobOK,
           FaultsOK, PubOK, WkOK, DeadOK, RecOK, ApiOK
  <2> QED
    BY <2>1, <2>2, <2>3 DEF TypeInv
<1>2. ASSUME NEW r \in Runs, Cancel(r)
     PROVE  TypeInv'
  <2>1. RunOK' /\ KeysOK'
    <3>1. "CANCELLED_BY_USER" \in Event /\ <<"cancel", 0, "CANCELLED_BY_USER">> \in Key
      BY DEF Event, Key
    <3> QED
      BY <1>2, <3>1, ApplyEventTypes DEF Cancel
  <2>2. ApiOK'
    BY <1>2 DEF Cancel, ApiOK
  <2>3. /\ OutboxOK' /\ LeaseOK' /\ JobOK' /\ FaultsOK' /\ PubOK'
        /\ WkOK' /\ DeadOK' /\ RecOK'
    BY <1>2 DEF Cancel, storeVars, workerVars, OutboxOK, LeaseOK, JobOK,
           FaultsOK, PubOK, WkOK, DeadOK, RecOK
  <2> QED
    BY <2>1, <2>2, <2>3 DEF TypeInv
<1>3. ASSUME NEW r \in Runs, CancelStatus(r)
     PROVE  TypeInv'
  <2>1. RunOK'
    BY <1>3, PresentRow DEF CancelStatus, RunOK, Row, NoRow, Status, Terminal
  <2>2. ApiOK'
    BY <1>3 DEF CancelStatus, ApiOK
  <2>3. /\ KeysOK' /\ OutboxOK' /\ LeaseOK' /\ JobOK' /\ FaultsOK'
        /\ PubOK' /\ WkOK' /\ DeadOK' /\ RecOK'
    BY <1>3 DEF CancelStatus, storeVars, workerVars, KeysOK, OutboxOK,
           LeaseOK, JobOK, FaultsOK, PubOK, WkOK, DeadOK, RecOK
  <2> QED
    BY <2>1, <2>2, <2>3 DEF TypeInv
<1>4. ASSUME NEW r \in Runs, Remove(r)
     PROVE  TypeInv'
  <2>1. RunOK'
    BY <1>4 DEF Remove, RunOK
  <2>2. KeysOK'
    BY <1>4 DEF Remove, KeysOK
  <2>3. LeaseOK'
    BY <1>4 DEF Remove, LeaseOK
  <2>4. /\ OutboxOK' /\ JobOK' /\ FaultsOK' /\ PubOK' /\ WkOK'
        /\ DeadOK' /\ RecOK' /\ ApiOK'
    BY <1>4 DEF Remove, storeVars, workerVars, OutboxOK, JobOK,
           FaultsOK, PubOK, WkOK, DeadOK, RecOK, ApiOK
  <2> QED
    BY <2>1, <2>2, <2>3, <2>4 DEF TypeInv
<1>5. ASSUME NEW r \in Runs, NEW c \in Runs, Retry(r, c)
     PROVE  TypeInv'
  <2>1. RunOK'
    BY <1>5 DEF Retry, RunOK, CreateRun, Unused, NewRow, Row, Lifecycle, Status,
           Attempt
  <2>2. OutboxOK'
    <3>1. 1 \in Attempt
      BY DEF Attempt
    <3> QED
      BY <1>5, <3>1, NewEventOK DEF Retry, CreateRun
  <2>3. ApiOK'
    BY <1>5 DEF Retry, ApiOK
  <2>4. /\ KeysOK' /\ LeaseOK' /\ JobOK' /\ FaultsOK' /\ PubOK'
        /\ WkOK' /\ DeadOK' /\ RecOK'
    BY <1>5 DEF Retry, storeVars, workerVars, KeysOK, LeaseOK, JobOK,
           FaultsOK, PubOK, WkOK, DeadOK, RecOK
  <2> QED
    BY <2>1, <2>2, <2>3, <2>4 DEF TypeInv
<1>6. ASSUME NEW r \in Runs, NEW n \in Attempt, NEW e \in AgentEvents, AgentReports(r, n, e)
     PROVE  TypeInv'
  <2>1. RunOK' /\ KeysOK'
    <3>1. e \in Event /\ <<"agent", n, e>> \in Key
      BY ApiAssumption DEF Key, Attempt
    <3> QED
      BY <1>6, <3>1, ApplyEventTypes DEF AgentReports
  <2>2. /\ OutboxOK' /\ LeaseOK' /\ JobOK' /\ FaultsOK' /\ PubOK'
        /\ WkOK' /\ DeadOK' /\ RecOK' /\ ApiOK'
    BY <1>6 DEF AgentReports, storeVars, workerVars, OutboxOK, LeaseOK,
           JobOK, FaultsOK, PubOK, WkOK, DeadOK, RecOK, ApiOK
  <2> QED
    BY <2>1, <2>2 DEF TypeInv
<1>7. ASSUME NEW r \in Runs, NEW n \in Attempt, EvictJob(r, n)
     PROVE  TypeInv'
  <2>1. JobOK'
    <3>1. NoJob \in Job /\ NoJob.made < JobAttempts
      BY DEF NoJob, Job
    <3> QED
      BY <1>7, <3>1, SetJob DEF EvictJob
  <2>2. FaultsOK'
    BY <1>7 DEF EvictJob, FaultsOK, Suffer
  <2>3. /\ RunOK' /\ KeysOK' /\ OutboxOK' /\ LeaseOK' /\ PubOK'
        /\ WkOK' /\ DeadOK' /\ RecOK' /\ ApiOK'
    BY <1>7 DEF EvictJob, storeVars, workerVars, RunOK, KeysOK,
           OutboxOK, LeaseOK, PubOK, WkOK, DeadOK, RecOK, ApiOK
  <2> QED
    BY <2>1, <2>2, <2>3 DEF TypeInv
<1> QED
  BY <1>1, <1>2, <1>3, <1>4, <1>5, <1>6, <1>7 DEF ApiNext

LEMMA TypeInvStutter == ASSUME TypeInv, UNCHANGED vars PROVE TypeInv'
<1> USE DEF vars, storeVars, workerVars, TypeInv
<1>1. RunOK' /\ KeysOK' /\ OutboxOK' /\ LeaseOK' /\ JobOK' /\ FaultsOK'
  BY DEF RunOK, KeysOK, OutboxOK, LeaseOK, JobOK, FaultsOK
<1>2. PubOK' /\ WkOK' /\ DeadOK' /\ RecOK' /\ ApiOK'
  BY DEF PubOK, WkOK, DeadOK, RecOK, ApiOK
<1> QED
  BY <1>1, <1>2

LEMMA TypeInvInvariant == Spec => []TypeInv
<1>1. TypeInv /\ [Next]_vars => TypeInv'
  BY PublisherTypes, WorkerTypes, RecoveryTypes, ApiTypes, TypeInvStutter DEF Next
<1> QED
  BY <1>1, InitTypeInv, PTL DEF Spec

\* Every variable keeps its type, whatever the numbers of runs, attempts, tries,
\* workers, publishers and scans: rows of the tables stay inside their enums and
\* counters inside their limits.
THEOREM TypeCorrect == Spec => []TypeOK
BY TypeInvInvariant, TypeInvTypeOK, PTL
=============================================================================
