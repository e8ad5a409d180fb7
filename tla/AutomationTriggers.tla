-------------------------- MODULE AutomationTriggers --------------------------
(***************************************************************************)
(* How runs come about: AutomationSchedulerService on several replicas,    *)
(* and AutomationService on behalf of users.                               *)
(*                                                                         *)
(* The transactions are READ COMMITTED.  One that looks at the runs of the *)
(* flow and then creates one does so in two steps, between which others    *)
(* commit; only the unique key decides at the second.                      *)
(***************************************************************************)
EXTENDS AutomationStore

VARIABLE client  \* what each scheduler and each request is doing

Clients == Schedulers \cup Users

Client == [pc : {"idle", "check", "create", "add", "mark"},
           key : Key, parent : 0..MaxRuns, r : 0..MaxRuns]
IdleClient == [pc |-> "idle", key |-> NoKey, parent |-> 0, r |-> 0]

TriggersTypeOK == client \in [Clients -> Client]
TriggersInit == client = [c \in Clients |-> IdleClient]

Stop(c) == client' = [client EXCEPT ![c] = IdleClient]
GoTo(c, pc) == client' = [client EXCEPT ![c].pc = pc]

-----------------------------------------------------------------------------
(* The scheduler.                                                          *)

\* enqueueDueFlows reads the flows that are due.
ReadDue(s) ==
  /\ client[s].pc = "idle" /\ flow.status = "ACTIVE" /\ flow.slot # 0 /\ flow.due
  /\ client' = [client EXCEPT ![s] = [IdleClient EXCEPT !.pc = "check",
                                        !.key = <<"schedule", flow.slot>>]]
  /\ UNCHANGED storeVars

\* The latest run that ended, by startedAt (runs are numbered in that order),
\* ended in one of these ways.
LatestEnded(ways) ==
  \E r \in Runs : /\ run[r].status \in ways
                  /\ \A q \in Runs : run[q].status \in Ended => q <= r

\* Mutant of Retired: whatever is not complete is an error.
RetiredUnlessComplete ==
  [NoTime EXCEPT !.status = IF LatestEnded({"FAILED", "PARTIAL"}) THEN "ERROR" ELSE "PAUSED"]

\* retireCompletedOneShotFlow goes by the latest run that ended.
Retired == [NoTime EXCEPT !.status = IF LatestEnded({"FAILED"}) THEN "ERROR" ELSE "PAUSED"]

OneShotDone == flow.kind = "oneShot" /\ \E r \in Runs : run[r].status \in Ended

\* Mutant of CheckDue: an active run of the flow does not hold it back.
CheckKeyOnly(s) ==
  /\ client[s].pc = "check"
  /\ IF Known(client[s].key) THEN Stop(s) ELSE GoTo(s, "create")
  /\ UNCHANGED storeVars

CheckDue(s) ==
  /\ client[s].pc = "check"
  /\ \/ /\ Known(client[s].key) \/ Busy
        /\ Stop(s) /\ UNCHANGED flow
     \/ ~Known(client[s].key) /\ ~Busy /\ OneShotDone
        /\ flow' = Retired /\ Stop(s)
     \/ ~Known(client[s].key) /\ ~Busy /\ ~OneShotDone
        /\ GoTo(s, "create") /\ UNCHANGED flow
  /\ UNCHANGED <<run, step, job, faults, edits, host, born>>

\* Another replica may have taken the slot meanwhile (P2002).  A one-shot flow
\* that has an interval or an hour of the day gets a next time all the same.
CreateScheduled(s) ==
  /\ s \in Schedulers /\ client[s].pc = "create"
  /\ \/ Known(client[s].key) /\ Stop(s) /\ UNCHANGED <<flow, run>>
     \/ /\ ~Known(client[s].key)
        /\ \E r \in Runs :
             /\ Insert(r, client[s].key, 0)
             /\ client' = [client EXCEPT ![s].pc = "add", ![s].r = r]
        /\ \/ flow.kind = "oneShot" /\ flow' = NoTime
           \/ NewTime
  /\ UNCHANGED <<step, job, faults, edits, host, born>>

-----------------------------------------------------------------------------
(* Users.                                                                  *)

\* createManualRun: whoever loses the race for a key gets the winner's run.
Trigger(u, k) ==
  LET key == <<"user", k>> IN
  /\ client[u].pc = "idle" /\ ~Known(key)
  /\ \E r \in Runs :
       /\ Insert(r, key, 0)
       /\ client' = [client EXCEPT ![u] = [pc |-> "add", key |-> key, parent |-> 0, r |-> r]]
  /\ UNCHANGED <<flow, step, job, faults, edits, host, born>>

\* Mutant of CheckRecovery: any run of the flow will do.
CheckRecoveryOfAny(u, k, failed) ==
  /\ client[u].pc = "idle" /\ ~Known(<<"user", k>>) /\ run[failed].status # "none"
  /\ client' = [client EXCEPT ![u] = [IdleClient EXCEPT !.pc = "create",
                                        !.key = <<"user", k>>, !.parent = failed]]
  /\ UNCHANGED storeVars

\* createRecoveryRun, before it writes.
CheckRecovery(u, k, failed) ==
  /\ client[u].pc = "idle" /\ ~Known(<<"user", k>>)
  /\ run[failed].status = "FAILED" /\ ~Busy
  /\ client' = [client EXCEPT ![u] = [IdleClient EXCEPT !.pc = "create",
                                        !.key = <<"user", k>>, !.parent = failed]]
  /\ UNCHANGED storeVars

CreateRecovery(u) ==
  /\ u \in Users /\ client[u].pc = "create"
  /\ \/ Known(client[u].key) /\ Stop(u) /\ UNCHANGED <<flow, run>>
     \/ /\ ~Known(client[u].key)
        /\ \E r \in Runs :
             /\ Insert(r, client[u].key, client[u].parent)
             /\ client' = [client EXCEPT ![u].pc = "add", ![u].r = r]
        /\ flow' = [flow EXCEPT !.status = "ACTIVE"]
  /\ UNCHANGED <<step, job, faults, edits, host, born>>

\* update writes any status of the dto, ERROR too (DRAFT and ARCHIVED are
\* treated like PAUSED), or another time, used before or not (one in the past
\* comes at once).
SetStatus(status) ==
  /\ edits < MaxEdits /\ edits' = edits + 1
  /\ flow' = [flow EXCEPT !.status = status]
  /\ UNCHANGED <<run, step, job, faults, host, born, client>>

SetTime(slot) ==
  /\ edits < MaxEdits /\ edits' = edits + 1 /\ slot <= flow.last + 1
  /\ flow' = [flow EXCEPT !.slot = slot, !.due = FALSE,
                          !.last = IF slot > @ THEN slot ELSE @]
  /\ UNCHANGED <<run, step, job, faults, host, born, client>>

-----------------------------------------------------------------------------
(* All of them add the job after their transaction, and fail the run if    *)
(* they cannot.  What went wrong in Redis may have come after the job.     *)

\* Mutant of AddJob: nothing is done about the run.
AddJobQuietly(c) ==
  LET r == client[c].r IN
  /\ client[c].pc = "add" /\ Stop(c)
  /\ \/ job' = [job EXCEPT ![r].state = "waiting"] /\ UNCHANGED faults
     \/ Suffer("redis") /\ UNCHANGED job
  /\ UNCHANGED <<flow, run, step, edits, host, born>>

AddJob(c) ==
  LET r == client[c].r IN
  /\ client[c].pc = "add"
  /\ \/ /\ job' = [job EXCEPT ![r].state = "waiting"]
        /\ Stop(c) /\ UNCHANGED faults
     \/ /\ Suffer("redis") /\ GoTo(c, "mark")
        /\ job' \in {job, [job EXCEPT ![r].state = "waiting"]}
  /\ UNCHANGED <<flow, run, step, edits, host, born>>

\* Mutant of MarkFailed: whatever became of the run meanwhile.
MarkFailedBlindly(c) ==
  LET r == client[c].r IN
  /\ client[c].pc = "mark"
  /\ run' = [run EXCEPT ![r].status = "FAILED"]
  /\ Stop(c) /\ UNCHANGED <<flow, step, job, faults, edits, host, born>>

MarkFailed(c) ==
  LET r == client[c].r IN
  /\ client[c].pc = "mark"
  /\ \/ /\ run' = IF run[r].status = "PENDING" THEN [run EXCEPT ![r].status = "FAILED"]
                                               ELSE run
        /\ UNCHANGED faults
     \/ Suffer("database") /\ UNCHANGED run
  /\ Stop(c) /\ UNCHANGED <<flow, step, job, edits, host, born>>

ClientDies(c) ==
  /\ client[c].pc # "idle" /\ Suffer("restart")
  /\ Stop(c) /\ UNCHANGED <<flow, run, step, job, edits, host, born>>

\* nextRunAt comes.  A time that a worker gives is a quarter of an hour ahead
\* at least, and no scheduler takes that long over a flow that was due; a time
\* that a user sets may come at any moment.
TimeComes ==
  /\ flow.slot # 0 /\ ~flow.due
  /\ edits = 0 => \A s \in Schedulers : client[s].pc \in {"check", "create"} => Known(client[s].key)
  /\ flow' = [flow EXCEPT !.due = TRUE]
  /\ UNCHANGED <<run, step, job, faults, edits, host, born, client>>

TriggersNext ==
  \/ TimeComes
  \/ \E s \in Schedulers : ReadDue(s) \/ CheckDue(s) \/ CreateScheduled(s)
  \/ \E u \in Users : \/ CreateRecovery(u)
                      \/ \E k \in Keys : \/ Trigger(u, k)
                                         \/ \E r \in Runs : CheckRecovery(u, k, r)
  \/ \E c \in Clients : AddJob(c) \/ MarkFailed(c) \/ ClientDies(c)
  \/ \E status \in {"ACTIVE", "PAUSED", "ERROR"} : SetStatus(status)
  \/ \E slot \in Slots \ {0} : SetTime(slot)
=============================================================================
