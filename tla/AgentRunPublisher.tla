-------------------------- MODULE AgentRunPublisher --------------------------
(***************************************************************************)
(* AgentRunOutboxPublisher: moves agent-run.enqueue events from the outbox *)
(* table to the BullMQ queue, one event at a time, and repairs what an     *)
(* earlier publisher left behind.  Each backend replica runs one.          *)
(*                                                                         *)
(* A publisher reads an event, claims it with a compare-and-set on the     *)
(* status it read, marks the run ENQUEUING, adds the job, then commits     *)
(* event and run together.  Only the claim is a compare-and-set: all later *)
(* writes to the event go by id, whoever holds its lock by then.           *)
(***************************************************************************)
EXTENDS AgentRunStore

VARIABLE pub      \* what each publisher is doing, with what it has read

IdlePublisher == [pc |-> "idle", r |-> NoOne, n |-> 0, seen |-> "none", tries |-> 0]

BusyPublisher == [pc    : {"claim", "mark", "check", "add", "publish", "fail", "requeue"},
                  r     : Runs,
                  n     : Attempt,
                  seen  : {"none", "PENDING", "RETRYING"},
                  tries : 0..PublishAttempts]

PubTypeOK == pub \in [Publishers -> BusyPublisher \cup {IdlePublisher}]

PubInit == pub = [p \in Publishers |-> IdlePublisher]

PubGoto(p, pc) == pub' = [pub EXCEPT ![p].pc = pc]
PubDone(p) == pub' = [pub EXCEPT ![p] = IdlePublisher]

Dispatchable == {"PENDING", "ENQUEUING", "RETRYING"}

\* The updateMany on the run guarded by attempt and by Dispatchable.
RunIfDispatchable(r, n, status, error) ==
  run' = IF run[r].attempt = n /\ run[r].status \in Dispatchable
           THEN [run EXCEPT ![r].status = status, ![r].error = error]
           ELSE run

\* An update of an enqueue event's status and lock.
MarkEvent(r, n, state, holder) ==
  outbox' = [outbox EXCEPT ![r][n] = [state |-> state, tries |-> @.tries, locked |-> holder]]

-----------------------------------------------------------------------------
(* publishPending: what one pass of the poll loop does.                    *)

\* Mutant of RecoverLock: an expired lock is cleared, its mark is not.
RecoverLockKeepsMark(p, r, n) ==
  /\ pub[p].pc = "idle" /\ outbox[r][n].state = "PROCESSING"
  /\ ~\E q \in Publishers : outbox[r][n].locked = q /\ pub[q].pc # "idle"
  /\ outbox' = [outbox EXCEPT ![r][n].locked = NoOne]
  /\ UNCHANGED <<pub, run, keys, lease, job, faults>>

\* recoverExpiredLocks: a lock older than LOCK_TIMEOUT_MS is taken for dead.
RecoverLock(p, r, n) ==
  /\ pub[p].pc = "idle" /\ outbox[r][n].state = "PROCESSING"
  /\ LET holder == outbox[r][n].locked
         alive  == holder \in Publishers /\ holder # p
                     /\ pub[holder].pc # "idle" /\ pub[holder].r = r /\ pub[holder].n = n
     IN  IF alive THEN Suffer("slow") ELSE UNCHANGED faults
  /\ MarkEvent(r, n, "RETRYING", NoOne)
  /\ UNCHANGED <<pub, run, keys, lease, job>>

\* recoverOrphanedRuns: a PENDING run without an enqueue event gets one; the
\* unique dedupeKey (P2002) makes it a no-op when the row exists.
RecoverOrphan(p, r) ==
  LET n == run[r].attempt IN
  /\ pub[p].pc = "idle" /\ run[r].status = "PENDING"
  /\ IF outbox[r][n].state = "none" THEN NewEvent(r, n) ELSE UNCHANGED outbox
  /\ UNCHANGED <<pub, run, keys, lease, job, faults>>

\* findMany: the publisher keeps the status and the attempts it read.
ReadEvent(p, r, n) ==
  /\ pub[p].pc = "idle" /\ outbox[r][n].state \in {"PENDING", "RETRYING"}
  /\ pub' = [pub EXCEPT ![p] = [pc |-> "claim", r |-> r, n |-> n,
                                seen |-> outbox[r][n].state,
                                tries |-> outbox[r][n].tries]]
  /\ UNCHANGED storeVars

\* recoverQueuedRuns, first half: a QUEUED run and the attempt read with it.
ReadQueued(p, r) ==
  /\ pub[p].pc = "idle" /\ run[r].status = "QUEUED"
  /\ pub' = [pub EXCEPT ![p] = [pc |-> "requeue", r |-> r, n |-> run[r].attempt,
                                seen |-> "none", tries |-> 0]]
  /\ UNCHANGED storeVars

\* ... second half: replace a job that is missing or over, leave any other.
Requeue(p) ==
  LET r == pub[p].r  n == pub[p].n IN
  /\ pub[p].pc = "requeue"
  /\ \/ /\ job' = IF job[r][n].state \in {"absent", "completed", "failed"}
                    THEN [job EXCEPT ![r][n] = FreshJob] ELSE job
        /\ UNCHANGED faults
     \/ Suffer("redis") /\ UNCHANGED job
  /\ PubDone(p)
  /\ UNCHANGED <<run, keys, outbox, lease>>

-----------------------------------------------------------------------------
(* publishOne.                                                             *)

ClaimEvent(p) ==
  LET r == pub[p].r  n == pub[p].n IN
  /\ pub[p].pc = "claim"
  /\ IF outbox[r][n].state = pub[p].seen
       THEN /\ MarkEvent(r, n, "PROCESSING", p)
            /\ PubGoto(p, "mark")
       ELSE PubDone(p) /\ UNCHANGED outbox
  /\ UNCHANGED <<run, keys, lease, job, faults>>

MarkEnqueuing(p) ==
  LET r == pub[p].r  n == pub[p].n IN
  /\ pub[p].pc = "mark"
  /\ RunIfDispatchable(r, n, "ENQUEUING", run[r].error)
  /\ PubGoto(p, IF run[r].attempt = n /\ run[r].status \in Dispatchable
                  THEN "add" ELSE "check")
  /\ UNCHANGED <<keys, outbox, lease, job, faults>>

\* The run was not marked: quarantine the event if the run is gone
\* (quarantineOrphanedEvent), over, or at another attempt
\* (quarantineStaleEvent); else it is QUEUED or RUNNING, and the job is added.
CheckRun(p) ==
  LET r == pub[p].r  n == pub[p].n IN
  /\ pub[p].pc = "check"
  /\ IF ~Present(r) \/ run[r].attempt # n \/ run[r].status \in Terminal
       THEN /\ MarkEvent(r, n, "DEAD_LETTERED", NoOne)
            /\ PubDone(p)
       ELSE PubGoto(p, "add") /\ UNCHANGED outbox
  /\ UNCHANGED <<run, keys, lease, job, faults>>

\* Mutant of AddToQueue: an error of the queue is swallowed.
AddToQueueUnchecked(p) ==
  /\ pub[p].pc = "add"
  /\ \/ AddJob(pub[p].r, pub[p].n) /\ UNCHANGED faults
     \/ Suffer("redis") /\ UNCHANGED job
  /\ PubGoto(p, "publish")
  /\ UNCHANGED <<run, keys, outbox, lease>>

AddToQueue(p) ==
  /\ pub[p].pc = "add"
  /\ \/ AddJob(pub[p].r, pub[p].n) /\ PubGoto(p, "publish") /\ UNCHANGED faults
     \/ Suffer("redis") /\ PubGoto(p, "fail") /\ UNCHANGED job
  /\ UNCHANGED <<run, keys, outbox, lease>>

\* Event PUBLISHED and run QUEUED in one transaction.  The attempts column is
\* incremented too, but it is never read again once the event is PUBLISHED.
MarkPublished(p) ==
  LET r == pub[p].r  n == pub[p].n IN
  /\ pub[p].pc = "publish"
  /\ MarkEvent(r, n, "PUBLISHED", NoOne)
  /\ RunIfDispatchable(r, n, "QUEUED", run[r].error)
  /\ PubDone(p)
  /\ UNCHANGED <<keys, lease, job, faults>>

\* recordFailure: give the event another try, or give the run up for good.
RecordFailure(p) ==
  LET r == pub[p].r
      n == pub[p].n
      tries == pub[p].tries + 1
      last == tries >= PublishAttempts
      give == ~Present(r) \/ last
  IN
  /\ pub[p].pc = "fail"
  /\ outbox' = [outbox EXCEPT ![r][n] =
                   [state  |-> IF give THEN "DEAD_LETTERED" ELSE "RETRYING",
                    tries  |-> IF Present(r) THEN tries ELSE @.tries,
                    locked |-> NoOne]]
  /\ RunIfDispatchable(r, n, IF last THEN "FAILED" ELSE "PENDING", "other")
  /\ PubDone(p)
  /\ UNCHANGED <<keys, lease, job, faults>>

\* A query of publishOne's try block fails: recordFailure is next.
PubQueryFails(p) ==
  /\ pub[p].pc \in {"mark", "check", "publish"} /\ Suffer("database")
  /\ PubGoto(p, "fail")
  /\ UNCHANGED <<run, keys, outbox, lease, job>>

\* The process dies, or a query outside the try block ends the pass: the event
\* keeps its PROCESSING mark until its lock expires.
PubStops(p) ==
  /\ pub[p].pc # "idle"
  /\ \/ Suffer("restart")
     \/ pub[p].pc \in {"claim", "fail", "requeue"} /\ Suffer("database")
  /\ PubDone(p)
  /\ UNCHANGED <<run, keys, outbox, lease, job>>

PubStep(p) == \/ Requeue(p) \/ ClaimEvent(p) \/ MarkEnqueuing(p) \/ CheckRun(p)
              \/ AddToQueue(p) \/ MarkPublished(p) \/ RecordFailure(p)

PubStart(p, r) == \/ ReadQueued(p, r) \/ RecoverOrphan(p, r)
                  \/ \E n \in Attempt : RecoverLock(p, r, n) \/ ReadEvent(p, r, n)

PubNext == \E p \in Publishers :
             \/ PubStep(p) \/ PubQueryFails(p) \/ PubStops(p)
             \/ \E r \in Runs : PubStart(p, r)
=============================================================================
