----------------------------- MODULE DeadLetters -----------------------------
(***************************************************************************)
(* The dead letters of one failed run: the dead-letter queue records the   *)
(* failure (once more when its job is redelivered), operators classify,    *)
(* replay and resolve the records at the same time, and a triage releases  *)
(* the claims of replays it takes for dead.                                *)
(*                                                                         *)
(* One await of a request is one step.  A claim's time (replayClaimedAt)   *)
(* is its number; 0 stands for null.  Staleness of a claim is a choice:    *)
(* its ten minutes say nothing about the replay that holds it.             *)
(***************************************************************************)
EXTENDS Naturals, FiniteSets, Sequences

CONSTANTS
  Records,        \* dead-letter records that may be made of the failure: 1..n
  Requests,       \* request slots of the API processes
  Users, Keys,    \* operators; idempotency keys they send
  NoUser, NoKey,
  Deliveries,     \* attempts of a job of the dead-letter queue
  MaxApprovals,   \* how often records may be marked eligible
  MaxFaults       \* crashes and failed calls in a behaviour

ASSUME DeadLetterAssumption ==
  /\ Deliveries \in Nat /\ MaxApprovals \in Nat /\ MaxFaults \in Nat
  /\ NoUser \notin Users /\ NoKey \notin Keys

VARIABLES
  failure,    \* the failed run: its queue, what its reason says, and what it is now
  record, job, rq, claims, faults,
  approvals,  \* history: how often a record was marked eligible
  made        \* history: the recovery runs that were created, in order

vars == <<failure, record, job, rq, claims, faults, approvals, made>>

\* PERMANENT, DATA_MISSING and PROVIDER_FAILURE are treated alike: "CLOSED_CASE".
Class  == {"UNCLASSIFIED", "RETRYABLE", "CLOSED_CASE"}
Status == {"none", "OPEN", "REPLAYING", "REPLAYED", "RESOLVED"}
Closed == {"REPLAYED", "RESOLVED"}
Target == {"open", "failed", "gone"}
Queues == {"agent-runs", "automation-runs"}

Record == [status : Status, class : Class, eligible : BOOLEAN,
           claim : Nat, by : Users \cup {NoUser}, run : Nat,
           approval : Nat]                       \* history: the last that marked it

Run == [record : Records, key : Keys, approval : Nat]

Request == [pc : {"idle", "release", "read", "inspect", "triage", "classify",
                  "claim", "replay", "finalize", "reopen", "resolve"},
            user : Users \cup {NoUser}, items : SUBSET Records, stale : [Records -> Nat],
            class : Class, key : Keys \cup {NoKey}, approval : Nat, run : Nat]

TypeOK ==
  /\ failure \in [queue : Queues, why : Class, target : Target]
  /\ record \in [Records -> Record] /\ rq \in [Requests -> Request]
  /\ job \in 0..Deliveries /\ claims \in Nat /\ faults \in 0..MaxFaults
  /\ approvals \in Nat /\ made \in Seq(Run)

Idle == [pc |-> "idle", user |-> NoUser, items |-> {}, stale |-> [r \in Records |-> 0],
         class |-> "UNCLASSIFIED", key |-> NoKey, approval |-> 0, run |-> 0]

Init ==
  /\ failure \in [queue : Queues, why : Class, target : {"open", "failed"}]
  /\ record = [r \in Records |-> [status |-> "none", class |-> "UNCLASSIFIED",
                 eligible |-> FALSE, claim |-> 0, by |-> NoUser, run |-> 0,
                 approval |-> 0]]
  /\ job = Deliveries /\ rq = [x \in Requests |-> Idle]
  /\ claims = 0 /\ faults = 0 /\ approvals = 0 /\ made = <<>>

Suffer == faults < MaxFaults /\ faults' = faults + 1

-----------------------------------------------------------------------------
(* What is written.                                                        *)

\* Mutant of Triaged: the status of the run for a class.
TriagedRaw(target) == IF target = "failed" THEN failure.why ELSE target

\* classifyDeadLetter, given what is known of the run (the worker knows nothing).
Triaged(target) == IF target = "failed" THEN failure.why ELSE "CLOSED_CASE"

\* A classification is written by id, whatever became of the record meanwhile.
Classified(r, status, class, eligible) ==
  /\ eligible => approvals < MaxApprovals
  /\ approvals' = IF eligible THEN approvals + 1 ELSE approvals
  /\ record' = [record EXCEPT ![r].status = status, ![r].class = class, ![r].eligible = eligible,
                              ![r].approval = IF eligible THEN approvals + 1 ELSE @]

Reopened(r) == [record[r] EXCEPT !.status = "OPEN", !.eligible = FALSE,
                                 !.claim = 0, !.by = NoUser]

\* Mutant of Holds: the owner of the claim without its status.
HoldsClosed(x, r) == record[r].by \in {NoUser, rq[x].user}

\* Where a replay's failure or success still finds its claim.
Holds(x, r) == record[r].status = "REPLAYING" /\ record[r].by = rq[x].user

\* The guards of a replay, read first and then again in the claim.
Replayable(r) ==
  record[r].status = "OPEN" /\ record[r].class = "RETRYABLE" /\ record[r].eligible

Finish(x) == rq' = [rq EXCEPT ![x] = Idle]
Goto(x, pc) == rq' = [rq EXCEPT ![x].pc = pc]

-----------------------------------------------------------------------------
(* The dead-letter queue.                                                  *)

\* DeadLetterWorker.process creates a record, every time it runs.  When it dies
\* after that (or fails before), the job is delivered again.
RecordFailure(r) ==
  /\ job > 0 /\ record[r].status = "none" /\ \A q \in Records : q < r => record[q].status # "none"
  /\ Classified(r, "OPEN", failure.why, failure.why = "RETRYABLE")
  /\ \/ job' = 0 /\ UNCHANGED faults
     \/ job' = job - 1 /\ Suffer
  /\ UNCHANGED <<failure, rq, claims, made>>

RecordingFails ==
  /\ job > 0 /\ Suffer /\ job' = job - 1
  /\ UNCHANGED <<failure, record, rq, claims, approvals, made>>

-----------------------------------------------------------------------------
(* triageOpen: release stale claims, read the unclassified records,        *)
(* inspect the run and write its classification, one record after another. *)

StartTriage(x, user) ==
  /\ rq[x].pc = "idle"
  /\ \E stale \in SUBSET {r \in Records : record[r].status = "REPLAYING"} :
       rq' = [rq EXCEPT ![x] = [Idle EXCEPT !.pc = "release", !.user = user, !.items = stale,
                 !.stale = [r \in Records |-> IF r \in stale THEN record[r].claim ELSE 0]]]
  /\ UNCHANGED <<failure, record, job, claims, faults, approvals, made>>

ReleaseClaim(x, r) ==
  /\ rq[x].pc = "release" /\ r \in rq[x].items
  /\ record' = IF record[r].status = "REPLAYING" /\ record[r].claim = rq[x].stale[r]
               THEN [record EXCEPT ![r] = Reopened(r)] ELSE record
  /\ rq' = [rq EXCEPT ![x].items = @ \ {r}, ![x].stale[r] = 0]
  /\ UNCHANGED <<failure, job, claims, faults, approvals, made>>

ReadUnclassified(x) ==
  /\ rq[x].pc = "release" /\ rq[x].items = {}
  /\ rq' = [rq EXCEPT ![x].pc = "inspect",
              ![x].items = {r \in Records : record[r].status = "OPEN"
                                            /\ record[r].class = "UNCLASSIFIED"}]
  /\ UNCHANGED <<failure, record, job, claims, faults, approvals, made>>

InspectTarget(x) ==
  /\ rq[x].pc = "inspect"
  /\ IF rq[x].items = {} THEN Finish(x)
     ELSE rq' = [rq EXCEPT ![x].pc = "triage", ![x].class = Triaged(failure.target)]
  /\ UNCHANGED <<failure, record, job, claims, faults, approvals, made>>

WriteTriage(x, r) ==
  /\ rq[x].pc = "triage" /\ r \in rq[x].items
  /\ Classified(r, record[r].status, rq[x].class, rq[x].class = "RETRYABLE")
  /\ rq' = [rq EXCEPT ![x].pc = "inspect", ![x].items = @ \ {r}]
  /\ UNCHANGED <<failure, job, claims, faults, made>>

-----------------------------------------------------------------------------
(* classify and resolve: findOpen, then an update by id.                   *)

StartClassify(x, user, r) ==
  /\ rq[x].pc = "idle" /\ record[r].status = "OPEN"
  /\ rq' = [rq EXCEPT ![x] = [Idle EXCEPT !.pc = "classify", !.user = user, !.items = {r}]]
  /\ UNCHANGED <<failure, record, job, claims, faults, approvals, made>>

WriteClass(x, r, class, eligible) ==
  /\ rq[x].pc = "classify" /\ r \in rq[x].items /\ (eligible => class = "RETRYABLE")
  /\ Classified(r, record[r].status, class, eligible) /\ Finish(x)
  /\ UNCHANGED <<failure, job, claims, faults, made>>

StartResolve(x, user, r) ==
  /\ rq[x].pc = "idle" /\ record[r].status = "OPEN"
  /\ record[r].class # "UNCLASSIFIED" /\ ~Replayable(r)
  /\ rq' = [rq EXCEPT ![x] = [Idle EXCEPT !.pc = "resolve", !.user = user, !.items = {r}]]
  /\ UNCHANGED <<failure, record, job, claims, faults, approvals, made>>

WriteResolution(x, r) ==
  /\ rq[x].pc = "resolve" /\ r \in rq[x].items
  /\ record' = [record EXCEPT ![r].status = "RESOLVED", ![r].eligible = FALSE]
  /\ Finish(x)
  /\ UNCHANGED <<failure, job, claims, faults, approvals, made>>

-----------------------------------------------------------------------------
(* replay and replayClaimed.                                               *)

StartReplay(x, user, r, key) ==
  /\ rq[x].pc = "idle" /\ Replayable(r)
  /\ rq' = [rq EXCEPT ![x] = [Idle EXCEPT !.pc = "claim", !.user = user, !.items = {r},
                                          !.key = key]]
  /\ UNCHANGED <<failure, record, job, claims, faults, approvals, made>>

\* Mutant of Claimable: the claim trusts what findOpen read.
ClaimableAsRead(x, r) == record[r].status = "OPEN"

\* The where clause of the claim.
Claimable(x, r) == Replayable(r)

ClaimReplay(x, r) ==
  /\ rq[x].pc = "claim" /\ r \in rq[x].items
  /\ IF Claimable(x, r)
     THEN /\ claims' = claims + 1
          /\ record' = [record EXCEPT ![r].status = "REPLAYING", ![r].eligible = FALSE,
                                      ![r].claim = claims + 1, ![r].by = rq[x].user]
          /\ rq' = [rq EXCEPT ![x].pc = "replay", ![x].approval = record[r].approval]
     ELSE Finish(x) /\ UNCHANGED <<claims, record>>
  /\ UNCHANGED <<failure, job, faults, approvals, made>>

\* Mutant of SameRequest: the key alone, for both.
SameKey(run, r, key) == run.key = key

\* A recovery run has the id of its request: of the record and the key for
\* an agent run, of the key alone (within its flow) for an automation.
SameRequest(run, r, key) ==
  run.key = key /\ (failure.queue = "agent-runs" => run.record = r)

\* agentRuns.retry or automation.recoverFromFailure: an existing run is returned,
\* a failed run gets a new one, anything else is refused.  An automation also
\* refuses a key that came with another reason.
Recover(x, r) ==
  /\ rq[x].pc = "replay" /\ r \in rq[x].items
  /\ LET known == {i \in 1..Len(made) : SameRequest(made[i], r, rq[x].key)}
         again == failure.target = "failed" /\ known # {}
     IN  \/ /\ again
            /\ \E i \in known : rq' = [rq EXCEPT ![x].pc = "finalize", ![x].run = i]
            /\ UNCHANGED made
         \/ /\ failure.target = "failed" /\ known = {}
            /\ made' = Append(made, [record |-> r, key |-> rq[x].key,
                                     approval |-> rq[x].approval])
            /\ rq' = [rq EXCEPT ![x].pc = "finalize", ![x].run = Len(made) + 1]
         \/ /\ failure.target # "failed" \/ (again /\ failure.queue = "automation-runs")
            /\ Goto(x, "reopen") /\ UNCHANGED made
  /\ UNCHANGED <<failure, record, job, claims, faults, approvals>>

Finalize(x, r) ==
  /\ rq[x].pc = "finalize" /\ r \in rq[x].items
  /\ IF Holds(x, r)
     THEN /\ record' = [record EXCEPT ![r].status = "REPLAYED", ![r].run = rq[x].run,
                            ![r].eligible = FALSE, ![r].claim = 0, ![r].by = NoUser]
          /\ Finish(x)
     ELSE Goto(x, "reopen") /\ UNCHANGED record
  /\ UNCHANGED <<failure, job, claims, faults, approvals, made>>

\* The audit record, the recovery (its run made or not) or the update fails.
ReplayThrows(x) ==
  /\ rq[x].pc \in {"replay", "finalize"} /\ Suffer /\ Goto(x, "reopen")
  /\ UNCHANGED <<failure, record, job, claims, approvals, made>>

Reopen(x, r) ==
  /\ rq[x].pc = "reopen" /\ r \in rq[x].items
  /\ record' = IF Holds(x, r) THEN [record EXCEPT ![r] = Reopened(r)] ELSE record
  /\ Finish(x)
  /\ UNCHANGED <<failure, job, claims, faults, approvals, made>>

-----------------------------------------------------------------------------
(* A process dies, or a call outside the try block of replay fails.        *)
RequestEnds(x) ==
  /\ rq[x].pc # "idle" /\ Suffer /\ Finish(x)
  /\ UNCHANGED <<failure, record, job, claims, approvals, made>>

\* The run that failed was still open when it was recorded, or is removed.
TargetChanges ==
  /\ failure' = [failure EXCEPT !.target = IF @ = "open" THEN "failed" ELSE "gone"]
  /\ UNCHANGED <<record, job, rq, claims, faults, approvals, made>>

RequestStep(x) ==
  \/ ReadUnclassified(x) \/ InspectTarget(x) \/ ReplayThrows(x) \/ RequestEnds(x)
  \/ \E r \in Records :
       \/ ReleaseClaim(x, r) \/ WriteTriage(x, r) \/ WriteResolution(x, r)
       \/ ClaimReplay(x, r) \/ Recover(x, r) \/ Finalize(x, r) \/ Reopen(x, r)
       \/ \E class \in Class, eligible \in BOOLEAN : WriteClass(x, r, class, eligible)

RequestArrives(x) ==
  \E user \in Users : \/ StartTriage(x, user)
                      \/ \E r \in Records :
                           \/ StartClassify(x, user, r) \/ StartResolve(x, user, r)
                           \/ \E key \in Keys : StartReplay(x, user, r, key)

Next == \/ \E r \in Records : RecordFailure(r)
        \/ RecordingFails \/ TargetChanges
        \/ \E x \in Requests : RequestArrives(x) \/ RequestStep(x)

Spec == Init /\ [][Next]_vars

-----------------------------------------------------------------------------
\* One approval, by an operator or a triage, lets at most one recovery run be
\* created: over concurrent replays, failed ones, expired claims and slow replays
\* (dead-letter.service.spec.ts:157, :190 and :238).
OneRunPerApproval ==
  \A i, k \in 1..Len(made) : i # k => made[i].approval # made[k].approval

\* A replayed record names the run that a replay of the record got, and that run
\* exists, whichever of several replays of the record wrote it last.
ReplayedNamesRun ==
  \A r \in Records : record[r].status = "REPLAYED" =>
    /\ record[r].run \in 1..Len(made)
    /\ failure.queue = "agent-runs" => made[record[r].run].record = r

\* A record that was replayed or resolved is never open again: not by a replay
\* that fails late, nor by a triage that takes its claim for stale.
ClosedStaysClosed ==
  [][\A r \in Records : record[r].status \in Closed => record'[r].status \in Closed]_vars
=============================================================================
