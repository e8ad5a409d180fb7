# ShopMate AI backend: TLA+ models

This directory holds formal models of the ShopMate AI backend
(`src/backend`, NestJS, Prisma on PostgreSQL, BullMQ on Redis): TLA+ modules,
the TLC configurations that check them on small instances, and TLAPS proofs for
every value of the constants. Four subsystems are finished:

- **agent runs**: the outbox, the queue workers, leases, recovery and the API that
  together execute one agent run;
- **product launches**: from the confirmation of a product to its publication at
  Ozon, with the submission ledger, the action proposals that approve it and the
  recovery of unclear submissions;
- **dead letters**: the triage, replay and resolution of failed jobs;
- **automations**: how a flow gets runs from schedulers and users, and how workers
  take its runs through their steps.

The rest of the system is inventoried and planned below.

## 1. Inventory

| Component (source under `src/backend/src`) | State it keeps | Operations | What is hard, what makes it correct |
| --- | --- | --- | --- |
| Lifecycle automaton (`features/agent-runs/agent-state-machine.ts`) | none | `resolveAgentTransition` | finished statuses accept nothing |
| Lifecycle service (`agent-run-lifecycle.service.ts`) | `AgentRun.lifecycleStatus/version`, `AgentTransition` | `applyEvent` | replays by event key, version compare-and-set, two status columns that have to agree |
| Agent-run API (`agent-runs.service.ts`) | `AgentRun`, `OutboxEvent` | `create`, `cancel`, `retry`, `recordLifecycleEvent`, `recordEvent`, `remove` | cancel is two transactions; deletion under running workers; callbacks of the remote agent |
| Outbox publisher (`agent-run-outbox.publisher.ts`) | locks on `OutboxEvent` | poll loop, `publishOne`, three recoveries | several replicas, Redis and database outages between two writes, expired locks of live publishers |
| Agent-run worker (`workers/agent-run.worker.ts`) | local copies of statuses | `process`, `onFailed`, quality scoring | redelivered jobs, late answers, event keys replayed by a later try, crash between any two awaits |
| Lease service (`agent-run-lease.service.ts`) | `AgentRunLease` | `acquire`, heartbeat, `release` | expiry while the holder lives |
| Recovery service (`agent-run-recovery.service.ts`) | none (snapshots) | periodic scan | stale snapshots, two replicas, an error ends the scan |
| Consistency service (`agent-run-consistency.service.ts`) | none | report | read only |
| Product launch, external submissions (`features/product-launch/*`, `workers/product-launch.worker.ts`) | launch status, `ExternalSubmission`, approval grant | confirm, prepare, publish, record result, reconcile, recover | at most one marketplace request per approval; an unknown answer is reconciled, never resent |
| Dead letters (`features/dead-letter/*`, `shared/queue/dead-letter.worker.ts`) | `DeadLetter` rows with a claim | persist, triage, replay, resolve, release stale claims | resolve races replay; a slow replay taken for dead |
| Action proposals and approvals (`features/notifications/action-proposals.service.ts`) | proposal status, execution claim | propose, approve, reject, execute, recover | an approval is executed once |
| Writes to Ozon (`features/channels/ozon-external-write.service.ts`) | write intents | prepare, dispatch, confirm, reconcile | lost answers, idempotency keys |
| Automation (`features/automation/*`, `workers/automation.worker.ts`) | `AutomationFlow` (status, `nextRunAt`), `AutomationRun` and `AutomationStepExecution` with leases | `enqueueDueFlows`, `trigger`, `recover`, `update`, `process`, `onFailed` | one run per due time over several replicas; two slots that claim under one name; leases nobody renews; a run without a job holds its flow back |
| Agent plans and autonomy (`features/agent-autonomy`, `workers/agent-plan.worker.ts`) | plans, steps | schedule, run, re-queue | lost queue entries |
| Review tasks (`features/review/review.service.ts`) | review task, counters | create, decide, regenerate | sums read in one transaction, used in another |
| Agent permissions, capability tokens | token uses | issue, verify, revoke | check and use |
| Daily product research (`features/product-research`) | run, checkpoints, lease | scheduled pipeline | long, restartable |
| Audit log (`shared/audit`) | hash chain | append, verify | order of appends |
| Housekeeping (`shared/housekeeping`) | none | delete old rows | deletes runs others still hold |
| Billing and metering, SSE, notifications, events | counters, connections | | mostly single-row updates and fan-out |
| Auth, organizations, RBAC, tenancy | sessions, memberships, row-level security | | sequential request handling |
| Catalogue, listings, prompts, knowledge base, files, trends, supply chain, dashboards | rows | create, read, update, delete | single-row operations |
| Store monitoring, listing sandbox, marketplace compiler, agent memory and evaluation, assistant, tasks | rows | evaluate, score, compile, report | computations over the data of one request |
| Product image agent (Python, `src/product-image-agent`) | its own job queue and blackboard | | seen by the backend as the provider and as the source of callbacks |
| Frontend, browser extension, deployment, contracts, scripts | | | user interface and configuration |

How the finished subsystems interact.

*Agent runs.* The API writes a run and its enqueue
event in one transaction; a publisher turns the event into a BullMQ job
`agent-run__<run>__attempt__<n>`; a worker takes the job, claims the run, moves
its lifecycle through `applyEvent`, calls the provider under a lease, and writes
the output; a recovery scan starts another attempt for runs whose worker
vanished, with an enqueue event of its own; users cancel, retry and delete, and
the remote agent reports events, at any moment in between. All of them meet only
in the tables and in the queue.

*Product launches.* A user confirms a launch, and a job with a fixed id per launch
prepares it: images, a listing in review, an action proposal to publish. Whoever
decides the proposal, or confirms the publication directly, captures a snapshot
of the approved listing, lets the sandbox report on it, offers it to the ledger
and issues a one-time grant that travels in a second job, one per snapshot. Its
worker claims launch and submission together, consumes the grant in the
transaction that records that the request leaves, sends the import, and records
the answer, or that there is none. A periodic scan reads back from Ozon what
became of launches that are RECOVERING. Users, workers and the scan write the
launch by id, often with what they read many awaits ago.

*Dead letters.* A job that failed for good is recorded by the dead-letter queue,
again if that job is redelivered. Operators classify, replay and resolve the
records; a triage classifies what is unclassified and releases claims of replays
older than ten minutes. A replay starts an agent-run retry or an automation
recovery, each of which is idempotent in its own way.

*Automations.* Every replica looks every half minute for flows whose `nextRunAt` has
come, writes a run under a key made of flow and time, moves `nextRunAt` on, and
adds a job. Users trigger runs, and recover failed ones, under keys of their own,
pause flows and set times. A worker claims the run under a lease of ten minutes,
then each step under another one, skips steps that have a result, and writes how
the run ended, then what becomes of the flow. What a step does (daily research,
a listing, a task) is the business of other components.

## 2. Modules

| Module | Models | Uses |
| --- | --- | --- |
| `AgentLifecycle` | the automaton and the mapping to the older status column | |
| `AgentRunStore` | the shared tables and the queue, `applyEvent`, row creation, the constants and the faults | `AgentLifecycle` |
| `AgentRunPublisher` | `AgentRunOutboxPublisher`, one per replica | `AgentRunStore` |
| `AgentRunWorker` | `processWithContext`, `onFailed`, the lease service, BullMQ's part (take, settle, stall) | `AgentRunStore` |
| `AgentRunRecovery` | `AgentRunRecoveryService`, one scan per replica | `AgentRunStore` |
| `AgentRuns` | the API operations and the composition of the four; all properties, fairness, refinement mapping | the three above, `AgentRunPromise` |
| `AgentRunPromise` | abstract specification: what a user of the API is promised | |
| `QualityRegeneration` | the count of regenerations in `handleConsistencyScoring` | |
| `LaunchStore` | the launch, its listing, snapshots, ledger and jobs, the offer at Ozon; people, time and BullMQ around it | |
| `ExternalSubmissions` | `ExternalSubmissionsService`, the ledger of requests | `LaunchStore` |
| `ActionProposals` | `ActionProposalsService`, the proposals of one dedupe key | |
| `ProductLaunchWorker` | `ProductLaunchWorker.process`, `publishSnapshot` and `preflightSnapshot` as it calls them, BullMQ's part | the two above |
| `ProductLaunchRecovery` | `ProductLaunchRecoveryService`, the scan | the same |
| `ProductLaunchApi` | `confirm`, `confirmPublish`, `decide` and `decideProposal`, snapshot capture, sandbox, recovery of stale executions | the same |
| `ProductLaunches` | the composition of the three; all properties, fairness, refinement mapping | the three above, `ImportPromise` |
| `ImportPromise` | abstract specification: what leaves for the marketplace, and what is on record of it | |
| `DeadLetters` | `DeadLetterService`, `DeadLetterTriageService`, `DeadLetterWorker` | |
| `AutomationStore` | a flow, its runs, the ledger of their steps, their jobs | |
| `AutomationTriggers` | `enqueueDueFlows`, `trigger`, `recoverFromFailure`, `update` | `AutomationStore` |
| `AutomationWorker` | `AutomationWorker.process`, `onFailed`, `AutomationStepExecutionsService`, BullMQ's part | `AutomationStore` |
| `Automations` | the composition of the two; all properties | the two above |
| `AgentRunsProofs` | type correctness, proved | `AgentRuns`, `TLAPS` |
| `AgentRunsSafety` | the safety properties and the refinement, proved | `AgentRunsProofs` |
| `ProductLaunchesProofs` | type correctness, proved | `ProductLaunches`, `TLAPS` |
| `ProductLaunchesSafety` | the safety properties and the refinement, proved | `ProductLaunchesProofs` |
| `DeadLettersProofs` | type correctness and the safety properties, proved | `DeadLetters`, `TLAPS` |
| `QualityRegenerationProofs` | type correctness and the count, proved | `QualityRegeneration`, `TLAPS` |
| `AutomationsProofs` | type correctness and the properties about keys, owners and evidence, proved | `Automations`, `TLAPS` |
| `AutomationsSafety` | the properties about the ledger, jobs and ends of runs, proved | `AutomationsProofs` |
| `MCAgentRuns`, `MCProductLaunches`, `MCDeadLetters`, `MCAutomations` | instances for TLC | the compositions |

### Agent runs: state

`run[r]` is the row of a run: older status, lifecycle status, attempt, error code
(only `AGENT_RETRYING` is ever tested), the attempt that wrote the output, and
the age of `startedAt` (none, recent, older than
`AGENT_RUN_ORPHAN_AFTER_MS`). `keys[r]` are the event keys in
`AgentTransition`, as triples of source, attempt and event. `outbox[r][n]`,
`lease[r]` and `job[r][n]` are the enqueue event, the lease and the job of an
attempt. `pub`, `wk` and `rec` hold what each publisher, worker and scan keeps
in local variables between two awaits; their field `pc` names the await it is
at. `cancelling` are runs between the two transactions of a cancel.

### Agent runs: steps

One await is one step, because every `tenantDatabase.run` is one transaction and
the code between two awaits touches nothing shared. So the workers' read, claim,
each `applyEvent`, the lease, the provider call, the re-read, the output write,
each half of the catch block, the release and BullMQ's settling are separate
actions, and anything may happen between them. Guards are the `where` clauses
and early returns; locals keep the values that were read earlier, which is
where stale decisions come from: `base` is `lifecycleStatus` in
`processWithContext`, `ls` the one `beginLifecycleAttempt` walks.
An `updateMany` that matches nothing is the branch with `UNCHANGED`, exactly
where the code goes on or returns.

Abstractions:

- `applyEvent` reads, compares and writes inside one transaction under a version
  compare-and-set; it is one atomic step, and losing the comparison is the fault
  `conflict` at every place that calls it.
- Faults (`FaultKinds`, at most `MaxFaults`): `redis`, `database`, `conflict`,
  `crash` (worker process), `restart` (publisher or scan), `stall` (BullMQ takes
  a job from a live worker), `slow` (a lease or outbox lock expires although its
  owner lives), `evict` (retention of finished jobs).
- Time is three facts: a lease is live or not, an outbox lock may be taken for
  dead, `startedAt` is recent or old. `startedAt` is kept over retries as in the
  code, hence a RUNNING run without a lease may be old the moment it is claimed.
- The order of a scan's candidates and of the publisher's events is left open.
- Ids are not reused: a deleted run keeps its outbox rows, which have no foreign
  key to it.
- Left out: prompts, memory, router telemetry, token usage and cost, audit
  records, the `progress` column (`recordEvent`), the
  `agent-run.lifecycle.changed` outbox events (no consumer in the repository
  decides anything from them), tenants (everything is per organization).
- `retry` with a request id that was used before finds the earlier child and
  changes nothing, so it is no step; `retry` reads its parent in an earlier
  transaction, which makes no difference because FAILED and CANCELLED are final.
- Branches that the model shows to be dead are there nevertheless:
  `RecoverOrphan` finds its event existing always (`EnqueuePerAttempt`), and the
  second half of `cancel` never changes a row (`TerminalStatusAgrees`).
- In `AgentRuns` the regeneration of a completed run is bounded by `Runs`;
  `QualityRegeneration` models its count on its own, with the way to completion
  reduced to a take and a pass.

### Product launches: state and steps

`launch` is the one row of a launch; its fields are the status, `confirmAutoPublish`
(`auto`), the listing, the approved content hash, the selected snapshot, and the
publish grant with `auth`, which tells whether that grant is unused (`live`), past
its expiry, or consumed. `listing` is the listing of the launch, `snapshot[s]` a
publish snapshot with its sandbox report, `ledger[s]` the submission of the
snapshot with the claim token, `job[0]` the preparation and `job[s]` the
publication of `s`. `proposal[p]` are the proposals of the launch's dedupe key. `wk`,
`rq` and `scan` hold what workers, requests and the scan keep between awaits.
`offer` is the product at Ozon under the launch's offer id, `sent` the history of
import requests that left. Numbers stand for ids, and a listing number also for
its content hash: an approved listing does not change.

One await is one step here too, and one transaction is atomic. The worker reads
the launch once (`ReadLaunch`) and carries the snapshot (`s`) through all that
follows, as the code carries the row; `PersistOutcome`, `FailLaunch`,
`AwaitApproval` and the upsert of `confirm` write by id without looking at the
status, `MarkReconciliation` looks. `findRequired` and the update of
`recordReconciledResult` are two steps (`LookUp`, `Reconcile`), with the status read
in between as `seen`. Every operation of the ledger that refuses throws, and the
worker then runs into `failLaunch` or ends its attempt, as its catch blocks do.

Faults: `redis` (queue.add fails), `database` (a query fails, also after a commit
whose row is read again), `crash`, `stall` (BullMQ gives the job of a live worker
away), `network` (the answer of the import is lost, whether or not it arrived),
`refused` (Ozon or the image service refuses), `channel` (the publisher returns a failure
before anything left), `denied` (agent permission or store ownership), `late` (a
proposal is decided after its expiry).

Left out: the images, texts and the compilation of a snapshot, which are data;
heartbeats of proposals, which nothing reads; notifications and audit records
except where their failure changes the way on; other launches, which share
nothing but the scan's order. A scan asks for one launch, and a scan of a launch
that ends early only touches `updatedAt`.

### Dead letters: state and steps

`failure` is the failed run: its queue, what its reason says, and whether it is
still open, failed, or gone. `record[r]` is a dead-letter row with its claim:
`claim` numbers the claims in place of their time, and a triage may take any claim
for stale, since its ten minutes say nothing about the replay that holds it.
`rq[x]` is a request between two awaits: a triage with the records it read, a
classification, a resolution, a replay from its read to its finalization.
`approvals` counts how often a record was marked eligible, by an operator or by
the triage, and `made` is the history of recovery runs with the approval
that each was made under. PERMANENT, DATA_MISSING and PROVIDER_FAILURE are one
class, because the code treats them alike. The recovery of the two queues differs
only in its idempotency: an agent-run retry is keyed by record and key, an
automation recovery by the key alone, and it refuses a key that came with another
reason.

### Automations: state and steps

`flow` is the one flow: one-shot or recurring, its status, and its `nextRunAt`,
known by its number (`slot`), with `due` once that time has come. `run[r]` is a run
with its key, parent and lease; `step[r][k]` the ledger; `job[r]` its job. `client[c]`
is a scheduler or a request between two of its awaits, `wk[w]` a processing slot of
a worker process: `seen` is the `nextRunAt` it read at the start, `got` the results it
counts on. `host[w]` is its process and `born` counts the restarts of that, since
`workerId` is drawn when a process starts and is shared by both of its slots.

The transactions that look at runs and then create one are READ COMMITTED, so
they are two steps (`CheckDue`, `CreateScheduled`; `CheckRecovery`,
`CreateRecovery`), and only the unique key decides at the second. `createManualRun`
looks at nothing but its key, and is one step. In the worker, each claim, each
result, the end of the run, the release in the catch block and the two writes to
the flow are a step each. `retryAt` of the store operator is either a new time or
the `nextRunAt` the worker read, if that is later (`Fail`).

Times are ordered by when they were given. `TimeComes` assumes, as long as no user
sets a time, that no scheduler is still between the read of a due flow and its
creation of the run when a *later* time comes that a worker gave: such a time is
fifteen minutes ahead at least (`AGENT_FAILURE_BACKOFF_BASE_MS`), and transactions
do not take that long.

Faults: `redis`, `database`, `crash` (a worker process), `restart` (a scheduler's or
request's process), `stall` (BullMQ takes the job of a live worker), `overrun` (a
lease ends while its owner works). The count of stalls is left out: any stall may be
the one too many. A step completes, ends otherwise, or throws; each depends on the one
before it. Left out: creation and deletion of flows,
`ensureConnectedStoreOperatorFlows`, edits of `steps` and `triggerConfig`, the
notifications after a run, and what steps do.

## 3. Runs

Every run lets the system stop (`CHECK_DEADLOCK FALSE`): when all runs are over
and the bounds are used up there is nothing left to do.

| Run | Instance | Properties | What it shows |
| --- | --- | --- | --- |
| `runs_faults` | 1 run, 2 attempts, 1 worker, 1 publisher, 1 scan, cancel and remove, one fault of any of the eight kinds at any place | `TypeOK`, `TerminalStatusAgrees`, `EnqueuePerAttempt`, `TerminalIsFinal`, `AttemptsGrow`, `PromiseKept` | whatever single thing goes wrong, the two status columns agree on success and cancellation, a finished run stays finished, attempts grow by one out of RETRY_SCHEDULED, and every attempt has its enqueue event; all that happens to the run is what `AgentRunPromise` allows (`PromiseHolds` proves it for any number of runs, and for runs that create others) |
| `runs_redelivery` | 2 workers in 2 processes, 1 attempt, 2 tries of the job, two crashes or stalls, four callbacks of the remote agent (among them that it finished), no scan | `OneCallPerAttempt`, `CompletedHasOutput`, `TerminalStatusAgrees` | the lease keeps a redelivered job from calling the provider while a worker of the other process calls it; no late worker completes a run whose output was dropped, unless the agent itself said that it finished; the status columns agree also when callbacks move the lifecycle under the workers |
| `publish_outage` | 2 publishers, no worker, three faults among `redis`, `database`, `restart`, `slow` | `QueuedHasJob`, `NoPendingOrphan` | QUEUED always has its job; once outages are over nothing stays PENDING or ENQUEUING |
| `runs_settle` | 2 runs, 1 worker, 2 tries, manual retry, regeneration, no faults, fairness | `RunsSettle` | every run ends, although each further try replays event keys of the first |
| `regeneration_count` | 4 runs, 3 workers, cap 2 | `TypeOK`, `CountedOnce` | workers that score one run at the same time do not regenerate it twice for one count |
| `launches` | 1 launch with 1 listing, 1 snapshot, 2 grants and 1 proposal; 2 workers, 1 request, the scan; one fault of any of the nine kinds at any place | `TypeOK`, `SentIsRecorded`, `ActiveIsConfirmed`, `LedgerForward`, `DecidedIsFinal`, `ImportsKeepPromise` | whatever single thing goes wrong, what left is on record and left once, nothing says "active" that Ozon does not confirm, submissions and decisions only go forward: the subsystem implements `ImportPromise`, with two workers at one job too |
| `launches_again` | 1 worker, 2 listings, 2 grants, 2 tries of a job, one lost answer | `OneImport`, `ImportsKeepPromise` | a launch that is prepared and approved again after a lost answer imports nothing twice; the subsystem implements `ImportPromise` here too |
| `dead_letters` | 2 records, 2 requests, 2 keys, 2 deliveries, 2 approvals, one fault | `TypeOK`, `OneRunPerApproval`, `ReplayedNamesRun`, `ClosedStaysClosed` | races of replay, triage, classification and resolution start one recovery run for one approval and reopen nothing |
| `automations` | 1 flow, 2 runs of 2 steps, 3 times, 2 schedulers, 2 workers in up to 2 processes, 2 requests, 1 edit (of the status or the time), 2 tries; any one fault of the six kinds, or a stall with an overrun | `TypeOK`, `OneScheduledRun`, `OneExecutor`, `LedgerDecides`, `RecoversFailed`, `ActiveRunHasJob`, `DeadHasFailed`, `ErrorMeansFailed`, `EvidenceStays` | replicas make one scheduled run at a time; redelivered jobs, slots of one name and late workers agree with the ledger and change no result; what is dead has failed, and so has a run of the flow that the engine puts into ERROR |
| `stuck_retry` | 1 worker, 1 scan, one crash, fairness | `AbandonedIsRecovered` | violated, see 4 |
| `recovery_stuck` | 1 launch, 1 worker, the scan, no fault, fairness | `RecoverySettles` | violated, see 4 |
| `stale_snapshot` | 2 listings, 2 grants, 2 proposals, one permission denied | `ApprovedContentLeaves` | violated, see 4 |

The bounds. *Agent runs.* No guard of the code on one run reads the rows of another, so one run
meets every interleaving of the components around it; what a second run adds is
that publishers, workers and scans may be busy elsewhere, which delays them and
no more, and that one run creates another (`runs_settle`). Two attempts are the fewest
with a stale one, two workers or publishers the fewest that race, two tries of a
job the fewest that replay event keys; `JobAttempts` is 3 in the queue's configuration.
`PublishAttempts` is 5 in the code; at 2 an event is both retried and given up.
`Cap` is 3 in the code; `regeneration_count` uses 2 so that four runs can exceed it.
There is one scan in TLC's runs; two that race are covered by the proofs. The agent calls
back in `runs_redelivery` only, with the four events that bring most, since every callback
multiplies the states; the proofs leave `AgentEvents` open.

*Product launches.* Launches share no row, so there is one. Two workers are the
fewest that hold one job after a stall, two grants the fewest of which one replaces the
other; `launches` has them with one snapshot, where all of them collide, and checks
`ImportsKeepPromise`, of which one import for each snapshot and grant is a part.
`launches_again` has the second listing and the second try that a repeated
preparation needs, and for that only one worker and one kind of fault. Two people
who confirm at the same time are two requests, which with all the rest exceed what TLC
can go through; both runs have one, which after a failure reaches a second approval all
the same. The interleavings of two confirmations are covered by the proofs alone:
`ImportedOnce` and `ImportPromiseHolds` hold for any number of requests and workers.

*Dead letters.* Two records are what a redelivery makes of one failure; two
requests race; two keys tell the same request from another. One user, because two
replays of one user are those that cannot tell their claims apart; with several
the claim's owner only excludes more.

*Automations.* Flows share no row, so there is one. Two steps are the fewest with a
dependency, two runs the fewest with a recovery, and three times let a recurring flow be
scheduled twice. The state constraint `Bounds` of `MCAutomations` keeps at most
`MaxBusy` (2) workers, schedulers and requests at work at a time, lets workers
take up one run (`MaxTaken`), because no guard on a run reads the lease or the
steps of another, and allows one fault or one edit, or a stall and an overrun lease
together, which is what it takes for two live workers to share a run. A crash or a stall,
which concern the run that is worked on, happen while there is no second one. All of
the properties are proved without any of this.

The proofs of section 6 have no bounds.

`MaxAttempt` bounds the attempts of a run; the code has none. A scan at the last
modelled attempt waits for good, which is why `runs_settle` has no scans and
`AbandonedIsRecovered` speaks of attempts below the bound.

### Fairness

`FairSpec` adds to `Spec`: weak fairness of every started activity of a
publisher, worker or scan (a promise that is awaited continues; the three loops
are driven by timers), of the expiry of a lease nobody renews, of the ageing of
`startedAt`, and of the stall check for jobs of dead workers (BullMQ runs it on a
timer); strong fairness of taking a waiting job and of each kind of start in a
publisher's poll, because BullMQ hands jobs out in order and each pass of the
poll makes every one of its starts in turn. Users, the remote agent and faults
are not fair, so a liveness property never needs them.

In `ProductLaunches`, `FairSpec` adds weak fairness of every started request and
worker (awaited promises continue), weak fairness of the scan (a timer), and strong
fairness of taking a waiting job. Reviewers, people who decide and Ozon
owe nothing: `RecoverySettles` starts where Ozon has activated the offer.

## 4. Disagreements between the code and what is said of it

Three are shown by a run in which TLC finds a counterexample:

- `stuck_retry`: a worker that dies between its claim and `RETRY_DISPATCHED`
  leaves RUNNING with lifecycle RETRY_SCHEDULED. The redelivered job finds the
  run claimed; the scan throws at it, and with it ends for all later candidates
  (`agent-run-recovery.service.ts:131`).
- `recovery_stuck`: the scan that reads back an offer which is imported but not
  active yet sets the publish snapshot SUBMITTED
  (`product-launch-recovery.service.ts:242`), and every later scan loads the
  snapshot only while it is APPROVED. The launch stays RECOVERING after Ozon has
  activated the offer, although `product-launch-recovery.service.spec.ts:226`
  says it is kept retryable.
- `stale_snapshot`: `captureApproved` returns the latest approved snapshot of the
  launch before it compares anything with the listing
  (`listing-publish-snapshot.service.ts:128`). A launch that failed before anything
  left, and was prepared again with a new listing, is approved with the
  content hash of the new listing and publishes the old one.

The following was met while modelling and is what the modules do; no run is kept
for it:

- `applyEvent` never looks at the attempt: a worker of attempt 1 whose provider
  call fails after a scan began attempt 2 fails the lifecycle of attempt 2
  (`agent-run.worker.ts:436`).
- The catch block's row update accepts status FAILED, and the claim accepts
  RETRYING, so a FAILED run can be shown as RETRYING and RUNNING again
  (`agent-run.worker.ts:456`); its lifecycle stays as it is.
- Losing the lease only logs that a late output will be discarded; the output is
  written all the same (`agent-run.worker.ts:354`).
- A scan between a worker's read and its claim makes the row RETRYING, hence
  claimable: a second worker then calls the provider for the same attempt
  (`agent-run.worker.ts:216`). `runs_redelivery` has no scan for this reason:
  `OneCallPerAttempt` says nothing of scans.
- The signed callback accepts every lifecycle event, `EXECUTION_FINISHED` too
  (`agent-runs.service.ts:449`): with it the agent brings a run to VERIFYING, and then
  to COMPLETED, whose output was never written. `CompletedHasOutput` and
  `AgentRunPromise` therefore let a run complete with an output or on the agent's word.
- A slow replay finalizes the claim of a later replay of the same user, since the claim
  holds only the user's name (`dead-letter.service.ts:342`). The record then names the
  run of the earlier replay, which is a run of that record all the same, so
  `ReplayedNamesRun` does not tell.
- Two runs of one flow may be active, one scheduled and one manual, or two manual ones
  (`automation.service.ts:412`).
- "Max 3 total" regenerations is counted per run id, and a regeneration has an
  id, and a count, of its own (`agent-run.worker.ts:710`).
- A database error after a launch became ACTIVE_ON_OZON (its proposal, its
  notification) runs into `failLaunch`, which shows a published launch as FAILED
  (`product-launch.worker.ts:1003`).
- A proposal whose publish ends before `completeExecution` made it APPROVED stays
  APPROVED (`action-proposals.service.ts:844`).
- A launch whose submission is UNKNOWN or REQUEST_SENT is no candidate of the
  scan; after the last try of its job only a person moves it
  (`product-launch-recovery.service.ts:101`).
- A scheduler or request that dies before `queue.add`
  (`automation-scheduler.service.ts:317`), and a job that is redelivered while the
  run's lease is live and hence completes as `already_claimed`
  (`automation.worker.ts:183`), leave a run PENDING or RUNNING without a job. Nothing
  takes it up, and as an active run it holds the schedule of its flow back.
- A worker that loses its run on the last try, or whose write of the flow fails after
  the run completed, puts a one-shot flow into ERROR although no run failed
  (`automation.worker.ts:359`); the premise of `ErrorMeansFailed` names the two cases. A
  user may set ERROR as well (`automation.service.ts:129`), with which the property is not
  concerned.
- `applyFinalFailureState` sets the store operator's flow ACTIVE although a user
  paused it during the run (`automation.worker.ts:1310`).

## 5. Properties and hazards

`PROJECT.json` lists the hazards with the lines where they bite, and says of each
without a property why it has none.

- A request that leaves twice: workers that hold one job after a stall, a retry
  whose grant is consumed, a second approval. `OneImport` says that none of them
  does; `SentIsRecorded`, that nobody can be led to it by a ledger that forgot.
- Answers out of order: a readback asked for early and written late.
  `LedgerForward` for the ledger, `ActiveIsConfirmed` for what the user sees.
- Decisions that meet: two people, an expiry, the recovery of stale executions
  and a slow request on one proposal. `DecidedIsFinal`.
- Replays that meet: two operators, a triage that takes a slow replay for dead, a
  second record of one failure. `OneRunPerApproval`, `ReplayedNamesRun`,
  `ClosedStaysClosed`.
- Schedulers that meet: two replicas that both see no active run. `OneScheduledRun`, as
  long as the flow's time is given by the engine only. A user who sets the time breaks it,
  and so would `ensureConnectedStoreOperatorFlows`, which is not modelled: each replica
  gives a store operator's flow the time at which it runs
  (`automation-scheduler.service.ts:190`), so that two of them make two keys.
- Workers that meet at one run: a redelivered job in the same process, under the same
  name, or after a lease. `OneExecutor` without overrun leases; `LedgerDecides` and
  `EvidenceStays` with them.
- A run that nobody works on, an end that nobody wrote: `ActiveRunHasJob`,
  `DeadHasFailed`, `ErrorMeansFailed` (a property of the engine's steps, not of a user's
  update), each under the premise that excludes the faults with which the code breaks it
  (section 4).

Each property of a passing run has a mutant: an operator beside the original
(marked "Mutant of ...") with which the property fails under the same
configuration, such as a claim without its status guard, a next attempt that is
not compared before it is written, a lock whose expiry clears the owner but not
the mark, a lease owner without the worker's name, a readback that may replace any
status, a request whose answer was lost and which is sent again, a grant that
may be presented twice, a replay that trusts what it read before its claim, or a
scheduler that does not look for an active run.

## 6. Proofs

All of these hold for any sets of runs, workers, publishers, scans, requests and
records, any number of attempts, tries, grants and approvals, and any faults, under the
named assumptions on constants (`StoreAssumption`, `ApiAssumption`,
`LaunchAssumption`, `ProposalAssumption`, `DeadLetterAssumption`, `CapAssumption`,
`AutomationAssumption`).

| Theorem | Module | Statement |
| --- | --- | --- |
| `TypeCorrect` | `AgentRunsProofs` | `Spec => []TypeOK` |
| `StatusColumnsAgree` | `AgentRunsSafety` | `Spec => []TerminalStatusAgrees` |
| `OutboxMatchesAttempts` | `AgentRunsSafety` | `Spec => []EnqueuePerAttempt` |
| `TerminalStays` | `AgentRunsSafety` | `Spec => TerminalIsFinal` |
| `AttemptsStep` | `AgentRunsSafety` | `Spec => AttemptsGrow` |
| `CompletionHasOutput` | `AgentRunsSafety` | `Spec => []CompletedHasOutput` |
| `PromiseHolds` | `AgentRunsSafety` | `Spec => PromiseKept` |
| `QueuedRunsHaveJobs` | `AgentRunsSafety` | `Spec => []QueuedHasJob`, if retention drops no job (no `evict`) |
| `QueueKeepsCallsApart` | `AgentRunsSafety` | `Spec => []OneCallPerAttempt`, if BullMQ takes no job from a live worker (no `stall`) |
| `LaunchTypes` | `ProductLaunchesProofs` | `Spec => []TypeOK` |
| `SubmissionsGoForward` | `ProductLaunchesSafety` | `Spec => LedgerForward` |
| `ImportedOnce` | `ProductLaunchesSafety` | `Spec => []OneImport` |
| `ImportsAreOnRecord` | `ProductLaunchesSafety` | `Spec => []SentIsRecorded` |
| `DecisionsAreFinal` | `ProductLaunchesSafety` | `Spec => DecidedIsFinal` |
| `ActivityIsConfirmed` | `ProductLaunchesSafety` | `Spec => []ActiveIsConfirmed` |
| `ImportPromiseHolds` | `ProductLaunchesSafety` | `Spec => ImportsKeepPromise` |
| `DeadLetterTypes` | `DeadLettersProofs` | `Spec => []TypeOK` |
| `ClosedForGood` | `DeadLettersProofs` | `Spec => ClosedStaysClosed` |
| `ApprovalSpentOnce` | `DeadLettersProofs` | `Spec => []OneRunPerApproval` |
| `RegenerationTypes` | `QualityRegenerationProofs` | `Spec => []TypeOK` |
| `RegenerationsCounted` | `QualityRegenerationProofs` | `Spec => []CountedOnce` |
| `ReplayedRecordNamesItsRun` | `DeadLettersProofs` | `Spec => []ReplayedNamesRun` |
| `AutomationTypes` | `AutomationsProofs` | `Spec => []TypeOK` |
| `OneScheduledRunAtATime` | `AutomationsProofs` | `Spec => []OneScheduledRun` |
| `OneExecutorOfARun` | `AutomationsProofs` | `Spec => []OneExecutor` |
| `RecoversFromFailed` | `AutomationsProofs` | `Spec => []RecoversFailed` |
| `EvidenceIsKept` | `AutomationsProofs` | `Spec => EvidenceStays` |
| `LedgerDecidesEveryRun` | `AutomationsSafety` | `Spec => []LedgerDecides` |
| `ActiveRunsHaveJobs` | `AutomationsSafety` | `Spec => []ActiveRunHasJob` |
| `DeadLettersHaveFailed` | `AutomationsSafety` | `Spec => []DeadHasFailed` |
| `ErrorsMeanFailures` | `AutomationsSafety` | `Spec => ErrorMeansFailed` |

The two assumptions are needed: retention may drop a finished job before a slow publisher
commits QUEUED, and what `OneCallPerAttempt` needs is told below. Every fault that a theorem does not name in its assumption may happen, any number of
times and at any place.

### Agent runs

*Type correctness.* `TypeOK` is proved as a conjunction of one part per variable
(`TypeInv`), with one lemma for the publisher's steps, one for the worker's, one
for the scan's and one for the API's, and one step per action in each.

*Safety.* None of the properties is inductive: that a column never contradicts
the lifecycle depends on which keys were used, and that an attempt has its event
depends on nobody holding an id that is not in use. The invariant `Inv` adds to
the type invariant and the two properties:

- `EventInv`: a run with any enqueue event, or with a row, has its first event
  ("used" ids are never reused);
- `KeyInv`: a deleted run has no keys, a run with the cancel key is CANCELLED, and
  so is every run in the middle of a cancel (or it is gone);
- `PubInv`, `JobInv`, `WorkInv`: what a publisher, a job or a worker holds is a
  used id, and a worker about to report EXECUTION_FINISHED has an output behind it, or
  the agent's word.

Some forty actions preserve this, but they do only seven things to rows, which
`RowEffect` lists: nothing, move the older status of a row (never into or out of
COMPLETED and CANCELLED), apply an event, create, delete, write an output, start
the next attempt. The lemmas named `...Effect` show that every action has one of
these effects; `OneRow` and `NextRows` show that each effect preserves the parts
of `Inv` about rows; `StepInv` puts them together. The action properties follow
from `RowEffect` directly, and the refinement maps each effect to a step of
`AgentRunPromise` or to a stutter (`PhaseStep`, `StepPromise`).

*Queued runs.* `QueuedHasJob` needs one fact about the publisher (`QueueInv`): between its
`queue.add` and its commit the job it added is there. Then a step can break it in three
ways only: a job disappears (`JobsStay`; `remove` deletes rows, not jobs), a row becomes
QUEUED (`NoneQueued`; only the publisher's commit does it, `DispatchableQueues`), or a
QUEUED row changes its attempt (`ApplyQueues`: RETRY_SCHEDULED is never QUEUED). The lemmas
named `...Queue` settle that component by component.

*Calls.* Two mechanisms keep two workers from calling the provider for one attempt, and
neither is enough for all faults. The queue is one, and `QueueKeepsCallsApart` is about it:
`HeldInv` says that a worker between taking its job and reporting its end holds it, as the
one `holder` of an active job. That needs no lease, no scan and no claim, so it holds whatever
these do; only BullMQ's stall check, which takes the job of a worker that still runs, breaks
it. Then the lease is the other: `acquire` refuses a live lease of another owner, and
`release` compares the owner. What it gives is model-checked only (`runs_redelivery`), and not
stated as a theorem, because three things the code allows break it, so that a theorem would
have to assume each of them away:

- a lease that expires although its holder works (`slow`);
- a scan, which drops expired leases and moves the row between a worker's read and its claim;
- two slots of one process at one attempt, since `ownerId` is made of the process's
  `workerId` and the attempt (`agent-run.worker.ts:256`) and a process has three slots
  (`agent-run.worker.ts:47`).

The last is no artefact: with both workers on one host (`Host <- OneHost`) TLC finds, after
one stall, two calls for one attempt. The job goes from one slot to another before the
first has read the run; the second calls the provider, fails, and its catch event makes the row
claimable; the first slot claims it; the catch block then marks the row as waiting for
the next try (`AGENT_RETRYING`), for which the job is taken again, claims the row under the first
slot's call, and acquires the lease it owns by name. With two hosts that claim ends in
`lease_conflict`.

### Product launches

*Type correctness.* `TypeInv` adds to the types what a worker, scan or request
has found out by the place where it is (`PlaceOK`): at a step of publishing it has a
snapshot, at one that writes an outcome it has an outcome. Without it the
updates at `s` and the mapping of outcomes have no type.

*The ledger.* `Legal` lists the changes of status that any operation makes;
`NextLedger` shows that each step makes one of them on one row or none.
`LedgerForward` is then a finite comparison.

*Imports.* Of the some seventy actions only four matter (`ImportKind`): one issues a
grant, one starts a request, one sends it, and the rest neither sends nor brings a
worker to the point of sending, nor makes a grant live. `SendInv` is
inductive: a worker at that point is the only one for its snapshot and for its
grant, nothing was sent for either, its submission is recorded as started, and
its grant is not the live one. That the claim token, the status REQUEST_SENT and the
consumed grant are all written in one transaction is what makes it so.

*Confirmation.* `ConfirmInv` says of the locals of workers and scan what
`ActiveIsConfirmed` says of rows: an outcome "active" was read from an active
offer, and an active offer stays so.

*Refinement.* A legal change of the ledger is `Record`, `Answer` or a stutter of
`ImportPromise`; sending is `Import`, whose guards `SendInv` gives.

### Dead letters

`Kind` lists what a step does to records and runs. `ApprovalInv` is the invariant
for `OneRunPerApproval`: an approval is held by one eligible record, or by one
replay that claimed it, or by one recovery run, and by no two of them; the
number of approvals bounds all. `RunInv` adds to `ReplayedNamesRun` that a replay
about to finalize holds the number of a run that exists. That a closed record
stays closed needs no more than the types: every write that opens one asks for
REPLAYING, and a resolution, which does not ask, closes.

### Regeneration count

`CountInv` adds to `CountedOnce` what a worker may have read: a sum that was
counted by then and is below the cap, which later only grows (`ReadSum`). If the
next number is not taken, the numbers being 1 to the sum of today, the sum read is
still the sum of today, and one more child keeps the count (`RegenerateCount`). For the
cardinalities the children of a run are finite (`FiniteChildren`), and a run that is
not there yet is nobody's child (`UnbornIsFree`).

### Automations

*The common invariant.* `IInv` adds to the types who may touch what: a worker at work
has a run (`Placed`), a client about to add a job has created a run that has no job
yet and no other client (`Creators`, `Adders`), a job that has used up its tries has
failed (`Jobs`), owners and leases belong to what is RUNNING (`Leases`), and what is
recovered from, or about to be, has failed (`Recoveries`). `RunMoves`, `StepMoves` and
`JobMoves` list the few things any step does to a run, a ledger entry or a job; each
of some thirty actions makes one of these moves, and the moves preserve the invariant.
`EvidenceStays` reads off them: each write to an ended run or a finished step is behind
a guard on its status or owner, and `Leases` says that what has ended has no owner.

*One executor.* An owner's name does not tell two slots of a process apart. `Sole` says
what does: as long as no lease is overrun, the lease of a run lives while a worker
goes through its steps or is about to give it up (`Holding`), so no other can claim it.
A worker whose `finishRun` succeeded releases nothing, because the run has ended
(`Succeeded`).

*One scheduled run.* `SlotInv` follows the replicas between their look and their
creation: those that may still create (`Wants`) all want the same slot (`SameWish`),
the current one if it is due (`DueWish`), and when one of them has found no active run
there is no scheduled one (`NoneGoing`). Whoever creates first makes the key known,
and from then on no other wants.

*The ledger.* A worker decides how its run ends by the results it has gathered (`got`), some of
which it read from rows that others may have been writing. `Remembers` says that each of them is
what the row of that step says now. It is inductive because a step with a result keeps it
(`EvidenceStays`), and because a worker enters a result together with its write, under the
guard of `finishStep` (`GotNext`). So when `finishRun` writes an end, the ledger has it, and
it stays so with any number of other workers at the run, leases overrun or not.

*Runs with jobs.* `WorkHeld`: without stalls, a worker at work is the holder of its active job.
`Lossless` adds, with no faults but Redis outages and overruns, what carries a run in each state of
its job (`Carried`): an active job has its worker, a RUNNING run an active job, a finished job an
ended run, and a run without a job a client that is about to add it or to mark it failed. An add
that fails after it reached Redis leaves a job whose run is marked FAILED, which `Carried` allows.

*Failed ends.* The last try decides twice, in the catch block (`willRetry`) and in `onFailed`.
`Settled` says that a worker whose failure is final has left a FAILED run behind, `Released` that
a worker about to release its run still owns it, hence that the release writes FAILED. Both
need the database, the second also a lease that lasts (`Sole`, above): with an overrun lease the
release finds another owner and the run goes on.

### Checked by TLC only

The liveness properties (`NoPendingOrphan`, `RunsSettle`): they rest on fairness and
ENABLED, which are outside what TLAPS proves here. The three properties of section 4 are
refuted by TLC, and nothing is to be proved. Every other property of a passing run is a
theorem, `OneCallPerAttempt` without stalls only.

## 7. Plan

In this order; a module of proofs follows each that is worth one.

1. `AgentRunsWithLaunch`: the runs that the product-launch worker creates without a
   lease, under the recovery scan of `AgentRunRecovery`.
2. `OzonWrites`: price and stock writes with their intents and reconciliation.
3. `CreateFlows`: the store operator's flow, which replicas create and repair
   (`ensureConnectedStoreOperatorFlows`, a second writer of `nextRunAt`), and the deletion of
   flows under their runs.
4. `CapabilityTokens`, the audit chain, the leases of daily research, the Python
   job queue.
5. Proofs: with each of these modules its own. Of the present ones, what `OneCallPerAttempt`
   keeps under scans when the claim is made from a row that no scan moved.

## 8. Not modelled

What is listed in section 1 without a module in section 2. Of it, request handlers
over single rows, reports, user interface and configuration are not planned:
there is no interleaving or failure in them that the database does not already
decide. Row-level security, which keeps organizations apart, is assumed.
