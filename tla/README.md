# A formal model of OpenBuddy's collaboration core

OpenBuddy is a desktop assistant whose "buddies" propose, award, execute and
verify tasks for each other, inside one organization and over a relay network.
The TLA+ modules in this directory model the part of it in which several parties, an
event log, approvals and a lossy transport meet: `packages/collaboration/*` and
`electron/main/collaboration/*`. TLC checks the models on small instances;
TLAPS proves the theorems of the `*Proofs` modules for every instance.

## 1. Inventory

| component | state it keeps | operations | hard behaviour |
|---|---|---|---|
| `openbuddy-task` | task status, provider, verifier, version; nonce ledger; event store | `transitionTask`, `replayTask`, `appendTransition` (imported by the coordinator, never called) | two tables (status, actor) whose product must exclude self-verification; roles kept over revision rounds; replay from events that do not record the roles |
| `openbuddy-coordinator` (organization) | members, delegations, approvals, task projections, applied event ids | add/remove member, grant/revoke delegation, request/decide approval, `observe` | state rebuilt from events after a restart; generated event ids; fail-closed authority |
| `openbuddy-coordinator` (task and workflow executor) | one run: task state, intent | `OrganizationTaskExecutor.execute`, `OrganizationWorkflowExecutor.execute` | awaits between checks and effects, abort, expiry during work, failing callbacks |
| `electron/main/collaboration` (runtime) | event log in memory and on disk, side-effect intents, proposals, workflows, outbox | intents create/approve/consume/complete/fail/cancel, `appendEvent`, batched flush, contract rewrites, award and delivery | memory ahead of disk, flush failure, crash, timers overlapping awaits, replay of intents |
| `openbuddy-network` | peers, offers, bids, agreements; relay deliveries, nonces, revocations, presence; durable outbox; sync cursor | `OpenNetworkCoordinator`, `LocalRelay`, `RemoteRelayServer/Transport`, `DurableRelayOutbox`, `RelaySyncScheduler`, WebSocket wire | lost replies, retries, reordered revocations, reconnects, restarts |
| `openbuddy-room`, `-inbox`, `-evidence`, `-policy`, `-protocol` | rooms and wakes, inbox cursors, artifacts, policies, message types | `consumeWake`, inbox ack, registry, policy intersection | authority re-read at wake time, monotone cursors, monotone policy |
| `openbuddy-session`, `-host-runtime`, `-plugin-host`, `-storage` | sessions, runtime registry, plugin tasks, key-value storage | start/stop/restart, task lifecycle | restarts, cancellation races |
| capability packages (`authorization`, `email`, `calendar`, `mcp-client`, `folder-trust`) | pending sends, decisions, grants | prepare/send/cancel of side effects | an effect done whose record fails |
| `openbuddy-casdoor`, `-policy`, `-permission`, casdoor gateway | tokens, permissions | login, refresh, check | token refresh races |
| team, webhook outbox, payment, automation, harness, audit | queues, orders, schedules | enqueue/deliver/retry | retries |
| `crates/openbuddy-host-core` (Rust) | host processes | spawn/stop | supervision |
| `packages/ui`, `apps`, `evals`, `scripts` | views and tools | rendering | none of interest here |

How they interact: a proposal carries an envelope (`openbuddy-protocol`); the
runtime asks for an approval at the coordinator, records a *side-effect intent*
bound to that approval, and the executor consumes it, drives the task's state
machine through `transitionTask`, and completes or fails it. Every mutation is
an event appended to the runtime's log; the coordinator, the network and the
intents are rebuilt from it on a restart. Network tasks go through the durable
outbox and a relay, which retry.

What makes each of them correct, in a sentence:

- *task*: nobody accepts or verifies its own work, nothing is delivered that was
  not awarded, the requester is never locked out, a replay gives the same task;
- *event log*: no line lost, doubled or reordered, except by a failed write or where
  the file has lost its last newline;
- *organization*: the projection is the replay of the log, and the log authorizes
  every change of authority in it;
- *intents*: one consumption, one outcome, on the user's yes to this intent;
- *executor*: one effect per intent, and the recorded outcome is the real one;
- *network delivery*: what is delivered has used up its intent unless the log was torn
  between the two, nothing is settled that nobody verified, every call is answered;
- *workflow*: accepted nodes rest on accepted dependencies, a run does not undo a
  pause or a cancellation of the user, the status tells which runs there are, every
  run ends;
- *relay*: an envelope waits until it is accepted, is accepted once, and is not
  offered under a revoked grant; every sender gets an answer, and what waits is
  offered to a provider that comes back;
- *relay synchronization*: the cursor never passes a revocation the client lacks,
  and a revocation arrives in the end;
- *market*: what is recorded as delivered was done by the winner, a proposal has
  one worker, the waiting bids of a blocked peer never win;
- *rooms and inbox* (not modelled): a wake is consumed by a current member, cursors
  never move back.

The hazards behind these sentences, each at its source line, are listed in
`PROJECT.json` under `hazards`.

## 2. Plan

The order is that of importance: first the state machine everything else obeys,
then the log everything is replayed from, then the authority and the intents
that guard side effects, then the two paths on which effects happen.

| stage | modules | state |
|---|---|---|
| 1 | `TaskProtocol`, `BuddyTask`: the task state machine and its replay | done, six theorems |
| 2 | `DurableLog` (abstract) and `EventLog` (the batched writer that implements it) | done, five theorems, the refinement among them |
| 3 | `OrgCoordinator` on `DurableLog` | done, four theorems |
| 4 | `SideEffectIntent` on `DurableLog` | done, five theorems |
| 5 | `TaskExecution` on `SideEffectIntent` and `TaskProtocol` | done for `OrganizationTaskExecutor`, five theorems |
| 6 | `RelayOutbox`, `NetworkDelivery` | done for `DurableRelayOutbox` and the requester's side, six theorems |
| 7 | `WorkflowExecution`: nodes, dependencies, seeds of a retry, pause and cancel while nodes run, overlapping runs, a restart | done, five theorems |
| 8 | `RemoteRelay`: deliveries over connections that die unseen, replay, revocation, crash; `RelaySync`: the revocation feed and its cursor | done, five and three theorems |
| 9 | `NetworkMarket`: trust, proposals, agreements, bids and awards with the way of an award to the relay | done, four theorems |

Not taken up, after reading the code:

- `LocalRelay` makes the checks of `RemoteRelayServer` in one process; what can go
  wrong in it beyond that is one interleaving, described in section 8.
- The contract file is rewritten as a whole and read only at a start; `EventLog` has
  its rewrite as a step that may fail. Overlapping rewrites are described in section 8.
- Rooms and the inbox are synchronous maps whose events go through the log of
  `EventLog`. `consumeWake` is a pure check, and the runtime does not call it.
- `appendTransition` with its nonce ledger is not called by anything in `src/`.
- The policy intersection is a pure function whose definition is its own reference.

Theorems: every safety property a passing run checks has one (section 6). Of the
liveness properties the part that is no matter of fairness, that somebody who waits
is never left without a step to wait for, or cannot end without what it promised, is
proved for `CallsAreAnswered`, `SendsAreAnswered`, `RunEnds`, `RevocationArrives` and
`IntentIsSettled`. What remains are the two liveness properties that are all fairness:
`EventuallyDurable` and `ReplayOffers`.

The list of runs is kept small: one run per module with all its properties, and a
run for each of the two gravest disagreements with a document. The type
invariants are proved, and are not checked again by runs.

## 3. How the modules fit together

```
TaskProtocol  <--EXTENDS--  BuddyTask  <--  MCBuddyTask, BuddyTaskProofs
     ^
     | INSTANCE
TaskExecution  <--  SideEffectIntentProofs
     | EXTENDS
     v
SideEffectIntent  <--  MCSideEffectIntent
     | INSTANCE
     v
DurableLog  <--INSTANCE--  OrgCoordinator  <--  OrgCoordinatorProofs
     ^
     | implemented by (INSTANCE ... WITH)
EventLog  <--  EventLogProofs

WorkflowExecution  <--  MCWorkflowExecution, WorkflowExecutionProofs
NetworkMarket      <--  MCNetworkMarket, NetworkMarketProofs
RemoteRelay        <--  RemoteRelayProofs

RelayOutbox  <--EXTENDS--  NetworkDelivery  <--  RelayProofs
                           RelaySync        <--  RelayProofs
```

`DurableLog` is what code above the log may rely on: an append is visible in
memory at once, reaches the disk later and in order, and a restart reads what
the disk has. What is on the disk stays there, except its last line: if that one lacks
its newline a new process reads it and acts on it, and its own first write
destroys it. `EventLog` is the writer as it is coded, and it is both checked
and proved to implement `DurableLog`. `OrgCoordinator` and `SideEffectIntent`
are written on top of the abstract log, so that their state spaces do not carry
queues and timers, and inherit every loss the writer can cause. One process at a
time writes the file: two runtimes that share a `storagePath` are not modelled.

The modules of the network follow one envelope. `NetworkMarket` decides whom it is
for and what its id is; `RelayOutbox` keeps it and `NetworkDelivery` has the
overlapping calls that wait for it; `RemoteRelay` hands it to the provider.
`NetworkDelivery` assumes that every `relay.send` settles: `SendsAreAnswered` of
`RemoteRelay` is that assumption, checked of the relay. `NetworkMarket` in turn
leaves the failing writes to `RelayOutbox` and the forgetting relay to `RemoteRelay`.
A node of `WorkflowExecution` is a run of `TaskExecution`, of which it keeps the
three answers the executor of workflows tells apart.

## 4. Modules, state and actions

An action is the code between two awaits, with everything it calls. Each module
starts with the abstractions it makes; definitions named `Mutant...`,
or under a comment "Mutant: ...", are plausible bugs kept beside the code they mutate and are used by no specification.

### TaskProtocol and BuddyTask — `openbuddy-task/src/index.ts`

`TaskProtocol` has the two tables of `transitionTask` (`TRANSITIONS` and
`actorAllowed`), the expiry check and the new state: `MayTransition` is "does not
throw", `AfterTransition` the returned state with its three identities.
`BuddyTask` is one task: `task` is `BuddyTaskState`, `log` the returned events,
`late` whether `expiresAt` has passed. There is one action per `messageType`, by
any identity, with the contexts the callers in `src/` build. `ReplayTask` is
`replayTask`, a fold that infers provider and verifier from the state so far.

### DurableLog and EventLog — `collaboration-runtime.ts`, lines 1875 and 2135-2215

`events` is `this.events`, `queue` `appendQueue`, `timer`
`appendFlushTimer`, `flushes` the runs chained on `appendWriteInFlight`, `batch`
the lines drained by the current run, `pendingIO` a `flushPendingIO` under way.
`disk` and `tail` are the file as `readEvents` will read it: the events of the
lines it can parse, and how the file ends. After a failed write or a crash it may be
"cut" inside a line, so that the next line is glued to it and both are dropped, or
"open", with a last line that lacks only its newline: that one is parsed, until the
next write is glued to it and destroys it with its own first line
(`Readable`, `PartlyWritten`). `DurableLog` has the same as `Meets`. `Enqueue`, `TimerFires`, `StartFlush`,
`WriteSucceeds`, `WriteFails`, `FlushPendingIO` and `Crash` are the code between
its awaits. The refinement maps `unwritten` to `batch \o queue`.

### OrgCoordinator — `openbuddy-coordinator/src/index.ts`

`org` is the projection (`members`, `delegations`, `approvals`, `controls`,
`taskOwners`), `sequence` the counter of generated ids, and the log is the
runtime's. Each mutation is an action of its own: it checks authority in `org`,
draws its ids, applies its event and appends it (`Record`). Both drop duplicates, by
checks that know nothing of each other: `Apply` by `applied`, which is
`appliedEventIds`, and `Dropped` by the ids and the nonces of the log; what is not
dropped comes back to the coordinator, which applies it if it has not yet.
`ObserveProposal` and `ObserveNetwork` are the events of other parts of the runtime; those
of network mode have no organization, and `apply` does not even note their ids.
`Restart` replays the disk and starts the counter at 0, so that every change whose
line was not written is forgotten. Delegations are without scopes and expiry.

### SideEffectIntent — `collaboration-runtime.ts`, lines 1120-1260, 1734 and 1912

`intents` is `sideEffectIntents`, `approvals` and `sequence` the part of the
coordinator they rest on, `late` the intents whose `expiresAt` has passed. `Create`,
`CreateApproved` and `CreateThrows` are `createSideEffectIntent`; `Approve`,
`Consume`, `ConsumeLate`, `Complete`, `Fail`, `Cancel` and `Decide` are the methods of
these names. `Restart` rebuilds approvals from the coordinator's events and intents from
theirs (`restoreSideEffectIntents`). History variables record what no process
knows: which intents were consumed before a crash (`spent`), which intents the
user said yes to (`granted`), whether an id was drawn twice (`reused`), how often
lines were lost (`losses`).

### TaskExecution — `OrganizationTaskExecutor.execute` as `executeCollaborationTask` calls it

A run has a program counter `at` for its awaits (`provider.list`,
`provider.invoke`, the verifier), its own task state, driven by `TaskProtocol`, and
the intent it read from the contract. `Begin` is the code up to the first await,
with the consumption of a calendar task's intent; `Perform` is the effect, which
happens outside the process; `Caught` is the catch clause, whose own transition may
throw, and `TryFail`, `InvokeFails` and `VerifyFails` are the ways into it. `told` and `evidence` are the task's logged events, with the ids that drop a
second run's events. Around the runs every operation of
`SideEffectIntent` may happen.

### RelayOutbox and NetworkDelivery — `durable-relay.ts`, and `collaboration-runtime.ts` lines 952-1078

`entries` is the map of envelopes, `jobs` the chained queue of `send` and
`retryPending`, `saves` the queue of `persist`, each to be written by a rename,
`file` what the next process loads. The first job is running; `Transmit` calls
`relay.send`, which resolves (`Acknowledged`) or rejects (`NotAcknowledged`).
`NetworkDelivery` adds the callers: `calls` are the pending `networkAwardBid` and
`retryPendingNetworkDeliveries`, with what they read before the await (`had`), and
`AwardEnds` and `RetryEnds` are what they do with the answer. `verdict` is the
provider's side, `executeNetworkEnvelope`, which works at most once because it
returns early when it finds evidence; an answer may be lost after the work. `disk` is what
the log tells of intents and deliveries. They are separate lines, which a batch may be
torn between: `MayHold` lets each of them be written, or lost, without the other, and
a consumption without the completion that came with it. The history `forgotten` names the
tasks of which a crash has taken back the consumption, `torn` those that are delivered
while the last line of their intent was lost. The relay itself is environment here.

### WorkflowExecution — `collaboration-runtime.ts` lines 1436-1582 and `OrganizationWorkflowExecutor`

`workflow` is the `WorkflowSnapshot` in memory, `saved` the one in the file, `dirty`
the timer that rewrites it, `current` the run whose `AbortController` is in
`workflowRuns`. `Execute` is `executeWorkflow` up to its first await, `InputsReady`
and `InputsThrow` its end, `NextWave`, `GiveUp` and `CycleThrows` the head of the
executor's loop, `NodeAnswers` one element of the `Promise.all` of a wave, `Finish`
what is done with the results; `Control` is `controlWorkflow`. Runs overlap
because a paused workflow can be executed while the run before still waits for its nodes;
the history `overlapped` names the runs that did.

### NetworkMarket — `OpenNetworkCoordinator` and `networkAwardBid`

`mem` is the state of the coordinator, `disk` what a replay of the written log would
give: every mutation changes `mem`, and `disk` follows until the writer stalls
(`stalled`), for `setPeerTrust` perhaps between its events: what comes after is the
suffix a crash loses. `outbox`, `file` and `sending` are
the entries of the outbox and the awards that wait for it; `relayed` is
`deliveredMessages` of the relay, `done` the evidence the providers have. The
histories remember what ids do not tell: `drawn` the number of each proposal
ever made, `chosen` and `worked` who was awarded it and who worked on it,
`voided` the bids that waited when their peer was blocked; `others` are the
numbers other runtimes of the same relay have used.

### RemoteRelay — `remote-relay.ts` and `remote-relay-websocket.ts`

At the relay `pending`, `record`, `run` and `asking` are `pendingEnvelopes`, the
delivery records, `deliveryRuns` and the senders that wait; `endpoint` and `bound`
the registration and its grant, `file` what was saved. The connection has two ends,
`open` (the relay's) and `wire` (the provider's), each of which may be gone
unseen by the other; `ready` and `unseen` are the endpoint-ready frame, `leg` how
far an envelope is on each connection. `SendOffline`, `SendDelivers`, `Replay`,
`AckArrives`, `Register`, `SocketCloses`, `Revoke`, `Save` and `Restart` are the
relay's steps, `TaskArrives`, `AcceptEnds` and `WireDies` the provider's.

### RelaySync — the revocation feed, `relay-sync-scheduler.ts`, the cursor file, the projection

`issued` and `relayFile` are the relay's numbered records and its file; `records` and
`recordFile` the client's `authorityRevocations` and its log; `cursorFile` and
`cursorWrites` the cursor store with its chain of writes; `sync` the synchronization
under way, `running` and `timer` the scheduler. `SyncStarts`, `Answered`, `SyncFails`,
`SyncEnds` and `ProjectionThrows` are `syncOnce` between its awaits.

## 5. What the runs show, and their bounds

| run | instance | distinct states | what it shows |
|---|---|---|---|
| `task_lifecycle` | 3 identities, 14 events | 99,912 | independence of verification in the first round, acceptance only of verified deliveries, deliveries only after an award, no lock-out, exact replay of the first round |
| `event_log` | 3 events, queue limit 2, at most 2 chained shutdown flushes | 10,550 | nothing lost, stranded or reordered; refinement of `DurableLog`; every line written in the end |
| `org_coordinator` | 2 identities, 1 task, 3 events, 4 drawn ids | 545,195 | projection = replay, with two duplicate checks; the log authorizes itself; one decision per request |
| `side_effect_intents` | 2 intents, 2 tasks, 4 ids, 6 events, 1 loss | 1,331,150 | one consumption, on the user's yes; exact restore; one outcome |
| `task_execution` | 2 runs, 1 intent, 1 calendar task, 3 ids, 5 events, 1 loss | 465,354 | no second effect, no effect without a yes, result logged, intent settled in the end |
| `workflow_execution` | 3 nodes on a join and on a graph with a cycle, 2 runs, 1 crash | 259,349 | accepted nodes rest on accepted dependencies; status and runs belong together; pause and cancellation stand; every run ends |
| `network_delivery` | 1 task, 2 calls, 2 waiting saves | 207,897 | file = memory, work only on a used intent, delivered means settled unless the log was torn in between, completed means verified, calls answered |
| `network_market` | 2 peers, 2 numbers, 2 proposals, 1 agreement, 1 restart; proposal 1 may expire, number 1 may be another runtime's | 717,742 | delivered means done by the winner, one worker per proposal, no award to a bid that waited when its peer was blocked |
| `remote_relay` | 1 envelope, 2 connections, 1 crash, with and without a codec | 247,631 | kept until accepted, accepted once, nothing offered under a revoked grant; senders answered; what waits is offered on a new connection |
| `relay_sync` | 2 identifiers, 2 cursor writes, 1 crash of either side | 186,624 | the cursor passes no revocation the client lacks; a revocation arrives in the end |
| `org_revocation` | as `org_coordinator`, 4 events | counterexample | after a restart a revocation can be dropped without an error |
| `shared_relay` | 1 peer, 1 number that another runtime may have used | counterexample | a proposal is recorded as delivered though no provider has seen it |

Why the bounds are enough:

- `MaxEvents = 14` of `BuddyTask` is two full rounds: six messages up to the first
  verification, the request for a revision, six again and the acceptance. Three identities are the requester, a
  provider and a verifier, and the second round can swap the last two.
- In `EventLog`, `FlushMax = 2` (64 in the code) and three events give a full queue,
  a queue below the limit behind it, and a batch being written at the same time.
- `MaxSequence` bounds the ids *one process* draws; the number of restarts is not
  bounded, so that ids are drawn again in every way. `MaxEvents` bounds the log.
- `MaxLosses = 1` is one write or restart that loses lines; a second one adds no
  new kind of loss, because each property distinguishes only lost from not lost.
- `side_effect_intents` leaves out the writes that lose nothing (`WritesThatLose`, an
  ACTION_CONSTRAINT): they only move lines that a restart may read in either
  place, and no process sees the difference. The theorems do without it.
- Two runs of one task in `TaskExecution`, and two calls in `NetworkDelivery`, are the
  smallest overlap. One task is enough in the second because tasks meet only in the queues
  of the outbox; the theorems about the module speak of any number of tasks and calls.
- `MaxSaves = 2` is a save under way and one waiting for it: a further one replaces
  the same file again.
- In `WorkflowExecution` three nodes give a wave of two before a join, and a cycle
  beside a node that can run; two runs are the smallest overlap, and the second
  takes its seeds from the first.
- In `NetworkMarket` two numbers and two proposals, with one restart, let the
  second proposal draw the number of the first; two peers let a lost award be made again
  to the other one. One agreement can carry bids for both proposals.
- In `RemoteRelay` two connections are the half-open one and its successor; envelopes
  meet only in the connection, the grant and the file, so that one envelope shows
  what happens to each; the theorems speak of any number.
- In `RelaySync` two cursor writes are one on its way and one behind it; one crash
  of the relay lets a sequence be issued twice.

The properties with a theorem in section 6 do not depend on these bounds; the others
are shown for these instances only.

`CHECK_DEADLOCK FALSE` is set in every configuration, because all systems may stop:
a task ends in a terminal status, and the logs and counters end at their bounds.
Symmetry is used in `task_lifecycle`, `side_effect_intents` and `network_market`,
whose properties are invariants or of the form `[][A]_vars`.

Fairness:

- `EventLog`: a timer that is set fires, a chained promise runs, a write or rewrite
  that has begun ends. This is what Node's event loop gives; errors, shutdowns and crashes
  need not happen, and `EventuallyDurable` excepts them.
- `TaskExecution`: provider and verifier answer each run in the end. No timeout in
  `executeCollaborationTask` ensures it; without the assumption a run hangs.
- `NetworkDelivery`: saves end and `relay.send` settles. The second is an assumption on
  the relay, since `DurableRelayOutbox` has no timeout of its own; `remote_relay`
  checks it of the relay (`SendsAreAnswered`).
- `WorkflowExecution`: the steps of a run happen, that is, the provider of each node
  answers in the end, as in `TaskExecution`. The user need not do anything.
- `RemoteRelay`: frames on living connections arrive, the provider comes to an end
  with a task, and the relay finds out about a connection the provider has given
  up. The last is what the operating system's socket gives, late; neither module
  of the code has a timeout for it. Leases need not expire, nothing needs to be saved.
- `RelaySync`: timers fire and cursor writes settle (weak fairness); queries may fail
  any number of times, but one that is tried again and again succeeds at last
  (strong fairness of `Answered` and `SyncEnds`).
- `NetworkMarket` has none: a delivery that failed is tried again only when the user
  asks for it (`electron/main/ipc/collaboration.ts:380`), so that nothing there must
  eventually happen.

## 6. What is proved

The `*Proofs` modules prove, for every value of the constants:

| module | theorem | property |
|---|---|---|
| `BuddyTaskProofs` | `TypeCorrect`, `FirstRoundVerification`, `VerifiedAcceptance`, `AwardedDelivery`, `RequesterAlwaysHasAMove`, `ReplayRebuilds` | `TypeOK`, `FirstRoundVerificationIndependent`, `AcceptanceFollowsVerifiedDelivery`, `DeliveryFollowsAward`, `RequesterNeverLockedOut`, `ReplayRebuildsFirstRound` |
| `EventLogProofs` | `TypeCorrect`, `NothingMissingAlways`, `QueueNeverStranded`, `DiskOrder`, `Implements` | `TypeOK`, `NothingMissing`, `QueueIsScheduled`, `DiskInMemoryOrder`, `ImplementsDurableLog` |
| `OrgCoordinatorProofs` | `TypeCorrect`, `ProjectionCorrect`, `LogCorrect`, `DecisionsCorrect` | `TypeOK`, `ProjectionIsReplay`, `LogIsAuthorized`, `DecidedOnce` |
| `SideEffectIntentProofs` | `SideEffectTypeCorrect`, `ConsumedOnceAlways`, `OneOutcomeAlways`, `ConsumedWhenGrantedAlways`, `RestoreIsExactAlways` | `TypeOK`, `ConsumedOnce`, `OneOutcome`, `ConsumedWhenGranted`, `RestoreIsExact` |
| the same, of `TaskExecution` | `ExecutionTypeCorrect`, `OneEffectAlways`, `EffectWasGrantedAlways`, `ResultIsLoggedAlways`, `SettledWhenOverAlways` | `ExecutionTypeOK`, `OneEffect`, `EffectWasGranted`, `ResultIsLogged`, towards `IntentIsSettled` |
| `WorkflowExecutionProofs` | `WorkflowTypeCorrect`, `AcceptedGrounded`, `VerdictStands`, `StatusTrue`, `RunsOnlyAdvance` | `TypeOK`, `AcceptedIsGrounded`, `UserVerdictStands`, `StatusTellsRuns`, towards `RunEnds` |
| `NetworkMarketProofs` | `MarketTypeCorrect`, `DeliveredMeansDone`, `WorkedByOne`, `VoidedStays` | `TypeOK`, `DeliveredWasDone`, `OneWorker`, `VoidedNeverWins` |
| `RelayProofs`, of `NetworkDelivery` | `DeliveryTypeCorrect`, `OutboxIsSavedAlways`, `WorkIsConsumedAlways`, `DeliveredIsSettledAlways`, `CompletedWasVerifiedAlways`, `NobodyWaitsInVain` | `DeliveryTypeOK`, `OutboxIsSaved`, `WorkIsConsumed`, `DeliveredIsSettled`, `CompletedWasVerified`, towards `CallsAreAnswered` |
| the same, of `RelaySync` | `SyncTypeCorrect`, `CursorSkipsNothing`, `SchedulerStaysAlive` | `TypeOK`, `NothingSkipped`, towards `RevocationArrives` |
| `RemoteRelayProofs` | `RelayTypeCorrect`, `EnvelopeIsKept`, `EnvelopeIsAcceptedOnce`, `RevokedNotServed`, `RunsAreCarried` | `TypeOK`, `KeptUntilAccepted`, `AcceptedOnce`, `RevokedIsNotServed`, towards `SendsAreAnswered` |

"Towards" a liveness property means the part of it that is no matter of fairness;
see the end of this section.

The assumptions are those the modules declare: the requester is an identity and
"nobody" is none; the queue limit and the bound on cursor writes are positive
numbers and the other bounds are naturals; "nobody" is no intent and no task; no
node of a workflow depends on itself; the proposals that may expire and the
numbers of others lie within the bounds. The theorems thus cover any number of
nodes, runs, envelopes, connections, peers, proposals, agreements and crashes.

*The task.* None of the properties is inductive, because each speaks of two or
three events of the log while a step looks at the status only. `IndInv` links the
two: `LogIsPath` (every two neighbouring events are neighbours in the status
table), `LogEndsInStatus` (the last event is the one that leads to the current
status), `ProviderWorks` (the events of a round come from the provider in the
state) and `NoVerifierYet` (before the first verification there is no verifier).
The proof has one step per message.

*The writer.* `IndInv` is `TypeOK`, `NothingMissing`, `QueueIsScheduled` and
`InMemoryOrder(Lines, events)`, where `Lines == disk \o batch \o queue`.
`DiskInMemoryOrder` alone is not inductive: what is on its way to the disk must
be in order, too. The refinement follows from the same invariant: each action
is an append, a write of a part of the batch, a restart, or a stutter of `DurableLog`.
What a whole, a failed and an interrupted write have in common is that the file keeps
its lines, or all but an open last one, and gains a run of lines of the batch
that starts with its first or its second, which is what `Meets` allows.

*The intents.* `IndInv` is `TypeOK`, `Agrees` (what `spent` remembers is in the log,
and an intent the log says was used has a status no consumption may start from), `Ordered(events)` and
`Ordered(Lines)` (no creation after a use, no use after an outcome, in memory
and on the way to the disk) and `LinesKnown` (everything on the way to the disk is in memory).
`Restart` is the hard case: it swaps memory for a part of the lines, in their order, and
needs `Ordered(Lines)` to restore `Ordered(events)`.

*The workflow.* `GroundedInv` adds `WaveIsPending` (a node that is being waited for
has no result yet) to the property. `VerdictInv` says that in memory and in the file a paused or
cancelled status goes with that control, which is what `Finish` reads when it decides
whether to overwrite it. `StatusInv` orders the runs (`RunsInOrder`), records
which were under way together (`OverlapKnown`), and says that a run that overlapped
with no other is the one whose controller is held, aborted if the workflow is
cancelled (`AloneIsControlled`).

*The market.* The step from `deliveries` to `worked` goes through ids: `relayed` and
`done` know numbers, `outbox` and `worked` know proposals, and `drawn` ties the two.
`MarketInv` says so once of a state of the coordinator (`Sound`), as an operator
of a state, `drawn`, `chosen` and `relayed`, and asks it of memory and of the disk, so
that `Restart`, which swaps one for the other, is immediate and lemmas about the
operations speak of both. `DeliveryInv` says of outbox and file that an entry is meant for
a winner of its proposal (`EntryMeant`), that what the relay has taken was worked on
unless it was another runtime's (`Served`), and that what was worked on cannot be
worked on by another peer: the relay knows it, or it has expired, or the only
entry is that peer's (`Confirmed`). `OneWorker` follows from the last.

*The relay.* `RelayInv` is one statement about connections (`Carrier`) and four about
each envelope: what the relay knows (`Known`), what the file may say of it (`Filed`),
where its frames may be (`Framed`: a frame travels only on the connection its run
waits on), and `Single`: as long as no acceptance was lost, work goes on on that
connection only, and an acceptance is on record or on its way. Both ends of a
connection are needed for `Single`: the relay may forget a run only when it
believes its connection closed, and then the acceptance under way is a lost one.

*The synchronization.* The cursor is written last, so the invariant must follow it
back to where it comes from: `SyncIsComplete` says that the synchronization began at
a cursor that had skipped nothing and found everything from there on,
`FileIsPrefix` that a crash of the relay only takes back the latest sequences.

*What an event may rest on.* The properties of `OrgCoordinator` and `RestoreIsExact`
speak of a replay, a recursive function of the log. An induction theorem
with an operator as its parameter cannot be used, but induction can be stated of a
set: the lengths for which the fact holds contain 0 and every successor, hence
are all of `Nat` (`SetInduction`, from the well-foundedness of `<`). With it,
`OrgCoordinatorProofs` first shows what a replay is (`After(log, k)`, which the
replay of a prefix agrees with and an append extends by one application), and
then states each invariant of one log: it passes to every prefix of the log, which
is what a new process has, and survives the append of an event that the replay
of the log admits, which is what each mutation checks before it appends.
That the projection is the replay at all rests on the two duplicate checks. `AppliedIds`
says, by induction over the replay, that `applied` is the ids of the log without those of
network mode; an event with the nonce of another has its id as well; and from both
`ChecksAgree` concludes that what `appendEvent` drops, `apply` has not let through either.
With a nonce that leaves out the number they do not agree, and TLC finds a projection
that has what the log lacks.
`ReplayRebuilds` is by the same induction, over a log that takes the path of
the status table; what it needs of the state is that before the award the log is
one bid at most, whose actor the task names as its provider (`BidIsNamed`).

*The requester.* `RequesterNeverLockedOut` follows from the statuses a task can be
in: it is never "rejected", and every other status but "revoked" has a message whose
row in both tables admits the requester.

*The user's yes.* `GrantInv` says what intents and approvals rest on: each was
created by one event in memory (`CreatedAsLogged`, `AskedAsLogged`); and unless an
id was drawn twice, an intent and its approval have one verdict (`Standing`), an
approval is for the intents of one task (`SameTask`), and a yes behind its request,
in memory or among the lines the next process may read, is a yes to every intent
with this approval (`OnlyGranted`). The last is why the *order* of the two events
matters: a verdict before its request is one of an id drawn before.

*The executor.* `RunInv` adds three statements about runs to `IndInv` and `GrantInv`.
A run of a calendar task that may have its effect holds a consumed and granted intent (`Backed`), no
other run holds the same one (`Alone`), and what it has reported is in the log
(`Vouched`). `Alone` needs that contracts and runs name intents of their own task
(`Named`), since the contract may be rewritten while a run waits. Everything the
steps around the runs may do to intents is put into one relation (`Moves`), so that
the proof goes once over the operations of `SideEffectIntent` and once over the
steps of a run.

*The outbox and its callers.* What a call does when its flush has ended rests on what
was true when it began. `DeliveryInv` therefore follows an envelope on its way: intents and
deliveries agree with what was seen, in memory (`Agree`) and, as far as lines that are
lost one by one can, in the log (`FileAgrees`), since a restart swaps one for the other; a task still to be flushed is an entry or
was seen, and so is every result that says "delivered" (`FlushedOrSeen`); and what
the outbox knows in entries, file, waiting saves or jobs has a used intent (`KnownIsUsed`).
*Seen* is: a verifier has answered, or the envelope has expired; the second is
the reason why `CompletedWasVerified` excepts expired ones. `OutboxIsSaved` needs
that the last waiting save writes what is in memory (`SavesLead`).

*Nobody waits for nothing.* A liveness property fails for lack of fairness or because
the program has put itself where no step is left. The second is a safety property, and the
theorems "towards" liveness state it:

- `NobodyWaitsInVain`: wherever a call of `NetworkDelivery` waits, a save is under way or the first
  job of the queue has a task to flush or its keys to read. The invariant `WaitInv` is that a
  busy call has a job, in the chain or behind the save it waits for.
- `RunsAreCarried`: a run of `deliveryRuns` has its envelope under way on its connection,
  unless the provider has given the connection up, and the relay still believes in that
  connection, so that its end settles the run.
- `RunsOnlyAdvance`: every step of a run of `executeWorkflow` has one node more with
  a result, or starts a wave, or ends the run; steps of other runs, controls and
  restarts take nothing of that back. A graph with finitely many nodes thus has runs with finitely many steps.
- `SchedulerStaysAlive`: a scheduler that was not stopped has either its timer or a
  synchronization under way, and never both.
- `SettledWhenOverAlways`: a run that has begun and is over has left its intent completed or
  failed, unless the intent or the envelope had expired or lines of the log were lost.
  A run may end without settling anything, because it found its intent settled by somebody
  else. That it was then *settled*, and not cancelled or expired, is what `EndInv` says
  of every intent in time, runs or no runs (`Stands`): it is never expired, and
  it is cancelled only if the log tells of no use. The catch clause tells its
  failure to the task before it fails the intent, and if the task refuses, the intent
  stays as it is; that the task refuses only an expired envelope needs that it has its provider (`Led`).

Only model-checked: liveness itself (`EventuallyDurable`, `IntentIsSettled`,
`CallsAreAnswered`, `RunEnds`, `SendsAreAnswered`, `ReplayOffers`,
`RevocationArrives`), since fairness needs ENABLED, which the prover cannot reason
about; and the two properties of section 7, which the code violates.

## 7. Disagreements with the documents

Two disagreements have a run whose property states what the document says, and a
finding in `PROJECT.json` that quotes it:

1. `org_revocation`, `openbuddy-coordinator/src/index.ts:191`: the counter of ids restarts
   at 0; a revocation that draws a known id is dropped silently and the delegation
   stays in force (`docs/distributed-buddy-network-architecture.md:263`).
2. `shared_relay`, `collaboration-runtime.ts:1023`: the message id of a task contains only
   a number of the requester, and a relay dedups by it; of two runtimes at one
   relay, the second records a delivery nobody has worked on (same document, line 186).

The others are described here only. The document is
`docs/distributed-buddy-network-architecture.md` unless another is named.

- `openbuddy-task/src/index.ts:79`: `verifierId` survives a revision, so a former verifier
  that is awarded the next round verifies its own delivery; line 38 says "provider
  不能自我验收" (a provider cannot accept its own work).
- `collaboration-runtime.ts:2156`: a batch is drained before its write, so a rejected
  write is not tried again; the comment at line 2165 says that the next flush will retry.
- `collaboration-runtime.ts:1182`: an effect may start before the line of its consumption
  is written; after a crash the intent can be consumed again; line 220 says
  "执行前按 fingerprint 一次性消费" (consumed once, before the execution).
- `openbuddy-coordinator/src/index.ts:514`: an answer after the expiry makes the catch
  clause throw and leaves the intent consumed; line 220 says that after the
  execution `completed` or `failed` is recorded.
- `collaboration-runtime.ts:952`: evidence of a *rejected* result acknowledges a retry, which
  completes the intent; line 222 completes it after the verifier has accepted.
- `relay-sync-scheduler.ts:77`: the cursor is saved when the projection is in memory, while
  its events wait for the log; after a crash in between they are never asked for
  again; line 312 moves the cursor only after the local projection succeeded. `NothingSkipped` excepts
  such records by name (`lost`).
- `remote-relay.ts:683`: line 186 has a provider that registers again served with what waits. A replay
  that meets a run on an older, half-open connection joins that run, and when it
  fails nothing offers the envelope again before the next registration or send.
  `ReplayOffers` counts it as offered ("joined").

## 8. Known deviations without a run

Met while modelling. Unless it is said otherwise the models contain the behaviour, and
the properties except it by name or do not speak of it.

Tasks, intents and organization:

- `replayTask` (`openbuddy-task/src/index.ts:206`) throws for a second round that is
  verified by another identity than the first: the events do not record the verifier.
- Approval ids drawn again after a restart replace an approval that was decided
  (`openbuddy-coordinator/src/index.ts:268`), and `decideApproval` of the runtime
  (`collaboration-runtime.ts:1734`) gives the verdict to every pending intent with
  that id, also to one the user did not see (`reused`).
- `addMember` (`openbuddy-coordinator/src/index.ts:218`) overwrites the record of any
  identity, so that an admin can make the owner a member.
- `consumeSideEffectIntent` called late marks a consumed or completed intent "expired"
  (line 1178), after which `cancelSideEffectIntent` accepts it (line 1211).
- A task without calendar capability executes without consuming its intent
  (`openbuddy-coordinator/src/index.ts:460`, `collaboration-runtime.ts:1418`) and then
  fails, since the intent cannot be completed.
- A second run of a task repeats the event ids of the first, so that its verdict is
  dropped from the log (`openbuddy-coordinator/src/index.ts:479`,
  `collaboration-runtime.ts:2004`).
- A last line of the log without its newline is read by a new process, which acts on it,
  and is destroyed by the first write of that process
  (`collaboration-runtime.ts:1875`, 2158). `NothingMissing` excepts it as `damaged`.
- The comment of `flushPendingIO` says it is called on shutdown; nothing outside the
  tests calls it.
- Rewrites of the contracts and of the workflows that overlap use one temporary file each
  (`collaboration-runtime.ts:2191`, 2200). The models write these files in one step.

Workflows:

- A paused workflow that is executed directly, as the button "恢复执行" of
  `ProjectCollaborationTab.tsx:233` does, keeps the control "pause", so that a run whose nodes are
  all accepted ends as "paused" (`collaboration-runtime.ts:1566`).
- When two runs overlap, the end of the older one overwrites the status and deletes the
  controller of the newer one, which a cancellation then no longer reaches
  (`collaboration-runtime.ts:1569`); `StatusTellsRuns` speaks of runs that did not overlap.
- An exception between the first write and the last (an unavailable capability, a cycle of
  dependencies), and a crash, leave the status "running"; the workflow cannot be
  executed until the user pauses, cancels or takes it over.

Network:

- `retryPendingNetworkDeliveries` logs a delivery (`collaboration-runtime.ts:1081`) before the
  consumption and completion of its intent (1093, 1094), and the lines of one batch may be torn.
  A restart in between reads a delivered task whose intent is still consumed or approved; no retry
  meets it again, since the outbox has dropped its entry, and an approved intent can be
  cancelled although the work was done. Only a further call of `networkAwardBid` settles it
  (lines 1001-1008). `DeliveredIsSettled` excepts such tasks by name (`torn`).
- Of two overlapping calls that deliver one task, the second finds the intent
  completed, throws inside its `try` and records "pending_delivery" over "delivered"
  (`collaboration-runtime.ts:995-1072`); later awards report an unapproved intent.
- The loop of `retryPendingNetworkDeliveries` ends with the first late intent
  (`collaboration-runtime.ts:1078`, 1178); the results behind it are lost although the outbox
  has dropped their entries, so that these deliveries stay pending until they are awarded again.
- A job that finds an entry gone reports "delivered", also when another job has
  deleted it as expired (`durable-relay.ts:398`); `CompletedWasVerified` excepts it.
- Ids collide not only between runtimes: after a crash that lost a proposal its number is drawn
  again while outbox, relay and provider know the first one, and after a crash that
  lost an award the proposal may be awarded to another peer while the outbox keeps the
  envelope for the first. Each ends in a delivery recorded for work the winner did
  not do; `DeliveredWasDone` excepts both (`Ambiguous`).
- `LocalRelay.send` looks at `deliveredMessages` before it awaits `endpoint.accept` and
  adds the message after it (`openbuddy-network/src/index.ts:523-557`): two sends
  of one message are both accepted. Not modelled.
- A retry of the outbox checks neither trust nor agreement again; a torn log can keep
  the event of the blocked peer without those of its agreements, which a later
  change of trust makes usable again (`openbuddy-network/src/index.ts:643`).
- Revoking the agreement of a proposal does not stop a bid on it that rests on an
  agreement of another proposal; and a revoked agreement with one provider closes
  the proposal to all (`openbuddy-network/src/index.ts:698`). Trust that is set to "pending"
  revokes nothing. An Agent Card that expires, or whose trust root is revoked, while the
  runtime is down leaves its agreements accepted (cards are not modelled).
- An award whose contract is missing from its file stays pending (not modelled).

Relay:

- After a crash before a save the relay issues sequence numbers again
  (`remote-relay.ts:276`), and a client that has passed them misses the new records
  (`burnt`); the same crash forgets a revocation, or that an envelope was delivered, which
  is then accepted again (`disturbed`). Acceptance is repeated, too, when an
  acknowledgement is lost with its connection.
- Without a codec the envelopes that wait are not saved and a restart loses them.
- A half-open connection is noticed by neither module of the relay: there is no
  timeout, and a sender waits as long as the socket does.
- Expired envelopes stay in `pendingEnvelopes` and are offered by a replay; a
  capability token that is revoked while its envelope waits does not hold it back
  (tokens are not modelled).
- `onSync` does not await the promise of `revokeFederatedRoomGrant`
  (`collaboration-runtime.ts:626`): its failure does not hold the cursor back. Not modelled.
- The request to register and `registerEndpoint` are one step in `RemoteRelay`; a second
  registration on the same socket is not modelled.

## 9. What is not modelled

`PROJECT.json` lists every component with its reason. In short:

- In the collaboration core: Agent Cards, the publication of offers, registration of
  peers and presence (appear as conditions that hold, or as a lease that may expire);
  cards, envelopes and evidence are stateless cryptography and validation, and appear
  as a nondeterministic yes or no; `LocalRelay`, rooms, the inbox, the policy
  intersection and `appendTransition` for the reasons in section 2; the A2A adapter,
  a second carrier for the tasks of `TaskExecution`; the worker processes.
- Outside of it: sessions, plugins, authentication, capability packages, automation and
  teams are adapters around external services and processes; the Rust host answers
  single requests; the user interface, the sites and the tools show what the
  runtime reports. They are by far the larger part of the repository: the modules stand
  for the core of the protocol and leave aside its surroundings. Candidates for
  a later module are the pending sends of `openbuddy-email`, whose record may fail
  after the message was sent (`openbuddy-email/src/index.ts:2911`), and the coalescing of
  token refreshes.

Within the modelled components, left out are scopes and expiry of delegations,
several actions of one intent, the contents of the contract file, the abort signal
`executeCollaborationTask` does not pass, and the wording of reasons, except where a comparison of reasons
decides whether a record is repeated, which the model leaves open.
