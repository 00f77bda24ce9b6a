# RiriCloud: specifications

RiriCloud is a proxy management platform: a NestJS **master** (`apps/server`), a Go **agent** on every node (`apps/agent`) that runs a sing-box kernel, and a React frontend (`apps/web`). The master bills what the agents report, hands them configurations and tasks, and sells plans; an agent keeps one kernel running with the configuration it was sent.

This directory holds TLA+ models of the parts where an order of steps, a failure or a restart can do harm, the TLC configurations that check them, and TLAPS proofs of the results that hold for every value of the constants.

- [The system](#the-system): components, state, operations, what is hard
- [Plan](#plan): modules, runs and theorems, done and to come
- [TrafficAccounting](#trafficaccounting-and-metering), [TaskPolling](#taskpolling), [KernelManager](#kernelmanager), [ConfigSync](#configsync-and-replicas), [Ledger](#ledger), [ProbeTasks](#probetasks), [MirrorSessions](#mirrorsessions): model, code, properties
- [Runs](#runs), [Bounds](#bounds), [Fairness](#fairness), [Proofs](#proofs)
- [Disagreements found](#disagreements-found), [Not modelled](#not-modelled)

Run a check with `tlc -config TrafficOrdered.cfg MCTrafficAccounting`, a proof with `tlapm TaskPollingProofs.tla`.

## The system

`AGS` stands for `apps/server/src/agent-gateway/agent-gateway.service.ts`, `AG/` for `apps/agent/internal/`.

| Component | State | Operations | Hard because | Correct when |
|---|---|---|---|---|
| Traffic accounting (AGS, `AG/stats`) | kernel counters; `pendingHeartbeats`, `heartbeatRetryTimers`, `writeTail`, hourly buckets in memory; `TrafficCursor`, `User`, `TrafficHourlyMetric` rows | heartbeat, queue and merge, write with retries, flush of the metrics | asynchronous reads before a serial writer; two transactions per heartbeat; retries; kernels that restart and masters that stop | every byte is billed at most once, none behind the cursor is forgotten, handlers are answered, metrics add up |
| Task delivery by polling (AGS, `AG/poll`, `AG/restart`) | `binaryDeploymentTask` rows, `pendingTasks`; the agent's `pendingResults`, `runningTasks`, `completedTasks` | request, retry, poll, hand out, run, report, restart | answers are lost after they took effect; redelivery after a minute; either side restarts in between | no result is lost, no task runs twice, a settled task stays settled, every task ends |
| Kernel manager (`AG/singbox/manager.go`, `AG/upgrade`) | intent behind a mutex, one child process, the configuration file, the package's files | apply, reject and restore a configuration; supervise; upgrade and roll back; shut down | four kinds of goroutines; decisions on copies; one wake-up slot; multi-file replacement | one kernel, whole packages, accepted configurations take effect, nothing is left behind |
| Configuration delivery (AGS) | `configRevision`, `configCache`, `configVersion`, debounce timer and waiters | invalidate, build, push, poll | building awaits while revisions move on; two transports | what is sent last was built from the last change |
| Agent connections (AGS, `agent.gateway.ts`, `AG/ws`) | `sockets`, node status, `lastSeenAt` | register, replace, supersede, unregister, sweep, reconnect | a close event of an old socket, a sweep on rows read earlier | the registry holds the newest socket; a node that reports is online |
| Subscriptions, quota periods, purchases (`subscription/`, `plans/`, AGS) | `Subscription`, `PlanPurchase` rows | buy, renew, upgrade, reset, exhaust | limits counted before an insert, quota read before a reset in one transaction | limits hold, a reset forgives only the old period |
| Wallet, redeem codes (`wallet/`, `redeem-codes/`) | balances, ledger rows, codes | adjust, redeem, revoke | two requests at once | the ledger adds up to the balance; a code is used once |
| Device limit (AGS, `AG/devices`) | reports per node, cool-downs, agent blocks | report, kick, block | reports of several nodes, kicks in flight | devices over the limit and only those are kicked |
| Mirror sites (`mirrors/`, AGS, `AG/ws`, `AG/mirror`) | `mirrorSessions`, `activeTaskIds`; the agent's jobs | start, stream, cancel, time out, disconnect | six ways to end, in any order and also during the start; connections replaced under a stream | each request ends once and frees its session; no client takes a part for the whole, but for frames refused over a quota |
| Probe tasks (`probe/`) | task map, queue, four workers, sequence numbers | start, chunk, cancel, expire | cancellation while a chunk is persisted | no worker is lost; an older result never replaces a newer |
| Sign-in, verification, captcha, rate limits | codes with attempts, counters | send, verify, consume | the same code presented twice | a code is consumed once and guessed at most five times |
| Logs, events, clean-up; upstreams and proxy pool; administration of lines, nodes, certificates, settings; statistics; binaries; mail; tunnels; agent logs, shaping, console; frontend | rows, buffers, files | mostly create, read, update, delete | little beyond input and output | validation |

How they interact: an agent speaks to the master over a WebSocket or by HTTP polling. Both carry heartbeats up (into traffic accounting, device limits and node status) and configurations and tasks down. Every change of an administrator ends in `pushConfigToAll`, which the agent hands to its kernel manager; a kernel restart (configuration, crash, upgrade) resets the counters that traffic accounting reads. All database writes caused by agents go through one promise chain (`enqueueAgentWrite`).

The most important hazards of these components, each at its line, are in `PROJECT.json` with the properties that cover them; those without a property say which step of the plan they wait for, or why none is stated.

## Plan

Written in this order, the most important behaviour first.

| | Module | Abstract specification | State of it |
|---|---|---|---|
| 1 | `TrafficAccounting` | `Metering` | checked, safety proved (`TrafficAccountingProofs`, on `SumTheorems`) |
| 2 | `TaskPolling` | | checked, safety proved (`TaskPollingProofs`) |
| 3 | `KernelManager` | | checked, safety proved (`KernelManagerProofs`) |
| 4 | `ConfigSync`: revision barrier, cache, pushes, polls, connections and their replacement | `Replicas` | checked, safety and the safety part of the refinement proved (`ConfigSyncProofs`) |
| 5 | `Ledger`: accounts, wallets, purchases, codes, quota periods | | checked, proved (`LedgerProofs`) |
| 6 | `ProbeTasks` | | checked, safety proved (`ProbeTasksProofs`) |
| 7 | `MirrorSessions` | | checked, safety proved (`MirrorSessionsProofs`) |
| 8 | `DeviceLimit`; billed bytes at rates other than 1, against exact arithmetic | | to come |
| 9 | tunnels | | perhaps |

Configuration delivery and agent connections share `sockets`, so they are one module rather than two composed ones: what a push reaches depends on the connection the registry holds at that moment.

All modules declare their parameters as CONSTANTS with named assumptions, have one action per transaction, critical section or `await`-free stretch of code, and use no RECURSIVE operator.

## TrafficAccounting and Metering

One counter is a credential in a direction on a node. An agent's kernel counts (`Traffic`), restarts (`KernelRestart`) and is sampled into a heartbeat (`Heartbeat`); a sample that could not be read carries no snapshot. The master's steps:

| Code | Model |
|---|---|
| `handleHeartbeat` before it queues (reads of device and capability data) | `prelude`, a sequence per node; `PreludeInOrder` says whether the reads keep the order of arrival |
| `pendingHeartbeats`, merge or start of a drain | `pending`, `Enqueue`, `Merge` |
| `drainHeartbeats`, `enqueueAgentWrite`, `writeTail` | `tail`, a sequence of write jobs whose head is running; `attempt` |
| `persistHeartbeat`: the Node row, then `persistTrafficSnapshots` in a transaction | `PersistTelemetry`, `PersistTraffic` |
| a failing attempt, the last failing attempt, the retry timer | `AttemptFails`, `HeartbeatWriteFails`, `RetryTimer` |
| hourly buckets, timer, flush and merge-back | `bucket`, `FlushHourly`, `FlushCommits`, `FlushFails` |
| the end of the process | `Stop` |

A drain is not a variable of its own: it exists as long as its job is in `tail`, and `Resolve` lets it go on with what is in the map when its write ends. History variables: `metered` (all a counter ever measured), `mark` (what it had measured when the cursor's sample was taken), `billed`, `waiting`, and the `taken` part of a heartbeat.

The rows of one counter are billed at rate 1 and one billed amount stands for the owner's `trafficUsedBytes`, split by counter.

Properties: `NoOverBilling`; `ChargedUpToCursor` (nothing behind the cursor forgotten); `HandlersAnsweredOnce`; `HourlyMatchesBilled`; `EveryByteReachesTheCursor`. The inductive reason of the first, `SamplesInOrder`, stands with the proofs: from the cursor through the queued writes and the heartbeats still being read to the kernel, samples are in the order they were taken, where *x before y* means that billing the difference of the readings charges no more than was metered between them. That relation is what makes a kernel restart harmless: a reset counter reads less than it metered, never more.

`Metering` promises that bytes are measured one at a time and each charge moves one node's billed amounts forward within what that node measured. `ImplementsMetering` says the pipeline implements it, `metered` and `billed` mapped to themselves.

## TaskPolling

One node whose agent polls. `row`, `queue` and `recent` are the master's `binaryDeploymentTask` rows, `pendingTasks`, and what was handed out within the last minute; `handler` holds the polls the master is working on, step by step (`HandleResult` for each result, `TakeTasks`, `MarkDispatched` for each row, `Answer`). `stage`, `completed` and `pending` are the agent's goroutines, `completedTasks` and `pendingResults`; `sent` and `awaiting` are the poll in flight. `Timeout` is the agent's HTTP client giving up while the handler goes on, `PollFails` a lost request or answer, `RestartAndExit`, `AgentCrash` and `MasterStop` the ends of the two processes. `receipts` is history: results the master has handled; so is `overtaken`, by handler: tasks of the answer it prepares whose result another handler has dealt with meanwhile.

`kick_devices_task` behaves as `probe_task` does and shares `Probes` with it. The time a task was requested is a number, so that "the oldest first" is an order.

Properties: `ResultsSurvive` (a result waits until a poll that carried it was handled); `OneResultPerTask`; `AnsweredTasksDoNotRunAgain`, in any later agent process; `SettledUnlessOvertaken`; and the liveness properties `TasksAreAcknowledged` and `UpgradesSettle`.

The second pair of safety properties makes one exception, which the code has: a client gives up after 20 seconds and polls again, while the master still prepares the first answer. If the second poll carries the result of a task of that answer, the answer is *overtaken*: it marks the settled row as dispatched again, and hands out the task again, which an agent that was restarted in between runs. `tasks_redelivery` goes through both. The liveness properties have two: an agent that restarts itself before it has submitted the result, again and again (`RestartsCease` excludes it), and an upgrade that was reopened, by a retry or an overtaken answer, which the agent that has completed it ignores (`Reopened`).

## KernelManager

An action is one critical section of `Manager.mu`, or one effect on the disk or on a process, of one goroutine: `ApplyConfig` (`WriteConfig`, `Accept` or `Reject` and `Restore`), the supervisor (`Snapshot` to `Quit`), the waiter of a process (`Reap`), `UpgradeKernelFiles` (`BeginUpgrade` to `Undone`), and the agent's end (`Cancel`, `Shutdown`). `gracefulStopCurrent` is used by the supervisor and by an upgrade, which may be in it at once; it is `StopChild` followed by a wait for `Stopped`.

The configuration a process runs is what is on the disk when it reads it (`Load`), not what the supervisor means to start. A wait on a captured exit channel is `sup.watched`; `nextStartAt` is `cooling`, which an early end may or may not set, and the supervisor's timer is `sup.timer`. `starts` says which version can be started at all: the first one can, a new one perhaps not. `old` and `new` are relative to the latest upgrade, so `BeginUpgrade` renames what is installed to `old`.

Properties: `OneKernel`; `PlannedStopsAreNoFailures`; `PackageIsWhole`; `NoKernelLeftBehind`; `AcceptedConfigIsStarted` (no wake-up is lost on a configuration); `ShutdownEnds`.

## ConfigSync and Replicas

The master builds a node's configuration from the database (`getDesiredConfigSync`), keeps it in `configCache` until something is invalidated, sends it over the node's WebSocket or answers a poll with it. A configuration is abstracted to the set of changes it is sure to contain, those committed before its build began; its version number and its contents do not matter to the properties. `configRevision` is a counter in the code; what is asked of it is only whether it is still what it was when a build began, so each build has a flag `fresh` that every invalidation clears.

| Code (AGS unless noted) | Model |
|---|---|
| `invalidateConfig`, the loop of `getDesiredConfigSync` | `Invalidate`, `Stale`, `NewBuild`, `Desired`, `Resolve`, `BuildAgain` |
| `pushConfig` before and after its await | `StartPush`, `FinishPush` |
| a service commits and announces | `Commit`, `PushConfig`, `PushEnds`, `PushConfigToAll` |
| timer, waiters, `flushConfigToAll` | `Debounce`, `StartFlush`, `FlushNode`, `FlushedNode`, `FlushEnds`, `PushFails` |
| `agent.gateway.ts`: authentication, `register`, handlers attached, first push | `Register`, `DispatchQueued`, `Admit`, `FirstPush` |
| `unregister`, `supersedeSocket` | `HandleDisconnect`, `TakeOver` |
| `handlePoll` from the configuration on | `AskDesired`, `GetDesired`, `NeedUpdate`, `Discard`, `PollFails` |
| `AG/ws/client.go`, `AG/poll/client.go` | `Dial`, `Read`, `HangUp`; `SendPoll`, `Receive`; `Applies` |
| breaks, time-outs, restarts of either side | `Break`, `Timeout`, `AgentRestarts`, `MasterRestarts` |

Everything between two awaits is one step. A connection has the frames on their way to the agent in `wire`, and stages for the awaits of its handshake: a connection may close while the master still registers it (`missed`: no close handler was attached yet), and the Map of sockets is iterated live while a flush sends, so a node that reconnects is visited again. `known` (what a node's data was when it was last invalidated), `unsent` and the `sent` part of a connection are history.

Properties: `CacheIsCurrent` (no build that began before an invalidation enters the cache after it); `AnsweredAfterPush` (a caller is not answered by a flush that was underway when it came); `ServedIsCurrent` (whatever closes late, a connection that is open and served is the one pushes go to); `CallersAnswered`; and the refinement `Delivers`.

`Replicas` is what delivery promises: each node has a latest configuration and a copy at its agent; a copy is only replaced by one that contains it, a fresh agent process has none, and in the end each copy is the latest, except that the master may have given a node up. `Delivers` maps `latest` to the committed data, `held` to what the agent was given last, and `givenUp` to the nodes whose last push over a WebSocket failed to build: nothing tries that again until the next change or connection. With polling nothing is ever given up. What an agent refuses counts as given; over polling it is sent again, over a WebSocket it is not.

## Ledger

Accounts, wallets, purchase identities, redeem codes and subscriptions (`subscription/`, `wallet/`, `redeem-codes/`, `plans/`, `users/`, the billing half of AGS). SQLite runs one transaction at a time, so each is one step; but several handlers decide on rows they read *before* their transaction, and that is where they race. Those readings are kept in `request`:

| Code | Model |
|---|---|
| `subscribe`, `adminAssign`, `adminRemove`, `expireSubscriptions` | `Subscribe`, `AdminAssign`, `AdminRemove`, `ExpireSubscriptions` |
| `upgrade`, `renew`, `cancel`, `adminUpdate` | `Ask...` reads and decides, then `Upgrade`, `Renew`, `Cancel`, `AdminUpdate`, or `Fails` |
| `ensureTrafficReset`, `resetDueTrafficPeriods` | `AskReset`, `Reset` |
| the billing transaction of `persistTrafficSnapshots` | `Bill`, of a sample observed this month or the last |
| `PlanPurchasesService`: `ensureIdentityForUser`, `claim`, `prepareEmailChange` | `Identity`, `Foreign`, `Aliased`, `Claim`, `LimitedClaim`, `Bindable` |
| `applyBalanceChange`, `syncUserMirror` | `Affordable`, `Mirrored` |
| registration with a default plan, accounts an administrator creates, changes of address, deletion | `Register`, `CreateUser`, `ChangeEmail`, `DeleteUser` |
| `redeem`, `revoke` | `Redeem`, `Revoke` |

A purchase identity is an anonymous row in the code; here it bears the name of the first account that has it. Time passes in months, the period of the `CALENDAR_MONTH` reset. `bought` and `redeemed` count, by address, what the limits are meant to bound; `fresh` is what was billed in this month since the last purchase or renewal, `missed` the part of it billed while an administrator's form was open, and `lost` what the quota does not count of it. `AdminRemove` and `DeleteUser` drop the user's requests: their transactions would find no row.

Properties: `LimitPerAddress` (limits of plans and of categories of codes survive deletion, registration and changes of address); `NoForeignHistory` (an account never has an address whose history is another identity's, in which case its purchases, its deletion and its changes of address would all be refused); `QuotaCountsPeriod` (a reset forgives the old period only, in whatever order it is decided, raced and billed, and the user's row agrees with the subscription's; two faults of the code take bytes from the quota, and `lost` counts them: an administrator's form writes the usage back as it was read at `subscription.service.ts:524`, and a reset that was decided earlier wipes the usage of a plan without periods to which a renewal has left one); and, as part of `TypeOK`, that no balance is overdrawn.

## ProbeTasks

`apps/server/src/probe/`. A task measures a set of resources, `ChunkSize` at a time, on one of a few workers; `start`, `pump`, `finish`, `cancel` and the deadline are `Start`, `Pump`, `Finished` and `End`. A chunk goes through its awaits one by one: `Snapshot` for each row, `Execute` when the engine is called, `EngineFails` when it throws, before its first result or after some of them, `Accept` and `Persist` and `Settle` for each result, `ChunkEnds` or `Aborts`. Tasks overlap in their resources; `launches` remembers which asked for a resource last, and a write is dropped unless it comes from that one and the row is as it was read. Sets of resources stand for the arrays, so the order within a chunk is any.

Properties: `Scheduled` (a task that has not ended is in the queue once or in one worker's hands, and the number of busy workers is right, however tasks are cancelled under them); `NewestWins` (a row never goes back to the result of an older task); `ResultsAreFinal` (no late result changes what an ended task reports); `TasksEnd`.

## MirrorSessions

An HTTP request for a mirror site is answered by a job of the node's agent: the master sends `mirror_request`, keeps a session under the task's id in `mirrorSessions`, and passes on the headers, chunks and end that come back. `Tests` are an administrator's tests of a site, which go the same way and are satisfied by the headers.

| Code | Model |
|---|---|
| `proxy`, `test` up to the start: the site is read, checks, the timer, the close listener | `Ask`, `Prepare` |
| `startMirrorTask` and what follows it | `Accept` (`Opened`), `Reject` |
| the timer, the close of the response, `cancelActiveTasks` | `Timeout`, `Closes`, `EditSite` |
| `isCurrentSocket`, `handleMirrorText`, `handleMirrorBinary`, the handlers of the request | `Arrive`, `Heard` |
| `consumeQuota` and the `client.close(1008)` after it | `Refuse`, `OverQuota` |
| `finish`, `onError` | `Over`, `Answered`, `Freed`, `Failed` |
| `handleConnection`, `register`, `supersedeSocket` and `disconnectNode`, `unregister` | `Dial`, `Register`, `Attach`, `TakeOver`, `HandleDisconnect` |
| `AG/ws`: `readLoop`, `runOnce`, `handleMirror`; `AG/mirror`: `Do` | `ReadRequest`, `HangUp`, `Headers`, `Chunk`, `Completes`, `Fails` |

`request` is one HTTP request with what its client has been given (`got`, `answer`: `complete`, an `error` as the response, or `broken` off); `link` the connections as the master has them, `socket` the current one; a job keeps all frames it has written, and the master has read a prefix of them. A frame on a connection that is not the current one is dropped, as the code does. One that exceeds what a connection may send in a minute is dropped, too, and the connection told to close; until its close arrives it stays the current one (`closing`), nothing can be sent to it any more, and frames that fit the quota again are heard. Sizes and times are left out, so any frame may be refused and any later one heard; `lost` counts those refused. A connection the agent has given up may stay open to the master as long as it likes.

The connections are modelled here once more and not shared with `ConfigSync`: there a connection carries configurations and is what a node is served by, here it matters which frames of a stream it still carries. Of the handshake both keep the moment before the handlers are attached, where a close is missed.

Properties: `SessionsAreWanted` (a session exists only for a request that still waits, however and whenever requests end, and an edit of the site finds it); `AnswersAreWhole` (a response said to be complete has every frame the agent sent but those refused for the connection's quota, and one given as an error no chunk of it, although frames of replaced connections are dropped in the middle of streams); `RequestsEnd`; and, as part of `TypeOK`, that the end of a request is recorded once.

## Runs

| Run | Result | What it shows |
|---|---|---|
| `traffic_ordered` | holds | no byte billed twice or forgotten, refinement of `Metering`; no write fails for good |
| `traffic_outage` | holds | one write fails for good, one stop of the master: handlers answered once, metrics add up, all bytes reach the cursor |
| `traffic_double_billing` | violation | with a write that fails for good, `NoOverBilling` does not hold |
| `tasks_redelivery` | holds | two polls handled at once: the safety properties with a lost or timed-out poll, a retry, a crash and a stop |
| `tasks_acknowledged` | holds | the liveness properties of an agent upgrade and a restart that share answers of one task, with a retry, a lost poll, a crash and a stop |
| `kernel_manager` | holds | all properties of `KernelManager` above |
| `config_changes` | holds | two changes and an upgrade against builds, a flush, a poll and a connection that is made anew: the cache is current, callers are answered after their push |
| `config_delivery` | holds | one change, two connections, two polls and one fault: refinement of `Replicas` with its liveness, every caller answered, and the connection that is served is the one delivered to |
| `config_first_frame` | violation | a queued upgrade goes out before `auth_result` |
| `ledger` | holds | all properties of `Ledger` above |
| `probe_tasks` | holds | all properties of `ProbeTasks` above |
| `mirror_sessions` | holds | all properties of `MirrorSessions` above |

Every property of a passing run has a mutant in `PROJECT.json`: a plausible fault in a definition (`MergeReplacing` forgets the earlier handlers, `KeepAll` never acknowledges, `QuitAtOnce` leaves the kernel behind, `ForgetAny` lets the close event of an old socket remove the new one) under which TLC finds that property violated. The faulty variants stand in the modules just before the definition they replace.

## Bounds

Every bound is a constant whose name begins with `Max`, or the size of a set.

- *Traffic*: one node and one credential, since nodes share only the writer, whose other jobs only delay; both directions of the credential are counted. Two heartbeats in flight are what merging, overtaking and putting back need; two bytes per counter let a sample differ from the cursor and from the counter at once, also after a restart. `traffic_outage` has one byte, one stop and one outage, and one attempt per write, as its properties do not depend on how often a write is tried before it fails; `traffic_ordered` has two attempts. Every credential is billable in the runs; the theorems cover those that are not. The theorems hold without any of these bounds.
- *Tasks*: in `tasks_redelivery` a kernel upgrade stands for rows and a probe for tasks kept in memory, with two handlers, which one time-out lets overlap, one retry, one crash and one stop, and answers of two tasks (the code's 8); the tasks that restart the agent add nothing to a restart that a crash does not do. `tasks_acknowledged` has those, an agent upgrade and a restart, as they are hard to end, with answers of one task, as starvation is the question. It has one handler, which lives on after a time-out of the client until it has answered: liveness with two is out of TLC's reach. The safety properties are proved for any number of handlers, tasks and faults.
- *Kernel*: two process identities suffice, one still being waited for while the next runs; identities are reused. Two configurations from the master, one valid and one not, an upgrade of two files and one fault (a crash, a failed start, a failed replacement) interleave in every way with a shutdown.
- *Configurations*: one node, as nodes share only the revision, whose effect on other nodes is a build done again; two changes, so that one is announced while the other is being built or flushed; two connections, the old and the new, their identities reused; two polls in `config_delivery`, where a time-out lets one overtake the other. `config_changes` has two changes, an upgrade, one connection identity and no faults, and its connection is still replaced, as an upgrade sent before `auth_result` makes the agent dial again; `config_delivery` has one change, one fault and both connections, with `Patient`. An upgrade is left out of `config_delivery`, as the disagreement `config_first_frame` shows would end the connection. The safety properties are proved without bounds.
- *Ledger*: two accounts and two addresses let an address pass from one account to another in every order; two plans, one limited, free and monthly, one to pay for and without periods; a code for each kind of reward; one request between its reads and its transaction, against which everything else runs; one change of month; one batch billed, also while an administrator's form is open; one act of an administrator. A period left to a plan without periods needs two requests at once and is covered by the theorems only, which hold for any number of them.
- *Probe tasks*: two tasks of one owner over one or both of two resources in chunks of one: overlap, a second turn in the queue, and both at work at once; one change of a row. The code's 4 workers, 32 per chunk, 2 per owner and 20 in all are the parameters.
- *Mirror sessions*: a proxied request and a test, which share nothing but the sessions and the connection; two connections, the one a job answers by and its successor; one chunk, so that an answer may break before, after and in its middle, and a chunk be refused before the end. Each connection is dialled once, in the order of their numbers, where the code has as many as it likes: a frame is dropped or heeded by its own connection only. The theorems hold without these bounds.

`CHECK_DEADLOCK FALSE` appears where the system may fall silent: after the agent has been stopped (`KernelManager`), when changes and faults are used up (`ConfigSync`), when all codes, months and grants are (`Ledger`), when all tasks have ended (`ProbeTasks`), when all requests and connections have (`MirrorSessions`).

## Fairness

- Handlers, promise continuations, goroutines and timers get to run: weak fairness of each of them. The database is written in the end because failures are bounded by `MaxOutages` and a write that fails for good is retried by a timer.
- An agent sends heartbeats and polls for ever; that it can read its kernel's counters again and again is strong fairness of `Heartbeat(n, TRUE)`, as it may fail any number of times in between.
- A task ends because each has a time-out in the agent; a minute passes.
- A signalled process ends (the code kills it after a grace period), a started one reads its configuration, a back-off ends. Nothing makes a configuration, an upgrade or a fault happen. `Shutdown` follows the cancellation, as `runForeground` calls it when the client's `Run` returns.
- In `ConfigSync` agents dial, read and poll, and notice a closed connection; changes, upgrades and faults happen or not. `config_delivery` sets `Patient`: an agent waits at least a second before it dials again (`client.go:251-271`), and by then a master that keeps up is done with the builds and handshakes of its node (`Quiet`). Without it a node that breaks its connections for ever would keep a flush revisiting it. `client.go:273` says the wait is reset after an ordinary end of a connection; the code never does that, which makes the agent only more patient.
- In `ProbeTasks` the queue is pumped and chunks go on, as the engines' own time limits end a measurement. The deadline of a task is left to chance and not needed.
- In `MirrorSessions` the database answers or the timer runs (`Serve` or `Timeout`, whichever comes first); nothing is assumed of agents, connections, upstreams and clients.

## Proofs

| Theorem | For every | Assumptions |
|---|---|---|
| `TypeCorrect` (traffic) | nodes, credentials, bounds | those of the constants |
| `EveryHandlerAnsweredOnce`, `HourlyMetricsMatchTheBill` | nodes, credentials, heartbeats in flight, attempts, outages, stops | those of the constants |
| `SamplesStayInOrder`, `NeverOverBilled`, `PipelineImplementsMetering`, `EverythingUpToTheCursorIsCharged` | nodes, credentials, heartbeats in flight, attempts, stops | `MaxOutages = 0` and `PreludeInOrder` |
| `TypeCorrect`, `ResultsAreNeverLost`, `NoSecondResult`, `HandsOutOpenTasks`, `SettledStaysSettled`, `AnsweredStaysAnswered` (tasks) | tasks, handlers, batch sizes, faults, crashes, stops | those of the constants |
| `TypeCorrect`, `AlwaysOneOwner`, `NeverTwoKernels`, `NothingLeftBehind`, `PlannedStopsCount`, `PackageStaysWhole` (kernel) | configurations, processes, package sizes, applies, upgrades and faults | those of the constants |
| `TypeCorrect`, `CacheStaysCurrent`, `ServedStaysCurrent`, `AnsweredAfterThePush`, `DeliveryKeepsReplicas` (configurations) | nodes, changes, connections, polls, upgrades and faults | those of the constants |
| `TypeCorrect`, `LimitsHold`, `HistoryIsOwn`, `UsageMirrored`, `QuotaIsKept` (ledger) | accounts, addresses, plans with and without periods, codes, prices, limits, requests, edits | those of the constants |
| `TypeCorrect`, `EveryTaskIsScheduled`, `EndedTasksStay`, `NewestTaskWins` (probe tasks) | owners, resources, workers, chunk sizes, limits, tasks, changes | those of the constants |
| `TypeCorrect`, `SessionsStayWanted`, `AnswersStayWhole` (mirror sites) | requests, tests, connections, chunks | those of the constants |

*Traffic.* `NoOverBilling` alone is not inductive: whether the next charge is covered depends on the order of everything between the kernel and the cursor. `SamplesInOrder` says that order; its parts are the map being empty (no write has failed for good), the stored sample coming before the live one, the same between any two samples waiting to be read or written, and `billed` being covered by `mark`. Four lemmas say what can happen to the *before* relation (a byte is measured, a kernel restarts, a sample is taken, samples are dropped); `PersistKeepsSamples` moves the cursor to the head of the queue. The refinement follows: a charge fits below what was metered since `mark`. The two assumptions are not for convenience: without either the property fails, `traffic_double_billing` shows it for the first.

*What is not forgotten.* `ChargedUpToCursor` compares what is billed with the cursor, and says nothing of the samples that will move it. `UnbrokenIsExact` does: for a counter whose kernel never restarted, the counter is all that was metered, and every sample on its way, still being read, queued, being written or stored, holds exactly what had been metered when it was taken. A sample that lies before the cursor would charge nothing more, one after it charges the difference, and the order of `SamplesInOrder` excludes the first.

*Sums over the queue.* `HandlersAnsweredOnce` and `HourlyMatchesBilled` add up over the jobs in `tail`, which grows at one end and shrinks at the other. `SumTheorems` proves what `SumFunction` of the community modules does then: the sum over no jobs is 0, a job at either end adds its own amount, and functions that agree have the same sum. The library's induction theorems take an operator, which the provers cannot instantiate; `SetInduction` says the same of a *set* of numbers, follows from the existence of minimal elements, and serves for sums over finite sets by taking the set of sizes for which they are right. These two theorems hold whatever fails: a job that fails for good gives its handlers an answer and its batch back to the buffer.

*Tasks.* `Kept` (`ResultsSurvive` with `SentIsHandled`, which says that a handler that is about to answer has worked through everything in `sent`) is inductive for any number of handlers. `Open` (`HandedOutIsOpen`, `QueueIsOpen`, `UnknownUntilRequested`) is, too: what a handler hands out is open unless the handler was overtaken, and `HandleResult` records that for every other handler at the moment it settles a task. So a task that was handed out is open when its answer arrives, or overtaken, and so is a row that is marked.

*Kernel.* `OneKernel` does not say who started a second process, so it is not inductive. `OneOwner` is: whatever has not been reaped is the recorded child, or what the supervisor has started and not recorded yet, and the supervisor is on its way to a start only while there is no child. `OneKernel` and `NoKernelLeftBehind` follow from it at once. `SignalledIsPlanned` adds that a signalled process is the one whose end is planned, so an upgrade and the supervisor stopping the same kernel agree, and recording a child forgets nothing. `Progress` says how far an upgrade has come, file by file; it makes `PackageIsWhole` inductive for packages of any length.

*Configurations.* `BarrierInv` adds to `CacheIsCurrent` that a build which is still fresh saw everything its node was invalidated for, and that nothing is known that is not committed: that is what lets a finished build into the cache. `ServedInv` carries `ServedIsCurrent` through the stages of a handshake: the current connection of a node is one of its own that has registered, and a connection builds for its own node, not before it is admitted. `AnsweredAfterPush` needs the longest chain: a change that has been announced is known at its nodes, and a caller who waits does so in exactly one round (`CallsInv`); a node of a change that was answered has been reached, and so has a node a round has visited, for everything the round's waiters announced, unless its push is still being built (`ReachInv`). *Reached* means that the current connection was sent the change, or will be by the push it begins with, or that the node was given up.

*Delivery refines `Replicas`.* `DeliveryKeepsReplicas` says that each step is one of `Replicas` or leaves all copies alone: `Spec => Replica!Safe`, where `Safe` is `Replicas` without its last promise, that copies settle. An agent that reads or receives takes a copy that was handed out earlier, and what is to be shown is that it contains the one the agent had. *Handed to a node* (`HandedTo`) means: committed, contained in the cached configuration, and, while nothing is cached, seen by every build that is still fresh, so that the next one to enter the cache contains it as well. That stays true (`HandedStays`): a commit adds, an invalidation leaves no fresh build but one that reads everything committed, and a build that resolves is checked against it. `DeliveryInv` says that an agent's copy, every configuration on the wire of its connection and the answer it awaits were handed to it, the wire in growing order (`Grows`) and all of it containing the copy; it needs to know that an agent is on one transport at a time, that its connection is nobody else's and that a poll builds for its own node (`AgentsInv`, `PollsBuild`).

*Ledger.* `HistoryInv` says that the address of an account which has an identity belongs to that identity. With it `BoughtOK` and `RedeemedOK` bound what was bought and redeemed under an address by what the address's identity has counted, and the limits follow: an address never changes its identity, and counts only grow. `RequestsOK` says what a request may still write however stale it is (its user still has the row, a renewal writes no usage, a reset has read a period before its month), and `UsageInv` carries the mirror through it, since every step writes both rows. For `QuotaIsKept`, `QuotaInv` adds that a plan with periods whose period is missing or over has nothing billed in this month, so a reset that finds the period it has read forgives nothing of this month; and that the usage an open form has read is short of this month's bytes by no more than what was billed since it was opened or lost before. A reset of a plan without periods, which can be left a period by a renewal decided under another plan, loses what it wipes.

*Probe tasks.* `Scheduled` is inductive with `Numbered` (tasks are numbered without gaps, and one that was not started has no chunk); taking a task out of the queue and counting the busy workers are lemmas. `NewestWins` follows from `Ordered`: whoever asked for a resource last is at least as new as what its row holds, and a write needs to be that one.

*Mirror sites.* `SessionsAreWanted` is inductive with the types. For `AnswersAreWhole` the chain is: a task is asked for once, over one connection, and its job answers by that one (`Asked`); the first frame of a job is its headers or an error, and the last one alone is an end or an error (`Framed`); and as long as a session's job has the current connection, the client was given every frame the master has taken but those it refused (`Caught`), because a connection that has lost its place never becomes the current one again. So a job's end that is heeded is the end of all its frames, and what is missing was refused.

*Only model-checked:* the liveness properties (fairness and ENABLED are beyond the prover), the second half of `Delivers` among them: that copies settle. Every invariant and every action property of the runs that hold is a theorem.

## Disagreements found

Two have a violation run, described with their source in `PROJECT.json`: a failed older heartbeat written after a newer one and billed twice (`traffic_double_billing`), and an upgrade sent before `auth_result`, which makes the agent hang up and dial again (`config_first_frame`).

Others were met while the models were written and have no run:

- Buffered metrics are lost at a stop by signal: `main.ts:71` enables no shutdown hooks, so `onModuleDestroy` is not called (`docs/DATA_MODELS.md:1061` and `CHANGELOG.md:470` say they are flushed).
- With two polls handled at once, an answer in preparation marks an upgrade as dispatched again that the other poll has settled (`AGS:2775`), and hands out a task whose result the other has dealt with; an agent that was restarted in between runs it a second time.
- An upgrade an operator retries is ignored by an agent that remembers having completed it (`AG/poll/client.go:435`, `docs/API_AND_PROTOCOLS.md:109`).
- More results may wait than the master accepts in one poll (`AG/poll/client.go:371`, `docs/API_AND_PROTOCOLS.md:645`, `:664`): such a poll is refused every time.
- `ApplyConfig` reports a configuration as applied though a later one was written over it before the kernel read it (`manager.go:903`, `docs/API_AND_PROTOCOLS.md:496`); a kernel that ends between two checks of the supervisor's last round is not restarted (`manager.go:832`, `docs/ARCHITECTURE.md:99`).
- Two renewals at once are charged twice and extend the subscription once, as both write the expiry they computed from the same row (`docs/API_AND_PROTOCOLS.md:49`); a renewal that races an upgrade keeps the dearer plan with the months of the cheaper; two upgrades at once pass the check on prices each against the old plan (`:50`).
- A cancellation decided earlier may cancel or expire what was bought meanwhile, and turns a revoked subscription into a cancelled one, which is active. `adminUpdate` writes usage, limit and expiry back as it read them: what is billed between `subscription.service.ts:524` and `:558` is counted by no quota, and the `ledger` run goes through it. The usage of a plan without periods that a renewal has left one is wiped by a reset on its way.
- The first period of a calendar-month plan is always computed in one time zone (`docs/DATA_MODELS.md:882`); removing a subscription also deletes grants of lines that `docs/DATA_MODELS.md:888` says survive.
- A probe task cancelled between the commit of a result and its continuation reports that resource as cancelled though its row holds the result.
- A replaced, superseded or deleted connection leaves its mirror sessions behind: only the close of the *current* connection ends them (`AGS:2860`), so their requests wait for the timer of ten minutes, where `docs/ARCHITECTURE.md:325` and `docs/API_AND_PROTOCOLS.md:776` say that an agent's disconnection cancels and cleans up its sessions. The same holds for a connection that closes before its close handler is attached.
- A chunk over the connection's quota (120 frames or 4 MiB a minute, `agent.gateway.ts:8`, where `docs/API_AND_PROTOCOLS.md:780` allows answers of 256 MiB) is dropped, and the connection only begins to close (`agent.gateway.ts:40-44`, `:52-56`). An end that is small enough, or comes in the next minute, is heeded before the close is, and the client takes a part for the whole; the `mirror_sessions` run goes through it.
- An edit or the removal of a site takes the sessions away and leaves the responses open until their timers; a request that is still being started is not found by it.
- A client that leaves while the site is read is not noticed, as the close of the response is listened to afterwards (`mirror.service.ts:229`): its answer is fetched to the end. A request that ends while it is started stays in `activeTaskIds` (`mirror.service.ts:236`). A `mirror_cancel` read before the job has registered is lost (`AG/ws/client.go:430`, `:485`).

## Not modelled

- *Traffic*: rates and the rounding of billed bytes, the test for an exhausted quota (which reads the quota before the reset in the same transaction), the five-minute rate metrics (buffered as the hourly ones are). That hourly metrics are written in time is not claimed: after a failed flush nothing arms the timer.
- *Tasks*: delivery over WebSocket, where a result may arrive before the row is marked as dispatched; rollbacks and the confirmation of versions by heartbeats. That an agent upgrade or a restart task ends is claimed only if the agent does not restart itself for ever, as it may do so before it has submitted the result, any number of times. Nothing is claimed of an upgrade that is retried after its result was handled, nor of a result submitted again after the retry.
- *Kernel*: a process that outlives SIGKILL, the rewriting of loopback listeners, version numbers, time-outs of the precheck, a rollback that fails itself. An upgrade may begin right after the supervisor has copied `upgrading`; the model contains the start of a kernel during the replacement that follows, and no property speaks of it.
- *Configurations and connections*: the contents of a configuration; the node's ONLINE and mode columns and the stale sweep that corrects them; results of configurations and `configError`, which are written in the order they arrive; failures of the database inside `register`; ping and pong and the deadlines of a connection; tunnels and the traffic quotas that go with a configuration.
- *Ledger*: expiry dates and categories of codes (one category), rows of the balance history, limits of traffic and the account's state that follows from them, plans that are edited, hidden or deleted, traffic reset modes other than calendar months. `updateUser` writes the user and the subscription in separate statements; a failure between them is not modelled. Deleted codes can still be redeemed, by design.
- *Probe tasks*: the second kind of measurement (with launches and columns of its own, by the same scheme), engines, pages of results, the sweep of ended tasks, the end of the process.
- *Mirror sites*: `mirror_cancel` and the slots of the executor, which only let a job fail earlier or start later; what a site allows, its addresses, headers and limits; failures while a socket is written to; the restart of either process other than by `HangUp`.

The device limit is next in the [plan](#plan). The other components, with reasons, are listed in `PROJECT.json`: they are input and output, validation and presentation around the parts above.
