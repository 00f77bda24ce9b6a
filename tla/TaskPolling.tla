---------------------------- MODULE TaskPolling ----------------------------
(***************************************************************************)
(* Tasks for a node whose agent polls over HTTP.  The master keeps upgrade *)
(* tasks as database rows and the others in memory, hands out a batch with *)
(* the answer to a poll and hands a task out again a minute later as long  *)
(* as its result has not arrived.  The agent runs the tasks of an answer   *)
(* beside its poll loop and submits their results with later polls.        *)
(*                                                                         *)
(* One node, online in HTTP mode, seen from both sides.  A poll holds a    *)
(* handler of the master from the moment it is sent.                       *)
(*                                                                         *)
(* KeepNone, StartableAgain, KeepAll, OutcomeUnknown, SettledToo and       *)
(* DueOnce are faulty variants of the definition that follows them,        *)
(* used to show that a property notices such a fault; the specification    *)
(* does not use them.                                                      *)
(***************************************************************************)
EXTENDS Naturals, FiniteSets

CONSTANTS
    AgentUpgrades, KernelUpgrades,  \* upgrade tasks, by target
    Restarts,                       \* restart_agent_task
    Probes,                         \* probe_task; kick_devices_task runs alike
    BATCH,         \* most tasks in one answer
    RESULTS_MAX,   \* most results of a kind in one poll (AgentPollDto)
    Handlers,      \* bound: polls the master handles at once
    NoHandler,
    MaxRetries,    \* bound: retries of a settled upgrade by an operator
    MaxFaults,     \* bound: polls that fail or time out
    MaxCrashes,    \* bound: crashes of the agent
    MaxStops       \* bound: stops of the master

Upgrades == AgentUpgrades \cup KernelUpgrades
Tasks == Upgrades \cup Restarts \cup Probes

ASSUME TasksAssumption ==
    /\ IsFiniteSet(Tasks)
    /\ AgentUpgrades \cap KernelUpgrades = {}
    /\ Upgrades \cap Restarts = {}
    /\ Upgrades \cap Probes = {}
    /\ Restarts \cap Probes = {}

ASSUME BoundsAssumption ==
    /\ NoHandler \notin Handlers
    /\ BATCH \in Nat \ {0}
    /\ RESULTS_MAX \in Nat \ {0}
    /\ MaxRetries \in Nat
    /\ MaxFaults \in Nat
    /\ MaxCrashes \in Nat
    /\ MaxStops \in Nat

VARIABLES
    row,         \* status of an upgrade's binaryDeploymentTask row
    requestedAt, \* when a task was asked for, counting requests (0: not yet)
    queue,       \* pendingTasks of the node, kept in the order of requestedAt
    recent,      \* tasks handed out less than a minute ago
    handler,     \* the poll handlers of the master
    receipts,    \* history: tasks whose result the master has handled
    stage,       \* the goroutine of a task: runningTasks and where it is
    completed,   \* completedTasks
    pending,     \* pendingResults
    sent,        \* the results the poll in flight carries
    awaiting,    \* the handler whose answer the agent awaits, or NoHandler
    restart,     \* is restartRequested set, is restartSelf underway?
    retries, faults, crashes, stops

masterVars == <<row, requestedAt, queue, recent>>
taskVars   == <<stage, completed, pending>>
pollVars   == <<sent, awaiting>>
bounds     == <<retries, faults, crashes, stops>>
vars == <<masterVars, handler, receipts, taskVars, pollVars, restart, bounds>>

-----------------------------------------------------------------------------
Settled == {"COMPLETED", "FAILED"}
Unsettled == {"QUEUED", "DISPATCHED"}
Results == [task : Tasks, ok : BOOLEAN]

\* A handler works through the results of its poll, takes the tasks of its
\* answer, marks the upgrades among them one by one, then answers.  overtaken is
\* history: the tasks of the answer whose result another poll has handled since
\* they were taken.
Idle == [step |-> "idle", results |-> {}, marks |-> {}, tasks |-> {}, overtaken |-> {}]
Polls == [step : {"idle", "results", "marks", "answer"}, results : SUBSET Results,
          marks : SUBSET Upgrades, tasks : SUBSET Tasks, overtaken : SUBSET Tasks]

TypeOK ==
    /\ row \in [Upgrades -> {"NONE"} \cup Unsettled \cup Settled]
    /\ requestedAt \in [Tasks -> Nat]
    /\ queue \subseteq Restarts \cup Probes
    /\ recent \subseteq Tasks
    /\ handler \in [Handlers -> Polls]
    /\ receipts \subseteq Tasks
    /\ stage \in [Tasks -> {"none", "working", "replaced", "succeeded", "failed", "reported"}]
    /\ completed \subseteq Tasks
    /\ pending \subseteq Results
    /\ sent \subseteq Results
    /\ awaiting \in Handlers \cup {NoHandler}
    /\ restart \subseteq {"requested", "underway"}
    /\ retries \in 0 .. MaxRetries
    /\ faults \in 0 .. MaxFaults
    /\ crashes \in 0 .. MaxCrashes
    /\ stops \in 0 .. MaxStops

Init ==
    /\ row = [t \in Upgrades |-> "NONE"]
    /\ requestedAt = [t \in Tasks |-> 0]
    /\ queue = {}
    /\ recent = {}
    /\ handler = [h \in Handlers |-> Idle]
    /\ receipts = {}
    /\ stage = [t \in Tasks |-> "none"]
    /\ completed = {}
    /\ pending = {}
    /\ sent = {}
    /\ awaiting = NoHandler
    /\ restart = {}
    /\ retries = 0
    /\ faults = 0
    /\ crashes = 0
    /\ stops = 0

-----------------------------------------------------------------------------
\* Requests of an operator, and a kick of the device limit.  Every request makes
\* a task of its own; no identity is used twice.

Request(t) ==
    /\ requestedAt[t] = 0
    /\ requestedAt' = [requestedAt EXCEPT ![t] =
           Cardinality({u \in Tasks : requestedAt[u] > 0}) + 1]

RequestUpgrade(t) ==
    /\ Request(t)
    /\ row[t] = "NONE"
    /\ row' = [row EXCEPT ![t] = "QUEUED"]
    /\ UNCHANGED <<queue, recent, handler, receipts, taskVars, pollVars, restart, bounds>>

\* The same task once more: its identity and its place in the order stay.
RetryUpgrade(t) ==
    /\ retries < MaxRetries /\ retries' = retries + 1
    /\ row[t] \in Settled
    /\ row' = [row EXCEPT ![t] = "QUEUED"]
    /\ UNCHANGED <<requestedAt, queue, recent, handler, receipts, taskVars, pollVars,
                   restart, faults, crashes, stops>>

SendTask(t) ==
    /\ Request(t)
    /\ queue' = queue \cup {t}
    /\ UNCHANGED <<row, recent, handler, receipts, taskVars, pollVars, restart, bounds>>

-----------------------------------------------------------------------------
\* A poll, seen from the agent.

OfKind(kind) == {r \in pending : r.task \in kind}

Submittable ==
    \A kind \in {Upgrades, Restarts, Probes} : Cardinality(OfKind(kind)) <= RESULTS_MAX

\* Every pending result goes with the poll; the master refuses one with more
\* than RESULTS_MAX of a kind, which changes nothing on either side.
SendPoll(h) ==
    /\ awaiting = NoHandler
    /\ handler[h] = Idle
    /\ Submittable
    /\ sent' = pending
    /\ awaiting' = h
    /\ handler' = [handler EXCEPT ![h] = [Idle EXCEPT !.step = "results", !.results = pending]]
    /\ UNCHANGED <<masterVars, receipts, taskVars, restart, bounds>>

KeepNone == {}
Keep == pending \ sent

StartableAgain(t) == stage[t] = "none"
Startable(t) == stage[t] = "none" /\ t \notin completed

\* The answer arrives: what it confirms is dropped, its tasks start, and a
\* restart asked for by now is carried out.
Receive(h) ==
    /\ awaiting = h
    /\ handler[h].step = "answer"
    /\ pending' = Keep
    /\ stage' = [t \in Tasks |->
                    IF t \in handler[h].tasks /\ Startable(t) THEN "working" ELSE stage[t]]
    /\ restart' = IF "requested" \in restart THEN {"underway"} ELSE restart
    /\ sent' = {}
    /\ awaiting' = NoHandler
    /\ handler' = [handler EXCEPT ![h] = Idle]
    /\ UNCHANGED <<masterVars, receipts, completed, bounds>>

\* The HTTP client gives up; the master goes on with the poll.
Timeout ==
    /\ awaiting # NoHandler
    /\ faults < MaxFaults /\ faults' = faults + 1
    /\ awaiting' = NoHandler
    /\ sent' = {}
    /\ UNCHANGED <<masterVars, handler, receipts, taskVars, restart, retries, crashes, stops>>

-----------------------------------------------------------------------------
\* A poll, seen from the master.

KeepAll(t) == queue
Unacknowledged(t) == queue \ {t}

OutcomeUnknown(ok) == IF ok THEN "SUCCEEDED" ELSE "FAILED"
Outcome(ok) == IF ok THEN "COMPLETED" ELSE "FAILED"

\* One result: the task leaves the queue, or its row takes the outcome,
\* whatever status it has.
HandleResult(h, r) ==
    /\ handler[h].step = "results"
    /\ r \in handler[h].results
    /\ handler' = [g \in Handlers |->
           IF g = h THEN [handler[g] EXCEPT !.results = @ \ {r}]
           ELSE IF r.task \in handler[g].marks \cup handler[g].tasks
             THEN [handler[g] EXCEPT !.overtaken = @ \cup {r.task}]
           ELSE handler[g]]
    /\ IF r.task \in Upgrades
         THEN /\ row' = [row EXCEPT ![r.task] = Outcome(r.ok)]
              /\ UNCHANGED queue
         ELSE /\ queue' = Unacknowledged(r.task)
              /\ UNCHANGED row
    /\ receipts' = receipts \cup {r.task}
    /\ UNCHANGED <<requestedAt, recent, taskVars, pollVars, restart, bounds>>

SettledToo(t) == row[t] # "NONE"
Deployable(t) == row[t] \in Unsettled

DueOnce(t) == row[t] = "QUEUED"
Due(t) == row[t] = "QUEUED" \/ t \notin recent

AllHandled(h) == handler[h].step = "results" /\ handler[h].results = {}

Oldest(n, S) ==
    {t \in S : Cardinality({u \in S : requestedAt[u] < requestedAt[t]}) < n}

\* The tasks of the answer: those in memory first, then, of the BATCH oldest
\* unsettled rows, the due ones.
TakeTasks(h) ==
    /\ AllHandled(h)
    /\ LET taken == Oldest(BATCH, queue \ recent)
           rows == Oldest(BATCH, {t \in Upgrades : Deployable(t)})
           marks == Oldest(BATCH - Cardinality(taken), {t \in rows : Due(t)})
       IN /\ recent' = recent \cup taken
          /\ handler' = [handler EXCEPT ![h] =
                 [Idle EXCEPT !.step = "marks", !.marks = marks, !.tasks = taken]]
    /\ UNCHANGED <<row, requestedAt, queue, receipts, taskVars, pollVars, restart, bounds>>

\* markDeploymentDispatched: the row was read some awaits ago.
MarkDispatched(h, t) ==
    /\ handler[h].step = "marks"
    /\ t \in Oldest(1, handler[h].marks)
    /\ row' = [row EXCEPT ![t] = "DISPATCHED"]
    /\ recent' = recent \cup {t}
    /\ handler' = [handler EXCEPT ![h].marks = @ \ {t}, ![h].tasks = @ \cup {t}]
    /\ UNCHANGED <<requestedAt, queue, receipts, taskVars, pollVars, restart, bounds>>

Answer(h) ==
    /\ handler[h].step = "marks"
    /\ handler[h].marks = {}
    /\ handler' = [handler EXCEPT ![h].step = "answer"]
    /\ UNCHANGED <<masterVars, receipts, taskVars, pollVars, restart, bounds>>

\* The answer to a poll the agent has given up, or a new agent never sent.
Discard(h) ==
    /\ handler[h].step = "answer"
    /\ awaiting # h
    /\ handler' = [handler EXCEPT ![h] = Idle]
    /\ UNCHANGED <<masterVars, receipts, taskVars, pollVars, restart, bounds>>

\* The request or its answer is lost, or the handler throws: the agent learns
\* that the poll failed.
PollFails(h) ==
    /\ handler[h] # Idle
    /\ faults < MaxFaults /\ faults' = faults + 1
    /\ handler' = [handler EXCEPT ![h] = Idle]
    /\ awaiting' = IF awaiting = h THEN NoHandler ELSE awaiting
    /\ sent' = IF awaiting = h THEN {} ELSE sent
    /\ UNCHANGED <<masterVars, receipts, taskVars, restart, retries, crashes, stops>>

\* A minute has passed since the task was handed out.
Minute(t) ==
    /\ t \in recent
    /\ recent' = recent \ {t}
    /\ UNCHANGED <<row, requestedAt, queue, handler, receipts, taskVars, pollVars,
                   restart, bounds>>

-----------------------------------------------------------------------------
\* The goroutine of a task.

\* The work ends; with an agent upgrade the binary is already replaced.
Work(t, ok) ==
    /\ stage[t] = "working"
    /\ t \in Restarts => ok
    /\ stage' = [stage EXCEPT ![t] =
           IF ~ok THEN "failed" ELSE IF t \in AgentUpgrades THEN "replaced" ELSE "succeeded"]
    /\ UNCHANGED <<masterVars, handler, receipts, completed, pending, pollVars,
                   restart, bounds>>

\* addResult.  A restart task goes on to ask for its restart.
Report(t) ==
    /\ stage[t] \in {"succeeded", "failed"}
    /\ pending' = pending \cup {[task |-> t, ok |-> stage[t] = "succeeded"]}
    /\ IF t \in Restarts
         THEN stage' = [stage EXCEPT ![t] = "reported"] /\ UNCHANGED completed
         ELSE stage' = [stage EXCEPT ![t] = "none"] /\ completed' = completed \cup {t}
    /\ UNCHANGED <<masterVars, handler, receipts, pollVars, restart, bounds>>

\* restartRequested, after the result of a restart task, before that of an
\* agent upgrade.
RequestRestart(t) ==
    /\ stage[t] \in {"replaced", "reported"}
    /\ restart' = restart \cup {"requested"}
    /\ IF stage[t] = "replaced"
         THEN stage' = [stage EXCEPT ![t] = "succeeded"] /\ UNCHANGED completed
         ELSE stage' = [stage EXCEPT ![t] = "none"] /\ completed' = completed \cup {t}
    /\ UNCHANGED <<masterVars, handler, receipts, pending, pollVars, bounds>>

-----------------------------------------------------------------------------
\* Restarts.

\* A new agent process knows nothing of the old one's tasks and results.
NewAgent ==
    /\ stage' = [t \in Tasks |-> "none"]
    /\ completed' = {}
    /\ pending' = {}
    /\ sent' = {}
    /\ awaiting' = NoHandler
    /\ restart' = {}
    /\ UNCHANGED <<masterVars, handler, receipts, retries, faults, stops>>

RestartAndExit ==
    /\ "underway" \in restart
    /\ NewAgent
    /\ UNCHANGED crashes

\* Neither the service manager nor a spawned process could take over.
RestartFails ==
    /\ "underway" \in restart
    /\ restart' = restart \ {"underway"}
    /\ UNCHANGED <<masterVars, handler, receipts, taskVars, pollVars, bounds>>

AgentCrash ==
    /\ crashes < MaxCrashes /\ crashes' = crashes + 1
    /\ NewAgent

\* Rows and their dispatchedAt survive a stop of the master, nothing else does.
MasterStop ==
    /\ stops < MaxStops /\ stops' = stops + 1
    /\ queue' = {}
    /\ recent' = recent \cap Upgrades
    /\ handler' = [h \in Handlers |-> Idle]
    /\ awaiting' = NoHandler
    /\ sent' = {}
    /\ UNCHANGED <<row, requestedAt, receipts, taskVars, restart, retries, faults, crashes>>

Next ==
    \/ \E t \in Upgrades : RequestUpgrade(t)
    \/ \E t \in Upgrades : RetryUpgrade(t)
    \/ \E t \in Restarts \cup Probes : SendTask(t)
    \/ \E h \in Handlers : SendPoll(h)
    \/ \E h \in Handlers : Receive(h)
    \/ Timeout
    \/ \E h \in Handlers : \E r \in handler[h].results : HandleResult(h, r)
    \/ \E h \in Handlers : TakeTasks(h)
    \/ \E h \in Handlers : \E t \in Upgrades : MarkDispatched(h, t)
    \/ \E h \in Handlers : Answer(h)
    \/ \E h \in Handlers : Discard(h)
    \/ \E h \in Handlers : PollFails(h)
    \/ \E t \in Tasks : Minute(t)
    \/ \E t \in Tasks, ok \in BOOLEAN : Work(t, ok)
    \/ \E t \in Tasks : Report(t)
    \/ \E t \in Tasks : RequestRestart(t)
    \/ RestartAndExit
    \/ RestartFails
    \/ AgentCrash
    \/ MasterStop

Spec == Init /\ [][Next]_vars

\* The agent keeps polling, handlers and goroutines run to their end (every
\* task has a timeout) and time passes.  Faults are finitely many (MaxFaults).
Fairness ==
    /\ WF_vars(\E h \in Handlers : SendPoll(h))
    /\ \A h \in Handlers :
        /\ WF_vars(Receive(h))
        /\ WF_vars(\E r \in handler[h].results : HandleResult(h, r))
        /\ WF_vars(TakeTasks(h))
        /\ WF_vars(\E t \in Upgrades : MarkDispatched(h, t))
        /\ WF_vars(Answer(h))
        /\ WF_vars(Discard(h))
    /\ \A t \in Tasks :
        /\ WF_vars(Minute(t))
        /\ WF_vars(\E ok \in BOOLEAN : Work(t, ok))
        /\ WF_vars(Report(t))
        /\ WF_vars(RequestRestart(t))
    /\ WF_vars(RestartAndExit \/ RestartFails)

FairSpec == Spec /\ Fairness

-----------------------------------------------------------------------------
\* The result of a task this agent has completed is never lost: it waits in
\* pendingResults until a poll that carried it was handled, whatever became of
\* that poll's answer (appendPendingResults, removePendingResults).
ResultsSurvive ==
    \A t \in Tasks : t \in completed \/ stage[t] = "reported" =>
        t \in receipts \/ \E r \in pending : r.task = t

\* The answer a poll prepares may be overtaken: while its handler awaits the
\* database, another poll of the node (the agent's client gives up after 20
\* seconds, the master does not) handles the result of a task it hands out.
Overtaken(t) == \E h \in Handlers : t \in handler[h].overtaken

\* A settled upgrade is reopened by an operator's retry, or by an answer that was
\* overtaken, and by nothing else: of the polls handled at once, only one that
\* took the row before another settled it writes DISPATCHED over its outcome
\* (handleUpgradeResult, takePendingTasks, markDeploymentDispatched).
SettledUnlessOvertaken ==
    [][\A t \in Upgrades :
        row[t] \in Settled => row'[t] \in Settled \/ RetryUpgrade(t) \/ Overtaken(t)]_vars

\* However often a task is handed out, one agent process runs it once: it never
\* has two results for it (startTask).
OneResultPerTask ==
    /\ \A r \in pending, s \in pending : r.task = s.task => r = s
    /\ \A r \in pending :
           \/ stage[r.task] = "reported"
           \/ stage[r.task] = "none" /\ r.task \in completed

\* A task whose result the master has handled does not run again, not even in
\* an agent process that has forgotten it, unless it is an upgrade that was
\* reopened, or the answer it comes with was overtaken (takePendingTasks,
\* acknowledgeTask).
AnsweredTasksDoNotRunAgain ==
    [][\A t \in receipts :
        stage[t] = "none" /\ stage'[t] = "working" =>
            (t \in Upgrades /\ row[t] \notin Settled) \/ Overtaken(t)]_vars

\* What the two properties below suppose.  An agent that restarts itself may do so
\* before it has submitted the result that made it restart, again and again
\* (RestartsCease).  An answered upgrade whose row is open again, retried or
\* overtaken, is ignored by an agent that remembers having completed it (Reopened).
RestartsCease == <>[]("underway" \notin restart)
Reopened == \E t \in Upgrades : t \in receipts /\ row[t] \in Unsettled

\* Every upgrade asked for is settled in the end, through crashes of the agent,
\* stops of the master and lost answers, provided the agent does not restart itself
\* for ever, unless an answered upgrade is reopened (redelivery of DISPATCHED rows).
UpgradesSettle ==
    RestartsCease =>
        \A t \in Upgrades : row[t] \in Unsettled ~> row[t] \in Settled \/ Reopened

\* A task in memory is acknowledged in the end, unless the master stops first, so
\* the queue never fills up with tasks it hands out again and again, provided the
\* agent does not restart itself for ever.
TasksAreAcknowledged ==
    RestartsCease =>
        \A t \in Restarts \cup Probes : t \in queue ~> t \notin queue
=============================================================================
