------------------------- MODULE TrafficAccounting -------------------------
(***************************************************************************)
(* How the master turns the kernels' cumulative traffic counters into      *)
(* billed bytes: an agent reads its kernel's counters and sends them in    *)
(* heartbeats; the master takes each heartbeat through asynchronous reads, *)
(* queues one database write per heartbeat behind a single writer, retries *)
(* failed writes, and bills the difference to a stored cursor.             *)
(*                                                                         *)
(* A counter is one credential in one direction on one node.  Amounts are  *)
(* bytes at a traffic rate of 1.                                           *)
(*                                                                         *)
(* DeltaWithoutReset, DeltaFromBaseline, AdvanceNothing, MergeReplacing,   *)
(* ArmNothing and MergedBackOver are faulty variants of the definition     *)
(* that follows them, used to show that a property notices such a fault;   *)
(* the specification does not use them.                                    *)
(***************************************************************************)
EXTENDS Integers, Sequences, SequencesExt

CONSTANTS
    Nodes,
    Credentials,
    Billable,                   \* credentials owned by a user or a proxy key
    AGENT_WRITE_MAX_ATTEMPTS,
    MaxOutages,                 \* writes whose every attempt fails (a bound; 0: none)
    PreludeInOrder,             \* do the reads before queueing keep arrival order?
    MaxInFlight,                \* bound: handlers of one node awaiting at once
    MaxTraffic,                 \* bound: bytes one counter ever measures
    MaxStops                    \* bound: stops of the master process

ASSUME ConstantsAssumption ==
    /\ Billable \subseteq Credentials
    /\ AGENT_WRITE_MAX_ATTEMPTS \in Nat \ {0}
    /\ MaxOutages \in Nat
    /\ PreludeInOrder \in BOOLEAN
    /\ MaxInFlight \in Nat \ {0}
    /\ MaxTraffic \in Nat
    /\ MaxStops \in Nat

Directions == {"upload", "download"}
Counters == Credentials \X Directions
Amounts == [Counters -> Nat]
Nothing == [c \in Counters |-> 0]

VARIABLES
    counter,      \* the running kernel's cumulative counters, by node
    metered,      \* history: bytes every counter has measured since the start
    prelude,      \* heartbeats awaiting the reads of handleHeartbeat, by node
    pending,      \* pendingHeartbeats: the entry of a node, or NoEntry
    retryTimer,   \* nodes with an armed heartbeatRetryTimers entry
    tail,         \* writeTail: the write jobs, the running one first
    attempt,      \* the attempt number of the running job
    touched,      \* has this attempt of the running job committed its telemetry?
    waiting,      \* history: handlers whose promise is still unsettled, by node
    telemetry,    \* history: the moment (as bytes metered) the Node row describes
    cursor,       \* TrafficCursor rows (0: no row yet)
    mark,         \* history: bytes metered when the cursor's snapshot was taken
    billed,       \* history: bytes ever added to trafficUsedBytes, by counter
    bucket,       \* trafficHourlyBuckets, in memory
    flushTimer,   \* trafficHourlyFlushTimer
    hourly,       \* TrafficHourlyMetric rows
    stops,
    outages

kernelVars  == <<counter, metered>>
writerVars  == <<tail, attempt, touched>>
masterVars  == <<prelude, pending, retryTimer, waiting>>
accountVars == <<cursor, mark, billed>>
hourlyVars  == <<bucket, flushTimer, hourly>>
vars == <<kernelVars, masterVars, writerVars, telemetry, accountVars,
          hourlyVars, stops, outages>>

-----------------------------------------------------------------------------
\* A heartbeat: the counters it reports (0 for one it leaves out) and, as
\* history, what every counter of the node had metered when it was sampled.
Heartbeats == [snap: Amounts, taken: Amounts]
NoEntry == [waiters |-> -1]
Entries == [hb: Heartbeats, waiters: Nat]
HeartbeatJobs == [kind: {"heartbeat"}, node: Nodes, hb: Heartbeats, waiters: Nat]
FlushJobs == [kind: {"flush"}, batch: [Nodes -> Amounts]]

TypeOK ==
    /\ counter \in [Nodes -> Amounts]
    /\ metered \in [Nodes -> Amounts]
    /\ prelude \in [Nodes -> Seq(Heartbeats)]
    /\ pending \in [Nodes -> Entries \cup {NoEntry}]
    /\ retryTimer \subseteq Nodes
    /\ tail \in Seq(HeartbeatJobs \cup FlushJobs)
    /\ attempt \in 1 .. AGENT_WRITE_MAX_ATTEMPTS
    /\ touched \in BOOLEAN
    /\ waiting \in [Nodes -> Int]
    /\ telemetry \in [Nodes -> Amounts]
    /\ cursor \in [Nodes -> Amounts]
    /\ mark \in [Nodes -> Amounts]
    /\ billed \in [Nodes -> Amounts]
    /\ bucket \in [Nodes -> Amounts]
    /\ flushTimer \in {"off", "armed"}
    /\ hourly \in [Nodes -> Amounts]
    /\ stops \in 0 .. MaxStops
    /\ outages \in 0 .. MaxOutages

Init ==
    /\ counter = [n \in Nodes |-> Nothing]
    /\ metered = [n \in Nodes |-> Nothing]
    /\ prelude = [n \in Nodes |-> <<>>]
    /\ pending = [n \in Nodes |-> NoEntry]
    /\ retryTimer = {}
    /\ tail = <<>>
    /\ attempt = 1
    /\ touched = FALSE
    /\ waiting = [n \in Nodes |-> 0]
    /\ telemetry = [n \in Nodes |-> Nothing]
    /\ cursor = [n \in Nodes |-> Nothing]
    /\ mark = [n \in Nodes |-> Nothing]
    /\ billed = [n \in Nodes |-> Nothing]
    /\ bucket = [n \in Nodes |-> Nothing]
    /\ flushTimer = "off"
    /\ hourly = [n \in Nodes |-> Nothing]
    /\ stops = 0
    /\ outages = 0

-----------------------------------------------------------------------------
\* The billing rule.

Plus(f, g) == [c \in Counters |-> f[c] + g[c]]

\* A counter below its cursor was reset: all of it is new.
DeltaWithoutReset(previous, current) == current - previous
DeltaFromBaseline(previous, current) ==
    IF previous = 0 \/ current < previous THEN 0 ELSE current - previous
TrafficDelta(previous, current) ==
    IF current < previous THEN current ELSE current - previous

\* The kernel lists a credential once either of its directions has counted.
Reported(snap) ==
    {c \in Counters : \E d \in Directions : snap[<<c[1], d>>] > 0}

Charge(stored, snap) ==
    [c \in Counters |->
        IF c \in Reported(snap) /\ c[1] \in Billable
          THEN TrafficDelta(stored[c], snap[c])
          ELSE 0]

AdvanceNothing(stored, snap, seen) == stored
Advance(stored, snap, seen) ==
    [c \in Counters |-> IF c \in Reported(snap) THEN seen[c] ELSE stored[c]]

-----------------------------------------------------------------------------
\* The agent and its kernel.

Traffic(n, c) ==
    /\ metered[n][c] < MaxTraffic
    /\ counter' = [counter EXCEPT ![n][c] = @ + 1]
    /\ metered' = [metered EXCEPT ![n][c] = @ + 1]
    /\ UNCHANGED <<masterVars, writerVars, telemetry, accountVars, hourlyVars,
                   stops, outages>>

\* A kernel crash, upgrade or configuration change: the counters start over.
KernelRestart(n) ==
    /\ counter' = [counter EXCEPT ![n] = Nothing]
    /\ UNCHANGED <<metered, masterVars, writerVars, telemetry, accountVars,
                   hourlyVars, stops, outages>>

\* The agent samples its counters and the message reaches handleHeartbeat.
\* When the stats API cannot be read the heartbeat carries no snapshot.
Heartbeat(n, collected) ==
    /\ waiting[n] < MaxInFlight
    /\ prelude' = [prelude EXCEPT ![n] = Append(@,
           [snap  |-> IF collected THEN counter[n] ELSE Nothing,
            taken |-> metered[n]])]
    /\ waiting' = [waiting EXCEPT ![n] = @ + 1]
    /\ UNCHANGED <<kernelVars, pending, retryTimer, writerVars, telemetry,
                   accountVars, hourlyVars, stops, outages>>

-----------------------------------------------------------------------------
\* The heartbeat queue of the master.

WriteJob(n, entry) ==
    [kind |-> "heartbeat", node |-> n, hb |-> entry.hb, waiters |-> entry.waiters]

Queue(job) == Append(tail, job)

\* A newer heartbeat takes the place of an entry's data; the handlers of both
\* wait for it.
MergeReplacing(entry, hb) == [hb |-> hb, waiters |-> 1]
Merge(entry, hb) == [hb |-> hb, waiters |-> entry.waiters + 1]

ArmNothing(n) == retryTimer
Arm(n) == retryTimer \cup {n}

\* The device and capability reads of heartbeat i are done: it replaces the
\* data of an entry already in the map, or becomes the entry and starts a
\* drain, which queues it at once.
Enqueue(n, i) ==
    /\ i \in 1 .. Len(prelude[n])
    /\ PreludeInOrder => i = 1
    /\ prelude' = [prelude EXCEPT ![n] = RemoveAt(@, i)]
    /\ \/ /\ pending[n] # NoEntry
          /\ pending' = [pending EXCEPT ![n] = Merge(@, prelude[n][i])]
          /\ UNCHANGED tail
       \/ /\ pending[n] = NoEntry
          /\ tail' = Queue(WriteJob(n, [hb |-> prelude[n][i], waiters |-> 1]))
          /\ UNCHANGED pending
    /\ UNCHANGED <<kernelVars, retryTimer, waiting, attempt, touched, telemetry,
                   accountVars, hourlyVars, stops, outages>>

\* The retry timer fires: a new drain of the node.
RetryTimer(n) ==
    /\ n \in retryTimer
    /\ retryTimer' = retryTimer \ {n}
    /\ \/ /\ pending[n] # NoEntry
          /\ tail' = Queue(WriteJob(n, pending[n]))
          /\ pending' = [pending EXCEPT ![n] = NoEntry]
       \/ /\ pending[n] = NoEntry
          /\ UNCHANGED <<tail, pending>>
    /\ UNCHANGED <<kernelVars, prelude, waiting, attempt, touched, telemetry,
                   accountVars, hourlyVars, stops, outages>>

Running(kind) == tail # <<>> /\ Head(tail).kind = kind
NextJob == attempt' = 1 /\ touched' = FALSE

\* persistHeartbeat commits the Node row; the traffic comes in a transaction
\* of its own.
PersistTelemetry ==
    /\ Running("heartbeat") /\ ~touched
    /\ telemetry' = [telemetry EXCEPT ![Head(tail).node] = Head(tail).hb.taken]
    /\ touched' = TRUE
    /\ UNCHANGED <<kernelVars, masterVars, tail, attempt, accountVars, hourlyVars,
                   stops, outages>>

\* The running write of job resolves: its handlers are answered, and the drain
\* that awaited it takes whatever entry it finds in the map by then.
Resolve(job) ==
    /\ waiting' = [waiting EXCEPT ![job.node] = @ - job.waiters]
    /\ \/ /\ pending[job.node] # NoEntry
          /\ tail' = Append(Tail(tail), WriteJob(job.node, pending[job.node]))
          /\ pending' = [pending EXCEPT ![job.node] = NoEntry]
       \/ /\ pending[job.node] = NoEntry
          /\ tail' = Tail(tail)
          /\ UNCHANGED pending

\* persistTrafficSnapshots: cursors and charges commit together, then the
\* charges enter the hourly buckets.  Without snapshots there is nothing to do.
PersistTraffic ==
    /\ Running("heartbeat") /\ touched
    /\ LET job == Head(tail)
           n == job.node
           charge == Charge(cursor[n], job.hb.snap)
       IN /\ cursor' = [cursor EXCEPT ![n] = Advance(@, job.hb.snap, job.hb.snap)]
          /\ mark' = [mark EXCEPT ![n] = Advance(@, job.hb.snap, job.hb.taken)]
          /\ billed' = [billed EXCEPT ![n] = Plus(@, charge)]
          /\ bucket' = [bucket EXCEPT ![n] = Plus(@, charge)]
          /\ flushTimer' = IF charge = Nothing THEN flushTimer ELSE "armed"
          /\ Resolve(job)
    /\ NextJob
    /\ UNCHANGED <<kernelVars, prelude, retryTimer, telemetry, hourly, stops, outages>>

\* An attempt fails in either transaction and is repeated from the start.
AttemptFails ==
    /\ tail # <<>>
    /\ attempt < AGENT_WRITE_MAX_ATTEMPTS
    /\ attempt' = attempt + 1
    /\ touched' = FALSE
    /\ UNCHANGED <<kernelVars, masterVars, tail, telemetry, accountVars, hourlyVars,
                   stops, outages>>

\* The last attempt of a heartbeat write fails: its handlers are rejected, the
\* data goes back to the map unless a newer entry is there, a retry is armed.
HeartbeatWriteFails ==
    /\ outages < MaxOutages /\ outages' = outages + 1
    /\ Running("heartbeat") /\ attempt = AGENT_WRITE_MAX_ATTEMPTS
    /\ LET job == Head(tail)
       IN /\ waiting' = [waiting EXCEPT ![job.node] = @ - job.waiters]
          /\ pending' = [pending EXCEPT ![job.node] =
                 IF @ = NoEntry THEN [hb |-> job.hb, waiters |-> 0] ELSE @]
          /\ retryTimer' = Arm(job.node)
    /\ tail' = Tail(tail)
    /\ NextJob
    /\ UNCHANGED <<kernelVars, prelude, telemetry, accountVars, hourlyVars, stops>>

-----------------------------------------------------------------------------
\* The hourly metrics.

Taken == [n \in Nodes |-> Nothing]

MergedBackOver(batch) == batch
MergedBack(batch) == [n \in Nodes |-> Plus(bucket[n], batch[n])]

\* The timer fires: the buckets become one queued write.
FlushHourly ==
    /\ flushTimer = "armed"
    /\ flushTimer' = "off"
    /\ tail' = IF \A n \in Nodes : bucket[n] = Nothing
                 THEN tail ELSE Queue([kind |-> "flush", batch |-> bucket])
    /\ bucket' = Taken
    /\ UNCHANGED <<kernelVars, masterVars, attempt, touched, telemetry,
                   accountVars, hourly, stops, outages>>

FlushCommits ==
    /\ Running("flush")
    /\ hourly' = [n \in Nodes |-> Plus(hourly[n], Head(tail).batch[n])]
    /\ tail' = Tail(tail)
    /\ NextJob
    /\ UNCHANGED <<kernelVars, masterVars, telemetry, accountVars, bucket,
                   flushTimer, stops, outages>>

\* The batch is merged back into buckets that may have grown meanwhile; no
\* timer is armed for it.
FlushFails ==
    /\ outages < MaxOutages /\ outages' = outages + 1
    /\ Running("flush") /\ attempt = AGENT_WRITE_MAX_ATTEMPTS
    /\ bucket' = MergedBack(Head(tail).batch)
    /\ tail' = Tail(tail)
    /\ NextJob
    /\ UNCHANGED <<kernelVars, masterVars, telemetry, accountVars, flushTimer,
                   hourly, stops>>

-----------------------------------------------------------------------------
\* The master process stops, killed or by a signal, and starts again.  No
\* shutdown hook is installed, so onModuleDestroy never runs: only the database
\* survives.
Stop ==
    /\ stops < MaxStops
    /\ stops' = stops + 1
    /\ prelude' = [n \in Nodes |-> <<>>]
    /\ pending' = [n \in Nodes |-> NoEntry]
    /\ retryTimer' = {}
    /\ waiting' = [n \in Nodes |-> 0]
    /\ tail' = <<>>
    /\ NextJob
    /\ bucket' = [n \in Nodes |-> Nothing]
    /\ flushTimer' = "off"
    /\ UNCHANGED <<kernelVars, telemetry, accountVars, hourly, outages>>

Next ==
    \/ \E n \in Nodes, c \in Counters : Traffic(n, c)
    \/ \E n \in Nodes : KernelRestart(n)
    \/ \E n \in Nodes, collected \in BOOLEAN : Heartbeat(n, collected)
    \/ \E n \in Nodes, i \in 1 .. MaxInFlight : Enqueue(n, i)
    \/ \E n \in Nodes : RetryTimer(n)
    \/ PersistTelemetry
    \/ PersistTraffic
    \/ AttemptFails
    \/ HeartbeatWriteFails
    \/ FlushHourly
    \/ FlushCommits
    \/ FlushFails
    \/ Stop

Spec == Init /\ [][Next]_vars

\* The agent keeps sending and can read its kernel's counters now and then,
\* timers and the event loop run; outages are finitely many (MaxOutages).
Fairness ==
    /\ \A n \in Nodes :
        /\ SF_vars(Heartbeat(n, TRUE))
        /\ WF_vars(Enqueue(n, 1))
        /\ WF_vars(RetryTimer(n))
    /\ WF_vars(PersistTelemetry)
    /\ WF_vars(PersistTraffic)
    /\ WF_vars(FlushCommits)
    /\ WF_vars(FlushHourly)

FairSpec == Spec /\ Fairness

-----------------------------------------------------------------------------
\* No byte is billed twice: what a counter was charged never exceeds what it
\* has measured, across kernel restarts, retried writes and stops of the master
\* (persistTrafficSnapshots; DATA_MODELS.md on retries).
NoOverBilling ==
    \A n \in Nodes, c \in Counters : billed[n][c] <= metered[n][c]

\* No byte is forgotten: as long as a kernel never restarted, everything up to
\* the stored cursor was charged, however often samples were dropped, merged or
\* retried (the cursor and the charge commit together).
ChargedUpToCursor ==
    \A n \in Nodes, c \in Counters :
        metered[n][c] = counter[n][c] /\ c[1] \in Billable
            => billed[n][c] = cursor[n][c]

\* The handlers a job answers for a node, the bytes it adds to a counter's metrics.
Waiters(job, n) == IF job.kind = "heartbeat" /\ job.node = n THEN job.waiters ELSE 0
Flushed(job, n, c) == IF job.kind = "flush" THEN job.batch[n][c] ELSE 0

WaitersOf(n) == SumFunction([i \in DOMAIN tail |-> Waiters(tail[i], n)])
FlushedOf(n, c) == SumFunction([i \in DOMAIN tail |-> Flushed(tail[i], n, c)])

\* Every handler awaiting its heartbeat's write is held by exactly one queued
\* entry, so merging, failing and retrying never leaves a poll unanswered or
\* answers it twice (handleHeartbeat's promise).
HandlersAnsweredOnce ==
    \A n \in Nodes :
        waiting[n] = Len(prelude[n]) + WaitersOf(n)
                       + (IF pending[n] = NoEntry THEN 0 ELSE pending[n].waiters)

Counted(n, c) == hourly[n][c] + bucket[n][c] + FlushedOf(n, c)

\* The hourly metrics, those still buffered and those being flushed add up to
\* what was billed; only a stop may lose a part, and nothing counts twice
\* (flushTrafficHourlyMetrics).
HourlyMatchesBilled ==
    \A n \in Nodes, c \in Counters :
        /\ Counted(n, c) <= billed[n][c]
        /\ stops = 0 => Counted(n, c) = billed[n][c]

Meter == INSTANCE Metering

\* The pipeline implements the abstract meter: a charge only ever moves the
\* billed amount of one node forward and stays within what it measured
\* (persistTrafficSnapshots).
ImplementsMetering == Meter!Spec

\* Whatever a kernel has counted reaches the cursor, unless the kernel restarts
\* first (drain, retry and redelivery by the next heartbeat).
EveryByteReachesTheCursor ==
    \A n \in Nodes, c \in Counters : \A k \in 1 .. MaxTraffic :
        counter[n][c] = k ~> (cursor[n][c] >= k \/ counter[n][c] < k)
=============================================================================
