---------------------- MODULE TrafficAccountingProofs ----------------------
(***************************************************************************)
(* What TrafficAccounting guarantees for every set of nodes, credentials   *)
(* and bounds.                                                             *)
(***************************************************************************)
EXTENDS TrafficAccounting, SumTheorems, SequenceTheorems, TLAPS

Jobs == HeartbeatJobs \cup FlushJobs

\* Why no byte is billed twice.  A sample is what some counters read (snap) and
\* what they had metered by then (taken); one comes before another when billing
\* the difference of their readings cannot charge more than was metered between.
Live(n) == [snap |-> counter[n], taken |-> metered[n]]
Stored(n) == [snap |-> cursor[n], taken |-> mark[n]]

Before(x, y, c) == x.taken[c] + TrafficDelta(x.snap[c], y.snap[c]) <= y.taken[c]

Between(n, hb, c) == Before(Stored(n), hb, c) /\ Before(hb, Live(n), c)

Reports(hb, c) == c \in Reported(hb.snap)

Writes(i, n, c) ==
    tail[i].kind = "heartbeat" /\ tail[i].node = n /\ Reports(tail[i].hb, c)

StoredFirst ==
    \A n \in Nodes, c \in Counters : Before(Stored(n), Live(n), c)

PreludeInSequence ==
    \A n \in Nodes, c \in Counters : \A i \in 1 .. Len(prelude[n]) :
        Reports(prelude[n][i], c) =>
            /\ Between(n, prelude[n][i], c)
            /\ \A j \in 1 .. Len(prelude[n]) :
                i < j /\ Reports(prelude[n][j], c) =>
                    Before(prelude[n][i], prelude[n][j], c)

TailInSequence ==
    \A n \in Nodes, c \in Counters : \A i \in 1 .. Len(tail) :
        Writes(i, n, c) =>
            /\ Between(n, tail[i].hb, c)
            /\ \A j \in 1 .. Len(tail) :
                i < j /\ Writes(j, n, c) => Before(tail[i].hb, tail[j].hb, c)
            /\ \A j \in 1 .. Len(prelude[n]) :
                Reports(prelude[n][j], c) => Before(tail[i].hb, prelude[n][j], c)

BilledWithinMark ==
    \A n \in Nodes, c \in Counters : billed[n][c] <= mark[n][c]

\* The samples on their way, from the cursor over the queued writes to the
\* heartbeats still being read, are in the order they were taken, and what was
\* billed is covered by the cursor (drainHeartbeats, enqueueAgentWrite).
SamplesInOrder ==
    /\ \A n \in Nodes : pending[n] = NoEntry
    /\ StoredFirst
    /\ PreludeInSequence
    /\ TailInSequence
    /\ BilledWithinMark

-----------------------------------------------------------------------------
\* A charge is an amount: the billing rule never yields a negative number of
\* bytes, whatever the cursor and the snapshot (persistTrafficSnapshots).
LEMMA ChargeIsAmount ==
    ASSUME NEW stored \in Amounts, NEW snap \in Amounts
    PROVE  Charge(stored, snap) \in Amounts
BY DEF Charge, Amounts, TrafficDelta, Reported, Counters, Directions

LEMMA AdvanceIsAmount ==
    ASSUME NEW stored \in Amounts, NEW snap \in Amounts, NEW seen \in Amounts
    PROVE  Advance(stored, snap, seen) \in Amounts
BY DEF Advance, Amounts

LEMMA PlusIsAmount ==
    ASSUME NEW f \in Amounts, NEW g \in Amounts
    PROVE  Plus(f, g) \in Amounts
BY DEF Plus, Amounts

LEMMA NothingIsAmount == Nothing \in Amounts
BY DEF Nothing, Amounts

\* The head of a queue whose first job is a heartbeat write.
LEMMA RunningHeartbeat ==
    ASSUME tail \in Seq(Jobs), Running("heartbeat")
    PROVE  /\ Head(tail) \in HeartbeatJobs
           /\ Tail(tail) \in Seq(Jobs)
<1>1. Head(tail) \in Jobs /\ Tail(tail) \in Seq(Jobs)
  BY DEF Running
<1>2. Head(tail) \notin FlushJobs
  BY DEF Running, FlushJobs
<1> QED BY <1>1, <1>2 DEF Jobs

LEMMA RunningFlush ==
    ASSUME tail \in Seq(Jobs), Running("flush")
    PROVE  /\ Head(tail).batch \in [Nodes -> Amounts]
           /\ Tail(tail) \in Seq(Jobs)
<1>1. Head(tail) \in Jobs /\ Tail(tail) \in Seq(Jobs)
  BY DEF Running
<1>2. Head(tail) \notin HeartbeatJobs
  BY DEF Running, HeartbeatJobs
<1> QED BY <1>1, <1>2 DEF Jobs, FlushJobs

\* Taking any element out of a sequence leaves a sequence of the same kind.
LEMMA RemoveAtIsSeq ==
    ASSUME NEW S, NEW s \in Seq(S), NEW i \in 1 .. Len(s)
    PROVE  RemoveAt(s, i) \in Seq(S)
BY DEF RemoveAt

LEMMA RemoveAtShortens ==
    ASSUME NEW S, NEW s \in Seq(S), NEW i \in 1 .. Len(s)
    PROVE  Len(RemoveAt(s, i)) = Len(s) - 1
<1>1. RemoveAt(s, i) = SubSeq(s, 1, i - 1) \o SubSeq(s, i + 1, Len(s))
  BY DEF RemoveAt
<1>2. SubSeq(s, 1, i - 1) \in Seq(S) /\ Len(SubSeq(s, 1, i - 1)) = i - 1
  <2>1. \A j \in 1 .. i - 1 : s[j] \in S
    OBVIOUS
  <2> QED BY <2>1, SubSeqProperties
<1>3. SubSeq(s, i + 1, Len(s)) \in Seq(S) /\ Len(SubSeq(s, i + 1, Len(s))) = Len(s) - i
  <2>1. \A j \in i + 1 .. Len(s) : s[j] \in S
    OBVIOUS
  <2> QED BY <2>1, SubSeqProperties
<1>4. PICK a, b \in Seq(S) : a = SubSeq(s, 1, i - 1) /\ b = SubSeq(s, i + 1, Len(s))
  BY <1>2, <1>3
<1>5. Len(a \o b) = Len(a) + Len(b)
  BY ConcatProperties
<1>6. Len(a) = i - 1 /\ Len(b) = Len(s) - i /\ Len(s) \in Nat /\ i \in Nat
  BY <1>2, <1>3, <1>4
<1>7. RemoveAt(s, i) = a \o b
  BY <1>1, <1>4
<1>8. Len(RemoveAt(s, i)) = Len(a) + Len(b)
  BY <1>5, <1>7
<1> QED BY <1>6, <1>8

LEMMA RemoveAtOne ==
    ASSUME NEW Elem, NEW q \in Seq(Elem), q # <<>>
    PROVE  RemoveAt(q, 1) = Tail(q)
<1>1. SubSeq(q, 1, 0) = <<>>
  BY SubSeqEmpty
<1>2. SubSeq(q, 2, Len(q)) = Tail(q)
  BY TailIsSubSeq
<1>3. <<>> \o Tail(q) = Tail(q)
  BY HeadTailProperties, ConcatEmptySeq
<1>4. RemoveAt(q, 1) = SubSeq(q, 1, 0) \o SubSeq(q, 2, Len(q))
  BY DEF RemoveAt
<1> QED BY <1>1, <1>2, <1>3, <1>4

-----------------------------------------------------------------------------
\* Queueing a write keeps a queue of jobs.
LEMMA QueueIsJobs ==
    ASSUME tail \in Seq(Jobs), NEW job \in Jobs
    PROVE  Queue(job) \in Seq(Jobs)
BY DEF Queue

\* An entry and the node it belongs to make a heartbeat job.
LEMMA WriteJobIsJob ==
    ASSUME NEW n \in Nodes, NEW entry \in Entries
    PROVE  WriteJob(n, entry) \in Jobs
BY DEF WriteJob, Entries, Jobs, HeartbeatJobs

LEMMA PendingIsEntry ==
    ASSUME TypeOK, NEW n \in Nodes, pending[n] # NoEntry
    PROVE  pending[n] \in Entries
BY DEF TypeOK

\* Answering the handlers of the running heartbeat keeps the queue well formed.
LEMMA ResolveType ==
    ASSUME TypeOK, Running("heartbeat"), Resolve(Head(tail))
    PROVE  /\ waiting' \in [Nodes -> Int]
           /\ tail' \in Seq(Jobs)
           /\ pending' \in [Nodes -> Entries \cup {NoEntry}]
<1> DEFINE job == Head(tail)
<1>1. tail \in Seq(Jobs)
  BY DEF TypeOK, Jobs
<1>2. /\ job \in HeartbeatJobs
      /\ Tail(tail) \in Seq(Jobs)
  BY <1>1, RunningHeartbeat
<1>3. job.node \in Nodes /\ job.waiters \in Nat
  BY <1>2 DEF HeartbeatJobs
<1>4. waiting' \in [Nodes -> Int]
  BY <1>3 DEF TypeOK, Resolve
<1>5. CASE pending[job.node] # NoEntry
  <2>1. WriteJob(job.node, pending[job.node]) \in Jobs
    BY <1>3, <1>5, PendingIsEntry, WriteJobIsJob
  <2>2. /\ tail' = Append(Tail(tail), WriteJob(job.node, pending[job.node]))
        /\ pending' = [pending EXCEPT ![job.node] = NoEntry]
    BY <1>5 DEF Resolve
  <2>3. pending' \in [Nodes -> Entries \cup {NoEntry}]
    BY <2>2 DEF TypeOK
  <2> QED BY <1>2, <1>4, <2>1, <2>2, <2>3
<1>6. CASE pending[job.node] = NoEntry
  BY <1>2, <1>4, <1>6 DEF Resolve, TypeOK
<1> QED BY <1>5, <1>6

\* The next job starts at its first attempt.
LEMMA NextJobType ==
    NextJob => attempt' \in 1 .. AGENT_WRITE_MAX_ATTEMPTS /\ touched' \in BOOLEAN
<1>1. NextJob => attempt' \in 1 .. AGENT_WRITE_MAX_ATTEMPTS
  BY ConstantsAssumption DEF NextJob, ConstantsAssumption
<1>2. NextJob => touched' \in BOOLEAN
  BY DEF NextJob
<1> QED BY <1>1, <1>2

\* Type correctness: the master's queues, cursors and accounts keep their shape
\* under every step (heartbeats, drains, writes, flushes, stops).
LEMMA TypeOKStep == TypeOK /\ [Next]_vars => TypeOK'
<1> SUFFICES ASSUME TypeOK, [Next]_vars PROVE TypeOK'
  OBVIOUS
<1> USE ConstantsAssumption DEF ConstantsAssumption
<1>1. ASSUME NEW n \in Nodes, NEW c \in Counters, Traffic(n, c) PROVE TypeOK'
  <2>1. counter' \in [Nodes -> Amounts] /\ metered' \in [Nodes -> Amounts]
    BY SMTT(30), <1>1 DEF Traffic, TypeOK, Amounts
  <2> QED BY <1>1, <2>1
          DEF Traffic, TypeOK, masterVars, writerVars, accountVars, hourlyVars
<1>2. ASSUME NEW n \in Nodes, KernelRestart(n) PROVE TypeOK'
  BY <1>2, NothingIsAmount
     DEF KernelRestart, TypeOK, masterVars, writerVars, accountVars, hourlyVars
<1>3. ASSUME NEW n \in Nodes, NEW collected \in BOOLEAN, Heartbeat(n, collected)
      PROVE TypeOK'
  <2> DEFINE hb == [snap  |-> IF collected THEN counter[n] ELSE Nothing,
                    taken |-> metered[n]]
  <2>1. hb \in Heartbeats
    BY NothingIsAmount DEF TypeOK, Heartbeats
  <2>2. prelude' = [prelude EXCEPT ![n] = Append(@, hb)]
    BY <1>3 DEF Heartbeat
  <2> HIDE DEF hb
  <2>3. prelude' \in [Nodes -> Seq(Heartbeats)]
    BY <2>1, <2>2 DEF TypeOK
  <2>4. waiting' \in [Nodes -> Int]
    BY <1>3 DEF Heartbeat, TypeOK
  <2> QED BY <1>3, <2>3, <2>4
          DEF Heartbeat, TypeOK, kernelVars, writerVars, accountVars, hourlyVars
<1>4. ASSUME NEW n \in Nodes, NEW i \in 1 .. MaxInFlight, Enqueue(n, i) PROVE TypeOK'
  <2>1. /\ prelude[n] \in Seq(Heartbeats) /\ i \in 1 .. Len(prelude[n])
        /\ prelude[n][i] \in Heartbeats
    BY <1>4 DEF Enqueue, TypeOK
  <2>2. prelude' \in [Nodes -> Seq(Heartbeats)]
    <3>1. RemoveAt(prelude[n], i) \in Seq(Heartbeats)
      BY <2>1, RemoveAtIsSeq
    <3> QED BY <1>4, <3>1 DEF Enqueue, TypeOK
  <2>3. CASE pending[n] # NoEntry
    <3>1. pending[n] \in Entries
      BY <2>3, PendingIsEntry
    <3>2. Merge(pending[n], prelude[n][i]) \in Entries
      BY <2>1, <3>1 DEF Merge, Entries
    <3>3. /\ pending' = [pending EXCEPT ![n] = Merge(@, prelude[n][i])]
          /\ UNCHANGED tail
      BY <1>4, <2>3 DEF Enqueue
    <3>4. pending' \in [Nodes -> Entries \cup {NoEntry}]
      BY <3>2, <3>3 DEF TypeOK
    <3> QED BY <1>4, <2>2, <3>3, <3>4
            DEF Enqueue, TypeOK, kernelVars, accountVars, hourlyVars
  <2>4. CASE pending[n] = NoEntry
    <3> DEFINE entry == [hb |-> prelude[n][i], waiters |-> 1]
    <3>1. WriteJob(n, entry) \in Jobs
      <4>1. entry \in Entries
        BY <2>1 DEF Entries
      <4> HIDE DEF entry
      <4> QED BY <4>1, WriteJobIsJob
    <3>2. tail' = Queue(WriteJob(n, entry)) /\ UNCHANGED pending
      BY <1>4, <2>4 DEF Enqueue
    <3>3. tail' \in Seq(Jobs)
      BY <3>1, <3>2, QueueIsJobs DEF TypeOK, Jobs
    <3> QED BY <1>4, <2>2, <3>2, <3>3
            DEF Enqueue, TypeOK, Jobs, kernelVars, accountVars, hourlyVars
  <2> QED BY <2>3, <2>4
<1>5. ASSUME NEW n \in Nodes, RetryTimer(n) PROVE TypeOK'
  <2>1. CASE pending[n] # NoEntry
    <3>1. WriteJob(n, pending[n]) \in Jobs
      BY <2>1, PendingIsEntry, WriteJobIsJob
    <3>2. tail' = Queue(WriteJob(n, pending[n]))
          /\ pending' = [pending EXCEPT ![n] = NoEntry]
      BY <1>5, <2>1 DEF RetryTimer
    <3>3. tail' \in Seq(Jobs)
      BY <3>1, <3>2, QueueIsJobs DEF TypeOK, Jobs
    <3> QED BY <1>5, <3>2, <3>3
            DEF RetryTimer, TypeOK, Jobs, kernelVars, accountVars, hourlyVars
  <2>2. CASE pending[n] = NoEntry
    BY <1>5, <2>2 DEF RetryTimer, TypeOK, kernelVars, accountVars, hourlyVars
  <2> QED BY <2>1, <2>2
<1>6. CASE PersistTelemetry
  <2>1. Head(tail) \in HeartbeatJobs
    BY <1>6, RunningHeartbeat DEF PersistTelemetry, TypeOK, Jobs
  <2>2. Head(tail).hb.taken \in Amounts
    BY <2>1 DEF HeartbeatJobs, Heartbeats
  <2> QED BY <1>6, <2>2
          DEF PersistTelemetry, TypeOK, kernelVars, masterVars, accountVars, hourlyVars
<1>7. CASE PersistTraffic
  <2> DEFINE n == Head(tail).node
             hb == Head(tail).hb
  <2>1. Head(tail) \in HeartbeatJobs
    BY <1>7, RunningHeartbeat DEF PersistTraffic, TypeOK, Jobs
  <2>2. n \in Nodes /\ hb.snap \in Amounts /\ hb.taken \in Amounts
    BY <2>1 DEF HeartbeatJobs, Heartbeats
  <2>3. /\ cursor' = [cursor EXCEPT ![n] = Advance(@, hb.snap, hb.snap)]
        /\ mark' = [mark EXCEPT ![n] = Advance(@, hb.snap, hb.taken)]
        /\ billed' = [billed EXCEPT ![n] = Plus(@, Charge(cursor[n], hb.snap))]
        /\ bucket' = [bucket EXCEPT ![n] = Plus(@, Charge(cursor[n], hb.snap))]
        /\ Resolve(Head(tail))
    BY <1>7 DEF PersistTraffic
  <2>4. /\ cursor[n] \in Amounts /\ mark[n] \in Amounts
        /\ billed[n] \in Amounts /\ bucket[n] \in Amounts
    BY <2>2 DEF TypeOK
  <2> HIDE DEF n, hb
  <2>5. cursor' \in [Nodes -> Amounts]
    BY <2>2, <2>3, <2>4, AdvanceIsAmount DEF TypeOK
  <2>6. mark' \in [Nodes -> Amounts]
    BY <2>2, <2>3, <2>4, AdvanceIsAmount DEF TypeOK
  <2>7. Charge(cursor[n], hb.snap) \in Amounts
    BY <2>2, <2>4, ChargeIsAmount
  <2>8. billed' \in [Nodes -> Amounts]
    BY <2>2, <2>3, <2>4, <2>7, PlusIsAmount DEF TypeOK
  <2>9. bucket' \in [Nodes -> Amounts]
    BY <2>2, <2>3, <2>4, <2>7, PlusIsAmount DEF TypeOK
  <2>10. /\ waiting' \in [Nodes -> Int]
         /\ tail' \in Seq(HeartbeatJobs \cup FlushJobs)
         /\ pending' \in [Nodes -> Entries \cup {NoEntry}]
    BY <1>7, <2>3, ResolveType DEF PersistTraffic, Jobs
  <2>11. attempt' \in 1 .. AGENT_WRITE_MAX_ATTEMPTS /\ touched' \in BOOLEAN
    BY <1>7, NextJobType DEF PersistTraffic
  <2> QED BY <1>7, <2>5, <2>6, <2>8, <2>9, <2>10, <2>11
          DEF PersistTraffic, TypeOK, kernelVars
<1>8. CASE AttemptFails
  <2>1. attempt' \in 1 .. AGENT_WRITE_MAX_ATTEMPTS
    <3>1. attempt \in 1 .. AGENT_WRITE_MAX_ATTEMPTS
      BY DEF TypeOK
    <3>2. attempt < AGENT_WRITE_MAX_ATTEMPTS /\ attempt' = attempt + 1
      BY <1>8 DEF AttemptFails
    <3> QED BY <3>1, <3>2
  <2>2. touched' \in BOOLEAN
    BY <1>8 DEF AttemptFails
  <2> QED BY <1>8, <2>1, <2>2
          DEF AttemptFails, TypeOK, kernelVars, masterVars, accountVars, hourlyVars
<1>9. CASE HeartbeatWriteFails
  <2>1. Head(tail) \in HeartbeatJobs /\ Tail(tail) \in Seq(Jobs)
    BY <1>9, RunningHeartbeat DEF HeartbeatWriteFails, TypeOK, Jobs
  <2>2. /\ Head(tail).node \in Nodes /\ Head(tail).waiters \in Nat
        /\ [hb |-> Head(tail).hb, waiters |-> 0] \in Entries
    BY <2>1 DEF HeartbeatJobs, Entries
  <2>3. waiting' \in [Nodes -> Int]
    BY <1>9, <2>2 DEF HeartbeatWriteFails, TypeOK
  <2>4. pending' \in [Nodes -> Entries \cup {NoEntry}]
    BY <1>9, <2>2 DEF HeartbeatWriteFails, TypeOK
  <2>5. retryTimer' \subseteq Nodes /\ tail' \in Seq(HeartbeatJobs \cup FlushJobs)
    BY <1>9, <2>1, <2>2 DEF HeartbeatWriteFails, TypeOK, Arm, Jobs
  <2>6. /\ attempt' \in 1 .. AGENT_WRITE_MAX_ATTEMPTS /\ touched' \in BOOLEAN
        /\ outages' \in 0 .. MaxOutages
    <3>1. outages < MaxOutages /\ outages' = outages + 1 /\ NextJob
      BY <1>9 DEF HeartbeatWriteFails
    <3>2. outages \in 0 .. MaxOutages
      BY DEF TypeOK
    <3>3. outages' \in 0 .. MaxOutages
      BY <3>1, <3>2
    <3> QED BY <3>1, <3>3, NextJobType
  <2> QED BY <1>9, <2>3, <2>4, <2>5, <2>6
          DEF HeartbeatWriteFails, TypeOK, kernelVars, accountVars, hourlyVars
<1>10. CASE FlushHourly
  <2>1. [kind |-> "flush", batch |-> bucket] \in Jobs
    BY DEF TypeOK, Jobs, FlushJobs
  <2>2. tail' \in Seq(HeartbeatJobs \cup FlushJobs)
    BY <1>10, <2>1, QueueIsJobs DEF FlushHourly, TypeOK, Jobs
  <2>3. bucket' \in [Nodes -> Amounts]
    BY <1>10, NothingIsAmount DEF FlushHourly, Taken
  <2> QED BY <1>10, <2>2, <2>3
          DEF FlushHourly, TypeOK, kernelVars, masterVars, accountVars
<1>11. CASE FlushCommits
  <2>1. Head(tail).batch \in [Nodes -> Amounts] /\ Tail(tail) \in Seq(Jobs)
    BY <1>11, RunningFlush DEF FlushCommits, TypeOK, Jobs
  <2>2. hourly' \in [Nodes -> Amounts]
    BY <1>11, <2>1, PlusIsAmount DEF FlushCommits, TypeOK
  <2>3. attempt' \in 1 .. AGENT_WRITE_MAX_ATTEMPTS /\ touched' \in BOOLEAN
    BY <1>11, NextJobType DEF FlushCommits
  <2> QED BY <1>11, <2>1, <2>2, <2>3
          DEF FlushCommits, TypeOK, Jobs, kernelVars, masterVars, accountVars
<1>12. CASE FlushFails
  <2>1. Head(tail).batch \in [Nodes -> Amounts] /\ Tail(tail) \in Seq(Jobs)
    BY <1>12, RunningFlush DEF FlushFails, TypeOK, Jobs
  <2>2. bucket' \in [Nodes -> Amounts]
    BY <1>12, <2>1, PlusIsAmount DEF FlushFails, MergedBack, TypeOK
  <2>3. attempt' \in 1 .. AGENT_WRITE_MAX_ATTEMPTS /\ touched' \in BOOLEAN
    BY <1>12, NextJobType DEF FlushFails
  <2>4. outages' \in 0 .. MaxOutages
    <3>1. outages < MaxOutages /\ outages' = outages + 1
      BY <1>12 DEF FlushFails
    <3>2. outages \in 0 .. MaxOutages
      BY DEF TypeOK
    <3> QED BY <3>1, <3>2
  <2> QED BY <1>12, <2>1, <2>2, <2>3, <2>4
          DEF FlushFails, TypeOK, Jobs, kernelVars, masterVars, accountVars
<1>13. CASE Stop
  <2>1. attempt' \in 1 .. AGENT_WRITE_MAX_ATTEMPTS /\ touched' \in BOOLEAN
    BY <1>13, NextJobType DEF Stop
  <2>2. stops' \in 0 .. MaxStops
    <3>1. stops < MaxStops /\ stops' = stops + 1
      BY <1>13 DEF Stop
    <3>2. stops \in 0 .. MaxStops
      BY DEF TypeOK
    <3> QED BY <3>1, <3>2
  <2>3. /\ prelude' \in [Nodes -> Seq(Heartbeats)]
        /\ pending' \in [Nodes -> Entries \cup {NoEntry}]
        /\ tail' \in Seq(HeartbeatJobs \cup FlushJobs)
        /\ retryTimer' \subseteq Nodes
        /\ waiting' \in [Nodes -> Int]
        /\ bucket' \in [Nodes -> Amounts]
    BY <1>13, NothingIsAmount DEF Stop
  <2> QED BY <1>13, <2>1, <2>2, <2>3 DEF Stop, TypeOK, kernelVars, accountVars
<1>14. CASE UNCHANGED vars
  BY <1>14 DEF TypeOK, vars, kernelVars, masterVars, writerVars, accountVars, hourlyVars
<1> QED
  BY <1>1, <1>2, <1>3, <1>4, <1>5, <1>6, <1>7, <1>8, <1>9, <1>10, <1>11, <1>12,
     <1>13, <1>14 DEF Next

LEMMA TypeOKInit == Init => TypeOK
<1> SUFFICES ASSUME Init PROVE TypeOK
  OBVIOUS
<1>1. /\ attempt \in 1 .. AGENT_WRITE_MAX_ATTEMPTS
      /\ stops \in 0 .. MaxStops /\ outages \in 0 .. MaxOutages
  <2>1. attempt = 1 /\ stops = 0 /\ outages = 0
    BY DEF Init
  <2> QED BY <2>1, ConstantsAssumption DEF ConstantsAssumption
<1>2. touched \in BOOLEAN
  BY DEF Init
<1> QED BY <1>1, <1>2, NothingIsAmount DEF Init, TypeOK

\* Every state of the pipeline is well typed, whatever the nodes, credentials,
\* bounds, outages and stops (AgentService's heartbeat and write queues).
THEOREM TypeCorrect == Spec => []TypeOK
<1>1. TypeOK /\ [Next]_vars => TypeOK'
  BY TypeOKStep
<1> QED BY TypeOKInit, <1>1, PTL DEF Spec
-----------------------------------------------------------------------------
\* The order of samples.  The live counters only ever move to a place that is
\* still after every sample taken before: one more byte, or a restart.
LEMMA MeasureKeepsOrder ==
    \A v, m, a, b \in Nat :
        m + TrafficDelta(v, a) <= b => m + TrafficDelta(v, a + 1) <= b + 1
BY DEF TrafficDelta

LEMMA RestartKeepsOrder ==
    \A v, m, a, b \in Nat : m + TrafficDelta(v, a) <= b => m + TrafficDelta(v, 0) <= b
BY DEF TrafficDelta

LEMMA SampleOfLive ==
    \A a, b \in Nat : b + TrafficDelta(a, a) <= b
BY DEF TrafficDelta

LEMMA DeltaIsNat == \A v, a \in Nat : TrafficDelta(v, a) \in Nat
BY DEF TrafficDelta

\* What type correctness says of the samples on their way.
LEMMA PreludeSamples ==
    ASSUME TypeOK, NEW n \in Nodes, NEW i \in 1 .. Len(prelude[n])
    PROVE  prelude[n][i] \in Heartbeats
BY DEF TypeOK

LEMMA TailSamples ==
    ASSUME TypeOK, NEW i \in 1 .. Len(tail), tail[i].kind = "heartbeat"
    PROVE  tail[i] \in HeartbeatJobs /\ tail[i].hb \in Heartbeats
<1>1. tail[i] \in HeartbeatJobs \cup FlushJobs
  BY DEF TypeOK
<1>2. tail[i] \notin FlushJobs
  BY DEF FlushJobs
<1> QED BY <1>1, <1>2 DEF HeartbeatJobs

LEMMA SampleIsNat ==
    ASSUME NEW hb \in Heartbeats, NEW c \in Counters
    PROVE  hb.snap[c] \in Nat /\ hb.taken[c] \in Nat
BY DEF Heartbeats, Amounts

LEMMA AccountsAreNat ==
    ASSUME TypeOK, NEW n \in Nodes, NEW c \in Counters
    PROVE  /\ counter[n][c] \in Nat /\ metered[n][c] \in Nat
           /\ cursor[n][c] \in Nat /\ mark[n][c] \in Nat /\ billed[n][c] \in Nat
BY DEF TypeOK, Amounts

-----------------------------------------------------------------------------
\* Steps of the agent: only the live counters move.
LEMMA LiveStep ==
    ASSUME TypeOK, SamplesInOrder,
           UNCHANGED <<prelude, pending, tail, cursor, mark, billed>>,
           \A n \in Nodes, c \in Counters : \A v, m \in Nat :
               m + TrafficDelta(v, counter[n][c]) <= metered[n][c]
                   => m + TrafficDelta(v, counter'[n][c]) <= metered'[n][c]
    PROVE  SamplesInOrder'
<1>1. StoredFirst'
  BY AccountsAreNat DEF SamplesInOrder, StoredFirst, Before, Stored, Live
<1>2. ASSUME NEW n \in Nodes, NEW c \in Counters, NEW hb \in Heartbeats,
             Between(n, hb, c)
      PROVE  Between(n, hb, c)'
  BY <1>2, SampleIsNat DEF Between, Before, Stored, Live
<1>3. PreludeInSequence'
  BY <1>2, PreludeSamples DEF SamplesInOrder, PreludeInSequence, Reports, Before
<1>4. TailInSequence'
  BY <1>2, TailSamples DEF SamplesInOrder, TailInSequence, Writes, Reports, Before
<1> QED BY <1>1, <1>3, <1>4 DEF SamplesInOrder, BilledWithinMark

LEMMA TrafficKeepsSamples ==
    ASSUME TypeOK, SamplesInOrder, NEW n \in Nodes, NEW c \in Counters, Traffic(n, c)
    PROVE  SamplesInOrder'
<1>1. UNCHANGED <<prelude, pending, tail, cursor, mark, billed>>
  BY DEF Traffic, masterVars, writerVars, accountVars
<1>2. ASSUME NEW m \in Nodes, NEW d \in Counters
      PROVE  \/ /\ counter'[m][d] = counter[m][d] + 1
                /\ metered'[m][d] = metered[m][d] + 1
             \/ /\ counter'[m][d] = counter[m][d]
                /\ metered'[m][d] = metered[m][d]
  BY DEF Traffic, TypeOK, Amounts
<1>3. ASSUME NEW m \in Nodes, NEW d \in Counters, NEW v \in Nat, NEW k \in Nat,
             k + TrafficDelta(v, counter[m][d]) <= metered[m][d]
      PROVE  k + TrafficDelta(v, counter'[m][d]) <= metered'[m][d]
  BY <1>2, <1>3, AccountsAreNat, MeasureKeepsOrder
<1> QED BY <1>1, <1>3, LiveStep

LEMMA RestartKeepsSamples ==
    ASSUME TypeOK, SamplesInOrder, NEW n \in Nodes, KernelRestart(n)
    PROVE  SamplesInOrder'
<1>1. UNCHANGED <<prelude, pending, tail, cursor, mark, billed>>
  BY DEF KernelRestart, masterVars, writerVars, accountVars
<1>2. ASSUME NEW m \in Nodes, NEW d \in Counters
      PROVE  /\ counter'[m][d] \in {counter[m][d], 0}
             /\ metered'[m][d] = metered[m][d]
  BY DEF KernelRestart, TypeOK, Nothing
<1>3. ASSUME NEW m \in Nodes, NEW d \in Counters, NEW v \in Nat, NEW k \in Nat,
             k + TrafficDelta(v, counter[m][d]) <= metered[m][d]
      PROVE  k + TrafficDelta(v, counter'[m][d]) <= metered'[m][d]
  BY <1>2, <1>3, AccountsAreNat, RestartKeepsOrder
<1> QED BY <1>1, <1>3, LiveStep

\* A heartbeat that reports a counter reports it as it is now.
LEMMA HeartbeatKeepsSamples ==
    ASSUME TypeOK, SamplesInOrder, NEW n \in Nodes, NEW collected \in BOOLEAN,
           Heartbeat(n, collected)
    PROVE  SamplesInOrder'
<1> DEFINE hb == [snap  |-> IF collected THEN counter[n] ELSE Nothing,
                  taken |-> metered[n]]
<1>1. /\ prelude' = [prelude EXCEPT ![n] = Append(@, hb)]
      /\ UNCHANGED <<counter, metered, pending, tail, cursor, mark, billed>>
  BY DEF Heartbeat, kernelVars, writerVars, accountVars
<1>2. hb \in Heartbeats
  BY NothingIsAmount DEF TypeOK, Heartbeats
<1>3. ASSUME NEW c \in Counters, Reports(hb, c)
      PROVE  hb.snap[c] = counter[n][c] /\ hb.taken[c] = metered[n][c]
  <2>1. c \notin Reported(Nothing)
    BY DEF Reported, Nothing, Counters, Directions
  <2> QED BY <1>3, <2>1 DEF Reports
<1> HIDE DEF hb
<1>4. /\ prelude[n] \in Seq(Heartbeats)
      /\ prelude'[n] = Append(prelude[n], hb)
      /\ \A m \in Nodes : m # n => prelude'[m] = prelude[m]
  BY <1>1 DEF TypeOK
<1>5. /\ Len(prelude'[n]) = Len(prelude[n]) + 1
      /\ \A i \in 1 .. Len(prelude[n]) : prelude'[n][i] = prelude[n][i]
      /\ prelude'[n][Len(prelude[n]) + 1] = hb
  BY <1>2, <1>4
<1>6. ASSUME NEW c \in Counters, Reports(hb, c) PROVE Between(n, hb, c)
  BY <1>3, <1>6, AccountsAreNat, SampleOfLive
     DEF SamplesInOrder, StoredFirst, Between, Before, Stored, Live
<1>7. ASSUME NEW c \in Counters, Reports(hb, c), NEW x, Before(x, Live(n), c)
      PROVE  Before(x, hb, c)
  BY <1>3, <1>7 DEF Before, Live
<1>8. StoredFirst'
  BY <1>1 DEF SamplesInOrder, StoredFirst, Before, Stored, Live
<1>9. PreludeInSequence'
  <2> SUFFICES ASSUME NEW m \in Nodes, NEW c \in Counters,
                      NEW i \in 1 .. Len(prelude'[m]), Reports(prelude'[m][i], c)
               PROVE  /\ Between(m, prelude'[m][i], c)
                      /\ \A j \in 1 .. Len(prelude'[m]) :
                          i < j /\ Reports(prelude'[m][j], c) =>
                              Before(prelude'[m][i], prelude'[m][j], c)
    BY SMTT(30), <1>1 DEF PreludeInSequence, Reports, Between, Before, Stored, Live
  <2>1. CASE m # n
    BY <2>1, <1>4 DEF SamplesInOrder, PreludeInSequence
  <2>2. CASE m = n /\ i \in 1 .. Len(prelude[n])
    <3>1. /\ prelude'[n][i] = prelude[n][i]
          /\ Between(n, prelude[n][i], c)
      BY <2>2, <1>5 DEF SamplesInOrder, PreludeInSequence
    <3>2. ASSUME NEW j \in 1 .. Len(prelude'[n]), i < j, Reports(prelude'[n][j], c)
          PROVE  Before(prelude'[n][i], prelude'[n][j], c)
      <4>1. CASE j \in 1 .. Len(prelude[n])
        BY <2>2, <3>1, <3>2, <4>1, <1>5 DEF SamplesInOrder, PreludeInSequence
      <4>2. CASE j = Len(prelude[n]) + 1
        BY <3>1, <3>2, <4>2, <1>5, <1>7 DEF Between
      <4>3. Len(prelude[n]) \in Nat /\ j \in 1 .. Len(prelude[n]) + 1
        BY <2>2, <1>4, <1>5
      <4>4. j \in 1 .. Len(prelude[n]) \/ j = Len(prelude[n]) + 1
        BY <4>3
      <4> QED BY <4>1, <4>2, <4>4
    <3> QED BY <2>2, <3>1, <3>2
  <2>3. CASE m = n /\ i = Len(prelude[n]) + 1
    BY <2>3, <1>4, <1>5, <1>6
  <2> QED BY <2>1, <2>2, <2>3, <1>4, <1>5
<1>10. TailInSequence'
  <2>0. ASSUME NEW m \in Nodes, NEW c \in Counters, NEW i \in 1 .. Len(tail)
        PROVE  /\ Writes(i, m, c)' <=> Writes(i, m, c)
               /\ Between(m, tail[i].hb, c)' <=> Between(m, tail[i].hb, c)
    BY <1>1 DEF Writes, Between, Stored, Live
  <2> SUFFICES ASSUME NEW m \in Nodes, NEW c \in Counters,
                      NEW i \in 1 .. Len(tail), Writes(i, m, c),
                      NEW j \in 1 .. Len(prelude'[m]), Reports(prelude'[m][j], c)
               PROVE  Before(tail[i].hb, prelude'[m][j], c)
    BY <1>1, <2>0 DEF SamplesInOrder, TailInSequence
  <2>1. CASE m = n /\ j = Len(prelude[n]) + 1
    BY <2>1, <1>5, <1>7 DEF SamplesInOrder, TailInSequence, Between
  <2>2. CASE m # n
    <3>1. prelude'[m] = prelude[m]
      BY <2>2, <1>4
    <3> QED BY <3>1 DEF SamplesInOrder, TailInSequence
  <2>3. CASE m = n /\ j \in 1 .. Len(prelude[n])
    <3>1. prelude'[m][j] = prelude[m][j]
      BY <2>3, <1>5
    <3> QED BY <2>3, <3>1 DEF SamplesInOrder, TailInSequence
  <2>4. m = n => j \in 1 .. Len(prelude[n]) \/ j = Len(prelude[n]) + 1
    <3>1. SUFFICES ASSUME m = n
                   PROVE  j \in 1 .. Len(prelude[n]) \/ j = Len(prelude[n]) + 1
      OBVIOUS
    <3>2. Len(prelude[n]) \in Nat
      BY <1>4
    <3>3. j \in 1 .. Len(prelude[n]) + 1
      BY <3>1, <1>5
    <3> QED BY <3>2, <3>3
  <2> QED BY <2>1, <2>2, <2>3, <2>4
<1> QED BY <1>1, <1>8, <1>9, <1>10 DEF SamplesInOrder, BilledWithinMark

\* The oldest heartbeat being read joins the queued writes as the newest.
LEMMA EnqueueKeepsSamples ==
    ASSUME TypeOK, SamplesInOrder, PreludeInOrder,
           NEW n \in Nodes, NEW k \in 1 .. MaxInFlight, Enqueue(n, k)
    PROVE  SamplesInOrder'
<1> DEFINE hb == prelude[n][1]
           job == WriteJob(n, [hb |-> hb, waiters |-> 1])
<1>1. k = 1 /\ prelude[n] \in Seq(Heartbeats) /\ prelude[n] # <<>> /\ Len(prelude[n]) \in Nat
  BY DEF Enqueue, TypeOK
<1>2. pending[n] = NoEntry
  BY DEF SamplesInOrder
<1>3. /\ prelude' = [prelude EXCEPT ![n] = Tail(@)]
      /\ tail' = Append(tail, job)
      /\ UNCHANGED <<counter, metered, pending, cursor, mark, billed>>
  BY <1>1, <1>2, RemoveAtOne DEF Enqueue, Queue, kernelVars, accountVars
<1>4. /\ prelude'[n] = Tail(prelude[n])
      /\ Len(prelude'[n]) = Len(prelude[n]) - 1
      /\ \A i \in 1 .. Len(prelude'[n]) : prelude'[n][i] = prelude[n][i + 1]
      /\ \A m \in Nodes : m # n => prelude'[m] = prelude[m]
  BY <1>1, <1>3, HeadTailProperties DEF TypeOK
<1>5. tail \in Seq(Jobs) /\ Len(tail) \in Nat
  BY DEF TypeOK, Jobs
<1>6. /\ Len(tail') = Len(tail) + 1
      /\ \A i \in 1 .. Len(tail) : tail'[i] = tail[i]
      /\ tail'[Len(tail) + 1] = job
  BY <1>3, <1>5
<1>7. job.kind = "heartbeat" /\ job.node = n /\ job.hb = hb
  BY DEF WriteJob
<1> HIDE DEF job
<1>8. 1 \in 1 .. Len(prelude[n]) /\ hb = prelude[n][1]
  BY <1>1
<1> HIDE DEF hb
<1>9. ASSUME NEW c \in Counters, Reports(hb, c)
      PROVE  /\ Between(n, hb, c)
             /\ \A j \in 1 .. Len(prelude'[n]) :
                    Reports(prelude'[n][j], c) => Before(hb, prelude'[n][j], c)
  <2>1. Between(n, hb, c)
    BY <1>8, <1>9 DEF SamplesInOrder, PreludeInSequence
  <2>2. ASSUME NEW j \in 1 .. Len(prelude'[n]), Reports(prelude'[n][j], c)
        PROVE  Before(hb, prelude'[n][j], c)
    <3>1. j + 1 \in 1 .. Len(prelude[n]) /\ 1 < j + 1
      BY <1>1, <1>4
    <3>2. prelude'[n][j] = prelude[n][j + 1]
      BY <1>4
    <3> QED BY <1>8, <1>9, <2>2, <3>1, <3>2 DEF SamplesInOrder, PreludeInSequence
  <2> QED BY <2>1, <2>2
<1>13. UNCHANGED <<counter, metered, cursor, mark>>
  BY <1>3
<1>10. StoredFirst'
  BY <1>3 DEF SamplesInOrder, StoredFirst, Before, Stored, Live
<1>11. PreludeInSequence'
  <2> SUFFICES ASSUME NEW m \in Nodes, NEW c \in Counters,
                      NEW i \in 1 .. Len(prelude'[m]), Reports(prelude'[m][i], c)
               PROVE  /\ Between(m, prelude'[m][i], c)
                      /\ \A j \in 1 .. Len(prelude'[m]) :
                          i < j /\ Reports(prelude'[m][j], c) =>
                              Before(prelude'[m][i], prelude'[m][j], c)
    BY <1>13 DEF PreludeInSequence, Reports, Between, Before, Stored, Live
  <2>1. CASE m # n
    BY <2>1, <1>4 DEF SamplesInOrder, PreludeInSequence
  <2>2. CASE m = n
    <3>1. \A j \in 1 .. Len(prelude'[n]) :
              j + 1 \in 1 .. Len(prelude[n]) /\ prelude'[n][j] = prelude[n][j + 1]
      BY <1>1, <1>4
    <3>2. Between(n, prelude'[n][i], c)
      BY <2>2, <3>1 DEF SamplesInOrder, PreludeInSequence
    <3>3. ASSUME NEW j \in 1 .. Len(prelude'[n]), i < j, Reports(prelude'[n][j], c)
          PROVE  Before(prelude'[n][i], prelude'[n][j], c)
      <4>1. i + 1 < j + 1
        BY <1>1, <1>4, <2>2, <3>3
      <4> QED BY <2>2, <3>1, <3>3, <4>1 DEF SamplesInOrder, PreludeInSequence
    <3> QED BY <2>2, <3>2, <3>3
  <2> QED BY <2>1, <2>2
<1>12. TailInSequence'
  <2> DEFINE W(i, m, c) == /\ tail'[i].kind = "heartbeat" /\ tail'[i].node = m
                           /\ Reports(tail'[i].hb, c)
  <2> SUFFICES ASSUME NEW m \in Nodes, NEW c \in Counters,
                      NEW i \in 1 .. Len(tail'), W(i, m, c)
               PROVE  /\ Between(m, tail'[i].hb, c)
                      /\ \A j \in 1 .. Len(tail') :
                          i < j /\ W(j, m, c) => Before(tail'[i].hb, tail'[j].hb, c)
                      /\ \A j \in 1 .. Len(prelude'[m]) :
                          Reports(prelude'[m][j], c) =>
                              Before(tail'[i].hb, prelude'[m][j], c)
    BY <1>13 DEF TailInSequence, Writes, Reports, Between, Before, Stored, Live
  <2>1. \A j \in 1 .. Len(tail') : j \in 1 .. Len(tail) \/ j = Len(tail) + 1
    BY <1>5, <1>6
  <2>2. CASE i = Len(tail) + 1
    <3>1. m = n /\ tail'[i].hb = hb /\ Reports(hb, c)
      BY <2>2, <1>6, <1>7
    <3>2. \A j \in 1 .. Len(tail') : ~(i < j)
      BY <2>2, <1>5, <1>6
    <3> QED BY <3>1, <3>2, <1>9
  <2>3. CASE i \in 1 .. Len(tail)
    <3>1. Writes(i, m, c) /\ tail'[i] = tail[i]
      BY <2>3, <1>6 DEF Writes
    <3>2. Between(m, tail[i].hb, c)
      BY <2>3, <3>1 DEF SamplesInOrder, TailInSequence
    <3>3. ASSUME NEW j \in 1 .. Len(tail'), i < j, W(j, m, c)
          PROVE  Before(tail[i].hb, tail'[j].hb, c)
      <4>1. CASE j \in 1 .. Len(tail)
        <5>1. Writes(j, m, c) /\ tail'[j] = tail[j]
          BY <3>3, <4>1, <1>6 DEF Writes
        <5> QED BY <2>3, <3>1, <3>3, <4>1, <5>1 DEF SamplesInOrder, TailInSequence
      <4>2. CASE j = Len(tail) + 1
        <5>1. tail'[j].hb = hb /\ m = n /\ Reports(hb, c)
          BY <3>3, <4>2, <1>6, <1>7
        <5> QED BY <2>3, <3>1, <5>1, <1>8 DEF SamplesInOrder, TailInSequence
      <4> QED BY <2>1, <4>1, <4>2
    <3>4. ASSUME NEW j \in 1 .. Len(prelude'[m]), Reports(prelude'[m][j], c)
          PROVE  Before(tail[i].hb, prelude'[m][j], c)
      <4>1. PICK p \in 1 .. Len(prelude[m]) : prelude'[m][j] = prelude[m][p]
        <5>1. CASE m = n
          BY <5>1, <1>1, <1>4
        <5>2. CASE m # n
          BY <5>2, <1>4
        <5> QED BY <5>1, <5>2
      <4> QED BY <2>3, <3>1, <3>4, <4>1 DEF SamplesInOrder, TailInSequence
    <3> QED BY <3>1, <3>2, <3>3, <3>4
  <2> QED BY <2>1, <2>2, <2>3
<1> QED BY <1>3, <1>10, <1>11, <1>12 DEF SamplesInOrder, BilledWithinMark

\* The running job leaves the queue: the rest keeps its order, provided the
\* cursor, moved or not, still comes before what is left.
LEMMA DropKeepsSamples ==
    ASSUME TypeOK, SamplesInOrder, tail # <<>>, tail' = Tail(tail),
           UNCHANGED <<counter, metered, prelude, pending>>,
           StoredFirst', BilledWithinMark',
           \A n \in Nodes, c \in Counters :
               \A i \in 1 .. Len(tail) :
                   1 < i /\ Writes(i, n, c) => Before(Stored(n)', tail[i].hb, c),
           \A n \in Nodes, c \in Counters :
               \A j \in 1 .. Len(prelude[n]) :
                   Reports(prelude[n][j], c) => Before(Stored(n)', prelude[n][j], c)
    PROVE  SamplesInOrder'
<1>1. tail \in Seq(Jobs) /\ Len(tail) \in Nat
  BY DEF TypeOK, Jobs
<1>2. /\ Len(tail') = Len(tail) - 1
      /\ \A i \in 1 .. Len(tail') : tail'[i] = tail[i + 1]
  BY <1>1, HeadTailProperties
<1>3. UNCHANGED <<counter, metered, prelude>>
  OBVIOUS
<1>4. PreludeInSequence'
  <2> SUFFICES ASSUME NEW n \in Nodes, NEW c \in Counters,
                      NEW i \in 1 .. Len(prelude[n]), Reports(prelude[n][i], c)
               PROVE  /\ Before(Stored(n)', prelude[n][i], c)
                      /\ Before(prelude[n][i], Live(n), c)
                      /\ \A j \in 1 .. Len(prelude[n]) :
                          i < j /\ Reports(prelude[n][j], c) =>
                              Before(prelude[n][i], prelude[n][j], c)
    BY <1>3 DEF PreludeInSequence, Reports, Between, Before, Live, Stored
  <2> QED BY DEF SamplesInOrder, PreludeInSequence, Between
<1>5. TailInSequence'
  <2> SUFFICES ASSUME NEW n \in Nodes, NEW c \in Counters,
                      NEW i \in 1 .. Len(tail'), Writes(i, n, c)'
               PROVE  /\ Between(n, tail[i].hb, c)'
                      /\ \A j \in 1 .. Len(tail') :
                          i < j /\ Writes(j, n, c)' => Before(tail[i].hb, tail[j].hb, c)'
                      /\ \A j \in 1 .. Len(prelude'[n]) :
                          Reports(prelude[n][j], c)' =>
                              Before(tail[i].hb, prelude[n][j], c)'
    BY DEF TailInSequence
  <2>1. \A j \in 1 .. Len(tail') :
            /\ j + 1 \in 1 .. Len(tail) /\ 1 < j + 1
            /\ tail'[j] = tail[j + 1]
            /\ Writes(j, n, c)' => Writes(j + 1, n, c)
    BY <1>1, <1>2 DEF Writes, Reports
  <2>2. /\ Writes(i + 1, n, c) /\ tail'[i] = tail[i + 1]
        /\ i + 1 \in 1 .. Len(tail) /\ 1 < i + 1
    BY <2>1
  <2>3. Before(Stored(n)', tail'[i].hb, c)
    BY <2>2
  <2>4. /\ Before(tail'[i].hb, Live(n), c)
        /\ \A j \in 1 .. Len(prelude[n]) :
               Reports(prelude[n][j], c) => Before(tail'[i].hb, prelude[n][j], c)
    BY <2>2 DEF SamplesInOrder, TailInSequence, Between
  <2>5. ASSUME NEW j \in 1 .. Len(tail'), i < j, Writes(j, n, c)'
        PROVE  Before(tail'[i].hb, tail'[j].hb, c)
    <3>1. /\ Writes(j + 1, n, c) /\ tail'[j] = tail[j + 1]
          /\ j + 1 \in 1 .. Len(tail) /\ i + 1 < j + 1
      BY <2>1, <2>5, <1>1, <1>2
    <3> QED BY <2>2, <3>1 DEF SamplesInOrder, TailInSequence
  <2>6. Between(n, tail[i].hb, c)'
    BY <2>3, <2>4, <1>3 DEF Between, Before, Live
  <2>7. ASSUME NEW j \in 1 .. Len(prelude'[n]), Reports(prelude[n][j], c)'
        PROVE  Before(tail[i].hb, prelude[n][j], c)'
    BY <2>4, <2>7, <1>3 DEF Reports, Before
  <2>8. ASSUME NEW j \in 1 .. Len(tail'), i < j, Writes(j, n, c)'
        PROVE  Before(tail[i].hb, tail[j].hb, c)'
    BY <2>5, <2>8 DEF Before
  <2> QED BY <2>6, <2>7, <2>8
<1> QED BY <1>4, <1>5 DEF SamplesInOrder

LEMMA FlushCommitsKeepsSamples ==
    ASSUME TypeOK, SamplesInOrder, FlushCommits
    PROVE  SamplesInOrder'
<1>1. /\ tail # <<>> /\ tail' = Tail(tail)
      /\ UNCHANGED <<counter, metered, prelude, pending, cursor, mark, billed>>
  BY DEF FlushCommits, Running, kernelVars, masterVars, accountVars
<1>2. UNCHANGED <<counter, metered, cursor, mark, billed>>
  BY <1>1
<1>3. StoredFirst' /\ BilledWithinMark'
  BY <1>2 DEF SamplesInOrder, StoredFirst, BilledWithinMark, Before, Stored, Live
<1>4. \A n \in Nodes : Stored(n)' = Stored(n)
  BY <1>2 DEF Stored
<1>5. \A n \in Nodes, c \in Counters : \A i \in 1 .. Len(tail) :
          1 < i /\ Writes(i, n, c) => Before(Stored(n)', tail[i].hb, c)
  BY <1>4 DEF SamplesInOrder, TailInSequence, Between
<1>6. \A n \in Nodes, c \in Counters : \A j \in 1 .. Len(prelude[n]) :
          Reports(prelude[n][j], c) => Before(Stored(n)', prelude[n][j], c)
  BY <1>4 DEF SamplesInOrder, PreludeInSequence, Between
<1> QED BY <1>1, <1>3, <1>5, <1>6, DropKeepsSamples

\* The oldest queued heartbeat is billed: its sample becomes the cursor.
LEMMA PersistKeepsSamples ==
    ASSUME TypeOK, SamplesInOrder, PersistTraffic
    PROVE  SamplesInOrder'
<1>1. /\ tail # <<>> /\ Running("heartbeat")
      /\ UNCHANGED <<counter, metered, prelude>>
  BY DEF PersistTraffic, Running, kernelVars
<1>2. /\ tail \in Seq(Jobs) /\ Len(tail) \in Nat /\ 1 \in 1 .. Len(tail)
      /\ Head(tail) = tail[1] /\ tail[1].kind = "heartbeat"
  BY <1>1 DEF TypeOK, Jobs, Running
<1>3. PICK n \in Nodes, hb \in Heartbeats : n = tail[1].node /\ hb = tail[1].hb
  BY <1>1, <1>2, RunningHeartbeat DEF HeartbeatJobs
<1>4. /\ cursor' = [cursor EXCEPT ![n] = Advance(@, hb.snap, hb.snap)]
      /\ mark' = [mark EXCEPT ![n] = Advance(@, hb.snap, hb.taken)]
      /\ billed' = [billed EXCEPT ![n] = Plus(@, Charge(cursor[n], hb.snap))]
      /\ Resolve(Head(tail))
  BY <1>2, <1>3 DEF PersistTraffic
<1>5. pending[n] = NoEntry
  BY <1>3 DEF SamplesInOrder
<1>6. tail' = Tail(tail) /\ UNCHANGED pending
  BY <1>2, <1>3, <1>4, <1>5 DEF Resolve
<1>7. \A c \in Counters : Reports(hb, c) <=> Writes(1, n, c)
  BY <1>2, <1>3 DEF Writes
<1>8. ASSUME NEW m \in Nodes, NEW c \in Counters, m # n \/ ~Reports(hb, c)
      PROVE  /\ cursor'[m][c] = cursor[m][c] /\ mark'[m][c] = mark[m][c]
             /\ billed'[m][c] = billed[m][c]
  <2>1. CASE m # n
    BY <2>1, <1>4 DEF TypeOK
  <2>2. CASE m = n /\ ~Reports(hb, c)
    BY <2>2, <1>4, AccountsAreNat DEF TypeOK, Advance, Plus, Charge, Reports
  <2> QED BY <1>8, <2>1, <2>2
<1>9. ASSUME NEW c \in Counters, Reports(hb, c)
      PROVE  /\ cursor'[n][c] = hb.snap[c] /\ mark'[n][c] = hb.taken[c]
             /\ \/ billed'[n][c] = billed[n][c] + TrafficDelta(cursor[n][c], hb.snap[c])
                \/ billed'[n][c] = billed[n][c]
  BY <1>3, <1>4, <1>9, AccountsAreNat DEF TypeOK, Advance, Plus, Charge, Reports
<1>10. ASSUME NEW c \in Counters, Reports(hb, c)
       PROVE  Before(Stored(n), hb, c) /\ Before(hb, Live(n), c)
  BY <1>2, <1>3, <1>7, <1>10 DEF SamplesInOrder, TailInSequence, Between
<1>11. ASSUME NEW m \in Nodes, NEW c \in Counters, m # n \/ ~Reports(hb, c), NEW x
       PROVE  Before(Stored(m)', x, c) <=> Before(Stored(m), x, c)
  BY <1>8, <1>11 DEF Before, Stored
<1>12. ASSUME NEW c \in Counters, Reports(hb, c), NEW x
       PROVE  Before(Stored(n)', x, c) <=> Before(hb, x, c)
  BY <1>9, <1>12 DEF Before, Stored
<1>13. StoredFirst'
  <2> SUFFICES ASSUME NEW m \in Nodes, NEW c \in Counters
               PROVE  Before(Stored(m)', Live(m), c)
    BY <1>1 DEF StoredFirst, Before, Live, Stored
  <2>1. CASE m # n \/ ~Reports(hb, c)
    BY <2>1, <1>11 DEF SamplesInOrder, StoredFirst
  <2>2. CASE m = n /\ Reports(hb, c)
    BY <2>2, <1>10, <1>12
  <2> QED BY <2>1, <2>2
<1>14. BilledWithinMark'
  <2> SUFFICES ASSUME NEW m \in Nodes, NEW c \in Counters
               PROVE  billed'[m][c] <= mark'[m][c]
    BY DEF BilledWithinMark
  <2>1. billed[m][c] <= mark[m][c]
    BY DEF SamplesInOrder, BilledWithinMark
  <2>2. CASE m # n \/ ~Reports(hb, c)
    BY <2>1, <2>2, <1>8
  <2>3. CASE m = n /\ Reports(hb, c)
    <3>1. mark[n][c] + TrafficDelta(cursor[n][c], hb.snap[c]) <= hb.taken[c]
      BY <2>3, <1>10 DEF Before, Stored
    <3>2. /\ TrafficDelta(cursor[n][c], hb.snap[c]) \in Nat /\ hb.taken[c] \in Nat
          /\ mark[n][c] \in Nat /\ billed[n][c] \in Nat
      BY <1>3, AccountsAreNat, SampleIsNat, DeltaIsNat
    <3> QED BY <2>1, <2>3, <3>1, <3>2, <1>9
  <2> QED BY <2>2, <2>3
<1>15. ASSUME NEW m \in Nodes, NEW c \in Counters, NEW i \in 1 .. Len(tail),
              1 < i, Writes(i, m, c)
       PROVE  Before(Stored(m)', tail[i].hb, c)
  <2>1. CASE m # n \/ ~Reports(hb, c)
    BY <2>1, <1>11, <1>15 DEF SamplesInOrder, TailInSequence, Between
  <2>2. CASE m = n /\ Reports(hb, c)
    <3>1. Before(hb, tail[i].hb, c)
      BY <2>2, <1>2, <1>3, <1>7, <1>15 DEF SamplesInOrder, TailInSequence
    <3> QED BY <2>2, <3>1, <1>12
  <2> QED BY <2>1, <2>2
<1>16. ASSUME NEW m \in Nodes, NEW c \in Counters, NEW j \in 1 .. Len(prelude[m]),
              Reports(prelude[m][j], c)
       PROVE  Before(Stored(m)', prelude[m][j], c)
  <2>1. CASE m # n \/ ~Reports(hb, c)
    BY <2>1, <1>11, <1>16 DEF SamplesInOrder, PreludeInSequence, Between
  <2>2. CASE m = n /\ Reports(hb, c)
    <3>1. Before(hb, prelude[m][j], c)
      BY <2>2, <1>2, <1>3, <1>7, <1>16 DEF SamplesInOrder, TailInSequence
    <3> QED BY <2>2, <3>1, <1>12
  <2> QED BY <2>1, <2>2
<1> QED BY <1>1, <1>6, <1>13, <1>14, <1>15, <1>16, DropKeepsSamples

-----------------------------------------------------------------------------
\* The writes of the database succeed within their attempts, and the reads
\* before queueing keep the order of arrival.
InOrder == MaxOutages = 0 /\ PreludeInOrder

\* A step that leaves every sample where it is: timers, telemetry, attempts.
LEMMA StillKeepsSamples ==
    ASSUME SamplesInOrder,
           UNCHANGED <<counter, metered, prelude, pending, tail, cursor, mark, billed>>
    PROVE  SamplesInOrder'
BY DEF SamplesInOrder, StoredFirst, PreludeInSequence, TailInSequence,
       BilledWithinMark, Writes, Reports, Between, Before, Stored, Live

LEMMA FlushHourlyKeepsSamples ==
    ASSUME TypeOK, SamplesInOrder, FlushHourly, \E n \in Nodes : bucket[n] # Nothing
    PROVE  SamplesInOrder'
<1> DEFINE job == [kind |-> "flush", batch |-> bucket]
<1>1. /\ tail' = Append(tail, job)
      /\ UNCHANGED <<counter, metered, prelude, pending, cursor, mark, billed>>
  BY DEF FlushHourly, Queue, kernelVars, masterVars, accountVars
<1>2. tail \in Seq(Jobs) /\ Len(tail) \in Nat /\ job.kind # "heartbeat"
  BY DEF TypeOK, Jobs
<1> HIDE DEF job
<1>3. /\ Len(tail') = Len(tail) + 1
      /\ \A i \in 1 .. Len(tail) : tail'[i] = tail[i]
      /\ tail'[Len(tail) + 1] = job
  BY <1>1, <1>2
<1>4. ASSUME NEW n \in Nodes, NEW c \in Counters, NEW i \in 1 .. Len(tail'),
             Writes(i, n, c)'
      PROVE  i \in 1 .. Len(tail) /\ tail'[i] = tail[i] /\ Writes(i, n, c)
  <2>1. i # Len(tail) + 1
    BY <1>2, <1>3, <1>4 DEF Writes
  <2>2. i \in 1 .. Len(tail) /\ tail'[i] = tail[i]
    BY <2>1, <1>2, <1>3
  <2> QED BY <2>2, <1>4 DEF Writes, Reports
<1>5. StoredFirst' /\ PreludeInSequence' /\ BilledWithinMark'
  <2>1. UNCHANGED <<counter, metered, prelude, cursor, mark, billed>>
    BY <1>1
  <2> QED BY <2>1 DEF SamplesInOrder, StoredFirst, PreludeInSequence, BilledWithinMark,
                      Reports, Between, Before, Stored, Live
<1>6. TailInSequence'
  <2> SUFFICES ASSUME NEW n \in Nodes, NEW c \in Counters,
                      NEW i \in 1 .. Len(tail'), Writes(i, n, c)'
               PROVE  /\ Between(n, tail[i].hb, c)'
                      /\ \A j \in 1 .. Len(tail') :
                          i < j /\ Writes(j, n, c)' => Before(tail[i].hb, tail[j].hb, c)'
                      /\ \A j \in 1 .. Len(prelude'[n]) :
                          Reports(prelude[n][j], c)' =>
                              Before(tail[i].hb, prelude[n][j], c)'
    BY DEF TailInSequence
  <2>1. i \in 1 .. Len(tail) /\ tail'[i] = tail[i] /\ Writes(i, n, c)
    BY <1>4
  <2>2. UNCHANGED <<counter, metered, cursor, mark, prelude>>
    BY <1>1
  <2>3. Between(n, tail[i].hb, c)'
    <3>1. Between(n, tail[i].hb, c)
      BY <2>1 DEF SamplesInOrder, TailInSequence
    <3> QED BY <2>1, <2>2, <3>1 DEF Between, Before, Stored, Live
  <2>4. ASSUME NEW j \in 1 .. Len(tail'), i < j, Writes(j, n, c)'
        PROVE  Before(tail[i].hb, tail[j].hb, c)'
    <3>1. j \in 1 .. Len(tail) /\ tail'[j] = tail[j] /\ Writes(j, n, c)
      BY <1>4, <2>4
    <3>2. Before(tail[i].hb, tail[j].hb, c)
      BY <2>1, <2>4, <3>1 DEF SamplesInOrder, TailInSequence
    <3> QED BY <2>1, <3>1, <3>2 DEF Before
  <2>5. ASSUME NEW j \in 1 .. Len(prelude'[n]), Reports(prelude[n][j], c)'
        PROVE  Before(tail[i].hb, prelude[n][j], c)'
    <3>1. Before(tail[i].hb, prelude[n][j], c)
      BY <2>1, <2>2, <2>5 DEF SamplesInOrder, TailInSequence, Reports
    <3> QED BY <2>1, <2>2, <3>1 DEF Before
  <2> QED BY <2>3, <2>4, <2>5
<1> QED BY <1>1, <1>5, <1>6 DEF SamplesInOrder

\* A stop empties the queues; the cursor still comes before the live counters.
LEMMA StopKeepsSamples ==
    ASSUME TypeOK, SamplesInOrder, Stop
    PROVE  SamplesInOrder'
<1>1. /\ tail' = <<>> /\ prelude' = [n \in Nodes |-> <<>>]
      /\ pending' = [n \in Nodes |-> NoEntry]
  BY DEF Stop
<1>2. UNCHANGED <<counter, metered, cursor, mark, billed>>
  BY DEF Stop, kernelVars, accountVars
<1>3. StoredFirst' /\ BilledWithinMark'
  BY <1>2 DEF SamplesInOrder, StoredFirst, BilledWithinMark, Before, Stored, Live
<1>4. PreludeInSequence'
  BY <1>1 DEF PreludeInSequence
<1>5. TailInSequence'
  BY <1>1 DEF TailInSequence
<1> QED BY <1>1, <1>3, <1>4, <1>5 DEF SamplesInOrder

LEMMA SamplesInOrderStep ==
    ASSUME InOrder, TypeOK, SamplesInOrder, [Next]_vars
    PROVE  SamplesInOrder'
<1>1. outages = 0
  BY DEF InOrder, TypeOK
<1>2. \A n \in Nodes : pending[n] = NoEntry
  BY DEF SamplesInOrder
<1>3. ASSUME NEW n \in Nodes, RetryTimer(n) PROVE SamplesInOrder'
  <2>1. UNCHANGED <<counter, metered, prelude, pending, tail, cursor, mark, billed>>
    BY <1>2, <1>3 DEF RetryTimer, kernelVars, accountVars
  <2> QED BY <2>1, StillKeepsSamples
<1>4. CASE PersistTelemetry
  <2>1. UNCHANGED <<counter, metered, prelude, pending, tail, cursor, mark, billed>>
    BY <1>4 DEF PersistTelemetry, kernelVars, masterVars, accountVars
  <2> QED BY <2>1, StillKeepsSamples
<1>5. CASE AttemptFails
  <2>1. UNCHANGED <<counter, metered, prelude, pending, tail, cursor, mark, billed>>
    BY <1>5 DEF AttemptFails, kernelVars, masterVars, accountVars
  <2> QED BY <2>1, StillKeepsSamples
<1>6. CASE UNCHANGED vars
  <2>1. UNCHANGED <<counter, metered, prelude, pending, tail, cursor, mark, billed>>
    BY <1>6 DEF vars, kernelVars, masterVars, writerVars, accountVars
  <2> QED BY <2>1, StillKeepsSamples
<1>7. CASE FlushHourly
  <2>1. CASE \A n \in Nodes : bucket[n] = Nothing
    <3>1. UNCHANGED <<counter, metered, prelude, pending, tail, cursor, mark, billed>>
      BY <1>7, <2>1 DEF FlushHourly, kernelVars, masterVars, accountVars
    <3> QED BY <3>1, StillKeepsSamples
  <2> QED BY <1>7, <2>1, FlushHourlyKeepsSamples
<1>8. ~HeartbeatWriteFails /\ ~FlushFails
  BY <1>1 DEF InOrder, HeartbeatWriteFails, FlushFails
<1> QED
  BY <1>3, <1>4, <1>5, <1>6, <1>7, <1>8, TrafficKeepsSamples, RestartKeepsSamples,
     HeartbeatKeepsSamples, EnqueueKeepsSamples, PersistKeepsSamples,
     FlushCommitsKeepsSamples, StopKeepsSamples
     DEF Next, InOrder

LEMMA SamplesInOrderInit == Init => SamplesInOrder
<1> SUFFICES ASSUME Init PROVE SamplesInOrder
  OBVIOUS
<1>1. PreludeInSequence /\ TailInSequence
  BY DEF Init, PreludeInSequence, TailInSequence
<1>2. StoredFirst /\ BilledWithinMark
  BY DEF Init, StoredFirst, BilledWithinMark, Before, Stored, Live, Nothing, TrafficDelta
<1> QED BY <1>1, <1>2 DEF Init, SamplesInOrder

\* As long as writes succeed within their attempts and heartbeats keep their
\* order, every sample on its way to the cursor stays in the order it was taken,
\* through any interleaving of nodes, kernel restarts, failed attempts, hourly
\* flushes and stops of the master (drainHeartbeats, enqueueAgentWrite).
THEOREM SamplesStayInOrder ==
    ASSUME InOrder
    PROVE  Spec => []SamplesInOrder
<1>1. TypeOK /\ SamplesInOrder /\ [Next]_vars => SamplesInOrder'
  BY SamplesInOrderStep
<1> QED BY SamplesInOrderInit, TypeCorrect, <1>1, PTL DEF Spec

LEMMA OrderPreventsOverBilling == TypeOK /\ SamplesInOrder => NoOverBilling
<1> SUFFICES ASSUME TypeOK, SamplesInOrder, NEW n \in Nodes, NEW c \in Counters
             PROVE  billed[n][c] <= metered[n][c]
  BY DEF NoOverBilling
<1>1. billed[n][c] <= mark[n][c]
  BY DEF SamplesInOrder, BilledWithinMark
<1>2. mark[n][c] + TrafficDelta(cursor[n][c], counter[n][c]) <= metered[n][c]
  BY DEF SamplesInOrder, StoredFirst, Before, Stored, Live
<1>3. /\ billed[n][c] \in Nat /\ mark[n][c] \in Nat /\ cursor[n][c] \in Nat
      /\ counter[n][c] \in Nat /\ metered[n][c] \in Nat
  BY AccountsAreNat
<1>4. TrafficDelta(cursor[n][c], counter[n][c]) \in Nat
  BY <1>3, DeltaIsNat
<1> HIDE DEF TrafficDelta
<1> QED BY <1>1, <1>2, <1>3, <1>4

\* Under the same conditions no byte is ever billed twice
\* (persistTrafficSnapshots).
THEOREM NeverOverBilled ==
    ASSUME InOrder
    PROVE  Spec => []NoOverBilling
<1>1. Spec => []SamplesInOrder
  BY SamplesStayInOrder
<1> QED BY <1>1, TypeCorrect, OrderPreventsOverBilling, PTL

LEMMA MeterStep ==
    ASSUME TypeOK, NoOverBilling', [Next]_vars
    PROVE  [Meter!Next]_(Meter!vars)
<1>1. ASSUME NEW n \in Nodes, NEW c \in Counters, Traffic(n, c)
      PROVE  Meter!Measure(n, c)
  BY <1>1 DEF Traffic, Meter!Measure, accountVars
<1>2. CASE PersistTraffic
  <2>1. PICK n \in Nodes, snap \in Amounts :
            billed' = [billed EXCEPT ![n] = Plus(@, Charge(cursor[n], snap))]
    <3>1. Head(tail) \in HeartbeatJobs
      BY <1>2, RunningHeartbeat DEF PersistTraffic, TypeOK, Jobs
    <3>2. Head(tail).node \in Nodes /\ Head(tail).hb.snap \in Amounts
      BY <3>1 DEF HeartbeatJobs, Heartbeats
    <3> QED BY <1>2, <3>2 DEF PersistTraffic
  <2>2. Charge(cursor[n], snap) \in Amounts /\ billed[n] \in Amounts
    BY ChargeIsAmount DEF TypeOK
  <2>3. \A c \in Counters : billed[n][c] <= billed'[n][c]
    BY <2>1, <2>2 DEF TypeOK, Plus, Amounts
  <2>4. UNCHANGED metered
    BY <1>2 DEF PersistTraffic, kernelVars
  <2>5. \A c \in Counters : billed'[n][c] <= metered[n][c]
    BY <2>4 DEF NoOverBilling
  <2>6. billed' = [billed EXCEPT ![n] = billed'[n]]
    BY <2>1 DEF TypeOK
  <2>7. Meter!Bill(n)
    BY <2>3, <2>4, <2>5, <2>6 DEF Meter!Bill
  <2> QED BY <2>7 DEF Meter!Next
<1>3. CASE ~PersistTraffic /\ ~\E n \in Nodes, c \in Counters : Traffic(n, c)
  <2>1. UNCHANGED <<metered, billed>>
    BY <1>3 DEF Next, KernelRestart, Heartbeat, Enqueue, RetryTimer, PersistTelemetry,
                AttemptFails, HeartbeatWriteFails, FlushHourly, FlushCommits,
                FlushFails, Stop, vars, kernelVars, accountVars
  <2> QED BY <2>1 DEF Meter!vars
<1> QED BY <1>1, <1>2, <1>3 DEF Meter!Next

\* Under the same conditions the pipeline implements the abstract meter: one
\* charge at a time, never backwards, never past what was measured
\* (persistTrafficSnapshots).
THEOREM PipelineImplementsMetering ==
    ASSUME InOrder
    PROVE  Spec => ImplementsMetering
<1>1. Init => Meter!Init
  BY DEF Init, Meter!Init, Nothing
<1>2. TypeOK /\ NoOverBilling' /\ [Next]_vars => [Meter!Next]_(Meter!vars)
  BY MeterStep
<1>3. Spec => []NoOverBilling
  BY NeverOverBilled
<1> QED BY <1>1, <1>2, <1>3, TypeCorrect, PTL DEF Spec, ImplementsMetering, Meter!Spec

-----------------------------------------------------------------------------
\* Sums over the queue of writes: what a job at either end adds.
WaitersIn(q, n) == SumFunction([i \in DOMAIN q |-> Waiters(q[i], n)])
FlushedIn(q, n, c) == SumFunction([i \in DOMAIN q |-> Flushed(q[i], n, c)])

LEMMA JobsWait ==
    ASSUME NEW job \in Jobs, NEW n \in Nodes
    PROVE  Waiters(job, n) \in Nat
BY DEF Jobs, HeartbeatJobs, FlushJobs, Waiters

LEMMA JobsFlush ==
    ASSUME NEW job \in Jobs, NEW n \in Nodes, NEW c \in Counters
    PROVE  Flushed(job, n, c) \in Nat
BY DEF Jobs, HeartbeatJobs, FlushJobs, Flushed, Amounts

LEMMA Appended ==
    ASSUME NEW q \in Seq(Jobs), NEW job \in Jobs
    PROVE  /\ Len(q) \in Nat /\ DOMAIN q = 1 .. Len(q)
           /\ DOMAIN Append(q, job) = 1 .. Len(q) + 1
           /\ \A i \in 1 .. Len(q) : q[i] \in Jobs /\ Append(q, job)[i] = q[i]
           /\ Append(q, job)[Len(q) + 1] = job
OBVIOUS

LEMMA Rest ==
    ASSUME NEW q \in Seq(Jobs), q # <<>>
    PROVE  /\ Tail(q) \in Seq(Jobs) /\ Len(Tail(q)) \in Nat
           /\ Head(q) \in Jobs /\ q[1] = Head(q)
           /\ DOMAIN Tail(q) = 1 .. Len(Tail(q))
           /\ DOMAIN q = 1 .. Len(Tail(q)) + 1
           /\ \A i \in 1 .. Len(Tail(q)) + 1 : q[i] \in Jobs
           /\ \A i \in 1 .. Len(Tail(q)) : Tail(q)[i] = q[i + 1]
<1>1. Len(q) \in Nat \ {0} /\ Len(Tail(q)) = Len(q) - 1
  BY HeadTailProperties, EmptySeq
<1> QED BY <1>1, HeadTailProperties

LEMMA WaitersOfNone == ASSUME NEW n PROVE WaitersIn(<<>>, n) = 0
BY SumOfNone DEF WaitersIn

LEMMA WaitersOfMore ==
    ASSUME NEW q \in Seq(Jobs), NEW job \in Jobs, NEW n \in Nodes
    PROVE  /\ WaitersIn(q, n) \in Int
           /\ WaitersIn(Append(q, job), n) = WaitersIn(q, n) + Waiters(job, n)
<1> DEFINE k == Len(q)
           g == [i \in DOMAIN q |-> Waiters(q[i], n)]
           f == [i \in DOMAIN Append(q, job) |-> Waiters(Append(q, job)[i], n)]
<1>1. /\ k \in Nat /\ DOMAIN g = 1 .. k /\ DOMAIN f = 1 .. k + 1
      /\ \A i \in 1 .. k : g[i] = f[i]
      /\ f[k + 1] = Waiters(job, n)
  BY Appended
<1>2. \A i \in 1 .. k + 1 : f[i] \in Int
  <2> SUFFICES ASSUME NEW i \in 1 .. k + 1 PROVE f[i] \in Int
    OBVIOUS
  <2>1. Append(q, job)[i] \in Jobs /\ i \in DOMAIN Append(q, job)
    BY Appended
  <2>2. f[i] = Waiters(Append(q, job)[i], n)
    BY <2>1
  <2> HIDE DEF f
  <2> QED BY <2>1, <2>2, JobsWait
<1>3. WaitersIn(q, n) = SumFunction(g) /\ WaitersIn(Append(q, job), n) = SumFunction(f)
  BY DEF WaitersIn
<1> HIDE DEF k, f, g
<1> QED BY <1>1, <1>2, <1>3, SumWithLast

LEMMA WaitersOfRest ==
    ASSUME NEW q \in Seq(Jobs), q # <<>>, NEW n \in Nodes
    PROVE  /\ WaitersIn(Tail(q), n) \in Int
           /\ WaitersIn(q, n) = Waiters(Head(q), n) + WaitersIn(Tail(q), n)
<1> DEFINE k == Len(Tail(q))
           g == [i \in DOMAIN Tail(q) |-> Waiters(Tail(q)[i], n)]
           f == [i \in DOMAIN q |-> Waiters(q[i], n)]
<1>1. /\ k \in Nat /\ DOMAIN g = 1 .. k /\ DOMAIN f = 1 .. k + 1
      /\ \A i \in 1 .. k : g[i] = f[i + 1]
      /\ f[1] = Waiters(Head(q), n)
  BY Rest
<1>2. \A i \in 1 .. k + 1 : f[i] \in Int
  <2> SUFFICES ASSUME NEW i \in 1 .. k + 1 PROVE f[i] \in Int
    OBVIOUS
  <2>1. q[i] \in Jobs /\ i \in DOMAIN q
    BY Rest
  <2>2. f[i] = Waiters(q[i], n)
    BY <2>1
  <2> HIDE DEF f
  <2> QED BY <2>1, <2>2, JobsWait
<1>3. WaitersIn(Tail(q), n) = SumFunction(g) /\ WaitersIn(q, n) = SumFunction(f)
  BY DEF WaitersIn
<1> HIDE DEF k, f, g
<1>4. SumFunction(g) \in Int /\ SumFunction(f) = f[1] + SumFunction(g)
  BY ZenonT(40), <1>1, <1>2, SumWithFirst
<1> QED BY <1>1, <1>3, <1>4

LEMMA FlushedOfNone == ASSUME NEW n, NEW c PROVE FlushedIn(<<>>, n, c) = 0
BY SumOfNone DEF FlushedIn

LEMMA FlushedOfMore ==
    ASSUME NEW q \in Seq(Jobs), NEW job \in Jobs, NEW n \in Nodes, NEW c \in Counters
    PROVE  /\ FlushedIn(q, n, c) \in Int
           /\ FlushedIn(Append(q, job), n, c) = FlushedIn(q, n, c) + Flushed(job, n, c)
<1> DEFINE k == Len(q)
           g == [i \in DOMAIN q |-> Flushed(q[i], n, c)]
           f == [i \in DOMAIN Append(q, job) |-> Flushed(Append(q, job)[i], n, c)]
<1>1. /\ k \in Nat /\ DOMAIN g = 1 .. k /\ DOMAIN f = 1 .. k + 1
      /\ \A i \in 1 .. k : g[i] = f[i]
      /\ f[k + 1] = Flushed(job, n, c)
  BY Appended
<1>2. \A i \in 1 .. k + 1 : f[i] \in Int
  <2> SUFFICES ASSUME NEW i \in 1 .. k + 1 PROVE f[i] \in Int
    OBVIOUS
  <2>1. Append(q, job)[i] \in Jobs /\ i \in DOMAIN Append(q, job)
    BY Appended
  <2>2. f[i] = Flushed(Append(q, job)[i], n, c)
    BY <2>1
  <2> HIDE DEF f
  <2> QED BY <2>1, <2>2, JobsFlush
<1>3. FlushedIn(q, n, c) = SumFunction(g) /\ FlushedIn(Append(q, job), n, c) = SumFunction(f)
  BY DEF FlushedIn
<1> HIDE DEF k, f, g
<1> QED BY <1>1, <1>2, <1>3, SumWithLast

LEMMA FlushedOfRest ==
    ASSUME NEW q \in Seq(Jobs), q # <<>>, NEW n \in Nodes, NEW c \in Counters
    PROVE  /\ FlushedIn(Tail(q), n, c) \in Int
           /\ FlushedIn(q, n, c) = Flushed(Head(q), n, c) + FlushedIn(Tail(q), n, c)
<1> DEFINE k == Len(Tail(q))
           g == [i \in DOMAIN Tail(q) |-> Flushed(Tail(q)[i], n, c)]
           f == [i \in DOMAIN q |-> Flushed(q[i], n, c)]
<1>1. /\ k \in Nat /\ DOMAIN g = 1 .. k /\ DOMAIN f = 1 .. k + 1
      /\ \A i \in 1 .. k : g[i] = f[i + 1]
      /\ f[1] = Flushed(Head(q), n, c)
  BY Rest
<1>2. \A i \in 1 .. k + 1 : f[i] \in Int
  <2> SUFFICES ASSUME NEW i \in 1 .. k + 1 PROVE f[i] \in Int
    OBVIOUS
  <2>1. q[i] \in Jobs /\ i \in DOMAIN q
    BY Rest
  <2>2. f[i] = Flushed(q[i], n, c)
    BY <2>1
  <2> HIDE DEF f
  <2> QED BY <2>1, <2>2, JobsFlush
<1>3. FlushedIn(Tail(q), n, c) = SumFunction(g) /\ FlushedIn(q, n, c) = SumFunction(f)
  BY DEF FlushedIn
<1> HIDE DEF k, f, g
<1>4. SumFunction(g) \in Int /\ SumFunction(f) = f[1] + SumFunction(g)
  BY ZenonT(40), <1>1, <1>2, SumWithFirst
<1> QED BY <1>1, <1>3, <1>4

LEMMA FlushedIsNat ==
    ASSUME NEW q \in Seq(Jobs), NEW n \in Nodes, NEW c \in Counters
    PROVE  FlushedIn(q, n, c) \in Nat
<1> DEFINE f == [i \in DOMAIN q |-> Flushed(q[i], n, c)]
<1>1. PICK S : S = DOMAIN f
  OBVIOUS
<1>2. IsFiniteSet(S)
  BY <1>1, FS_Interval
<1>3. \A i \in S : f[i] \in Nat
  BY <1>1, JobsFlush
<1>4. FlushedIn(q, n, c) = SumFunctionOnSet(f, S)
  BY <1>1 DEF FlushedIn, SumFunction
<1> HIDE DEF f
<1> QED BY <1>2, <1>3, <1>4, SumIsNat

-----------------------------------------------------------------------------
\* The handlers of a node that the queues hold: in the reads before queueing, in
\* a queued write, in the entry that waits for its turn.
EntryWaits(entry) == IF entry = NoEntry THEN 0 ELSE entry.waiters
Held(n) == Len(prelude[n]) + WaitersIn(tail, n) + EntryWaits(pending[n])

LEMMA AnsweredByHeld ==
    /\ HandlersAnsweredOnce <=> \A n \in Nodes : waiting[n] = Held(n)
    /\ HandlersAnsweredOnce' <=> \A n \in Nodes : waiting'[n] = Held(n)'
BY DEF HandlersAnsweredOnce, Held, EntryWaits, WaitersOf, WaitersIn

\* The three parts of what is held are counts.
LEMMA HeldParts ==
    ASSUME TypeOK, NEW n \in Nodes
    PROVE  /\ waiting[n] \in Int
           /\ prelude[n] \in Seq(Heartbeats) /\ Len(prelude[n]) \in Nat
           /\ tail \in Seq(Jobs)
           /\ WaitersIn(tail, n) \in Int
           /\ EntryWaits(pending[n]) \in Nat
<1>1. /\ waiting[n] \in Int
      /\ prelude[n] \in Seq(Heartbeats) /\ Len(prelude[n]) \in Nat
      /\ tail \in Seq(Jobs)
  BY DEF TypeOK, Jobs
<1>2. EntryWaits(pending[n]) \in Nat
  BY DEF TypeOK, EntryWaits, Entries
<1>3. WaitersIn(tail, n) \in Int
  <2>1. CASE tail = <<>>
    BY <2>1, WaitersOfNone
  <2>2. CASE tail # <<>>
    <3>1. Waiters(Head(tail), n) \in Nat
      BY <1>1, <2>2, JobsWait, Rest
    <3> QED BY <1>1, <2>2, <3>1, WaitersOfRest
  <2> QED BY <2>1, <2>2
<1> QED BY <1>1, <1>2, <1>3

LEMMA NoEntryWaits == EntryWaits(NoEntry) = 0
BY DEF EntryWaits

\* What the jobs that a step queues, or takes off the queue, are waited for by.
LEMMA WriteJobWaits ==
    ASSUME NEW n \in Nodes, NEW m \in Nodes, NEW entry
    PROVE  Waiters(WriteJob(n, entry), m) = IF m = n THEN entry.waiters ELSE 0
BY DEF WriteJob, Waiters

LEMMA HeldStays ==
    ASSUME HandlersAnsweredOnce, UNCHANGED <<waiting, prelude, tail, pending>>
    PROVE  HandlersAnsweredOnce'
BY DEF HandlersAnsweredOnce, WaitersOf

LEMMA HeartbeatAnswers ==
    ASSUME TypeOK, HandlersAnsweredOnce,
           NEW n \in Nodes, NEW collected \in BOOLEAN, Heartbeat(n, collected)
    PROVE  HandlersAnsweredOnce'
<1> SUFFICES ASSUME NEW m \in Nodes PROVE waiting'[m] = Held(m)'
  BY AnsweredByHeld
<1>1. waiting[m] = Held(m)
  BY AnsweredByHeld
<1>2. PICK hb : prelude' = [prelude EXCEPT ![n] = Append(@, hb)]
  BY DEF Heartbeat
<1>3. UNCHANGED <<tail, pending>> /\ waiting' = [waiting EXCEPT ![n] = @ + 1]
  BY DEF Heartbeat, writerVars
<1>4. /\ m # n => waiting'[m] = waiting[m] /\ prelude'[m] = prelude[m]
      /\ m = n => waiting'[m] = waiting[m] + 1 /\ prelude'[m] = Append(prelude[m], hb)
  BY <1>2, <1>3 DEF TypeOK
<1>5. Len(Append(prelude[m], hb)) = Len(prelude[m]) + 1
  BY HeldParts, LenProperties
<1> QED BY SMTT(30), <1>1, <1>3, <1>4, <1>5, HeldParts DEF Held

\* A handler moves from the reads into the entry or into a write of its own.
LEMMA EnqueueAnswers ==
    ASSUME TypeOK, HandlersAnsweredOnce,
           NEW n \in Nodes, NEW i \in 1 .. MaxInFlight, Enqueue(n, i)
    PROVE  HandlersAnsweredOnce'
<1> SUFFICES ASSUME NEW m \in Nodes PROVE waiting'[m] = Held(m)'
  BY AnsweredByHeld
<1>1. waiting[m] = Held(m)
  BY AnsweredByHeld
<1>2. /\ i \in 1 .. Len(prelude[n])
      /\ prelude' = [prelude EXCEPT ![n] = RemoveAt(@, i)]
      /\ UNCHANGED waiting
  BY DEF Enqueue
<1>3. prelude[n] \in Seq(Heartbeats) /\ Len(RemoveAt(prelude[n], i)) = Len(prelude[n]) - 1
  BY <1>2, HeldParts, RemoveAtShortens
<1>4. Len(prelude'[m]) = Len(prelude[m]) - (IF m = n THEN 1 ELSE 0)
  BY <1>2, <1>3, HeldParts DEF TypeOK
<1>5. CASE pending[n] # NoEntry
  <2>1. tail' = tail /\ pending' = [pending EXCEPT ![n] = Merge(@, prelude[n][i])]
    BY <1>5 DEF Enqueue
  <2>2. pending[n].waiters \in Nat
    BY <1>5, PendingIsEntry DEF Entries
  <2>3. EntryWaits(Merge(pending[n], prelude[n][i])) = EntryWaits(pending[n]) + 1
    BY <1>5, <2>2 DEF EntryWaits, Merge, NoEntry
  <2>4. EntryWaits(pending'[m]) = EntryWaits(pending[m]) + (IF m = n THEN 1 ELSE 0)
    BY <2>1, <2>3, HeldParts DEF TypeOK
  <2>5. WaitersIn(tail, m)' = WaitersIn(tail, m)
    BY <2>1
  <2>6. waiting'[m] = waiting[m] /\ EntryWaits(pending[m])' = EntryWaits(pending'[m])
    BY <1>2
  <2>7. CASE m = n
    BY <1>1, <1>4, <2>4, <2>5, <2>6, <2>7, HeldParts DEF Held
  <2>8. CASE m # n
    BY <1>1, <1>4, <2>4, <2>5, <2>6, <2>8, HeldParts DEF Held
  <2> QED BY <2>7, <2>8
<1>6. CASE pending[n] = NoEntry
  <2>1. PICK job : job = WriteJob(n, [hb |-> prelude[n][i], waiters |-> 1])
    OBVIOUS
  <2>2. tail' = Append(tail, job) /\ UNCHANGED pending
    BY <1>6, <2>1 DEF Enqueue, Queue
  <2>3. job \in Jobs
    BY <2>1, <1>2, <1>3, WriteJobIsJob DEF Entries
  <2>4. Waiters(job, m) = IF m = n THEN 1 ELSE 0
    BY <2>1, WriteJobWaits
  <2>5. WaitersIn(tail', m) = WaitersIn(tail, m) + Waiters(job, m)
    BY <2>2, <2>3, HeldParts, WaitersOfMore
  <2>6. /\ waiting'[m] = waiting[m]
        /\ EntryWaits(pending[m])' = EntryWaits(pending[m])
        /\ WaitersIn(tail, m)' = WaitersIn(tail', m)
    BY <1>2, <2>2
  <2>7. CASE m = n
    BY <1>1, <1>4, <2>4, <2>5, <2>6, <2>7, HeldParts DEF Held
  <2>8. CASE m # n
    BY <1>1, <1>4, <2>4, <2>5, <2>6, <2>8, HeldParts DEF Held
  <2> QED BY <2>7, <2>8
<1> QED BY <1>5, <1>6

\* The retry queues the entry it finds.
LEMMA RetryAnswers ==
    ASSUME TypeOK, HandlersAnsweredOnce, NEW n \in Nodes, RetryTimer(n)
    PROVE  HandlersAnsweredOnce'
<1>1. CASE pending[n] = NoEntry
  <2>1. UNCHANGED <<waiting, prelude, tail, pending>>
    BY <1>1 DEF RetryTimer
  <2> QED BY <2>1, HeldStays
<1>2. CASE pending[n] # NoEntry
  <2> SUFFICES ASSUME NEW m \in Nodes PROVE waiting'[m] = Held(m)'
    BY AnsweredByHeld
  <2>1. waiting[m] = Held(m)
    BY AnsweredByHeld
  <2>2. PICK job : job = WriteJob(n, pending[n])
    OBVIOUS
  <2>3. /\ tail' = Append(tail, job)
        /\ pending' = [pending EXCEPT ![n] = NoEntry]
        /\ UNCHANGED <<waiting, prelude>>
    BY <1>2, <2>2 DEF RetryTimer, Queue
  <2>4. job \in Jobs
    BY <1>2, <2>2, PendingIsEntry, WriteJobIsJob
  <2>5. WaitersIn(tail', m) = WaitersIn(tail, m) + Waiters(job, m)
    BY <2>3, <2>4, HeldParts, WaitersOfMore
  <2>6. /\ EntryWaits(pending'[m]) \in Nat
        /\ EntryWaits(pending'[m]) + Waiters(job, m) = EntryWaits(pending[m])
    <3>1. Waiters(job, m) = IF m = n THEN pending[n].waiters ELSE 0
      BY <2>2, WriteJobWaits
    <3>2. CASE m = n
      <4>1. EntryWaits(pending[m]) = pending[n].waiters /\ pending'[m] = NoEntry
        BY <1>2, <2>3, <3>2 DEF EntryWaits, TypeOK
      <4> QED BY <3>1, <3>2, <4>1, NoEntryWaits, HeldParts
    <3>3. CASE m # n
      BY <2>3, <3>1, <3>3, HeldParts DEF TypeOK
    <3> QED BY <3>2, <3>3
  <2>7. /\ waiting'[m] = waiting[m] /\ Len(prelude'[m]) = Len(prelude[m])
        /\ Held(m)' = Len(prelude'[m]) + WaitersIn(tail', m) + EntryWaits(pending'[m])
    BY <2>3 DEF Held
  <2>8. Waiters(job, m) \in Nat
    BY <2>4, JobsWait
  <2>9. Held(m) = Len(prelude[m]) + WaitersIn(tail, m) + EntryWaits(pending[m])
    BY DEF Held
  <2> QED BY <2>1, <2>5, <2>6, <2>7, <2>8, <2>9, HeldParts
<1> QED BY <1>1, <1>2

\* The running job leaves the queue: whoever waited for it is released with it.
LEMMA DropAnswers ==
    ASSUME TypeOK, HandlersAnsweredOnce, NEW m \in Nodes,
           tail # <<>>, tail' = Tail(tail), UNCHANGED prelude,
           waiting'[m] = waiting[m] - Waiters(Head(tail), m),
           EntryWaits(pending'[m]) = EntryWaits(pending[m])
    PROVE  waiting'[m] = Held(m)'
<1>1. waiting[m] = Held(m)
  BY AnsweredByHeld
<1>2. Head(tail) \in Jobs
  BY HeldParts, Rest
<1>3. WaitersIn(tail, m) = Waiters(Head(tail), m) + WaitersIn(Tail(tail), m)
  BY HeldParts, WaitersOfRest
<1>4. WaitersIn(Tail(tail), m) \in Int
  BY HeldParts, WaitersOfRest
<1>5. Waiters(Head(tail), m) \in Nat
  BY <1>2, JobsWait
<1>6. Held(m)' = Len(prelude[m]) + WaitersIn(Tail(tail), m) + EntryWaits(pending[m])
  BY DEF Held
<1>7. Held(m) = Len(prelude[m]) + WaitersIn(tail, m) + EntryWaits(pending[m])
  BY DEF Held
<1> QED BY SMTT(30), <1>1, <1>3, <1>4, <1>5, <1>6, <1>7, HeldParts

\* The handlers of the running write, and those of no other.
LEMMA HeadWaits ==
    ASSUME TypeOK, Running("heartbeat"), NEW m \in Nodes
    PROVE  /\ tail # <<>> /\ Head(tail).node \in Nodes
           /\ Waiters(Head(tail), m) =
                  IF m = Head(tail).node THEN Head(tail).waiters ELSE 0
           /\ Head(tail).waiters \in Nat
<1>1. tail \in Seq(Jobs)
  BY DEF TypeOK, Jobs
<1>2. Head(tail) \in HeartbeatJobs
  BY <1>1, RunningHeartbeat
<1> QED BY <1>2 DEF HeartbeatJobs, Running, Waiters

LEMMA WaitingAfterHead ==
    ASSUME TypeOK, Running("heartbeat"), NEW m \in Nodes,
           waiting' = [waiting EXCEPT ![Head(tail).node] = @ - Head(tail).waiters]
    PROVE  waiting'[m] = waiting[m] - Waiters(Head(tail), m)
<1>1. waiting[m] \in Int
  BY HeldParts
<1> QED BY <1>1, HeadWaits DEF TypeOK

\* The handlers of the write that resolved are answered; those of the entry that
\* came meanwhile wait for the write it becomes.
LEMMA PersistAnswers ==
    ASSUME TypeOK, HandlersAnsweredOnce, PersistTraffic
    PROVE  HandlersAnsweredOnce'
<1> SUFFICES ASSUME NEW m \in Nodes PROVE waiting'[m] = Held(m)'
  BY AnsweredByHeld
<1>1. /\ Running("heartbeat") /\ tail # <<>> /\ UNCHANGED prelude
      /\ Resolve(Head(tail))
  BY DEF PersistTraffic, Running
<1>2. PICK n \in Nodes : n = Head(tail).node
  BY <1>1, HeadWaits
<1>3. waiting'[m] = waiting[m] - Waiters(Head(tail), m)
  BY <1>1, WaitingAfterHead DEF Resolve
<1>4. CASE pending[n] = NoEntry
  BY <1>1, <1>2, <1>3, <1>4, DropAnswers DEF Resolve
<1>5. CASE pending[n] # NoEntry
  <2>1. PICK job : job = WriteJob(n, pending[n])
    OBVIOUS
  <2>2. /\ tail' = Append(Tail(tail), job)
        /\ pending' = [pending EXCEPT ![n] = NoEntry]
    BY <1>1, <1>2, <1>5, <2>1 DEF Resolve
  <2>3. job \in Jobs
    BY <1>5, <2>1, PendingIsEntry, WriteJobIsJob
  <2>4. /\ Tail(tail) \in Seq(Jobs) /\ Head(tail) \in Jobs
        /\ WaitersIn(Tail(tail), m) \in Int
        /\ WaitersIn(tail, m) = Waiters(Head(tail), m) + WaitersIn(Tail(tail), m)
    BY <1>1, HeldParts, Rest, WaitersOfRest
  <2>5. WaitersIn(tail', m) = WaitersIn(Tail(tail), m) + Waiters(job, m)
    BY <2>2, <2>3, <2>4, WaitersOfMore
  <2>6. /\ EntryWaits(pending'[m]) \in Nat
        /\ EntryWaits(pending'[m]) + Waiters(job, m) = EntryWaits(pending[m])
    <3>1. Waiters(job, m) = IF m = n THEN pending[n].waiters ELSE 0
      BY <2>1, WriteJobWaits
    <3>2. CASE m = n
      <4>1. EntryWaits(pending[m]) = pending[n].waiters /\ pending'[m] = NoEntry
        BY <1>5, <2>2, <3>2 DEF EntryWaits, TypeOK
      <4> QED BY <3>1, <3>2, <4>1, NoEntryWaits, HeldParts
    <3>3. CASE m # n
      BY <2>2, <3>1, <3>3, HeldParts DEF TypeOK
    <3> QED BY <3>2, <3>3
  <2>7. /\ Held(m)' = Len(prelude[m]) + WaitersIn(tail', m) + EntryWaits(pending'[m])
        /\ Held(m) = Len(prelude[m]) + WaitersIn(tail, m) + EntryWaits(pending[m])
        /\ waiting[m] = Held(m)
    BY <1>1, AnsweredByHeld DEF Held
  <2>8. Waiters(job, m) \in Nat /\ Waiters(Head(tail), m) \in Nat
    BY <2>3, <2>4, JobsWait
  <2>9. PICK gone, rest, more \in Int :
            /\ gone = Waiters(Head(tail), m)
            /\ rest = WaitersIn(Tail(tail), m)
            /\ more = Waiters(job, m)
    BY <2>4, <2>8
  <2>10. /\ waiting'[m] = waiting[m] - gone
         /\ WaitersIn(tail, m) = gone + rest /\ WaitersIn(tail', m) = rest + more
         /\ EntryWaits(pending'[m]) + more = EntryWaits(pending[m])
    BY <1>3, <2>4, <2>5, <2>6, <2>9
  <2>11. PICK reads, before, after \in Int :
            /\ reads = Len(prelude[m])
            /\ before = EntryWaits(pending[m]) /\ after = EntryWaits(pending'[m])
    BY <2>6, HeldParts
  <2>12. Held(m)' = reads + (rest + more) + after /\ after + more = before
    BY <2>7, <2>10, <2>11
  <2>13. waiting'[m] = (reads + (gone + rest) + before) - gone
    BY <2>7, <2>10, <2>11
  <2> QED BY <2>12, <2>13
<1> QED BY <1>4, <1>5

\* The handlers of the write that failed are rejected; its data waits again
\* without them.
LEMMA FailureAnswers ==
    ASSUME TypeOK, HandlersAnsweredOnce, HeartbeatWriteFails
    PROVE  HandlersAnsweredOnce'
<1> SUFFICES ASSUME NEW m \in Nodes PROVE waiting'[m] = Held(m)'
  BY AnsweredByHeld
<1>1. /\ Running("heartbeat") /\ tail # <<>>
      /\ tail' = Tail(tail) /\ UNCHANGED prelude
      /\ waiting' = [waiting EXCEPT ![Head(tail).node] = @ - Head(tail).waiters]
  BY DEF HeartbeatWriteFails, Running
<1>2. PICK n \in Nodes : n = Head(tail).node
  BY <1>1, HeadWaits
<1>7. PICK hb : hb = Head(tail).hb
  OBVIOUS
<1>3. pending' = [pending EXCEPT ![n] =
                     IF @ = NoEntry THEN [hb |-> hb, waiters |-> 0] ELSE @]
  BY <1>2, <1>7 DEF HeartbeatWriteFails
<1>4. EntryWaits([hb |-> hb, waiters |-> 0]) = 0
  BY DEF EntryWaits
<1>5. EntryWaits(pending'[m]) = EntryWaits(pending[m])
  <2>1. CASE m = n /\ pending[n] = NoEntry
    BY <2>1, <1>3, <1>4, NoEntryWaits DEF TypeOK
  <2>2. CASE ~(m = n /\ pending[n] = NoEntry)
    BY <2>2, <1>3 DEF TypeOK
  <2> QED BY <2>1, <2>2
<1>6. waiting'[m] = waiting[m] - Waiters(Head(tail), m)
  BY <1>1, WaitingAfterHead
<1> QED BY <1>1, <1>5, <1>6, DropAnswers

\* Nobody waits for a flush.
LEMMA FlushIsJob ==
    ASSUME TypeOK
    PROVE  /\ [kind |-> "flush", batch |-> bucket] \in Jobs
           /\ \A m \in Nodes : Waiters([kind |-> "flush", batch |-> bucket], m) = 0
BY DEF TypeOK, Jobs, FlushJobs, Waiters

LEMMA FlushHourlyAnswers ==
    ASSUME TypeOK, HandlersAnsweredOnce, FlushHourly
    PROVE  HandlersAnsweredOnce'
<1>1. UNCHANGED <<waiting, prelude, pending>>
  BY DEF FlushHourly, masterVars
<1>2. PICK job : job = [kind |-> "flush", batch |-> bucket]
  OBVIOUS
<1>3. tail' = tail \/ tail' = Append(tail, job)
  BY <1>2 DEF FlushHourly, Queue
<1>4. CASE tail' = tail
  BY <1>1, <1>4, HeldStays
<1>5. CASE tail' = Append(tail, job)
  <2> SUFFICES ASSUME NEW m \in Nodes PROVE waiting'[m] = Held(m)'
    BY AnsweredByHeld
  <2>1. job \in Jobs /\ Waiters(job, m) = 0
    BY <1>2, FlushIsJob
  <2>2. WaitersIn(tail', m) = WaitersIn(tail, m) + Waiters(job, m)
    BY <1>5, <2>1, HeldParts, WaitersOfMore
  <2>3. WaitersIn(tail', m) = WaitersIn(tail, m)
    BY <2>1, <2>2, HeldParts
  <2> QED BY <1>1, <2>3, AnsweredByHeld DEF Held
<1> QED BY <1>3, <1>4, <1>5

LEMMA FlushEndsAnswers ==
    ASSUME TypeOK, HandlersAnsweredOnce, Running("flush"), tail' = Tail(tail),
           UNCHANGED <<waiting, prelude, pending>>
    PROVE  HandlersAnsweredOnce'
<1> SUFFICES ASSUME NEW m \in Nodes PROVE waiting'[m] = Held(m)'
  BY AnsweredByHeld
<1>1. tail # <<>> /\ Waiters(Head(tail), m) = 0
  BY DEF Running, Waiters
<1>2. waiting'[m] = waiting[m] - Waiters(Head(tail), m)
  BY <1>1, HeldParts
<1> QED BY <1>1, <1>2, DropAnswers

LEMMA StopAnswers ==
    ASSUME Stop
    PROVE  HandlersAnsweredOnce'
<1> SUFFICES ASSUME NEW m \in Nodes PROVE waiting'[m] = Held(m)'
  BY AnsweredByHeld
<1>1. /\ waiting'[m] = 0 /\ prelude'[m] = <<>> /\ pending'[m] = NoEntry
      /\ tail' = <<>>
  BY DEF Stop
<1>2. Held(m)' = Len(prelude'[m]) + WaitersIn(tail', m) + EntryWaits(pending'[m])
  BY DEF Held
<1>3. Len(<<>>) = 0
  OBVIOUS
<1> QED BY <1>1, <1>2, <1>3, WaitersOfNone, NoEntryWaits

LEMMA AnsweredStep ==
    TypeOK /\ HandlersAnsweredOnce /\ [Next]_vars => HandlersAnsweredOnce'
<1> SUFFICES ASSUME TypeOK, HandlersAnsweredOnce, [Next]_vars
             PROVE  HandlersAnsweredOnce'
  OBVIOUS
<1>1. ASSUME NEW n \in Nodes, NEW c \in Counters, Traffic(n, c)
      PROVE  HandlersAnsweredOnce'
  BY <1>1, HeldStays DEF Traffic, masterVars, writerVars
<1>2. ASSUME NEW n \in Nodes, KernelRestart(n) PROVE HandlersAnsweredOnce'
  BY <1>2, HeldStays DEF KernelRestart, masterVars, writerVars
<1>3. ASSUME NEW n \in Nodes, NEW collected \in BOOLEAN, Heartbeat(n, collected)
      PROVE  HandlersAnsweredOnce'
  BY <1>3, HeartbeatAnswers
<1>4. ASSUME NEW n \in Nodes, NEW i \in 1 .. MaxInFlight, Enqueue(n, i)
      PROVE  HandlersAnsweredOnce'
  BY <1>4, EnqueueAnswers
<1>5. ASSUME NEW n \in Nodes, RetryTimer(n) PROVE HandlersAnsweredOnce'
  BY <1>5, RetryAnswers
<1>6. CASE PersistTelemetry
  BY <1>6, HeldStays DEF PersistTelemetry, masterVars
<1>7. CASE PersistTraffic
  BY <1>7, PersistAnswers
<1>8. CASE AttemptFails
  BY <1>8, HeldStays DEF AttemptFails, masterVars
<1>9. CASE HeartbeatWriteFails
  BY <1>9, FailureAnswers
<1>10. CASE FlushHourly
  BY <1>10, FlushHourlyAnswers
<1>11. CASE FlushCommits
  BY <1>11, FlushEndsAnswers DEF FlushCommits, masterVars
<1>12. CASE FlushFails
  BY <1>12, FlushEndsAnswers DEF FlushFails, masterVars
<1>13. CASE Stop
  BY <1>13, StopAnswers
<1>14. CASE UNCHANGED vars
  BY <1>14, HeldStays DEF vars, masterVars, writerVars
<1> QED BY <1>1, <1>2, <1>3, <1>4, <1>5, <1>6, <1>7, <1>8, <1>9, <1>10, <1>11,
           <1>12, <1>13, <1>14 DEF Next

LEMMA AnsweredInit == Init => HandlersAnsweredOnce
<1> SUFFICES ASSUME Init, NEW m \in Nodes PROVE waiting[m] = Held(m)
  BY AnsweredByHeld
<1>1. /\ waiting[m] = 0 /\ prelude[m] = <<>> /\ pending[m] = NoEntry /\ tail = <<>>
  BY DEF Init
<1>2. Len(<<>>) = 0
  OBVIOUS
<1> QED BY <1>1, <1>2, WaitersOfNone, NoEntryWaits DEF Held

\* Whatever is merged, retried, failed or lost with the process, a handler that
\* awaits its heartbeat is held by exactly one place of the queue: no poll is
\* answered twice and none is forgotten (handleHeartbeat's promise).
THEOREM EveryHandlerAnsweredOnce == Spec => []HandlersAnsweredOnce
BY AnsweredInit, AnsweredStep, TypeCorrect, PTL DEF Spec

-----------------------------------------------------------------------------
\* Why the hourly metrics match the bill: a byte is in the stored rows, in the
\* bucket or in a queued flush.
Matches(n, c) ==
    /\ Counted(n, c) <= billed[n][c]
    /\ stops = 0 => Counted(n, c) = billed[n][c]

LEMMA MatchesByCounter ==
    /\ HourlyMatchesBilled <=> \A n \in Nodes, c \in Counters : Matches(n, c)
    /\ HourlyMatchesBilled' <=> \A n \in Nodes, c \in Counters : Matches(n, c)'
BY DEF HourlyMatchesBilled, Matches

LEMMA CountedParts ==
    ASSUME TypeOK, NEW n \in Nodes, NEW c \in Counters
    PROVE  /\ hourly[n][c] \in Nat /\ bucket[n][c] \in Nat /\ billed[n][c] \in Nat
           /\ tail \in Seq(Jobs)
           /\ FlushedIn(tail, n, c) \in Nat
           /\ Counted(n, c) = hourly[n][c] + bucket[n][c] + FlushedIn(tail, n, c)
           /\ Counted(n, c)' = hourly'[n][c] + bucket'[n][c] + FlushedIn(tail', n, c)
<1>1. /\ hourly[n][c] \in Nat /\ bucket[n][c] \in Nat /\ billed[n][c] \in Nat
      /\ tail \in Seq(Jobs)
  BY DEF TypeOK, Amounts, Jobs
<1>2. /\ Counted(n, c) = hourly[n][c] + bucket[n][c] + FlushedIn(tail, n, c)
      /\ Counted(n, c)' = hourly'[n][c] + bucket'[n][c] + FlushedIn(tail', n, c)
  BY DEF Counted, FlushedOf, FlushedIn
<1> QED BY <1>1, <1>2, FlushedIsNat

\* A step that charges what it counts, or neither, keeps the two in agreement.
LEMMA SameAmountOnBothSides ==
    ASSUME TypeOK, HourlyMatchesBilled, NEW n \in Nodes, NEW c \in Counters,
           NEW d \in Int, stops' = stops,
           hourly'[n][c] + bucket'[n][c] + FlushedIn(tail', n, c) =
               hourly[n][c] + bucket[n][c] + FlushedIn(tail, n, c) + d,
           billed'[n][c] = billed[n][c] + d
    PROVE  Matches(n, c)'
<1>1. Matches(n, c)
  BY MatchesByCounter
<1>2. PICK rows, held, queued, sum \in Int :
          /\ rows = hourly[n][c] /\ held = bucket[n][c] /\ queued = FlushedIn(tail, n, c)
          /\ sum = billed[n][c]
  BY CountedParts
<1>3. Counted(n, c) = rows + held + queued /\ Counted(n, c)' = rows + held + queued + d
  BY <1>2, CountedParts
<1>4. billed'[n][c] = sum + d
  BY <1>2
<1>5. /\ rows + held + queued <= sum
      /\ stops = 0 => rows + held + queued = sum
  BY <1>1, <1>2, <1>3 DEF Matches
<1>6. /\ rows + held + queued + d <= sum + d
      /\ stops = 0 => rows + held + queued + d = sum + d
  BY <1>5
<1> QED BY <1>3, <1>4, <1>6 DEF Matches

LEMMA MovedWithin ==
    ASSUME TypeOK, HourlyMatchesBilled, NEW n \in Nodes, NEW c \in Counters,
           UNCHANGED <<billed, stops>>,
           hourly'[n][c] + bucket'[n][c] + FlushedIn(tail', n, c) =
               hourly[n][c] + bucket[n][c] + FlushedIn(tail, n, c)
    PROVE  Matches(n, c)'
<1>1. PICK d \in Int : d = 0
  OBVIOUS
<1>2. /\ hourly'[n][c] + bucket'[n][c] + FlushedIn(tail', n, c) =
             hourly[n][c] + bucket[n][c] + FlushedIn(tail, n, c) + d
      /\ billed'[n][c] = billed[n][c] + d
  BY <1>1, CountedParts
<1> QED BY <1>2, SameAmountOnBothSides

LEMMA CountedStays ==
    ASSUME TypeOK, HourlyMatchesBilled,
           UNCHANGED <<hourly, bucket, billed, stops>>,
           \A n \in Nodes, c \in Counters : FlushedIn(tail', n, c) = FlushedIn(tail, n, c)
    PROVE  HourlyMatchesBilled'
<1> SUFFICES ASSUME NEW n \in Nodes, NEW c \in Counters PROVE Matches(n, c)'
  BY MatchesByCounter
<1> QED BY MovedWithin

\* The write of a heartbeat adds nothing to the metrics, at either end of the queue.
LEMMA WriteFlushesNothing ==
    ASSUME NEW q \in Seq(Jobs), NEW n \in Nodes, NEW c \in Counters,
           NEW m \in Nodes, NEW entry \in Entries
    PROVE  FlushedIn(Append(q, WriteJob(m, entry)), n, c) = FlushedIn(q, n, c)
<1>1. PICK job \in Jobs : job = WriteJob(m, entry)
  BY WriteJobIsJob
<1>2. Flushed(job, n, c) = 0
  BY <1>1 DEF WriteJob, Flushed
<1>3. FlushedIn(Append(q, job), n, c) = FlushedIn(q, n, c) + Flushed(job, n, c)
  BY FlushedOfMore
<1>4. FlushedIn(q, n, c) \in Nat
  BY FlushedIsNat
<1> QED BY <1>1, <1>2, <1>3, <1>4

LEMMA HeadWriteFlushesNothing ==
    ASSUME TypeOK, Running("heartbeat"), NEW n \in Nodes, NEW c \in Counters
    PROVE  /\ Tail(tail) \in Seq(Jobs)
           /\ FlushedIn(Tail(tail), n, c) = FlushedIn(tail, n, c)
<1>1. tail \in Seq(Jobs) /\ tail # <<>> /\ Flushed(Head(tail), n, c) = 0
  BY DEF TypeOK, Jobs, Running, Flushed
<1>2. Tail(tail) \in Seq(Jobs)
  BY <1>1, Rest
<1>3. FlushedIn(Tail(tail), n, c) \in Nat
  BY <1>2, FlushedIsNat
<1>4. FlushedIn(tail, n, c) = Flushed(Head(tail), n, c) + FlushedIn(Tail(tail), n, c)
  BY <1>1, FlushedOfRest
<1> QED BY <1>1, <1>2, <1>3, <1>4

LEMMA EnqueueCounts ==
    ASSUME TypeOK, HourlyMatchesBilled,
           NEW n \in Nodes, NEW i \in 1 .. MaxInFlight, Enqueue(n, i)
    PROVE  HourlyMatchesBilled'
<1>1. UNCHANGED <<hourly, bucket, billed, stops>>
  BY DEF Enqueue, accountVars, hourlyVars
<1>2. ASSUME NEW m \in Nodes, NEW c \in Counters
      PROVE  FlushedIn(tail', m, c) = FlushedIn(tail, m, c)
  <2>1. CASE tail' = tail
    BY <2>1
  <2>2. CASE tail' # tail
    <3>1. prelude[n][i] \in Heartbeats
      BY DEF Enqueue, TypeOK
    <3>2. PICK entry \in Entries : entry = [hb |-> prelude[n][i], waiters |-> 1]
      BY <3>1 DEF Entries
    <3>3. tail' = Append(tail, WriteJob(n, entry))
      BY <2>2, <3>2 DEF Enqueue, Queue
    <3> QED BY <3>3, CountedParts, WriteFlushesNothing
  <2> QED BY <2>1, <2>2
<1> QED BY <1>1, <1>2, CountedStays

LEMMA RetryCounts ==
    ASSUME TypeOK, HourlyMatchesBilled, NEW n \in Nodes, RetryTimer(n)
    PROVE  HourlyMatchesBilled'
<1>1. UNCHANGED <<hourly, bucket, billed, stops>>
  BY DEF RetryTimer, accountVars, hourlyVars
<1>2. ASSUME NEW m \in Nodes, NEW c \in Counters
      PROVE  FlushedIn(tail', m, c) = FlushedIn(tail, m, c)
  <2>1. CASE pending[n] = NoEntry
    BY <2>1 DEF RetryTimer
  <2>2. CASE pending[n] # NoEntry
    <3>1. PICK entry \in Entries : tail' = Append(tail, WriteJob(n, entry))
      BY <2>2, PendingIsEntry DEF RetryTimer, Queue
    <3> QED BY <3>1, CountedParts, WriteFlushesNothing
  <2> QED BY <2>1, <2>2
<1> QED BY <1>1, <1>2, CountedStays

\* What is charged is counted: the same charge goes to the users and the bucket.
LEMMA PersistCounts ==
    ASSUME TypeOK, HourlyMatchesBilled, PersistTraffic
    PROVE  HourlyMatchesBilled'
<1> SUFFICES ASSUME NEW m \in Nodes, NEW c \in Counters PROVE Matches(m, c)'
  BY MatchesByCounter
<1>1. Running("heartbeat") /\ UNCHANGED <<hourly, stops>> /\ Resolve(Head(tail))
  BY DEF PersistTraffic
<1>2. PICK job \in HeartbeatJobs : job = Head(tail)
  BY <1>1, RunningHeartbeat DEF TypeOK, Jobs
<1>3. PICK charge \in Amounts : charge = Charge(cursor[job.node], job.hb.snap)
  BY <1>2, ChargeIsAmount DEF TypeOK, HeartbeatJobs, Heartbeats
<1>4. /\ billed' = [billed EXCEPT ![job.node] = Plus(@, charge)]
      /\ bucket' = [bucket EXCEPT ![job.node] = Plus(@, charge)]
  BY <1>2, <1>3 DEF PersistTraffic
<1>5. PICK d \in Nat : d = IF m = job.node THEN charge[c] ELSE 0
  BY DEF Amounts
<1>6. billed'[m][c] = billed[m][c] + d /\ bucket'[m][c] = bucket[m][c] + d
  BY <1>4, <1>5, CountedParts DEF TypeOK, Plus
<1>7. FlushedIn(tail', m, c) = FlushedIn(tail, m, c)
  <2>1. CASE tail' = Tail(tail)
    BY <1>1, <2>1, HeadWriteFlushesNothing
  <2>2. CASE tail' # Tail(tail)
    <3>1. PICK entry \in Entries : tail' = Append(Tail(tail), WriteJob(job.node, entry))
      BY <1>1, <1>2, <2>2, PendingIsEntry DEF Resolve, HeartbeatJobs
    <3>2. job.node \in Nodes
      BY <1>2 DEF HeartbeatJobs
    <3> QED BY <1>1, <3>1, <3>2, HeadWriteFlushesNothing, WriteFlushesNothing
  <2> QED BY <2>1, <2>2
<1>8. hourly'[m][c] + bucket'[m][c] + FlushedIn(tail', m, c) =
          hourly[m][c] + bucket[m][c] + FlushedIn(tail, m, c) + d
  BY <1>1, <1>6, <1>7, CountedParts
<1> QED BY <1>1, <1>6, <1>8, SameAmountOnBothSides

LEMMA FailureCounts ==
    ASSUME TypeOK, HourlyMatchesBilled, HeartbeatWriteFails
    PROVE  HourlyMatchesBilled'
BY HeadWriteFlushesNothing, CountedStays
   DEF HeartbeatWriteFails, accountVars, hourlyVars

\* A flush moves the buckets to the end of the queue.
LEMMA FlushHourlyCounts ==
    ASSUME TypeOK, HourlyMatchesBilled, FlushHourly
    PROVE  HourlyMatchesBilled'
<1> SUFFICES ASSUME NEW m \in Nodes, NEW c \in Counters PROVE Matches(m, c)'
  BY MatchesByCounter
<1>1. UNCHANGED <<hourly, stops, billed>> /\ bucket'[m][c] = 0
  BY DEF FlushHourly, accountVars, Taken, Nothing
<1>2. PICK job : job = [kind |-> "flush", batch |-> bucket]
  OBVIOUS
<1>3. FlushedIn(tail', m, c) = FlushedIn(tail, m, c) + bucket[m][c]
  <2>1. CASE \A n \in Nodes : bucket[n] = Nothing
    <3>1. tail' = tail /\ bucket[m][c] = 0
      BY <2>1 DEF FlushHourly, Nothing
    <3> QED BY <3>1, CountedParts
  <2>2. CASE ~ \A n \in Nodes : bucket[n] = Nothing
    <3>1. tail' = Append(tail, job)
      BY <1>2, <2>2 DEF FlushHourly, Queue
    <3>2. job \in Jobs /\ Flushed(job, m, c) = bucket[m][c]
      BY <1>2, FlushIsJob DEF Flushed
    <3> QED BY <3>1, <3>2, CountedParts, FlushedOfMore
  <2> QED BY <2>1, <2>2
<1>4. hourly'[m][c] + bucket'[m][c] + FlushedIn(tail', m, c) =
          hourly[m][c] + bucket[m][c] + FlushedIn(tail, m, c)
  BY <1>1, <1>3, CountedParts
<1> QED BY <1>1, <1>4, MovedWithin

\* A finished flush leaves the queue for the rows, a failed one for the bucket.
LEMMA HeadFlushes ==
    ASSUME TypeOK, Running("flush"), NEW n \in Nodes, NEW c \in Counters
    PROVE  /\ Head(tail).batch[n][c] \in Nat
           /\ FlushedIn(Tail(tail), n, c) \in Nat
           /\ FlushedIn(tail, n, c) = Head(tail).batch[n][c] + FlushedIn(Tail(tail), n, c)
<1>1. /\ tail \in Seq(Jobs) /\ tail # <<>>
      /\ Flushed(Head(tail), n, c) = Head(tail).batch[n][c]
  BY DEF TypeOK, Jobs, Running, Flushed
<1>2. Head(tail).batch[n][c] \in Nat
  BY <1>1, RunningFlush DEF Amounts
<1>3. FlushedIn(Tail(tail), n, c) \in Nat
  BY <1>1, Rest, FlushedIsNat
<1>4. FlushedIn(tail, n, c) = Flushed(Head(tail), n, c) + FlushedIn(Tail(tail), n, c)
  BY <1>1, FlushedOfRest
<1> QED BY <1>1, <1>2, <1>3, <1>4

LEMMA FlushCommitsCounts ==
    ASSUME TypeOK, HourlyMatchesBilled, FlushCommits
    PROVE  HourlyMatchesBilled'
<1> SUFFICES ASSUME NEW m \in Nodes, NEW c \in Counters PROVE Matches(m, c)'
  BY MatchesByCounter
<1>1. /\ Running("flush") /\ tail' = Tail(tail)
      /\ UNCHANGED <<bucket, stops, billed>>
      /\ hourly'[m][c] = hourly[m][c] + Head(tail).batch[m][c]
  BY DEF FlushCommits, accountVars, Plus
<1>2. PICK rows, held, batch, rest \in Nat :
          /\ rows = hourly[m][c] /\ held = bucket[m][c]
          /\ batch = Head(tail).batch[m][c] /\ rest = FlushedIn(Tail(tail), m, c)
  BY <1>1, HeadFlushes, CountedParts
<1>3. FlushedIn(tail, m, c) = batch + rest /\ FlushedIn(tail', m, c) = rest
  BY <1>1, <1>2, HeadFlushes
<1>4. hourly'[m][c] = rows + batch /\ bucket'[m][c] = held
  BY <1>1, <1>2
<1>5. hourly'[m][c] + bucket'[m][c] + FlushedIn(tail', m, c) =
          hourly[m][c] + bucket[m][c] + FlushedIn(tail, m, c)
  <2>1. rows + batch + held + rest = rows + held + (batch + rest)
    OBVIOUS
  <2> QED BY <1>2, <1>3, <1>4, <2>1
<1> QED BY <1>1, <1>5, MovedWithin

LEMMA FlushFailsCounts ==
    ASSUME TypeOK, HourlyMatchesBilled, FlushFails
    PROVE  HourlyMatchesBilled'
<1> SUFFICES ASSUME NEW m \in Nodes, NEW c \in Counters PROVE Matches(m, c)'
  BY MatchesByCounter
<1>1. /\ Running("flush") /\ tail' = Tail(tail)
      /\ UNCHANGED <<hourly, stops, billed>>
      /\ bucket'[m][c] = bucket[m][c] + Head(tail).batch[m][c]
  BY DEF FlushFails, accountVars, MergedBack, Plus
<1>2. PICK rows, held, batch, rest \in Nat :
          /\ rows = hourly[m][c] /\ held = bucket[m][c]
          /\ batch = Head(tail).batch[m][c] /\ rest = FlushedIn(Tail(tail), m, c)
  BY <1>1, HeadFlushes, CountedParts
<1>3. FlushedIn(tail, m, c) = batch + rest /\ FlushedIn(tail', m, c) = rest
  BY <1>1, <1>2, HeadFlushes
<1>4. hourly'[m][c] = rows /\ bucket'[m][c] = held + batch
  BY <1>1, <1>2
<1>5. hourly'[m][c] + bucket'[m][c] + FlushedIn(tail', m, c) =
          hourly[m][c] + bucket[m][c] + FlushedIn(tail, m, c)
  <2>1. rows + (held + batch) + rest = rows + held + (batch + rest)
    OBVIOUS
  <2> QED BY <1>2, <1>3, <1>4, <2>1
<1> QED BY <1>1, <1>5, MovedWithin

\* A stop loses what is buffered or queued, and nothing else.
LEMMA StopCounts ==
    ASSUME TypeOK, HourlyMatchesBilled, Stop
    PROVE  HourlyMatchesBilled'
<1> SUFFICES ASSUME NEW m \in Nodes, NEW c \in Counters PROVE Matches(m, c)'
  BY MatchesByCounter
<1>1. /\ stops' # 0 /\ tail' = <<>> /\ UNCHANGED <<hourly, billed>>
      /\ bucket'[m][c] = 0
  BY ConstantsAssumption DEF Stop, TypeOK, accountVars, Nothing
<1>2. FlushedIn(tail', m, c) = 0
  BY <1>1, FlushedOfNone
<1>3. Counted(m, c)' = hourly[m][c]
  BY <1>1, <1>2, CountedParts
<1>4. hourly[m][c] <= billed[m][c]
  <2>1. Matches(m, c)
    BY MatchesByCounter
  <2> QED BY <2>1, CountedParts DEF Matches
<1> QED BY <1>1, <1>3, <1>4 DEF Matches

LEMMA CountedStep ==
    TypeOK /\ HourlyMatchesBilled /\ [Next]_vars => HourlyMatchesBilled'
<1> SUFFICES ASSUME TypeOK, HourlyMatchesBilled, [Next]_vars
             PROVE  HourlyMatchesBilled'
  OBVIOUS
<1>1. ASSUME NEW n \in Nodes, NEW c \in Counters, Traffic(n, c)
      PROVE  HourlyMatchesBilled'
  BY <1>1, CountedStays DEF Traffic, writerVars, accountVars, hourlyVars
<1>2. ASSUME NEW n \in Nodes, KernelRestart(n) PROVE HourlyMatchesBilled'
  BY <1>2, CountedStays DEF KernelRestart, writerVars, accountVars, hourlyVars
<1>3. ASSUME NEW n \in Nodes, NEW collected \in BOOLEAN, Heartbeat(n, collected)
      PROVE  HourlyMatchesBilled'
  BY <1>3, CountedStays DEF Heartbeat, writerVars, accountVars, hourlyVars
<1>4. ASSUME NEW n \in Nodes, NEW i \in 1 .. MaxInFlight, Enqueue(n, i)
      PROVE  HourlyMatchesBilled'
  BY <1>4, EnqueueCounts
<1>5. ASSUME NEW n \in Nodes, RetryTimer(n) PROVE HourlyMatchesBilled'
  BY <1>5, RetryCounts
<1>6. CASE PersistTelemetry
  BY <1>6, CountedStays DEF PersistTelemetry, accountVars, hourlyVars
<1>7. CASE PersistTraffic
  BY <1>7, PersistCounts
<1>8. CASE AttemptFails
  BY <1>8, CountedStays DEF AttemptFails, accountVars, hourlyVars
<1>9. CASE HeartbeatWriteFails
  BY <1>9, FailureCounts
<1>10. CASE FlushHourly
  BY <1>10, FlushHourlyCounts
<1>11. CASE FlushCommits
  BY <1>11, FlushCommitsCounts
<1>12. CASE FlushFails
  BY <1>12, FlushFailsCounts
<1>13. CASE Stop
  BY <1>13, StopCounts
<1>14. CASE UNCHANGED vars
  BY <1>14, CountedStays DEF vars, writerVars, accountVars, hourlyVars
<1> QED BY <1>1, <1>2, <1>3, <1>4, <1>5, <1>6, <1>7, <1>8, <1>9, <1>10, <1>11,
           <1>12, <1>13, <1>14 DEF Next

LEMMA CountedInit == Init => HourlyMatchesBilled
<1> SUFFICES ASSUME Init, NEW n \in Nodes, NEW c \in Counters PROVE Matches(n, c)
  BY MatchesByCounter
<1>1. /\ hourly[n][c] = 0 /\ bucket[n][c] = 0 /\ billed[n][c] = 0 /\ tail = <<>>
  BY DEF Init, Nothing
<1>2. TypeOK
  BY TypeOKInit
<1> QED BY <1>1, <1>2, FlushedOfNone, CountedParts DEF Matches

\* What the hourly metrics show, still buffer or are about to store adds up to
\* what was billed, however writes fail and are retried; a stop may lose a part
\* and nothing is ever counted twice (flushTrafficHourlyMetrics).
THEOREM HourlyMetricsMatchTheBill == Spec => []HourlyMatchesBilled
BY CountedInit, CountedStep, TypeCorrect, PTL DEF Spec

-----------------------------------------------------------------------------
\* Why no byte is forgotten: while a kernel has never restarted, every reading of
\* a counter, live, on its way or stored, is the very amount it had metered.
ExactSample(hb, c) == Reports(hb, c) => hb.snap[c] = hb.taken[c]
Unbroken(n, c) == metered[n][c] = counter[n][c]

CountersWithinMetered ==
    \A n \in Nodes, c \in Counters : counter[n][c] <= metered[n][c]

PreludeExact ==
    \A n \in Nodes, c \in Counters : Unbroken(n, c) =>
        \A i \in 1 .. Len(prelude[n]) : ExactSample(prelude[n][i], c)

TailExact ==
    \A n \in Nodes, c \in Counters : Unbroken(n, c) =>
        \A i \in 1 .. Len(tail) :
            tail[i].kind = "heartbeat" /\ tail[i].node = n => ExactSample(tail[i].hb, c)

CursorExact ==
    \A n \in Nodes, c \in Counters : Unbroken(n, c) =>
        /\ cursor[n][c] = mark[n][c]
        /\ c[1] \in Billable => billed[n][c] = cursor[n][c]

UnbrokenIsExact ==
    /\ CountersWithinMetered
    /\ PreludeExact
    /\ TailExact
    /\ CursorExact

LEMMA ExactStays ==
    ASSUME UnbrokenIsExact,
           UNCHANGED <<counter, metered, prelude, tail, cursor, mark, billed>>
    PROVE  UnbrokenIsExact'
BY DEF UnbrokenIsExact, CountersWithinMetered, PreludeExact, TailExact, CursorExact,
       Unbroken, ExactSample, Reports

\* Steps of the agent: a counter that is unbroken after the step was so before it.
LEMMA LiveStepKeepsExact ==
    ASSUME UnbrokenIsExact, UNCHANGED <<prelude, tail, cursor, mark, billed>>,
           CountersWithinMetered',
           \A n \in Nodes, c \in Counters : Unbroken(n, c)' => Unbroken(n, c)
    PROVE  UnbrokenIsExact'
BY DEF UnbrokenIsExact, PreludeExact, TailExact, CursorExact, ExactSample, Reports

LEMMA TrafficKeepsExact ==
    ASSUME TypeOK, UnbrokenIsExact,
           NEW n \in Nodes, NEW c \in Counters, Traffic(n, c)
    PROVE  UnbrokenIsExact'
<1>1. UNCHANGED <<prelude, tail, cursor, mark, billed>>
  BY DEF Traffic, masterVars, writerVars, accountVars
<1>2. ASSUME NEW m \in Nodes, NEW d \in Counters
      PROVE  \/ counter'[m][d] = counter[m][d] /\ metered'[m][d] = metered[m][d]
             \/ counter'[m][d] = counter[m][d] + 1 /\ metered'[m][d] = metered[m][d] + 1
  BY DEF Traffic, TypeOK, Amounts
<1>3. CountersWithinMetered'
  BY <1>2, AccountsAreNat DEF UnbrokenIsExact, CountersWithinMetered
<1>4. \A m \in Nodes, d \in Counters : Unbroken(m, d)' => Unbroken(m, d)
  BY <1>2, AccountsAreNat DEF Unbroken
<1> QED BY <1>1, <1>3, <1>4, LiveStepKeepsExact

\* A restart breaks every counter that has metered something.
LEMMA RestartKeepsExact ==
    ASSUME TypeOK, UnbrokenIsExact, NEW n \in Nodes, KernelRestart(n)
    PROVE  UnbrokenIsExact'
<1>1. UNCHANGED <<metered, prelude, tail, cursor, mark, billed>>
  BY DEF KernelRestart, masterVars, writerVars, accountVars
<1>2. ASSUME NEW m \in Nodes, NEW c \in Counters
      PROVE  counter'[m][c] = counter[m][c] \/ counter'[m][c] = 0
  BY DEF KernelRestart, TypeOK, Nothing
<1>3. CountersWithinMetered'
  BY <1>1, <1>2, AccountsAreNat DEF UnbrokenIsExact, CountersWithinMetered
<1>4. ASSUME NEW m \in Nodes, NEW c \in Counters, Unbroken(m, c)'
      PROVE  Unbroken(m, c)
  <2>1. counter[m][c] <= metered[m][c]
    BY DEF UnbrokenIsExact, CountersWithinMetered
  <2>2. metered[m][c] = counter'[m][c]
    BY <1>1, <1>4 DEF Unbroken
  <2> QED BY <1>2, <2>1, <2>2, AccountsAreNat DEF Unbroken
<1> QED BY <1>1, <1>3, <1>4, LiveStepKeepsExact

\* A new sample reads the live counters, or nothing.
LEMMA HeartbeatKeepsExact ==
    ASSUME TypeOK, UnbrokenIsExact,
           NEW n \in Nodes, NEW collected \in BOOLEAN, Heartbeat(n, collected)
    PROVE  UnbrokenIsExact'
<1>1. UNCHANGED <<counter, metered, tail, cursor, mark, billed>>
  BY DEF Heartbeat, kernelVars, writerVars, accountVars
<1>2. PICK hb : hb = [snap  |-> IF collected THEN counter[n] ELSE Nothing,
                      taken |-> metered[n]]
  OBVIOUS
<1>3. prelude' = [prelude EXCEPT ![n] = Append(@, hb)]
  BY <1>2 DEF Heartbeat
<1>4. ASSUME NEW c \in Counters, Unbroken(n, c) PROVE ExactSample(hb, c)
  <2>1. CASE collected
    BY <1>2, <1>4, <2>1 DEF ExactSample, Unbroken
  <2>2. CASE ~collected
    <3>1. c[1] \in Credentials
      BY DEF Counters
    <3>2. \A d \in Directions : Nothing[<<c[1], d>>] = 0
      BY <3>1 DEF Nothing, Counters
    <3>3. hb.snap = Nothing
      BY <1>2, <2>2
    <3>4. \A d \in Directions : ~(hb.snap[<<c[1], d>>] > 0)
      <4> SUFFICES ASSUME NEW d \in Directions PROVE ~(hb.snap[<<c[1], d>>] > 0)
        OBVIOUS
      <4>1. hb.snap[<<c[1], d>>] = 0
        BY <3>2, <3>3
      <4> QED BY <4>1
    <3>5. c \notin Reported(hb.snap)
      BY <3>4 DEF Reported
    <3> QED BY <3>5 DEF ExactSample, Reports
  <2> QED BY <2>1, <2>2
<1>5. prelude[n] \in Seq(Heartbeats) /\ Len(prelude[n]) \in Nat
  BY HeldParts
<1>6. /\ Len(prelude'[n]) = Len(prelude[n]) + 1
      /\ \A i \in 1 .. Len(prelude[n]) : prelude'[n][i] = prelude[n][i]
      /\ prelude'[n][Len(prelude[n]) + 1] = hb
      /\ \A m \in Nodes : m # n => prelude'[m] = prelude[m]
  BY <1>3, <1>5 DEF TypeOK
<1>7. ASSUME NEW m \in Nodes, NEW c \in Counters, Unbroken(m, c),
             NEW i \in 1 .. Len(prelude'[m])
      PROVE  ExactSample(prelude'[m][i], c)
  <2>1. CASE m # n
    BY <1>6, <1>7, <2>1 DEF UnbrokenIsExact, PreludeExact
  <2>2. CASE m = n /\ i = Len(prelude[n]) + 1
    BY <1>4, <1>6, <1>7, <2>2
  <2>3. CASE m = n /\ i # Len(prelude[n]) + 1
    <3>1. i \in 1 .. Len(prelude[n])
      BY <1>5, <1>6, <2>3
    <3> QED BY <1>6, <1>7, <2>3, <3>1 DEF UnbrokenIsExact, PreludeExact
  <2> QED BY <2>1, <2>2, <2>3
<1>8. PreludeExact'
  BY <1>1, <1>7 DEF PreludeExact, Unbroken, ExactSample, Reports
<1> QED BY <1>1, <1>8 DEF UnbrokenIsExact, CountersWithinMetered, TailExact, CursorExact,
                         Unbroken, ExactSample, Reports

\* A sample moves on, or a job joins or leaves the queue: what is left is exact.
LEMMA MovedSamplesKeepExact ==
    ASSUME UnbrokenIsExact, UNCHANGED <<counter, metered>>,
           \A n \in Nodes : \A i \in 1 .. Len(prelude'[n]) :
               \E j \in 1 .. Len(prelude[n]) : prelude'[n][i] = prelude[n][j],
           \A i \in 1 .. Len(tail') :
               \/ tail'[i].kind # "heartbeat"
               \/ \E j \in 1 .. Len(tail) : tail'[i] = tail[j]
               \/ /\ tail'[i].node \in Nodes
                  /\ \E j \in 1 .. Len(prelude[tail'[i].node]) :
                         tail'[i].hb = prelude[tail'[i].node][j],
           CursorExact'
    PROVE  UnbrokenIsExact'
<1>1. CountersWithinMetered'
  BY DEF UnbrokenIsExact, CountersWithinMetered
<1>2. \A n \in Nodes, c \in Counters : Unbroken(n, c)' <=> Unbroken(n, c)
  BY DEF Unbroken
<1>3. PreludeExact'
  <2> SUFFICES ASSUME NEW n \in Nodes, NEW c \in Counters, Unbroken(n, c),
                      NEW i \in 1 .. Len(prelude'[n])
               PROVE  ExactSample(prelude'[n][i], c)
    BY <1>2 DEF PreludeExact, ExactSample, Reports
  <2>1. PICK j \in 1 .. Len(prelude[n]) : prelude'[n][i] = prelude[n][j]
    OBVIOUS
  <2> QED BY <2>1 DEF UnbrokenIsExact, PreludeExact
<1>4. TailExact'
  <2> SUFFICES ASSUME NEW n \in Nodes, NEW c \in Counters, Unbroken(n, c),
                      NEW i \in 1 .. Len(tail'),
                      tail'[i].kind = "heartbeat", tail'[i].node = n
               PROVE  ExactSample(tail'[i].hb, c)
    BY <1>2 DEF TailExact, ExactSample, Reports
  <2>1. CASE \E j \in 1 .. Len(tail) : tail'[i] = tail[j]
    <3>1. PICK j \in 1 .. Len(tail) : tail'[i] = tail[j]
      BY <2>1
    <3> QED BY <3>1 DEF UnbrokenIsExact, TailExact
  <2>2. CASE \E j \in 1 .. Len(prelude[n]) : tail'[i].hb = prelude[n][j]
    <3>1. PICK j \in 1 .. Len(prelude[n]) : tail'[i].hb = prelude[n][j]
      BY <2>2
    <3> QED BY <3>1 DEF UnbrokenIsExact, PreludeExact
  <2> QED BY <2>1, <2>2
<1> QED BY <1>1, <1>3, <1>4 DEF UnbrokenIsExact

LEMMA TailIsShorter ==
    ASSUME TypeOK, tail # <<>>, NEW i \in 1 .. Len(Tail(tail))
    PROVE  i + 1 \in 1 .. Len(tail) /\ Tail(tail)[i] = tail[i + 1]
<1>1. tail \in Seq(Jobs)
  BY DEF TypeOK, Jobs
<1>2. Len(Tail(tail)) = Len(tail) - 1 /\ Len(tail) \in Nat /\ Tail(tail)[i] = tail[i + 1]
  BY <1>1, HeadTailProperties
<1> QED BY <1>2

LEMMA EnqueueKeepsExact ==
    ASSUME TypeOK, SamplesInOrder, UnbrokenIsExact, PreludeInOrder,
           NEW n \in Nodes, NEW k \in 1 .. MaxInFlight, Enqueue(n, k)
    PROVE  UnbrokenIsExact'
<1>1. k = 1 /\ prelude[n] \in Seq(Heartbeats) /\ prelude[n] # <<>>
      /\ 1 \in 1 .. Len(prelude[n]) /\ Len(prelude[n]) \in Nat
  BY DEF Enqueue, TypeOK
<1>2. pending[n] = NoEntry
  BY DEF SamplesInOrder
<1>3. PICK job : job = WriteJob(n, [hb |-> prelude[n][1], waiters |-> 1])
  OBVIOUS
<1>4. /\ prelude' = [prelude EXCEPT ![n] = Tail(@)]
      /\ tail' = Append(tail, job)
      /\ UNCHANGED <<counter, metered, cursor, mark, billed>>
  BY <1>1, <1>2, <1>3, RemoveAtOne DEF Enqueue, Queue, kernelVars, accountVars
<1>5. job.node = n /\ job.hb = prelude[n][1]
  BY <1>3 DEF WriteJob
<1>6. ASSUME NEW m \in Nodes, NEW i \in 1 .. Len(prelude'[m])
      PROVE  \E j \in 1 .. Len(prelude[m]) : prelude'[m][i] = prelude[m][j]
  <2>1. CASE m # n
    BY <1>4, <2>1 DEF TypeOK
  <2>2. CASE m = n
    <3>1. prelude'[m] = Tail(prelude[n])
      BY <1>4, <2>2 DEF TypeOK
    <3>2. Len(Tail(prelude[n])) = Len(prelude[n]) - 1 /\ Tail(prelude[n])[i] = prelude[n][i + 1]
      BY <1>1, <3>1, HeadTailProperties
    <3> QED BY <1>1, <2>2, <3>1, <3>2
  <2> QED BY <2>1, <2>2
<1>7. ASSUME NEW i \in 1 .. Len(tail')
      PROVE  \/ \E j \in 1 .. Len(tail) : tail'[i] = tail[j]
             \/ /\ tail'[i].node \in Nodes
                /\ \E j \in 1 .. Len(prelude[tail'[i].node]) :
                       tail'[i].hb = prelude[tail'[i].node][j]
  <2>1. tail \in Seq(Jobs) /\ Len(tail) \in Nat
    BY DEF TypeOK, Jobs
  <2>2. CASE i = Len(tail) + 1
    <3>1. tail'[i] = job
      BY <1>4, <2>1, <2>2
    <3> QED BY <1>1, <1>5, <3>1
  <2>3. CASE i # Len(tail) + 1
    <3>1. i \in 1 .. Len(tail) /\ tail'[i] = tail[i]
      BY <1>4, <2>1, <2>3
    <3> QED BY <3>1
  <2> QED BY <2>2, <2>3
<1>8. CursorExact'
  BY <1>4 DEF UnbrokenIsExact, CursorExact, Unbroken
<1> QED BY <1>4, <1>6, <1>7, <1>8, MovedSamplesKeepExact

\* A sample that comes after the cursor is charged exactly the way from one to
\* the other.
LEMMA ExactCharge ==
    ASSUME NEW v \in Nat, NEW a \in Nat, v + TrafficDelta(v, a) <= a
    PROVE  v + TrafficDelta(v, a) = a
BY DEF TrafficDelta

LEMMA PersistKeepsExact ==
    ASSUME TypeOK, SamplesInOrder, UnbrokenIsExact, PersistTraffic
    PROVE  UnbrokenIsExact'
<1>1. /\ Running("heartbeat") /\ tail # <<>>
      /\ UNCHANGED <<counter, metered, prelude>>
  BY DEF PersistTraffic, Running, kernelVars
<1>2. /\ tail \in Seq(Jobs) /\ 1 \in 1 .. Len(tail)
      /\ Head(tail) = tail[1] /\ tail[1].kind = "heartbeat"
  BY <1>1 DEF TypeOK, Jobs, Running
<1>3. PICK n \in Nodes, hb \in Heartbeats : n = tail[1].node /\ hb = tail[1].hb
  BY <1>1, <1>2, RunningHeartbeat DEF HeartbeatJobs
<1>4. /\ cursor' = [cursor EXCEPT ![n] = Advance(@, hb.snap, hb.snap)]
      /\ mark' = [mark EXCEPT ![n] = Advance(@, hb.snap, hb.taken)]
      /\ billed' = [billed EXCEPT ![n] = Plus(@, Charge(cursor[n], hb.snap))]
      /\ Resolve(Head(tail))
  BY <1>2, <1>3 DEF PersistTraffic
<1>5. tail' = Tail(tail)
  BY <1>2, <1>3, <1>4 DEF Resolve, SamplesInOrder
<1>6. ASSUME NEW m \in Nodes, NEW c \in Counters, Unbroken(m, c)
      PROVE  /\ cursor'[m][c] = mark'[m][c]
             /\ c[1] \in Billable => billed'[m][c] = cursor'[m][c]
  <2>1. /\ cursor[m][c] = mark[m][c]
        /\ c[1] \in Billable => billed[m][c] = cursor[m][c]
    BY <1>6 DEF UnbrokenIsExact, CursorExact
  <2>2. CASE m # n
    BY <1>4, <2>1, <2>2 DEF TypeOK
  <2>3. CASE m = n /\ ~Reports(hb, c)
    <3>1. /\ cursor'[m][c] = cursor[m][c] /\ mark'[m][c] = mark[m][c]
          /\ billed'[m][c] = billed[m][c]
      BY <1>4, <2>3, AccountsAreNat DEF TypeOK, Advance, Plus, Charge, Reports
    <3> QED BY <2>1, <3>1
  <2>4. CASE m = n /\ Reports(hb, c)
    <3>1. /\ cursor'[n][c] = hb.snap[c] /\ mark'[n][c] = hb.taken[c]
          /\ c[1] \in Billable =>
                 billed'[n][c] = billed[n][c] + TrafficDelta(cursor[n][c], hb.snap[c])
      BY <1>4, <2>4 DEF TypeOK, Advance, Plus, Charge, Reports
    <3>2. hb.snap[c] = hb.taken[c]
      BY <1>2, <1>3, <1>6, <2>4 DEF UnbrokenIsExact, TailExact, ExactSample
    <3>3. Writes(1, n, c)
      BY <1>2, <1>3, <2>4 DEF Writes
    <3>4. mark[n][c] + TrafficDelta(cursor[n][c], hb.snap[c]) <= hb.taken[c]
      BY <1>2, <1>3, <3>3 DEF SamplesInOrder, TailInSequence, Between, Before, Stored
    <3>5. cursor[n][c] \in Nat /\ hb.snap[c] \in Nat
      BY <1>3, AccountsAreNat, SampleIsNat
    <3>6. cursor[n][c] + TrafficDelta(cursor[n][c], hb.snap[c]) = hb.snap[c]
      BY <2>1, <2>4, <3>2, <3>4, <3>5, ExactCharge
    <3> QED BY <2>1, <2>4, <3>1, <3>2, <3>6
  <2> QED BY <2>2, <2>3, <2>4
<1>7. CursorExact'
  BY <1>1, <1>6 DEF CursorExact, Unbroken
<1>8. \A i \in 1 .. Len(tail') : \E j \in 1 .. Len(tail) : tail'[i] = tail[j]
  BY <1>1, <1>5, TailIsShorter
<1> QED BY <1>1, <1>7, <1>8, MovedSamplesKeepExact

LEMMA FlushCommitsKeepsExact ==
    ASSUME TypeOK, UnbrokenIsExact, FlushCommits
    PROVE  UnbrokenIsExact'
<1>1. /\ tail # <<>> /\ tail' = Tail(tail)
      /\ UNCHANGED <<counter, metered, prelude, cursor, mark, billed>>
  BY DEF FlushCommits, Running, kernelVars, masterVars, accountVars
<1>2. \A i \in 1 .. Len(tail') : \E j \in 1 .. Len(tail) : tail'[i] = tail[j]
  BY <1>1, TailIsShorter
<1>3. CursorExact'
  BY <1>1 DEF UnbrokenIsExact, CursorExact, Unbroken
<1> QED BY <1>1, <1>2, <1>3, MovedSamplesKeepExact

LEMMA FlushHourlyKeepsExact ==
    ASSUME TypeOK, UnbrokenIsExact, FlushHourly
    PROVE  UnbrokenIsExact'
<1>1. UNCHANGED <<counter, metered, prelude, cursor, mark, billed>>
  BY DEF FlushHourly, kernelVars, masterVars, accountVars
<1>2. PICK job : job = [kind |-> "flush", batch |-> bucket]
  OBVIOUS
<1>3. tail' = tail \/ tail' = Append(tail, job)
  BY <1>2 DEF FlushHourly, Queue
<1>4. ASSUME NEW i \in 1 .. Len(tail')
      PROVE  tail'[i].kind # "heartbeat" \/ \E j \in 1 .. Len(tail) : tail'[i] = tail[j]
  <2>1. tail \in Seq(Jobs) /\ Len(tail) \in Nat /\ job.kind # "heartbeat"
    BY <1>2 DEF TypeOK, Jobs
  <2>2. CASE tail' = tail
    BY <2>2
  <2>3. CASE tail' = Append(tail, job)
    <3>1. \/ i \in 1 .. Len(tail) /\ tail'[i] = tail[i]
          \/ tail'[i] = job
      BY <2>1, <2>3
    <3> QED BY <2>1, <3>1
  <2> QED BY <1>3, <2>2, <2>3
<1>5. CursorExact'
  BY <1>1 DEF UnbrokenIsExact, CursorExact, Unbroken
<1> QED BY <1>1, <1>4, <1>5, MovedSamplesKeepExact

LEMMA StopKeepsExact ==
    ASSUME UnbrokenIsExact, Stop
    PROVE  UnbrokenIsExact'
<1>1. /\ tail' = <<>> /\ \A n \in Nodes : prelude'[n] = <<>>
      /\ UNCHANGED <<counter, metered, cursor, mark, billed>>
  BY DEF Stop, kernelVars, accountVars
<1>2. CursorExact' /\ CountersWithinMetered'
  BY <1>1 DEF UnbrokenIsExact, CursorExact, CountersWithinMetered, Unbroken
<1>3. PreludeExact' /\ TailExact'
  BY <1>1 DEF PreludeExact, TailExact
<1> QED BY <1>2, <1>3 DEF UnbrokenIsExact

LEMMA ExactStep ==
    ASSUME InOrder, TypeOK, SamplesInOrder, UnbrokenIsExact, [Next]_vars
    PROVE  UnbrokenIsExact'
<1>1. outages = 0
  BY DEF InOrder, TypeOK
<1>2. ASSUME NEW n \in Nodes, RetryTimer(n) PROVE UnbrokenIsExact'
  BY <1>2, ExactStays DEF RetryTimer, SamplesInOrder, kernelVars, accountVars
<1>3. CASE PersistTelemetry
  BY <1>3, ExactStays DEF PersistTelemetry, kernelVars, masterVars, accountVars
<1>4. CASE AttemptFails
  BY <1>4, ExactStays DEF AttemptFails, kernelVars, masterVars, accountVars
<1>5. CASE UNCHANGED vars
  BY <1>5, ExactStays DEF vars, kernelVars, masterVars, writerVars, accountVars
<1>6. ~HeartbeatWriteFails /\ ~FlushFails
  BY <1>1 DEF InOrder, HeartbeatWriteFails, FlushFails
<1> QED
  BY <1>2, <1>3, <1>4, <1>5, <1>6, TrafficKeepsExact, RestartKeepsExact,
     HeartbeatKeepsExact, EnqueueKeepsExact, PersistKeepsExact,
     FlushHourlyKeepsExact, FlushCommitsKeepsExact, StopKeepsExact
     DEF Next, InOrder

LEMMA ExactInit == Init => UnbrokenIsExact
BY DEF Init, Nothing, UnbrokenIsExact, CountersWithinMetered, PreludeExact, TailExact,
       CursorExact

\* Under the same conditions no byte is forgotten: as long as a kernel never
\* restarted, everything up to the stored cursor was charged, whatever samples
\* were left out, retried or lost with the master (persistTrafficSnapshots).
THEOREM EverythingUpToTheCursorIsCharged ==
    ASSUME InOrder
    PROVE  Spec => []ChargedUpToCursor
<1>1. TypeOK /\ SamplesInOrder /\ UnbrokenIsExact /\ [Next]_vars => UnbrokenIsExact'
  BY ExactStep
<1>2. UnbrokenIsExact => ChargedUpToCursor
  BY DEF UnbrokenIsExact, CursorExact, Unbroken, ChargedUpToCursor
<1>3. Spec => []SamplesInOrder
  BY SamplesStayInOrder
<1> QED BY ExactInit, TypeCorrect, <1>1, <1>2, <1>3, PTL DEF Spec
=============================================================================
