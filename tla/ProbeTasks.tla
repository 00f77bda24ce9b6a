----------------------------- MODULE ProbeTasks -----------------------------
(***************************************************************************)
(* The probe tasks of the master.  A task measures resources (lines, nodes *)
(* of upstreams) a chunk at a time; a few workers take chunks in turn.     *)
(* Tasks overlap: each resource remembers which task has asked for it      *)
(* last, and only that one may write its row.  A result is measured over   *)
(* many awaits, while rows change and tasks are cancelled or time out.     *)
(*                                                                         *)
(* A task is named by its sequence number.  Left out: the second kind of   *)
(* measurement (it has launches and columns of its own), the engines, the  *)
(* pages of results and the removal of what has ended, the end of the      *)
(* process, with which the tasks are gone.                                 *)
(*                                                                         *)
(* FreedTwice, KeptInTurn, AnyLaunch, Reported and Dropped are faulty      *)
(* variants of the definition that follows them, used to show that a       *)
(* property notices such a fault; the specification does not use them.     *)
(***************************************************************************)
EXTENDS Naturals, Sequences, FiniteSets

CONSTANTS
    Owners, Resources,
    Selections,     \* what a task may be started for: sets of resources
    Workers,        \* 4
    ChunkSize,      \* 32
    PerOwner,       \* 2: tasks of one owner that have not ended
    Capacity,       \* 20: tasks that have not ended
    MaxTasks,       \* bound: tasks started
    MaxChanges,     \* bound: changes of rows
    NoOwner, NoResource

ASSUME ProbeAssumption ==
    /\ Selections \subseteq SUBSET Resources
    /\ NoResource \notin Resources /\ NoOwner \notin Owners
    /\ IsFiniteSet(Resources)
    /\ Workers \in Nat /\ ChunkSize \in Nat /\ PerOwner \in Nat /\ Capacity \in Nat
    /\ MaxTasks \in Nat /\ MaxChanges \in Nat

VARIABLES
    task, queue, workers,
    next,       \* nextSequence
    launches,   \* by resource: the task that asked for it last, unless it has ended; or 0
    chunk,      \* by task: the chunk a worker is running
    row,        \* LINE, UPSTREAM_NODE
    changes

vars == <<task, queue, workers, next, launches, chunk, row, changes>>

-----------------------------------------------------------------------------
Tasks == 1 .. MaxTasks

\* LOST: skipped, stale or an error; the row is not written.
Results == {"APPLIED", "LOST", "CANCELED"}
States == {"NONE", "QUEUED", "RUNNING", "COMPLETED", "CANCELED", "FAILED"}

\* todo: the resources the cursor has not reached.
TaskType == [state : States, owner : Owners \cup {NoOwner}, ids : SUBSET Resources,
             todo : SUBSET Resources, results : [Resources -> Results \cup {"NONE"}]]
NoTask == [state |-> "NONE", owner |-> NoOwner, ids |-> {}, todo |-> {},
           results |-> [r \in Resources |-> "NONE"]]

\* ids: to be read; snapshots: the version read, or 0; left: measured, to be
\* accepted; writing: the result being written, and what came of it.
ChunkType == [phase : {"NONE", "SNAPSHOT", "ACCEPT"}, ids : SUBSET Resources,
              snapshots : [Resources -> Nat], left : SUBSET Resources,
              writing : Resources \cup {NoResource}, wrote : Results \cup {"NONE"}]
NoChunk == [phase |-> "NONE", ids |-> {}, snapshots |-> [r \in Resources |-> 0],
            left |-> {}, writing |-> NoResource, wrote |-> "NONE"]

\* A row's version stands for nodeProbeVersion or lineProbeVersion and updatedAt;
\* by: the task whose result it holds, or 0.
RowType == [active : BOOLEAN, version : Nat \ {0}, by : 0 .. MaxTasks]

TypeOK ==
    /\ task \in [Tasks -> TaskType]
    /\ queue \in Seq(Tasks)
    /\ workers \in 0 .. Workers
    /\ next \in 0 .. MaxTasks
    /\ launches \in [Resources -> 0 .. MaxTasks]
    /\ chunk \in [Tasks -> ChunkType]
    /\ row \in [Resources -> RowType]
    /\ changes \in 0 .. MaxChanges

Init ==
    /\ task = [t \in Tasks |-> NoTask]
    /\ queue = <<>>
    /\ workers = 0
    /\ next = 0
    /\ launches = [r \in Resources |-> 0]
    /\ chunk = [t \in Tasks |-> NoChunk]
    /\ row = [r \in Resources |-> [active |-> TRUE, version |-> 1, by |-> 0]]
    /\ changes = 0

Terminal(t) == task[t].state \in {"COMPLETED", "CANCELED", "FAILED"}
Active == {t \in Tasks : task[t].state \in {"QUEUED", "RUNNING"}}
Running(t) == chunk[t].phase # "NONE"

-----------------------------------------------------------------------------
\* start: an equal task of the owner that has not ended answers for the new one,
\* and too many are refused.
Start(o, S) ==
    LET t == next + 1
        own == {u \in Active : task[u].owner = o}
    IN /\ next < MaxTasks
       /\ \A u \in own : task[u].ids # S
       /\ Cardinality(own) < PerOwner
       /\ Cardinality(Active) < Capacity
       /\ next' = t
       /\ launches' = [r \in Resources |-> IF r \in S THEN t ELSE launches[r]]
       /\ task' = [task EXCEPT ![t] = [NoTask EXCEPT !.state = "QUEUED", !.owner = o,
                                                     !.ids = S, !.todo = S]]
       /\ queue' = Append(queue, t)
       /\ UNCHANGED <<workers, chunk, row, changes>>

\* finish: whatever has no result is given one, and the resources are released.
\* The queue holds a task once.
Finished(t, results, state) ==
    [task EXCEPT ![t].state = state,
                 ![t].results = [r \in Resources |->
                     IF r \in task[t].ids /\ results[r] = "NONE"
                       THEN IF state = "CANCELED" THEN "CANCELED" ELSE "LOST"
                       ELSE results[r]]]

Released(t) == [r \in Resources |-> IF launches[r] = t THEN 0 ELSE launches[r]]

Without(t) ==
    IF \E i \in DOMAIN queue : queue[i] = t
      THEN LET i == CHOOSE i \in DOMAIN queue : queue[i] = t
           IN [j \in 1 .. Len(queue) - 1 |-> IF j < i THEN queue[j] ELSE queue[j + 1]]
      ELSE queue

\* The worker of a task that ends is freed when its chunk returns.
FreedTwice(t) == IF Running(t) THEN workers - 1 ELSE workers
FreedLater(t) == workers

\* Cancelled by an administrator, or failed by the deadline.
End(t, state) ==
    /\ t \in Active
    /\ workers' = FreedLater(t)
    /\ task' = Finished(t, task[t].results, state)
    /\ launches' = Released(t)
    /\ queue' = Without(t)
    /\ UNCHANGED <<next, chunk, row, changes>>

-----------------------------------------------------------------------------
\* The resources of the next chunk.
Cut(t) ==
    {C \in SUBSET task[t].todo :
        Cardinality(C) = IF Cardinality(task[t].todo) < ChunkSize
                           THEN Cardinality(task[t].todo) ELSE ChunkSize}

KeptInTurn(q) == Append(Tail(q), Head(q))
Taken(q) == Tail(q)

Pump ==
    /\ queue # <<>>
    /\ workers < Workers
    /\ LET t == Head(queue)
       IN IF Terminal(t)
            THEN UNCHANGED <<workers, task, chunk>>
            ELSE /\ workers' = workers + 1
                 /\ \E C \in Cut(t) :
                       /\ task' = [task EXCEPT ![t].state = "RUNNING", ![t].todo = @ \ C]
                       /\ chunk' = [chunk EXCEPT ![t] =
                             [NoChunk EXCEPT !.phase = "SNAPSHOT", !.ids = C]]
    /\ queue' = Taken(queue)
    /\ UNCHANGED <<next, launches, row, changes>>

\* snapshot: a row that is not there or not active is skipped, and one that cannot
\* be read.
Snapshot(t, r) ==
    /\ chunk[t].phase = "SNAPSHOT" /\ r \in chunk[t].ids /\ ~Terminal(t)
    /\ \/ /\ row[r].active
          /\ chunk' = [chunk EXCEPT ![t].ids = @ \ {r}, ![t].snapshots[r] = row[r].version]
          /\ task' = task
       \/ /\ chunk' = [chunk EXCEPT ![t].ids = @ \ {r}]
          /\ task' = [task EXCEPT ![t].results[r] = "LOST"]
    /\ UNCHANGED <<queue, workers, next, launches, row, changes>>

Known(t) == {r \in Resources : chunk[t].snapshots[r] # 0}

\* execute: the engine measures what is known and offers its results one by one.
Execute(t) ==
    /\ chunk[t].phase = "SNAPSHOT" /\ chunk[t].ids = {} /\ ~Terminal(t)
    /\ chunk' = [chunk EXCEPT ![t].phase = "ACCEPT", ![t].left = Known(t)]
    /\ UNCHANGED <<task, queue, workers, next, launches, row, changes>>

\* It throws, before a result or between two, and maybe while one is being written:
\* those that were not offered are lost.
EngineFails(t) ==
    /\ chunk[t].phase = "ACCEPT" /\ chunk[t].left # {} /\ ~Terminal(t)
    /\ chunk' = [chunk EXCEPT ![t].left = {}]
    /\ task' = [task EXCEPT ![t].results =
                    [r \in Resources |-> IF r \in chunk[t].left THEN "LOST" ELSE @[r]]]
    /\ UNCHANGED <<queue, workers, next, launches, row, changes>>

AnyLaunch(t, r) == ~Terminal(t) /\ launches[r] <= t
CurrentLaunch(t, r) == ~Terminal(t) /\ launches[r] = t

\* accept: a result that is not one is missing, one that was not measured is
\* only noted.  That of a task that was overtaken is not written (stale).
Accept(t, r) ==
    /\ chunk[t].phase = "ACCEPT" /\ chunk[t].writing = NoResource
    /\ r \in chunk[t].left /\ ~Terminal(t)
    /\ \/ /\ chunk' = [chunk EXCEPT ![t].left = @ \ {r}]
          /\ \/ task' = task
             \/ task' = [task EXCEPT ![t].results[r] = "LOST"]
       \/ /\ CurrentLaunch(t, r)
          /\ chunk' = [chunk EXCEPT ![t].left = @ \ {r}, ![t].writing = r]
          /\ task' = task
    /\ UNCHANGED <<queue, workers, next, launches, row, changes>>

\* The transaction of persist: the row is as it was read, and the task the last
\* to have asked for it; or it is stale, or the database fails.
Persist(t) ==
    LET r == chunk[t].writing
    IN /\ r # NoResource /\ chunk[t].wrote = "NONE"
       /\ \/ /\ CurrentLaunch(t, r)
             /\ row[r].active /\ row[r].version = chunk[t].snapshots[r]
             /\ row' = [row EXCEPT ![r].by = t]
             /\ chunk' = [chunk EXCEPT ![t].wrote = "APPLIED"]
          \/ /\ chunk' = [chunk EXCEPT ![t].wrote = "LOST"]
             /\ row' = row
       /\ UNCHANGED <<task, queue, workers, next, launches, changes>>

\* The result is noted, unless the task has ended meanwhile.
Reported(t) == [task EXCEPT ![t].results[chunk[t].writing] = chunk[t].wrote]
Settled(t) == IF Terminal(t) THEN task ELSE Reported(t)

Settle(t) ==
    /\ chunk[t].wrote # "NONE"
    /\ task' = Settled(t)
    /\ chunk' = [chunk EXCEPT ![t].writing = NoResource, ![t].wrote = "NONE"]
    /\ UNCHANGED <<queue, workers, next, launches, row, changes>>

-----------------------------------------------------------------------------
\* The chunk returns: its worker is free, and the task waits for its next turn.
Returns(t) ==
    /\ workers' = workers - 1
    /\ chunk' = [chunk EXCEPT ![t] = NoChunk]
    /\ UNCHANGED <<next, row, changes>>

Missing(t) ==
    [r \in Resources |-> IF r \in Known(t) /\ task[t].results[r] = "NONE"
                           THEN "LOST" ELSE task[t].results[r]]

Dropped(t) == queue
Requeued(t) == Append(queue, t)

ChunkEnds(t) ==
    /\ chunk[t].phase = "ACCEPT" /\ chunk[t].left = {} /\ chunk[t].writing = NoResource
    /\ ~Terminal(t)
    /\ IF task[t].todo = {}
         THEN /\ task' = Finished(t, Missing(t), "COMPLETED")
              /\ launches' = Released(t)
              /\ queue' = Without(t)
         ELSE /\ task' = [task EXCEPT ![t].results = Missing(t)]
              /\ queue' = Requeued(t)
              /\ UNCHANGED launches
    /\ Returns(t)

\* The task has ended under the chunk, which notices at its next step; a write
\* is waited for.
Aborts(t) ==
    /\ Running(t) /\ Terminal(t) /\ chunk[t].writing = NoResource
    /\ Returns(t)
    /\ UNCHANGED <<task, queue, launches>>

\* A resource is edited, or stops or starts being active.
Change(r) ==
    /\ changes < MaxChanges
    /\ changes' = changes + 1
    /\ \E active \in BOOLEAN :
          row' = [row EXCEPT ![r].version = @ + 1, ![r].active = active]
    /\ UNCHANGED <<task, queue, workers, next, launches, chunk>>

Work(t) ==
    \/ \E r \in Resources : Snapshot(t, r) \/ Accept(t, r)
    \/ Execute(t) \/ EngineFails(t) \/ Persist(t) \/ Settle(t) \/ ChunkEnds(t) \/ Aborts(t)

Next ==
    \/ \E o \in Owners, S \in Selections : Start(o, S)
    \/ Pump
    \/ \E t \in Tasks : Work(t) \/ End(t, "CANCELED") \/ End(t, "FAILED")
    \/ \E r \in Resources : Change(r)

Spec == Init /\ [][Next]_vars

\* Promises are run and the engines' time limits end them.
Fairness == WF_vars(Pump) /\ \A t \in Tasks : WF_vars(Work(t))

LiveSpec == Spec /\ Fairness

-----------------------------------------------------------------------------
\* A task that has not ended is in the queue once or in the hands of one worker,
\* never both, and every busy worker has a chunk: no chunk of a task runs beside
\* another one and no worker is lost to a task that is cancelled under it (pump).
Scheduled ==
    /\ \A i, j \in DOMAIN queue : queue[i] = queue[j] => i = j
    /\ \A t \in Tasks :
          (\E i \in DOMAIN queue : queue[i] = t) <=> t \in Active /\ ~Running(t)
    /\ workers = Cardinality({t \in Tasks : Running(t)})

\* What a row holds is never replaced by the result of an older task, however late
\* that one finishes and whatever has been cancelled or has ended (persist, release).
NewestWins == [][\A r \in Resources : row'[r].by >= row[r].by]_vars

\* What a task that has ended reports stays as it is: no late result, write or
\* error of its last chunk changes it (accept, finish).
ResultsAreFinal == [][\A t \in Tasks : Terminal(t) => task'[t] = task[t]]_vars

\* Every task comes to its end by itself: the deadline is not needed for it.
TasksEnd == \A t \in Tasks : t \in Active ~> Terminal(t)

=============================================================================
