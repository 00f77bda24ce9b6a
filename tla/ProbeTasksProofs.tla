-------------------------- MODULE ProbeTasksProofs --------------------------
(***************************************************************************)
(* Proofs about ProbeTasks, for any number of tasks, workers, resources    *)
(* and owners, and any bounds.                                             *)
(*                                                                         *)
(* Scheduled is inductive once the numbers of the tasks are fixed: those   *)
(* up to next have been started, the others have neither a state nor a     *)
(* chunk (Numbered).  The worker that a chunk gives back is counted        *)
(* because the busy workers are as many as the chunks that run.  For the   *)
(* rows, what one holds is of a task no newer than the one that has asked  *)
(* for the resource last (Ordered).                                        *)
(***************************************************************************)
EXTENDS ProbeTasks, FiniteSetTheorems, SequenceTheorems, TLAPS

Distinct(q) == \A i, j \in DOMAIN q : q[i] = q[j] => i = j
Holds(q, t) == \E i \in DOMAIN q : q[i] = t
Busy == {t \in Tasks : Running(t)}

Waiting == Distinct(queue) /\ \A t \in Tasks : Holds(queue, t) <=> t \in Active /\ ~Running(t)
Counted == workers = Cardinality(Busy)

Numbered ==
    \A t \in Tasks : IF t <= next THEN task[t].state # "NONE"
                                  ELSE task[t].state = "NONE" /\ chunk[t].phase = "NONE"

Ordered ==
    \A r \in Resources :
       /\ row[r].by <= next /\ launches[r] <= next
       /\ launches[r] # 0 => row[r].by <= launches[r]

TypeInv == TypeOK /\ Counted
ScheduleInv == Waiting /\ Numbered

-----------------------------------------------------------------------------
\* What is done with the queue.

LEMMA DistinctAppend ==
    ASSUME NEW q \in Seq(Tasks), NEW t \in Tasks
    PROVE  /\ Append(q, t) \in Seq(Tasks)
           /\ \A u : Holds(Append(q, t), u) <=> Holds(q, u) \/ u = t
           /\ Distinct(q) /\ ~Holds(q, t) => Distinct(Append(q, t))
<1>1. /\ Append(q, t) \in Seq(Tasks) /\ Len(Append(q, t)) = Len(q) + 1
      /\ \A i \in 1 .. Len(q) : Append(q, t)[i] = q[i]
      /\ Append(q, t)[Len(q) + 1] = t
      /\ DOMAIN q = 1 .. Len(q) /\ DOMAIN Append(q, t) = 1 .. Len(q) + 1 /\ Len(q) \in Nat
  BY AppendProperties, LenProperties
<1> QED BY <1>1 DEF Holds, Distinct

LEMMA DistinctTail ==
    ASSUME NEW q \in Seq(Tasks), q # <<>>
    PROVE  /\ Tail(q) \in Seq(Tasks) /\ Head(q) \in Tasks /\ Holds(q, Head(q))
           /\ Distinct(q) => /\ Distinct(Tail(q))
                             /\ \A u : Holds(Tail(q), u) <=> Holds(q, u) /\ u # Head(q)
<1>1. /\ Tail(q) \in Seq(Tasks) /\ Len(Tail(q)) = Len(q) - 1
      /\ \A i \in 1 .. Len(q) - 1 : Tail(q)[i] = q[i + 1]
      /\ DOMAIN q = 1 .. Len(q) /\ DOMAIN Tail(q) = 1 .. Len(q) - 1
      /\ Len(q) \in Nat /\ Len(q) # 0
      /\ Head(q) = q[1] /\ Head(q) \in Tasks
  BY HeadTailProperties, LenProperties, EmptySeq
<1>2. Holds(q, Head(q))  BY <1>1 DEF Holds
<1>3. ASSUME Distinct(q) PROVE Distinct(Tail(q))
  BY <1>1, <1>3 DEF Distinct
<1>4. ASSUME Distinct(q), NEW u PROVE Holds(Tail(q), u) <=> Holds(q, u) /\ u # Head(q)
  <2>1. ASSUME Holds(Tail(q), u) PROVE Holds(q, u) /\ u # Head(q)
    <3>1. PICK i \in 1 .. Len(q) - 1 : Tail(q)[i] = u  BY <2>1, <1>1 DEF Holds
    <3>2. q[i + 1] = u /\ i + 1 \in DOMAIN q /\ 1 \in DOMAIN q /\ i + 1 # 1  BY <3>1, <1>1
    <3>3. u # q[1]  BY <3>2, <1>4 DEF Distinct
    <3> QED BY <3>2, <3>3, <1>1 DEF Holds
  <2>2. ASSUME Holds(q, u), u # Head(q) PROVE Holds(Tail(q), u)
    <3>1. PICK i \in 1 .. Len(q) : q[i] = u  BY <2>2, <1>1 DEF Holds
    <3>2. i - 1 \in 1 .. Len(q) - 1 /\ i - 1 + 1 = i  BY <3>1, <2>2, <1>1
    <3>3. Tail(q)[i - 1] = u  BY <3>1, <3>2, <1>1
    <3> QED BY <3>2, <3>3, <1>1 DEF Holds
  <2> QED BY <2>1, <2>2
<1> QED BY <1>1, <1>2, <1>3, <1>4

LEMMA WithoutHolds ==
    ASSUME queue \in Seq(Tasks), NEW t \in Tasks
    PROVE  /\ Without(t) \in Seq(Tasks)
           /\ Distinct(queue) => /\ Distinct(Without(t))
                                 /\ \A u : Holds(Without(t), u) <=> Holds(queue, u) /\ u # t
<1>0. DOMAIN queue = 1 .. Len(queue) /\ Len(queue) \in Nat /\ \A i \in 1 .. Len(queue) : queue[i] \in Tasks
  BY LenProperties, ElementOfSeq
<1>1. CASE ~ \E i \in DOMAIN queue : queue[i] = t
  BY <1>1 DEF Without, Holds
<1>2. CASE \E i \in DOMAIN queue : queue[i] = t
  <2>1. PICK i \in 1 .. Len(queue) :
          /\ queue[i] = t
          /\ Without(t) = [j \in 1 .. Len(queue) - 1 |-> IF j < i THEN queue[j] ELSE queue[j + 1]]
    BY <1>2, <1>0 DEF Without
  <2>2. Len(queue) - 1 \in Nat  BY <2>1, <1>0
  <2>3. \A j \in 1 .. Len(queue) - 1 : (IF j < i THEN queue[j] ELSE queue[j + 1]) \in Tasks
    BY <2>1, <1>0
  <2>4. Without(t) \in Seq(Tasks) /\ DOMAIN Without(t) = 1 .. Len(queue) - 1
    <3>1. Without(t) \in [1 .. Len(queue) - 1 -> Tasks]  BY <2>1, <2>3
    <3> QED BY <3>1, <2>2, SeqDef
  <2>5. \A j \in 1 .. Len(queue) - 1 : Without(t)[j] = queue[IF j < i THEN j ELSE j + 1]
    BY <2>1
  <2>6. ASSUME Distinct(queue) PROVE Distinct(Without(t))
    <3> SUFFICES ASSUME NEW j \in 1 .. Len(queue) - 1, NEW k \in 1 .. Len(queue) - 1,
                        Without(t)[j] = Without(t)[k]
                 PROVE  j = k
      BY <2>4 DEF Distinct
    <3>1. (IF j < i THEN j ELSE j + 1) = (IF k < i THEN k ELSE k + 1)
      BY <2>5, <2>6, <1>0 DEF Distinct
    <3> QED BY <3>1, <1>0, <2>1
  <2>7. ASSUME Distinct(queue), NEW u, Holds(Without(t), u)
        PROVE  Holds(queue, u) /\ u # t
    <3>1. PICK j \in 1 .. Len(queue) - 1 : Without(t)[j] = u  BY <2>7, <2>4 DEF Holds
    <3>2. PICK k \in 1 .. Len(queue) : k = IF j < i THEN j ELSE j + 1  BY <3>1, <1>0, <2>1
    <3>3. queue[k] = u /\ k # i  BY <3>1, <3>2, <2>5, <2>1, <1>0
    <3>4. u # t  BY <3>3, <2>1, <2>7, <1>0 DEF Distinct
    <3> QED BY <3>3, <3>4, <1>0 DEF Holds
  <2>8. ASSUME NEW u, Holds(queue, u), u # t
        PROVE  Holds(Without(t), u)
    <3>1. PICK k \in 1 .. Len(queue) : queue[k] = u  BY <2>8, <1>0 DEF Holds
    <3>2. k # i  BY <3>1, <2>8, <2>1
    <3>3. PICK j \in 1 .. Len(queue) - 1 : k = IF j < i THEN j ELSE j + 1
      <4>1. CASE k < i  BY <4>1, <1>0, <2>1
      <4>2. CASE k > i
        <5>1. k - 1 \in 1 .. Len(queue) - 1 /\ ~(k - 1 < i) /\ k = k - 1 + 1  BY <4>2, <1>0, <2>1
        <5> QED BY <5>1
      <4> QED BY <3>2, <4>1, <4>2, <1>0, <2>1
    <3>4. Without(t)[j] = u  BY <3>1, <3>3, <2>5
    <3> QED BY <3>4, <2>4 DEF Holds
  <2> QED BY <2>4, <2>6, <2>7, <2>8
<1> QED BY <1>1, <1>2

-----------------------------------------------------------------------------
\* What the steps make of a task and of a chunk.

Ends == {"COMPLETED", "CANCELED", "FAILED"}
Noted == [Resources -> Results \cup {"NONE"}]

LEMMA TaskUpdates ==
    ASSUME NEW k \in TaskType
    PROVE  /\ \A f \in Noted : [k EXCEPT !.results = f] \in TaskType
           /\ \A f \in Noted : [k EXCEPT !.results = f].state = k.state
           /\ \A s \in States : [k EXCEPT !.state = s] \in TaskType
           /\ \A s \in States : [k EXCEPT !.state = s].state = s
           /\ \A S \in SUBSET Resources : [k EXCEPT !.todo = S] \in TaskType
           /\ \A S \in SUBSET Resources : [k EXCEPT !.todo = S].state = k.state
           /\ k.results \in Noted /\ k.todo \subseteq Resources /\ k.ids \subseteq Resources
           /\ k.state \in States
BY DEF TaskType, Noted

LEMMA ResultNoted ==
    ASSUME TypeOK, NEW t \in Tasks, NEW r, NEW x \in Results \cup {"NONE"}
    PROVE  /\ [task EXCEPT ![t].results[r] = x] \in [Tasks -> TaskType]
           /\ \A u \in Tasks : [task EXCEPT ![t].results[r] = x][u].state = task[u].state
           /\ \A u \in Tasks : u # t => [task EXCEPT ![t].results[r] = x][u] = task[u]
<1>1. task[t] \in TaskType /\ task \in [Tasks -> TaskType]  BY DEF TypeOK
<1>2. task[t].results \in Noted  BY <1>1, TaskUpdates
<1>3. PICK f \in Noted : f = [task[t].results EXCEPT ![r] = x]  BY <1>2 DEF Noted
<1>4. PICK k \in TaskType : k = [task[t] EXCEPT !.results = f] /\ k.state = task[t].state
  BY <1>1, TaskUpdates
<1>5. [task EXCEPT ![t].results[r] = x] = [task EXCEPT ![t] = k]  BY <1>3, <1>4
<1> QED BY <1>1, <1>4, <1>5

LEMMA ResultsNoted ==
    ASSUME TypeOK, NEW t \in Tasks, NEW f \in Noted
    PROVE  /\ [task EXCEPT ![t].results = f] \in [Tasks -> TaskType]
           /\ \A u \in Tasks : [task EXCEPT ![t].results = f][u].state = task[u].state
           /\ \A u \in Tasks : u # t => [task EXCEPT ![t].results = f][u] = task[u]
<1>1. task[t] \in TaskType /\ task \in [Tasks -> TaskType]  BY DEF TypeOK
<1>2. PICK k \in TaskType : k = [task[t] EXCEPT !.results = f] /\ k.state = task[t].state
  BY <1>1, TaskUpdates
<1>3. [task EXCEPT ![t].results = f] = [task EXCEPT ![t] = k]  BY <1>2
<1> QED BY <1>1, <1>2, <1>3

LEMMA FinishedTask ==
    ASSUME TypeOK, NEW t \in Tasks, NEW f \in Noted, NEW s \in Ends
    PROVE  /\ Finished(t, f, s) \in [Tasks -> TaskType]
           /\ Finished(t, f, s)[t].state = s
           /\ \A u \in Tasks : u # t => Finished(t, f, s)[u] = task[u]
<1>1. task[t] \in TaskType /\ task \in [Tasks -> TaskType]  BY DEF TypeOK
<1>2. PICK g \in Noted :
         g = [r \in Resources |->
                 IF r \in task[t].ids /\ f[r] = "NONE"
                   THEN IF s = "CANCELED" THEN "CANCELED" ELSE "LOST"
                   ELSE f[r]]
  BY DEF Noted, Results
<1>3. PICK k1 \in TaskType : k1 = [task[t] EXCEPT !.state = s] /\ k1.state = s
  <2>1. s \in States  BY DEF States, Ends
  <2>2. [task[t] EXCEPT !.state = s] \in TaskType /\ [task[t] EXCEPT !.state = s].state = s
    BY <1>1, <2>1, TaskUpdates
  <2> QED BY <2>2
<1>4. PICK k \in TaskType : k = [k1 EXCEPT !.results = g] /\ k.state = s
  <2>1. [k1 EXCEPT !.results = g] \in TaskType /\ [k1 EXCEPT !.results = g].state = k1.state
    BY TaskUpdates
  <2> QED BY <2>1, <1>3
<1>5. Finished(t, f, s) = [task EXCEPT ![t] = k]  BY <1>2, <1>3, <1>4 DEF Finished
<1> QED BY <1>1, <1>4, <1>5

LEMMA Answers ==
    ASSUME TypeOK, NEW t \in Tasks
    PROVE  task[t].results \in Noted /\ Missing(t) \in Noted /\ Known(t) \subseteq Resources
<1>1. task[t].results \in Noted  BY TaskUpdates DEF TypeOK
<1> QED BY <1>1 DEF Noted, Missing, Known, Results

LEMMA ChunkUpdates ==
    ASSUME NEW c \in ChunkType
    PROVE  /\ \A S \in SUBSET Resources : /\ [c EXCEPT !.ids = S] \in ChunkType
                                          /\ [c EXCEPT !.ids = S].phase = c.phase
                                          /\ [c EXCEPT !.left = S] \in ChunkType
                                          /\ [c EXCEPT !.left = S].phase = c.phase
           /\ \A f \in [Resources -> Nat] : /\ [c EXCEPT !.snapshots = f] \in ChunkType
                                            /\ [c EXCEPT !.snapshots = f].phase = c.phase
           /\ \A p \in {"NONE", "SNAPSHOT", "ACCEPT"} : /\ [c EXCEPT !.phase = p] \in ChunkType
                                                        /\ [c EXCEPT !.phase = p].phase = p
           /\ \A r \in Resources \cup {NoResource} : /\ [c EXCEPT !.writing = r] \in ChunkType
                                                     /\ [c EXCEPT !.writing = r].phase = c.phase
           /\ \A x \in Results \cup {"NONE"} : /\ [c EXCEPT !.wrote = x] \in ChunkType
                                               /\ [c EXCEPT !.wrote = x].phase = c.phase
           /\ c.ids \subseteq Resources /\ c.left \subseteq Resources
           /\ c.snapshots \in [Resources -> Nat]
           /\ c.writing \in Resources \cup {NoResource} /\ c.wrote \in Results \cup {"NONE"}
BY DEF ChunkType

LEMMA NoneYet ==
    /\ NoChunk \in ChunkType /\ NoChunk.phase = "NONE"
    /\ NoTask \in TaskType /\ NoTask.state = "NONE"
BY DEF NoChunk, ChunkType, NoTask, TaskType, Results, States

LEMMA ChunkBecomes ==
    ASSUME TypeOK, NEW t \in Tasks, NEW c \in ChunkType, chunk' = [chunk EXCEPT ![t] = c]
    PROVE  /\ chunk' \in [Tasks -> ChunkType] /\ chunk'[t] = c
           /\ \A u \in Tasks : u # t => chunk'[u] = chunk[u]
           /\ (c.phase # "NONE") = Running(t) =>
                 \A u \in Tasks : (chunk'[u].phase # "NONE") = Running(u)
BY DEF TypeOK, Running

-----------------------------------------------------------------------------
\* A step inside a chunk: no task changes its state, and the same chunks run.

Inner(t) ==
    \/ \E r \in Resources : Snapshot(t, r) \/ Accept(t, r)
    \/ Execute(t) \/ EngineFails(t) \/ Persist(t) \/ Settle(t)

LEMMA InnerStep ==
    ASSUME TypeOK, NEW t \in Tasks, Inner(t)
    PROVE  /\ task' \in [Tasks -> TaskType]
           /\ \A u \in Tasks : task'[u].state = task[u].state
           /\ \A u \in Tasks : u # t \/ Terminal(t) => task'[u] = task[u]
           /\ chunk' \in [Tasks -> ChunkType]
           /\ \A u \in Tasks : (chunk'[u].phase # "NONE") = Running(u)
           /\ row' \in [Resources -> RowType]
           /\ UNCHANGED <<queue, workers, next, launches, changes>>
           /\ \/ row' = row
              \/ \E r \in Resources :
                    launches[r] = t /\ row' = [row EXCEPT ![r].by = t]
<1>0. /\ chunk[t] \in ChunkType /\ task \in [Tasks -> TaskType] /\ row \in [Resources -> RowType]
      /\ chunk \in [Tasks -> ChunkType] /\ "LOST" \in Results \cup {"NONE"}
  BY DEF TypeOK, Results
<1>1. ASSUME NEW r \in Resources, Snapshot(t, r)
      PROVE  /\ task' = task \/ task' = [task EXCEPT ![t].results[r] = "LOST"]
             /\ ~Terminal(t)
             /\ UNCHANGED <<queue, workers, next, launches, row, changes>>
             /\ \E c \in ChunkType : chunk' = [chunk EXCEPT ![t] = c] /\ (c.phase # "NONE") = Running(t)
  <2>1. PICK c1 \in ChunkType : c1 = [chunk[t] EXCEPT !.ids = @ \ {r}] /\ c1.phase = chunk[t].phase
    <3>1. chunk[t].ids \ {r} \subseteq Resources  BY <1>0, ChunkUpdates
    <3>2. /\ [chunk[t] EXCEPT !.ids = chunk[t].ids \ {r}] \in ChunkType
          /\ [chunk[t] EXCEPT !.ids = chunk[t].ids \ {r}].phase = chunk[t].phase
      BY <1>0, <3>1 DEF ChunkType
    <3> QED BY <3>2
  <2>2. PICK f \in [Resources -> Nat] : f = [chunk[t].snapshots EXCEPT ![r] = row[r].version]
    <3>1. chunk[t].snapshots \in [Resources -> Nat] /\ row[r].version \in Nat
      BY <1>0, ChunkUpdates DEF RowType
    <3> QED BY <3>1
  <2>3. PICK c2 \in ChunkType : c2 = [c1 EXCEPT !.snapshots = f] /\ c2.phase = chunk[t].phase
    <3>1. [c1 EXCEPT !.snapshots = f] \in ChunkType /\ [c1 EXCEPT !.snapshots = f].phase = c1.phase
      BY DEF ChunkType
    <3> QED BY <3>1, <2>1
  <2>4. c1.snapshots = chunk[t].snapshots  BY <2>1, <1>0 DEF ChunkType
  <2>5. CASE chunk' = [chunk EXCEPT ![t].ids = @ \ {r}]
    <3>1. chunk' = [chunk EXCEPT ![t] = c1]  BY <2>5, <2>1
    <3> QED BY <3>1, <2>1, <1>1 DEF Running, Snapshot
  <2>6. CASE chunk' = [chunk EXCEPT ![t].ids = @ \ {r}, ![t].snapshots[r] = row[r].version]
    <3>1. chunk' = [chunk EXCEPT ![t] = c2]  BY <2>6, <2>1, <2>2, <2>3, <2>4, <1>0
    <3> QED BY <3>1, <2>3, <1>1 DEF Running, Snapshot
  <2> QED BY <1>1, <2>5, <2>6 DEF Snapshot
<1>2. ASSUME NEW r \in Resources, Accept(t, r)
      PROVE  /\ task' = task \/ task' = [task EXCEPT ![t].results[r] = "LOST"]
             /\ ~Terminal(t)
             /\ UNCHANGED <<queue, workers, next, launches, row, changes>>
             /\ \E c \in ChunkType : chunk' = [chunk EXCEPT ![t] = c] /\ (c.phase # "NONE") = Running(t)
  <2>1. PICK c1 \in ChunkType : c1 = [chunk[t] EXCEPT !.left = @ \ {r}] /\ c1.phase = chunk[t].phase
    <3>1. chunk[t].left \ {r} \subseteq Resources  BY <1>0, ChunkUpdates
    <3>2. /\ [chunk[t] EXCEPT !.left = chunk[t].left \ {r}] \in ChunkType
          /\ [chunk[t] EXCEPT !.left = chunk[t].left \ {r}].phase = chunk[t].phase
      BY <1>0, <3>1 DEF ChunkType
    <3> QED BY <3>2
  <2>2. PICK c2 \in ChunkType : c2 = [c1 EXCEPT !.writing = r] /\ c2.phase = chunk[t].phase
    <3>1. [c1 EXCEPT !.writing = r] \in ChunkType /\ [c1 EXCEPT !.writing = r].phase = c1.phase
      BY ZenonT(40), ChunkUpdates
    <3> QED BY <3>1, <2>1
  <2>3. CASE chunk' = [chunk EXCEPT ![t].left = @ \ {r}]
    <3>1. chunk' = [chunk EXCEPT ![t] = c1]  BY <2>3, <2>1
    <3> QED BY <3>1, <2>1, <1>2 DEF Running, Accept
  <2>4. CASE chunk' = [chunk EXCEPT ![t].left = @ \ {r}, ![t].writing = r]
    <3>1. chunk' = [chunk EXCEPT ![t] = c2]  BY <2>4, <2>1, <2>2, <1>0
    <3> QED BY <3>1, <2>2, <1>2 DEF Running, Accept
  <2> QED BY <1>2, <2>3, <2>4 DEF Accept
<1>3. ASSUME Execute(t) \/ EngineFails(t)
      PROVE  /\ (task' = task \/ \E f \in Noted : task' = [task EXCEPT ![t].results = f])
             /\ ~Terminal(t)
             /\ UNCHANGED <<queue, workers, next, launches, row, changes>>
             /\ \E c \in ChunkType : chunk' = [chunk EXCEPT ![t] = c] /\ (c.phase # "NONE") = Running(t)
  <2>1. PICK c1 \in ChunkType : c1 = [chunk[t] EXCEPT !.phase = "ACCEPT"] /\ c1.phase = "ACCEPT"
    <3>1. [chunk[t] EXCEPT !.phase = "ACCEPT"] \in ChunkType /\ [chunk[t] EXCEPT !.phase = "ACCEPT"].phase = "ACCEPT"
      BY <1>0, ChunkUpdates
    <3> QED BY <3>1
  <2>2. PICK c2 \in ChunkType : c2 = [c1 EXCEPT !.left = Known(t)] /\ c2.phase = "ACCEPT"
    <3>1. /\ [c1 EXCEPT !.left = Known(t)] \in ChunkType
          /\ [c1 EXCEPT !.left = Known(t)].phase = c1.phase
      BY Answers DEF ChunkType
    <3> QED BY <3>1, <2>1
  <2>3. PICK c3 \in ChunkType : c3 = [chunk[t] EXCEPT !.left = {}] /\ c3.phase = chunk[t].phase
    <3>1. [chunk[t] EXCEPT !.left = {}] \in ChunkType /\ [chunk[t] EXCEPT !.left = {}].phase = chunk[t].phase
      BY <1>0 DEF ChunkType
    <3> QED BY <3>1
  <2>4. Running(t) /\ ~Terminal(t) /\ UNCHANGED <<queue, workers, next, launches, row, changes>>
    BY <1>3 DEF Execute, EngineFails, Running
  <2>5. CASE Execute(t)
    <3>1. chunk' = [chunk EXCEPT ![t] = c2]  BY <2>5, <2>1, <2>2, <1>0 DEF Execute
    <3>2. task' = task  BY <2>5 DEF Execute
    <3> QED BY <3>1, <3>2, <2>2, <2>4
  <2>6. CASE EngineFails(t)
    <3>1. chunk' = [chunk EXCEPT ![t] = c3]  BY <2>6, <2>3, <1>0 DEF EngineFails
    <3>2. [r \in Resources |-> IF r \in chunk[t].left THEN "LOST" ELSE task[t].results[r]] \in Noted
      BY Answers DEF Noted, Results
    <3>3. \E f \in Noted : task' = [task EXCEPT ![t].results = f]  BY <2>6, <3>2 DEF EngineFails
    <3>4. (c3.phase # "NONE") = Running(t)  BY <2>3 DEF Running
    <3> QED BY <3>1, <3>3, <3>4, <2>4
  <2> QED BY <1>3, <2>5, <2>6
<1>4. ASSUME Persist(t)
      PROVE  /\ UNCHANGED <<task, queue, workers, next, launches, changes>>
             /\ \E c \in ChunkType : chunk' = [chunk EXCEPT ![t] = c] /\ (c.phase # "NONE") = Running(t)
             /\ \/ row' = row
                \/ \E r \in Resources : launches[r] = t /\ row' = [row EXCEPT ![r].by = t]
  <2>1. PICK r \in Resources : r = chunk[t].writing
    BY <1>0, <1>4, ChunkUpdates DEF Persist
  <2>2. PICK x \in {"APPLIED", "LOST"} :
          /\ chunk' = [chunk EXCEPT ![t].wrote = x]
          /\ row' = row \/ (launches[r] = t /\ row' = [row EXCEPT ![r].by = t])
    BY <1>4, <2>1 DEF Persist, CurrentLaunch
  <2>3. PICK c \in ChunkType : c = [chunk[t] EXCEPT !.wrote = x] /\ c.phase = chunk[t].phase
    <3>0. x \in Results \cup {"NONE"}  BY DEF Results
    <3>1. [chunk[t] EXCEPT !.wrote = x] \in ChunkType /\ [chunk[t] EXCEPT !.wrote = x].phase = chunk[t].phase
      BY <1>0, <3>0 DEF ChunkType
    <3> QED BY <3>1
  <2>4. chunk' = [chunk EXCEPT ![t] = c]  BY <2>2, <2>3
  <2> QED BY <1>4, <2>2, <2>3, <2>4 DEF Persist, Running
<1>5. ASSUME Settle(t)
      PROVE  /\ \/ task' = task
                \/ /\ ~Terminal(t)
                   /\ \E x \in Results \cup {"NONE"} :
                         task' = [task EXCEPT ![t].results[chunk[t].writing] = x]
             /\ UNCHANGED <<queue, workers, next, launches, row, changes>>
             /\ \E c \in ChunkType : chunk' = [chunk EXCEPT ![t] = c] /\ (c.phase # "NONE") = Running(t)
  <2>1. PICK c1 \in ChunkType : c1 = [chunk[t] EXCEPT !.writing = NoResource] /\ c1.phase = chunk[t].phase
    <3>1. /\ [chunk[t] EXCEPT !.writing = NoResource] \in ChunkType
          /\ [chunk[t] EXCEPT !.writing = NoResource].phase = chunk[t].phase
      BY ZenonT(40), <1>0, ChunkUpdates
    <3> QED BY <3>1
  <2>2. PICK c2 \in ChunkType : c2 = [c1 EXCEPT !.wrote = "NONE"] /\ c2.phase = chunk[t].phase
    <3>1. [c1 EXCEPT !.wrote = "NONE"] \in ChunkType /\ [c1 EXCEPT !.wrote = "NONE"].phase = c1.phase
      BY ZenonT(40), ChunkUpdates
    <3> QED BY <3>1, <2>1
  <2>3. chunk' = [chunk EXCEPT ![t] = c2]  BY <1>5, <2>1, <2>2, <1>0 DEF Settle
  <2>4. chunk[t].wrote \in Results \cup {"NONE"}  BY <1>0, ChunkUpdates
  <2> QED BY <1>5, <2>2, <2>3, <2>4 DEF Settle, Settled, Reported, Running
<1>6. /\ chunk' \in [Tasks -> ChunkType]
      /\ \A u \in Tasks : (chunk'[u].phase # "NONE") = Running(u)
  <2>1. PICK c \in ChunkType : chunk' = [chunk EXCEPT ![t] = c] /\ (c.phase # "NONE") = Running(t)
    BY <1>1, <1>2, <1>3, <1>4, <1>5 DEF Inner
  <2> QED BY <2>1, ChunkBecomes
<1>7. /\ task' \in [Tasks -> TaskType]
      /\ \A u \in Tasks : task'[u].state = task[u].state
      /\ \A u \in Tasks : u # t \/ Terminal(t) => task'[u] = task[u]
  <2>1. CASE task' = task  BY <2>1, <1>0
  <2>2. CASE /\ ~Terminal(t)
             /\ \E r, x : x \in Results \cup {"NONE"} /\ task' = [task EXCEPT ![t].results[r] = x]
    <3>1. PICK r, x : x \in Results \cup {"NONE"} /\ task' = [task EXCEPT ![t].results[r] = x]
      BY <2>2
    <3>2. x \in Results \cup {"NONE"}  BY <3>1
    <3>3. /\ [task EXCEPT ![t].results[r] = x] \in [Tasks -> TaskType]
          /\ \A u \in Tasks : [task EXCEPT ![t].results[r] = x][u].state = task[u].state
          /\ \A u \in Tasks : u # t => [task EXCEPT ![t].results[r] = x][u] = task[u]
      BY <3>2, ResultNoted
    <3> QED BY <2>2, <3>1, <3>3
  <2>3. CASE ~Terminal(t) /\ \E f \in Noted : task' = [task EXCEPT ![t].results = f]
    BY <2>3, ResultsNoted
  <2>4. \/ task' = task
        \/ /\ ~Terminal(t)
           /\ \E r, x : x \in Results \cup {"NONE"} /\ task' = [task EXCEPT ![t].results[r] = x]
        \/ ~Terminal(t) /\ \E f \in Noted : task' = [task EXCEPT ![t].results = f]
    BY <1>0, <1>1, <1>2, <1>3, <1>4, <1>5 DEF Inner
  <2> QED BY <2>1, <2>2, <2>3, <2>4
<1>8. \/ row' = row
      \/ \E r \in Resources : launches[r] = t /\ row' = [row EXCEPT ![r].by = t]
  BY <1>1, <1>2, <1>3, <1>4, <1>5 DEF Inner
<1>9. row' \in [Resources -> RowType]
  <2>1. ASSUME NEW r \in Resources, row' = [row EXCEPT ![r].by = t]
        PROVE  row' \in [Resources -> RowType]
    <3>0. t \in 0 .. MaxTasks /\ row[r] \in RowType  BY <1>0, <2>1, ProbeAssumption DEF Tasks
    <3>1. [row[r] EXCEPT !.by = t] \in RowType  BY <3>0 DEF RowType
    <3> QED BY <3>1, <2>1, <1>0
  <2> QED BY <2>1, <1>8, <1>0
<1> QED BY <1>1, <1>2, <1>3, <1>4, <1>5, <1>6, <1>7, <1>8, <1>9 DEF Inner

-----------------------------------------------------------------------------
\* Types.

LEMMA TypeInit == Init => TypeInv
<1> SUFFICES ASSUME Init PROVE TypeInv  OBVIOUS
<1>1. TypeOK
  <2>1. [active |-> TRUE, version |-> 1, by |-> 0] \in RowType  BY ProbeAssumption DEF RowType
  <2>2. <<>> \in Seq(Tasks)  BY EmptySeq
  <2> QED BY <2>1, <2>2, NoneYet, ProbeAssumption DEF TypeOK, Init
<1>2. Busy = {}  BY NoneYet DEF Init, Busy, Running
<1> QED BY <1>1, <1>2, FS_EmptySet DEF TypeInv, Counted, Init

LEMMA BusyFinite == IsFiniteSet(Busy) /\ Cardinality(Busy) \in Nat
<1>1. IsFiniteSet(Tasks)  BY FS_Interval, ProbeAssumption DEF Tasks
<1>2. Busy \subseteq Tasks  BY DEF Busy
<1> QED BY <1>1, <1>2, FS_Subset, FS_CardinalityType

\* The worker that a chunk gives back was counted.
LEMMA OneReturns ==
    ASSUME TypeInv, NEW t \in Tasks, Running(t), Returns(t)
    PROVE  /\ workers' \in 0 .. Workers
           /\ chunk' \in [Tasks -> ChunkType]
           /\ workers' = Cardinality(Busy')
           /\ chunk'[t].phase = "NONE"
           /\ \A u \in Tasks : u # t => chunk'[u] = chunk[u]
<1>1. chunk' = [chunk EXCEPT ![t] = NoChunk] /\ NoChunk \in ChunkType /\ NoChunk.phase = "NONE"
  BY NoneYet DEF Returns
<1>2. /\ chunk' \in [Tasks -> ChunkType]
      /\ chunk'[t].phase = "NONE"
      /\ \A u \in Tasks : u # t => chunk'[u] = chunk[u]
  BY <1>1 DEF TypeInv, TypeOK
<1>3. Busy' = Busy \ {t} /\ t \in Busy
  BY <1>2 DEF Busy, Running
<1>4. Cardinality(Busy') = Cardinality(Busy) - 1 /\ Cardinality(Busy') \in Nat
  <2>1. Cardinality(Busy \ {t}) = Cardinality(Busy) - 1 /\ IsFiniteSet(Busy \ {t})
    BY <1>3, BusyFinite, FS_RemoveElement
  <2> QED BY <2>1, <1>3, FS_CardinalityType
<1>5. workers' = Cardinality(Busy') /\ workers' \in 0 .. Workers
  BY <1>4, BusyFinite, ProbeAssumption DEF TypeInv, TypeOK, Counted, Returns
<1> QED BY <1>2, <1>5

LEMMA ReleasedType ==
    ASSUME TypeOK, NEW t \in Tasks
    PROVE  Released(t) \in [Resources -> 0 .. MaxTasks]
BY ProbeAssumption DEF Released, TypeOK

\* Pump: the task at the head gets a chunk of its own, unless it has ended.
LEMMA PumpStep ==
    ASSUME TypeInv, Pump
    PROVE  /\ task' \in [Tasks -> TaskType] /\ chunk' \in [Tasks -> ChunkType]
           /\ queue' = Tail(queue) /\ queue # <<>> /\ Head(queue) \in Tasks
           /\ UNCHANGED <<next, launches, row, changes>>
           /\ workers' \in 0 .. Workers
           /\ \/ Terminal(Head(queue)) /\ UNCHANGED <<workers, task, chunk>>
              \/ /\ ~Terminal(Head(queue)) /\ workers' = workers + 1
                 /\ task'[Head(queue)].state = "RUNNING"
                 /\ chunk'[Head(queue)].phase = "SNAPSHOT"
                 /\ \A u \in Tasks : u # Head(queue) => task'[u] = task[u] /\ chunk'[u] = chunk[u]
<1>0. queue \in Seq(Tasks) /\ queue # <<>> /\ workers \in Nat /\ workers < Workers
  <2>1. queue \in Seq(Tasks) /\ workers \in 0 .. Workers  BY DEF TypeInv, TypeOK
  <2>2. queue # <<>> /\ workers < Workers  BY DEF Pump
  <2> QED BY <2>1, <2>2
<1>1. PICK t \in Tasks : t = Head(queue)  BY <1>0, DistinctTail
<1>2. task[t] \in TaskType /\ task \in [Tasks -> TaskType] /\ chunk \in [Tasks -> ChunkType]
  BY DEF TypeInv, TypeOK
<1>3. queue' = Tail(queue) /\ UNCHANGED <<next, launches, row, changes>>
  BY DEF Pump, Taken
<1>4. CASE Terminal(t)
  <2>1. UNCHANGED <<workers, task, chunk>>  BY <1>1, <1>4 DEF Pump
  <2> QED BY <2>1, <1>0, <1>1, <1>2, <1>3, <1>4 DEF TypeInv, TypeOK
<1>5. CASE ~Terminal(t)
  <2>1. PICK C \in Cut(t) :
           /\ task' = [task EXCEPT ![t].state = "RUNNING", ![t].todo = @ \ C]
           /\ chunk' = [chunk EXCEPT ![t] = [NoChunk EXCEPT !.phase = "SNAPSHOT", !.ids = C]]
    BY <1>1, <1>5 DEF Pump
  <2>2. workers' = workers + 1  BY <1>1, <1>5 DEF Pump
  <2>3. C \in SUBSET Resources /\ task[t].todo \ C \in SUBSET Resources
    BY <1>2, TaskUpdates DEF Cut
  <2>4. PICK k1 \in TaskType : k1 = [task[t] EXCEPT !.state = "RUNNING"] /\ k1.state = "RUNNING"
    <3>1. [task[t] EXCEPT !.state = "RUNNING"] \in TaskType /\ [task[t] EXCEPT !.state = "RUNNING"].state = "RUNNING"
      BY <1>2 DEF TaskType, States
    <3> QED BY <3>1
  <2>5. PICK k \in TaskType : k = [k1 EXCEPT !.todo = task[t].todo \ C] /\ k.state = "RUNNING"
    <3>1. /\ [k1 EXCEPT !.todo = task[t].todo \ C] \in TaskType
          /\ [k1 EXCEPT !.todo = task[t].todo \ C].state = k1.state
      BY <2>3 DEF TaskType
    <3> QED BY <3>1, <2>4
  <2>6. k1.todo = task[t].todo  BY <2>4, <1>2 DEF TaskType
  <2>7. task' = [task EXCEPT ![t] = k]  BY <2>1, <2>4, <2>5, <2>6, <1>2
  <2>8. [NoChunk EXCEPT !.phase = "SNAPSHOT", !.ids = C] \in ChunkType
    BY <2>3, NoneYet DEF ChunkType
  <2>9. [NoChunk EXCEPT !.phase = "SNAPSHOT", !.ids = C].phase = "SNAPSHOT"
    BY NoneYet DEF ChunkType
  <2>10. PICK c \in ChunkType : chunk' = [chunk EXCEPT ![t] = c] /\ c.phase = "SNAPSHOT"
    BY <2>1, <2>8, <2>9
  <2>11. workers' \in 0 .. Workers  BY <2>2, <1>0, ProbeAssumption
  <2>12. /\ task' \in [Tasks -> TaskType] /\ task'[t].state = "RUNNING"
         /\ chunk' \in [Tasks -> ChunkType] /\ chunk'[t].phase = "SNAPSHOT"
         /\ \A u \in Tasks : u # t => task'[u] = task[u] /\ chunk'[u] = chunk[u]
    BY <2>5, <2>7, <2>10, <1>2
  <2> QED BY <2>2, <2>11, <2>12, <1>0, <1>1, <1>3, <1>5
<1> QED BY <1>4, <1>5

LEMMA StartStep ==
    ASSUME TypeInv, NEW o \in Owners, NEW S \in Selections, Start(o, S)
    PROVE  /\ next + 1 \in Tasks /\ next' = next + 1 /\ next \in Nat
           /\ task' \in [Tasks -> TaskType] /\ task'[next'].state = "QUEUED"
           /\ \A u \in Tasks : u # next' => task'[u] = task[u]
           /\ queue' = Append(queue, next') /\ queue \in Seq(Tasks)
           /\ launches' \in [Resources -> 0 .. MaxTasks]
           /\ \A r \in Resources : launches'[r] \in {next', launches[r]}
           /\ UNCHANGED <<workers, chunk, row, changes>>
<1>1. /\ next + 1 \in Tasks /\ next' = next + 1 /\ next \in Nat /\ next' \in 0 .. MaxTasks
      /\ UNCHANGED <<workers, chunk, row, changes>>
      /\ queue' = Append(queue, next') /\ queue \in Seq(Tasks)
  BY ProbeAssumption DEF Start, TypeInv, TypeOK, Tasks
<1>2. PICK k \in TaskType : k.state = "QUEUED" /\ task' = [task EXCEPT ![next + 1] = k]
  <2>1. S \subseteq Resources /\ o \in Owners  BY ProbeAssumption
  <2>2. [NoTask EXCEPT !.state = "QUEUED", !.owner = o, !.ids = S, !.todo = S] \in TaskType
    BY <2>1, NoneYet DEF TaskType, States
  <2>3. [NoTask EXCEPT !.state = "QUEUED", !.owner = o, !.ids = S, !.todo = S].state = "QUEUED"
    BY NoneYet DEF TaskType
  <2> QED BY <2>2, <2>3 DEF Start
<1>3. /\ task' \in [Tasks -> TaskType] /\ task'[next'].state = "QUEUED"
      /\ \A u \in Tasks : u # next' => task'[u] = task[u]
  BY <1>1, <1>2 DEF TypeInv, TypeOK
<1>4. /\ launches' \in [Resources -> 0 .. MaxTasks]
      /\ \A r \in Resources : launches'[r] \in {next', launches[r]}
  BY <1>1 DEF Start, TypeInv, TypeOK
<1> QED BY <1>1, <1>3, <1>4

LEMMA EndStep ==
    ASSUME TypeInv, NEW t \in Tasks, NEW s \in Ends, End(t, s)
    PROVE  /\ t \in Active
           /\ task' \in [Tasks -> TaskType] /\ task'[t].state = s
           /\ \A u \in Tasks : u # t => task'[u] = task[u]
           /\ queue' = Without(t) /\ launches' = Released(t)
           /\ UNCHANGED <<workers, next, chunk, row, changes>>
<1>1. TypeOK  BY DEF TypeInv
<1>2. task[t].results \in Noted  BY <1>1, Answers
<1>3. task' = Finished(t, task[t].results, s)  BY DEF End
<1> QED BY <1>1, <1>2, <1>3, FinishedTask DEF End, FreedLater

\* The chunk ends: with it the task, or its turn.
LEMMA ChunkEndsStep ==
    ASSUME TypeInv, NEW t \in Tasks, ChunkEnds(t)
    PROVE  /\ Running(t) /\ ~Terminal(t) /\ Returns(t)
           /\ task' \in [Tasks -> TaskType]
           /\ \A u \in Tasks : u # t => task'[u] = task[u]
           /\ UNCHANGED <<next, row, changes>>
           /\ \/ task'[t].state = "COMPLETED" /\ queue' = Without(t) /\ launches' = Released(t)
              \/ task'[t].state = task[t].state /\ queue' = Append(queue, t) /\ launches' = launches
<1>1. TypeOK  BY DEF TypeInv
<1>2. Missing(t) \in Noted /\ "COMPLETED" \in Ends  BY <1>1, Answers DEF Ends
<1>3. Running(t) /\ ~Terminal(t) /\ Returns(t) /\ UNCHANGED <<next, row, changes>>
  BY DEF ChunkEnds, Running, Returns
<1>4. CASE task[t].todo = {}
  <2>1. /\ task' = Finished(t, Missing(t), "COMPLETED")
        /\ queue' = Without(t) /\ launches' = Released(t)
    BY <1>4 DEF ChunkEnds
  <2> QED BY <2>1, <1>1, <1>2, <1>3, FinishedTask
<1>5. CASE task[t].todo # {}
  <2>1. /\ task' = [task EXCEPT ![t].results = Missing(t)]
        /\ queue' = Append(queue, t) /\ launches' = launches
    BY <1>5 DEF ChunkEnds, Requeued
  <2>2. PICK f \in Noted : f = Missing(t)  BY <1>2
  <2> QED BY <2>1, <2>2, <1>1, <1>3, ResultsNoted
<1> QED BY <1>4, <1>5

LEMMA ChangeStep ==
    ASSUME TypeInv, NEW r \in Resources, Change(r)
    PROVE  /\ UNCHANGED <<task, queue, workers, next, launches, chunk>>
           /\ changes' \in 0 .. MaxChanges
           /\ row' \in [Resources -> RowType]
           /\ \A q \in Resources : row'[q].by = row[q].by
<1>1. UNCHANGED <<task, queue, workers, next, launches, chunk>> /\ changes' \in 0 .. MaxChanges
  BY ProbeAssumption DEF Change, TypeInv, TypeOK
<1>2. PICK a \in BOOLEAN : row' = [row EXCEPT ![r].version = @ + 1, ![r].active = a]
  BY DEF Change
<1>3. row[r] \in RowType /\ row \in [Resources -> RowType]  BY DEF TypeInv, TypeOK
<1>4. [row[r] EXCEPT !.version = row[r].version + 1, !.active = a] \in RowType
  <2>1. row[r].version + 1 \in Nat \ {0}  BY <1>3 DEF RowType
  <2> QED BY <2>1, <1>3 DEF RowType
<1>5. [row[r] EXCEPT !.version = row[r].version + 1, !.active = a].by = row[r].by
  BY <1>3 DEF RowType
<1>6. PICK k \in RowType : /\ k = [row[r] EXCEPT !.version = row[r].version + 1, !.active = a]
                           /\ k.by = row[r].by
  BY <1>4, <1>5
<1>7. row' = [row EXCEPT ![r] = k]  BY <1>2, <1>3, <1>6
<1> QED BY <1>1, <1>3, <1>6, <1>7

\* What a step is.
LEMMA Steps ==
    ASSUME [Next]_vars
    PROVE  \/ UNCHANGED vars
           \/ \E o \in Owners, S \in Selections : Start(o, S)
           \/ Pump
           \/ \E t \in Tasks : Inner(t)
           \/ \E t \in Tasks : ChunkEnds(t)
           \/ \E t \in Tasks : Aborts(t)
           \/ \E t \in Tasks, s \in Ends : End(t, s)
           \/ \E r \in Resources : Change(r)
<1>1. "CANCELED" \in Ends /\ "FAILED" \in Ends  BY DEF Ends
<1> QED BY <1>1 DEF Next, Work, Inner

LEMMA TypeStep == TypeInv /\ ScheduleInv /\ [Next]_vars => TypeInv'
<1> SUFFICES ASSUME TypeInv, ScheduleInv, [Next]_vars PROVE TypeInv'  OBVIOUS
<1>0. TypeOK /\ Counted /\ queue \in Seq(Tasks)  BY DEF TypeInv, TypeOK
<1>1. ASSUME Busy' = Busy, workers' = workers PROVE Counted'
  BY <1>0, <1>1 DEF Counted
<1>2. CASE UNCHANGED vars
  <2>1. Busy' = Busy  BY <1>2 DEF vars, Busy, Running
  <2>2. TypeOK'  BY <1>0, <1>2 DEF vars, TypeOK
  <2> QED BY <2>1, <2>2, <1>1, <1>2 DEF TypeInv, vars
<1>3. ASSUME NEW o \in Owners, NEW S \in Selections, Start(o, S) PROVE TypeInv'
  <2>1. Busy' = Busy  BY <1>3, StartStep DEF Busy, Running
  <2>2. queue' \in Seq(Tasks)  BY <1>3, StartStep, DistinctAppend
  <2>3. next' \in 0 .. MaxTasks  BY <1>3, StartStep, ProbeAssumption DEF Tasks
  <2>4. TypeOK'  BY <1>0, <1>3, <2>2, <2>3, StartStep DEF TypeOK
  <2> QED BY <2>1, <2>4, <1>1, <1>3, StartStep DEF TypeInv
<1>4. CASE Pump
  <2>1. queue' \in Seq(Tasks)  BY <1>0, <1>4, PumpStep, DistinctTail
  <2>2. TypeOK'  BY <1>0, <1>4, <2>1, PumpStep DEF TypeOK
  <2>3. PICK h \in Tasks : h = Head(queue)  BY <1>4, PumpStep
  <2>4. h \in Active /\ ~Running(h)
    BY <1>0, <1>4, <2>3, PumpStep, DistinctTail DEF ScheduleInv, Waiting
  <2>5. ~Terminal(h)  BY <2>4 DEF Active, Terminal
  <2>6. Busy' = Busy \cup {h} /\ h \notin Busy /\ workers' = workers + 1
    BY <1>4, <2>3, <2>4, <2>5, PumpStep DEF Busy, Running
  <2>7. Cardinality(Busy \cup {h}) = Cardinality(Busy) + 1
    BY <2>6, BusyFinite, FS_AddElement
  <2>8. Counted'  BY <1>0, <2>6, <2>7 DEF Counted
  <2> QED BY <2>2, <2>8 DEF TypeInv
<1>5. ASSUME NEW t \in Tasks, Inner(t) PROVE TypeInv'
  <2>1. Busy' = Busy  BY <1>0, <1>5, InnerStep DEF Busy, Running
  <2>2. TypeOK'  BY <1>0, <1>5, InnerStep DEF TypeOK
  <2> QED BY <2>1, <2>2, <1>0, <1>1, <1>5, InnerStep DEF TypeInv
<1>6. ASSUME NEW t \in Tasks, ChunkEnds(t) PROVE TypeInv'
  <2>0. queue' = Without(t) \/ queue' = Append(queue, t)  BY <1>6, ChunkEndsStep
  <2>1. queue' \in Seq(Tasks)
    <3>1. Without(t) \in Seq(Tasks)  BY <1>0, WithoutHolds
    <3>2. Append(queue, t) \in Seq(Tasks)  BY <1>0, DistinctAppend
    <3> QED BY <2>0, <3>1, <3>2
  <2>2. launches' \in [Resources -> 0 .. MaxTasks]
    BY <1>0, <1>6, ChunkEndsStep, ReleasedType DEF TypeOK
  <2>3. /\ workers' \in 0 .. Workers /\ chunk' \in [Tasks -> ChunkType]
        /\ workers' = Cardinality(Busy')
    BY <1>6, ChunkEndsStep, OneReturns
  <2>4. TypeOK'  BY <1>0, <1>6, <2>1, <2>2, <2>3, ChunkEndsStep DEF TypeOK
  <2> QED BY <2>3, <2>4 DEF TypeInv, Counted
<1>7. ASSUME NEW t \in Tasks, Aborts(t) PROVE TypeInv'
  <2>1. /\ workers' \in 0 .. Workers /\ chunk' \in [Tasks -> ChunkType]
        /\ workers' = Cardinality(Busy')
    BY <1>7, OneReturns DEF Aborts
  <2>2. UNCHANGED <<task, queue, launches, next, row, changes>>  BY <1>7 DEF Aborts, Returns
  <2>3. TypeOK'  BY <1>0, <2>1, <2>2 DEF TypeOK
  <2> QED BY <2>1, <2>3 DEF TypeInv, Counted
<1>8. ASSUME NEW t \in Tasks, NEW s \in Ends, End(t, s) PROVE TypeInv'
  <2>1. Busy' = Busy  BY <1>8, EndStep DEF Busy, Running
  <2>2. queue' \in Seq(Tasks) /\ launches' \in [Resources -> 0 .. MaxTasks]
    BY <1>0, <1>8, EndStep, WithoutHolds, ReleasedType
  <2>3. TypeOK'  BY <1>0, <1>8, <2>2, EndStep DEF TypeOK
  <2> QED BY <2>1, <2>3, <1>1, <1>8, EndStep DEF TypeInv
<1>9. ASSUME NEW r \in Resources, Change(r) PROVE TypeInv'
  <2>1. Busy' = Busy  BY <1>9, ChangeStep DEF Busy, Running
  <2>2. TypeOK'  BY <1>0, <1>9, ChangeStep DEF TypeOK
  <2> QED BY <2>1, <2>2, <1>1, <1>9, ChangeStep DEF TypeInv
<1> QED BY <1>2, <1>3, <1>4, <1>5, <1>6, <1>7, <1>8, <1>9, Steps

-----------------------------------------------------------------------------
\* The queue and the workers.

LEMMA ScheduleInit == Init => ScheduleInv
<1> SUFFICES ASSUME Init PROVE ScheduleInv  OBVIOUS
<1>1. Distinct(queue) /\ \A t \in Tasks : ~Holds(queue, t)
  BY EmptySeq DEF Init, Distinct, Holds
<1>2. \A t \in Tasks : task[t].state = "NONE" /\ chunk[t].phase = "NONE"
  BY NoneYet DEF Init
<1>3. \A t \in Tasks : t \notin Active  BY <1>2 DEF Active
<1>4. \A t \in Tasks : ~(t <= next)  BY ProbeAssumption DEF Init, Tasks
<1> QED BY <1>1, <1>2, <1>3, <1>4 DEF ScheduleInv, Waiting, Numbered

LEMMA ScheduleStep == TypeInv /\ ScheduleInv /\ [Next]_vars => ScheduleInv'
<1> SUFFICES ASSUME TypeInv, ScheduleInv, [Next]_vars PROVE ScheduleInv'  OBVIOUS
<1>0. /\ TypeOK /\ Distinct(queue) /\ queue \in Seq(Tasks) /\ next \in Nat
      /\ \A t \in Tasks : task[t].state \in States
      /\ \A t \in Tasks : Holds(queue, t) <=> t \in Active /\ ~Running(t)
      /\ Numbered
  BY ProbeAssumption DEF TypeInv, TypeOK, TaskType, ScheduleInv, Waiting
<1>1. CASE UNCHANGED vars
  BY <1>0, <1>1 DEF vars, ScheduleInv, Waiting, Numbered, Distinct, Holds, Active, Running
<1>2. ASSUME NEW o \in Owners, NEW S \in Selections, Start(o, S) PROVE ScheduleInv'
  <2>1. PICK n \in Tasks : n = next' /\ n = next + 1  BY <1>2, StartStep
  <2>2. task[n].state = "NONE" /\ ~Running(n)
    BY <1>0, <2>1 DEF Numbered, Running
  <2>3. ~Holds(queue, n)  BY <1>0, <2>2 DEF Active
  <2>4. /\ queue' = Append(queue, n) /\ chunk' = chunk /\ task'[n].state = "QUEUED"
        /\ \A u \in Tasks : u # n => task'[u] = task[u]
    BY <1>2, <2>1, StartStep
  <2>5. Distinct(queue') /\ \A u : Holds(queue', u) <=> Holds(queue, u) \/ u = n
    BY <1>0, <2>3, <2>4, DistinctAppend
  <2>6. \A u \in Tasks : u \in Active' <=> u \in Active \/ u = n
    BY <2>2, <2>4 DEF Active
  <2>7. \A u \in Tasks : Running(u)' <=> Running(u)  BY <2>4 DEF Running
  <2>8. Waiting'  BY <1>0, <2>2, <2>5, <2>6, <2>7 DEF Waiting
  <2>9. Numbered'  BY <1>0, <2>1, <2>4 DEF Numbered, Tasks
  <2> QED BY <2>8, <2>9 DEF ScheduleInv
<1>3. CASE Pump
  <2>1. PICK h \in Tasks : h = Head(queue)  BY <1>3, PumpStep
  <2>2. h \in Active /\ ~Running(h)
    BY <1>0, <1>3, <2>1, PumpStep, DistinctTail
  <2>3. ~Terminal(h) /\ task[h].state # "NONE"  BY <2>2 DEF Active, Terminal
  <2>4. /\ queue' = Tail(queue) /\ queue # <<>> /\ next' = next
        /\ task'[h].state = "RUNNING" /\ chunk'[h].phase = "SNAPSHOT"
        /\ \A u \in Tasks : u # h => task'[u] = task[u] /\ chunk'[u] = chunk[u]
    BY <1>3, <2>1, <2>3, PumpStep
  <2>5. Distinct(queue') /\ \A u : Holds(queue', u) <=> Holds(queue, u) /\ u # h
    BY <1>0, <2>1, <2>4, DistinctTail
  <2>6. \A u \in Tasks : u \in Active' <=> u \in Active  BY <2>2, <2>4 DEF Active
  <2>7. \A u \in Tasks : Running(u)' <=> Running(u) \/ u = h  BY <2>4 DEF Running
  <2>8. Waiting'  BY <1>0, <2>5, <2>6, <2>7 DEF Waiting
  <2>9. Numbered'  BY <1>0, <2>3, <2>4 DEF Numbered
  <2> QED BY <2>8, <2>9 DEF ScheduleInv
<1>4. ASSUME NEW t \in Tasks, Inner(t) PROVE ScheduleInv'
  <2>1. queue' = queue /\ next' = next  BY <1>0, <1>4, InnerStep
  <2>2. \A u \in Tasks : task'[u].state = task[u].state /\ (chunk'[u].phase # "NONE") = Running(u)
    BY <1>0, <1>4, InnerStep
  <2>3. \A u \in Tasks : u \in Active' <=> u \in Active  BY <2>2 DEF Active
  <2>4. \A u \in Tasks : Running(u)' <=> Running(u)  BY <2>2 DEF Running
  <2>5. Waiting'  BY <1>0, <2>1, <2>3, <2>4 DEF Waiting, Distinct, Holds
  <2>6. Numbered'  BY <1>0, <2>1, <2>2 DEF Numbered, Running
  <2> QED BY <2>5, <2>6 DEF ScheduleInv
<1>5. ASSUME NEW t \in Tasks, ChunkEnds(t) PROVE ScheduleInv'
  <2>1. Running(t) /\ ~Terminal(t) /\ next' = next  BY <1>5, ChunkEndsStep
  <2>2. task[t].state # "NONE" /\ t <= next  BY <1>0, <2>1 DEF Numbered, Running
  <2>3. t \in Active  BY <1>0, <2>1, <2>2 DEF Active, Terminal, States
  <2>4. ~Holds(queue, t)  BY <1>0, <2>1
  <2>5. chunk'[t].phase = "NONE" /\ \A u \in Tasks : u # t => chunk'[u] = chunk[u]
    BY <1>5, ChunkEndsStep, OneReturns
  <2>6. \A u \in Tasks : u # t => task'[u] = task[u]  BY <1>5, ChunkEndsStep
  <2>7. \A u \in Tasks : Running(u)' <=> Running(u) /\ u # t  BY <2>5 DEF Running
  <2>8. CASE task'[t].state = "COMPLETED" /\ queue' = Without(t)
    <3>1. Distinct(queue') /\ \A u : Holds(queue', u) <=> Holds(queue, u) /\ u # t
      BY <1>0, <2>8, WithoutHolds
    <3>2. \A u \in Tasks : u \in Active' <=> u \in Active /\ u # t  BY <2>6, <2>8 DEF Active
    <3>3. Waiting'  BY <1>0, <2>7, <3>1, <3>2 DEF Waiting
    <3>4. Numbered'  BY <1>0, <2>1, <2>2, <2>5, <2>6, <2>8 DEF Numbered
    <3> QED BY <3>3, <3>4 DEF ScheduleInv
  <2>9. CASE task'[t].state = task[t].state /\ queue' = Append(queue, t)
    <3>1. Distinct(queue') /\ \A u : Holds(queue', u) <=> Holds(queue, u) \/ u = t
      BY <1>0, <2>4, <2>9, DistinctAppend
    <3>2. \A u \in Tasks : u \in Active' <=> u \in Active  BY <2>6, <2>9 DEF Active
    <3>3. Waiting'  BY <1>0, <2>3, <2>7, <3>1, <3>2 DEF Waiting
    <3>4. Numbered'  BY <1>0, <2>1, <2>2, <2>5, <2>6, <2>9 DEF Numbered
    <3> QED BY <3>3, <3>4 DEF ScheduleInv
  <2> QED BY <1>5, <2>8, <2>9, ChunkEndsStep
<1>6. ASSUME NEW t \in Tasks, Aborts(t) PROVE ScheduleInv'
  <2>1. Running(t) /\ Terminal(t) /\ UNCHANGED <<task, queue, next>>  BY <1>6 DEF Aborts, Returns
  <2>2. chunk'[t].phase = "NONE" /\ \A u \in Tasks : u # t => chunk'[u] = chunk[u]
    BY <1>6, OneReturns DEF Aborts
  <2>3. t \notin Active  BY <2>1 DEF Active, Terminal
  <2>4. \A u \in Tasks : Running(u)' <=> Running(u) /\ u # t  BY <2>2 DEF Running
  <2>5. \A u \in Tasks : u \in Active' <=> u \in Active  BY <2>1 DEF Active
  <2>6. Waiting'  BY <1>0, <2>1, <2>3, <2>4, <2>5 DEF Waiting, Distinct, Holds
  <2>7. Numbered'  BY <1>0, <2>1, <2>2 DEF Numbered
  <2> QED BY <2>6, <2>7 DEF ScheduleInv
<1>7. ASSUME NEW t \in Tasks, NEW s \in Ends, End(t, s) PROVE ScheduleInv'
  <2>1. /\ t \in Active /\ task'[t].state = s /\ \A u \in Tasks : u # t => task'[u] = task[u]
        /\ queue' = Without(t) /\ UNCHANGED <<chunk, next>>
    BY <1>7, EndStep
  <2>2. Distinct(queue') /\ \A u : Holds(queue', u) <=> Holds(queue, u) /\ u # t
    BY <1>0, <2>1, WithoutHolds
  <2>3. \A u \in Tasks : u \in Active' <=> u \in Active /\ u # t
    BY <2>1 DEF Active, Ends
  <2>4. \A u \in Tasks : Running(u)' <=> Running(u)  BY <2>1 DEF Running
  <2>5. Waiting'  BY <1>0, <2>2, <2>3, <2>4 DEF Waiting
  <2>6. task[t].state # "NONE" /\ s # "NONE"  BY <2>1 DEF Active, Ends
  <2>7. Numbered'  BY <1>0, <2>1, <2>6 DEF Numbered
  <2> QED BY <2>5, <2>7 DEF ScheduleInv
<1>8. ASSUME NEW r \in Resources, Change(r) PROVE ScheduleInv'
  <2>1. UNCHANGED <<task, queue, next, chunk>>  BY <1>8, ChangeStep
  <2> QED BY <1>0, <2>1 DEF ScheduleInv, Waiting, Numbered, Distinct, Holds, Active, Running
<1> QED BY <1>1, <1>2, <1>3, <1>4, <1>5, <1>6, <1>7, <1>8, Steps

\* The types of the tasks, the queue, the workers, the chunks and the rows
\* (ProbeTaskService, ProbeResourceService).
THEOREM TypeCorrect == Spec => []TypeOK
<1>1. Init => TypeInv /\ ScheduleInv  BY TypeInit, ScheduleInit
<1>2. TypeInv /\ ScheduleInv /\ [Next]_vars => TypeInv' /\ ScheduleInv'
  BY TypeStep, ScheduleStep
<1>3. TypeInv => TypeOK  BY DEF TypeInv
<1> QED BY <1>1, <1>2, <1>3, PTL DEF Spec

\* Every task that has not ended waits in the queue, once, or is in the hands of
\* one worker, and no worker is lost, whatever ends under it (pump, finish).
THEOREM EveryTaskIsScheduled == Spec => []Scheduled
<1>1. Init => TypeInv /\ ScheduleInv  BY TypeInit, ScheduleInit
<1>2. TypeInv /\ ScheduleInv /\ [Next]_vars => TypeInv' /\ ScheduleInv'
  BY TypeStep, ScheduleStep
<1>3. TypeInv /\ ScheduleInv => Scheduled
  BY DEF TypeInv, Counted, Busy, ScheduleInv, Waiting, Distinct, Holds, Scheduled
<1> QED BY <1>1, <1>2, <1>3, PTL DEF Spec

-----------------------------------------------------------------------------
\* Results.

LEMMA EndedStays ==
    TypeInv /\ ScheduleInv /\ [Next]_vars =>
        [\A t \in Tasks : Terminal(t) => task'[t] = task[t]]_vars
<1> SUFFICES ASSUME TypeInv, ScheduleInv, [Next]_vars, NEW t \in Tasks, Terminal(t)
             PROVE  task'[t] = task[t]
  OBVIOUS
<1>0. TypeOK /\ Numbered /\ next \in Nat
  BY ProbeAssumption DEF TypeInv, TypeOK, ScheduleInv
<1>1. CASE UNCHANGED vars  BY <1>1 DEF vars
<1>2. ASSUME NEW o \in Owners, NEW S \in Selections, Start(o, S) PROVE task'[t] = task[t]
  <2>1. task[t].state # "NONE"  BY DEF Terminal
  <2>2. t <= next  BY <1>0, <2>1 DEF Numbered
  <2> QED BY <1>0, <1>2, <2>2, StartStep DEF Tasks
<1>3. CASE Pump  BY <1>3, PumpStep
<1>4. ASSUME NEW u \in Tasks, Inner(u) PROVE task'[t] = task[t]  BY <1>0, <1>4, InnerStep
<1>5. ASSUME NEW u \in Tasks, ChunkEnds(u) PROVE task'[t] = task[t]  BY <1>5, ChunkEndsStep
<1>6. ASSUME NEW u \in Tasks, Aborts(u) PROVE task'[t] = task[t]  BY <1>6 DEF Aborts
<1>7. ASSUME NEW u \in Tasks, NEW s \in Ends, End(u, s) PROVE task'[t] = task[t]
  <2>1. u # t  BY <1>7, EndStep DEF Active, Terminal
  <2> QED BY <1>7, <2>1, EndStep
<1>8. ASSUME NEW r \in Resources, Change(r) PROVE task'[t] = task[t]  BY <1>8, ChangeStep
<1> QED BY <1>1, <1>2, <1>3, <1>4, <1>5, <1>6, <1>7, <1>8, Steps

\* What a task that has ended reports is final: the late answers of its last
\* chunk change nothing (accept, finish).
THEOREM EndedTasksStay == Spec => ResultsAreFinal
<1>1. Init => TypeInv /\ ScheduleInv  BY TypeInit, ScheduleInit
<1>2. TypeInv /\ ScheduleInv /\ [Next]_vars => TypeInv' /\ ScheduleInv'
  BY TypeStep, ScheduleStep
<1> QED BY <1>1, <1>2, EndedStays, PTL DEF Spec, ResultsAreFinal

-----------------------------------------------------------------------------
\* Rows.

LEMMA OrderedInit == Init => Ordered
BY DEF Init, Ordered

LEMMA OrderedStep ==
    TypeInv /\ Ordered /\ [Next]_vars =>
        Ordered' /\ \A r \in Resources : row'[r].by >= row[r].by
<1> SUFFICES ASSUME TypeInv, Ordered, [Next]_vars
             PROVE  Ordered' /\ \A r \in Resources : row'[r].by >= row[r].by
  OBVIOUS
<1>0. /\ TypeOK /\ next \in Nat /\ row \in [Resources -> RowType]
      /\ \A r \in Resources : launches[r] \in Nat /\ row[r].by \in Nat
  BY ProbeAssumption DEF TypeInv, TypeOK, RowType
<1>1. ASSUME UNCHANGED <<row, launches, next>> PROVE Ordered' /\ \A r \in Resources : row'[r].by >= row[r].by
  BY <1>0, <1>1 DEF Ordered
<1>2. ASSUME NEW t \in Tasks, launches' = Released(t), UNCHANGED <<row, next>>
      PROVE  Ordered' /\ \A r \in Resources : row'[r].by >= row[r].by
  <2>1. \A r \in Resources : launches'[r] \in {0, launches[r]}  BY <1>2 DEF Released
  <2> QED BY <1>0, <1>2, <2>1 DEF Ordered
<1>3. ASSUME NEW o \in Owners, NEW S \in Selections, Start(o, S)
      PROVE  Ordered' /\ \A r \in Resources : row'[r].by >= row[r].by
  BY <1>0, <1>3, StartStep DEF Ordered
<1>4. ASSUME NEW t \in Tasks, Inner(t)
      PROVE  Ordered' /\ \A r \in Resources : row'[r].by >= row[r].by
  <2>1. UNCHANGED <<launches, next>>  BY <1>0, <1>4, InnerStep
  <2>2. CASE row' = row  BY <1>1, <2>1, <2>2
  <2>3. ASSUME NEW r \in Resources, launches[r] = t, row' = [row EXCEPT ![r].by = t]
        PROVE  Ordered' /\ \A q \in Resources : row'[q].by >= row[q].by
    <3>1. t \in Nat \ {0}  BY ProbeAssumption DEF Tasks
    <3>2. row'[r].by = t /\ \A q \in Resources : q # r => row'[q] = row[q]
      BY <1>0, <2>3 DEF RowType
    <3> QED BY <1>0, <2>1, <2>3, <3>1, <3>2 DEF Ordered
  <2> QED BY <1>0, <1>4, <2>2, <2>3, InnerStep
<1>5. ASSUME NEW t \in Tasks, ChunkEnds(t)
      PROVE  Ordered' /\ \A r \in Resources : row'[r].by >= row[r].by
  BY <1>1, <1>2, <1>5, ChunkEndsStep
<1>6. ASSUME NEW r \in Resources, Change(r)
      PROVE  Ordered' /\ \A q \in Resources : row'[q].by >= row[q].by
  BY <1>0, <1>6, ChangeStep DEF Ordered
<1>7. CASE UNCHANGED vars  BY <1>1, <1>7 DEF vars
<1>8. CASE Pump  BY <1>1, <1>8, PumpStep
<1>9. ASSUME NEW t \in Tasks, Aborts(t)
      PROVE  Ordered' /\ \A r \in Resources : row'[r].by >= row[r].by
  BY <1>1, <1>9 DEF Aborts, Returns
<1>10. ASSUME NEW t \in Tasks, NEW s \in Ends, End(t, s)
       PROVE  Ordered' /\ \A r \in Resources : row'[r].by >= row[r].by
  BY <1>2, <1>10, EndStep
<1> QED BY <1>3, <1>4, <1>5, <1>6, <1>7, <1>8, <1>9, <1>10, Steps

\* A row keeps the newest of the results it has held: the launch a task has lost
\* is never its own again (reserve, release, persist).
THEOREM NewestTaskWins == Spec => NewestWins
<1>1. Init => TypeInv /\ ScheduleInv /\ Ordered  BY TypeInit, ScheduleInit, OrderedInit
<1>2. TypeInv /\ ScheduleInv /\ Ordered /\ [Next]_vars => TypeInv' /\ ScheduleInv' /\ Ordered'
  BY TypeStep, ScheduleStep, OrderedStep
<1>3. TypeInv /\ Ordered /\ [Next]_vars => [\A r \in Resources : row'[r].by >= row[r].by]_vars
  BY OrderedStep
<1> QED BY <1>1, <1>2, <1>3, PTL DEF Spec, NewestWins

=============================================================================
