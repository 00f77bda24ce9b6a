------------------------- MODULE TaskPollingProofs -------------------------
(***************************************************************************)
(* Proofs about TaskPolling, for any tasks, handlers and bounds.           *)
(***************************************************************************)
EXTENDS TaskPolling, TLAPS, FiniteSetTheorems

\* Why no answered task runs again and no settled row is reopened: whatever a
\* poll is handing out is still open, an upgrade by its row and any other task for
\* want of a result, or another poll has handled its result meanwhile.
IsOpen(t) == IF t \in Upgrades THEN row[t] \in Unsettled ELSE t \notin receipts

HandedOutIsOpen ==
    \A h \in Handlers :
        /\ handler[h].step \in {"idle", "results"} =>
               handler[h].marks = {} /\ handler[h].tasks = {}
        /\ \A t \in handler[h].marks \cup handler[h].tasks :
               IsOpen(t) \/ t \in handler[h].overtaken

\* The queue holds no answered task, and nothing is known of a task nobody has
\* asked for, so none comes back to the queue.
QueueIsOpen == queue \cap receipts = {}

UnknownUntilRequested ==
    \A t \in Restarts \cup Probes : requestedAt[t] = 0 =>
        /\ t \notin queue \cup receipts
        /\ stage[t] = "none"
        /\ \A r \in pending : r.task # t
        /\ \A h \in Handlers :
               t \notin handler[h].tasks /\ \A r \in handler[h].results : r.task # t

-----------------------------------------------------------------------------

LEMMA InitTypeOK == Init => TypeOK
  BY BoundsAssumption DEF Init, TypeOK, Idle, Polls, Upgrades, Tasks

\* Handing out tasks only ever picks from what it is given.
LEMMA OldestSubset ==
  ASSUME NEW n, NEW S PROVE Oldest(n, S) \subseteq S
  BY DEF Oldest

LEMMA RequestType ==
  ASSUME TypeOK, NEW t \in Tasks, Request(t)
  PROVE  requestedAt' \in [Tasks -> Nat]
<1>1. IsFiniteSet({u \in Tasks : requestedAt[u] > 0})
  BY TasksAssumption, FS_Subset, {u \in Tasks : requestedAt[u] > 0} \subseteq Tasks
     DEF TasksAssumption
<1>2. Cardinality({u \in Tasks : requestedAt[u] > 0}) \in Nat
  BY <1>1, FS_CardinalityType
<1>3. PICK k \in Nat : k = Cardinality({u \in Tasks : requestedAt[u] > 0}) + 1
  BY <1>2
<1>. QED
  BY <1>3 DEF Request, TypeOK

LEMMA NextTypeOK == TypeOK /\ [Next]_vars => TypeOK'
<1> SUFFICES ASSUME TypeOK, [Next]_vars PROVE TypeOK'
  OBVIOUS
<1> USE BoundsAssumption DEF BoundsAssumption, TypeOK, bounds
<1>1. CASE UNCHANGED vars
  BY <1>1 DEF vars, masterVars, taskVars, pollVars
<1>2. ASSUME NEW t \in Upgrades, RequestUpgrade(t) PROVE TypeOK'
  <2>1. requestedAt' \in [Tasks -> Nat]
    BY <1>2, RequestType DEF RequestUpgrade, Tasks
  <2>. QED BY <1>2, <2>1 DEF RequestUpgrade, taskVars, pollVars, Unsettled
<1>3. ASSUME NEW t \in Upgrades, RetryUpgrade(t) PROVE TypeOK'
  BY <1>3 DEF RetryUpgrade, taskVars, pollVars, Unsettled
<1>4. ASSUME NEW t \in Restarts \cup Probes, SendTask(t) PROVE TypeOK'
  <2>1. requestedAt' \in [Tasks -> Nat]
    BY <1>4, RequestType DEF SendTask, Tasks
  <2>. QED BY <1>4, <2>1 DEF SendTask, taskVars, pollVars
<1>5. ASSUME NEW h \in Handlers, SendPoll(h) PROVE TypeOK'
  BY <1>5 DEF SendPoll, masterVars, taskVars, Idle, Polls
<1>6. ASSUME NEW h \in Handlers, Receive(h) PROVE TypeOK'
  BY <1>6 DEF Receive, masterVars, Idle, Polls, Keep
<1>7. CASE Timeout
  BY <1>7 DEF Timeout, masterVars, taskVars
<1>8. ASSUME NEW h \in Handlers, NEW r \in handler[h].results, HandleResult(h, r)
      PROVE TypeOK'
  <2>1. handler[h] \in Polls /\ r \in Results /\ r.task \in Tasks
    BY DEF Polls, Results
  <2>2. handler' \in [Handlers -> Polls]
    <3>1. \A g \in Handlers : handler[g] \in Polls
      OBVIOUS
    <3>2. \A g \in Handlers : [handler[g] EXCEPT !.results = @ \ {r}] \in Polls
      BY <3>1 DEF Polls
    <3>3. \A g \in Handlers : [handler[g] EXCEPT !.overtaken = @ \cup {r.task}] \in Polls
      BY <2>1, <3>1 DEF Polls
    <3>. QED BY <1>8, <3>1, <3>2, <3>3 DEF HandleResult
  <2>3. row' \in [Upgrades -> {"NONE"} \cup Unsettled \cup Settled]
        /\ queue' \subseteq Restarts \cup Probes
    BY <1>8, <2>1 DEF HandleResult, Outcome, Settled, Unacknowledged
  <2>. QED BY <1>8, <2>1, <2>2, <2>3 DEF HandleResult, taskVars, pollVars
<1>9. ASSUME NEW h \in Handlers, TakeTasks(h) PROVE TypeOK'
  <2>1. PICK taken, rows, marks :
            /\ taken \subseteq queue \ recent
            /\ rows \subseteq {t \in Upgrades : Deployable(t)}
            /\ marks \subseteq {t \in rows : Due(t)}
            /\ recent' = recent \cup taken
            /\ handler' = [handler EXCEPT ![h] =
                   [Idle EXCEPT !.step = "marks", !.marks = marks, !.tasks = taken]]
    BY <1>9, OldestSubset DEF TakeTasks
  <2>2. marks \subseteq Upgrades /\ taken \subseteq Tasks
    BY <2>1 DEF Tasks
  <2>3. handler' \in [Handlers -> Polls]
    BY <2>1, <2>2 DEF Polls, Idle
  <2>. QED BY <1>9, <2>1, <2>2, <2>3 DEF TakeTasks, taskVars, pollVars
<1>10. ASSUME NEW h \in Handlers, NEW t \in Upgrades, MarkDispatched(h, t) PROVE TypeOK'
  <2>1. t \in Tasks
    BY DEF Tasks
  <2>2. PICK p : /\ p = [handler[h] EXCEPT !.marks = @ \ {t}, !.tasks = @ \cup {t}]
                 /\ handler' = [handler EXCEPT ![h] = p]
    BY <1>10 DEF MarkDispatched
  <2>3. handler[h] \in Polls
    OBVIOUS
  <2>4. p \in Polls
    BY <2>1, <2>2, <2>3 DEF Polls
  <2>5. handler' \in [Handlers -> Polls]
    BY <2>2, <2>4
  <2>. QED BY <1>10, <2>1, <2>5 DEF MarkDispatched, taskVars, pollVars, Unsettled
<1>11. ASSUME NEW h \in Handlers, Answer(h) PROVE TypeOK'
  BY <1>11 DEF Answer, masterVars, taskVars, pollVars, Polls
<1>12. ASSUME NEW h \in Handlers, Discard(h) PROVE TypeOK'
  BY <1>12 DEF Discard, masterVars, taskVars, pollVars, Polls, Idle
<1>13. ASSUME NEW h \in Handlers, PollFails(h) PROVE TypeOK'
  BY <1>13 DEF PollFails, masterVars, taskVars, Polls, Idle
<1>14. ASSUME NEW t \in Tasks, Minute(t) PROVE TypeOK'
  BY <1>14 DEF Minute, taskVars, pollVars
<1>15. ASSUME NEW t \in Tasks, NEW ok \in BOOLEAN, Work(t, ok) PROVE TypeOK'
  BY <1>15 DEF Work, masterVars, pollVars
<1>16. ASSUME NEW t \in Tasks, Report(t) PROVE TypeOK'
  <2>1. [task |-> t, ok |-> stage[t] = "succeeded"] \in Results
    BY DEF Results
  <2>. QED BY <1>16, <2>1 DEF Report, masterVars, pollVars
<1>17. ASSUME NEW t \in Tasks, RequestRestart(t) PROVE TypeOK'
  BY <1>17 DEF RequestRestart, masterVars, pollVars
<1>18. CASE RestartAndExit
  BY <1>18 DEF RestartAndExit, NewAgent, masterVars
<1>19. CASE RestartFails
  BY <1>19 DEF RestartFails, masterVars, taskVars, pollVars
<1>20. CASE AgentCrash
  BY <1>20 DEF AgentCrash, NewAgent, masterVars
<1>21. CASE MasterStop
  BY <1>21 DEF MasterStop, taskVars, Idle, Polls
<1>. QED
  BY <1>1, <1>2, <1>3, <1>4, <1>5, <1>6, <1>7, <1>8, <1>9, <1>10, <1>11, <1>12,
     <1>13, <1>14, <1>15, <1>16, <1>17, <1>18, <1>19, <1>20, <1>21 DEF Next

\* Every variable keeps its type, for any tasks and any number of polls handled
\* at once (TypeOK).
THEOREM TypeCorrect == Spec => []TypeOK
  BY InitTypeOK, NextTypeOK, PTL DEF Spec

-----------------------------------------------------------------------------
\* No result is lost.

\* What the poll in flight carries has been handled, or its handler still has it
\* before it, so dropping all of it when the answer arrives loses nothing
\* (poll answers after the last result; removePendingResults).
SentIsHandled ==
    \A r \in sent :
        \/ r.task \in receipts
        \/ /\ awaiting \in Handlers
           /\ handler[awaiting].step = "results"
           /\ r \in handler[awaiting].results

Kept == ResultsSurvive /\ SentIsHandled

LEMMA InitKept == Init => Kept
  BY DEF Init, Kept, ResultsSurvive, SentIsHandled

LEMMA NextKept == TypeOK /\ Kept /\ [Next]_vars => Kept'
<1> SUFFICES ASSUME TypeOK, Kept, [Next]_vars PROVE Kept'
  OBVIOUS
<1> USE BoundsAssumption DEF BoundsAssumption, Kept, ResultsSurvive, SentIsHandled
<1>0. /\ handler \in [Handlers -> Polls]
      /\ stage \in [Tasks -> {"none", "working", "replaced", "succeeded", "failed", "reported"}]
  BY DEF TypeOK
<1>1. CASE UNCHANGED vars
  BY <1>1 DEF vars, taskVars, pollVars
<1>2. ASSUME NEW t \in Upgrades, RequestUpgrade(t) PROVE Kept'
  BY <1>2 DEF RequestUpgrade, taskVars, pollVars
<1>3. ASSUME NEW t \in Upgrades, RetryUpgrade(t) PROVE Kept'
  BY <1>3 DEF RetryUpgrade, taskVars, pollVars
<1>4. ASSUME NEW t \in Restarts \cup Probes, SendTask(t) PROVE Kept'
  BY <1>4 DEF SendTask, taskVars, pollVars
\* What is sent is exactly what the new handler has before it.
<1>5. ASSUME NEW h \in Handlers, SendPoll(h) PROVE Kept'
  <2>1. /\ awaiting' = h
        /\ sent' = pending
        /\ handler'[h].step = "results"
        /\ handler'[h].results = pending
    BY <1>5, <1>0 DEF SendPoll, Idle
  <2>. QED BY <1>5, <2>1 DEF SendPoll, taskVars
\* The poll was handled to its end, so every result it carried was handled.
<1>6. ASSUME NEW h \in Handlers, Receive(h) PROVE Kept'
  <2>1. \A r \in sent : r.task \in receipts
    BY <1>6 DEF Receive
  <2>2. ResultsSurvive'
    BY <1>6, <2>1 DEF Receive, Keep
  <2>. QED BY <1>6, <2>2 DEF Receive
<1>7. CASE Timeout
  BY <1>7 DEF Timeout, taskVars
<1>8. ASSUME NEW h \in Handlers, NEW r \in handler[h].results, HandleResult(h, r)
      PROVE Kept'
  <2>1. receipts' = receipts \cup {r.task}
    BY <1>8 DEF HandleResult
  <2>2. ASSUME NEW g \in Handlers
        PROVE  /\ handler'[g].step = handler[g].step
               /\ handler[g].results \subseteq handler'[g].results \cup {r}
    <3>1. CASE g = h
      BY <1>8, <1>0, <3>1 DEF HandleResult, Polls
    <3>2. CASE g # h
      BY <1>8, <1>0, <3>2 DEF HandleResult
    <3>. QED BY <3>1, <3>2
  <2>3. ResultsSurvive'
    BY <1>8, <2>1 DEF HandleResult, taskVars
  <2>4. sent' = sent /\ awaiting' = awaiting
    BY <1>8 DEF HandleResult, pollVars
  <2>5. SentIsHandled'
    BY <2>1, <2>2, <2>4
  <2>. QED BY <2>3, <2>5
\* The handler goes on only when it has no result left.
<1>9. ASSUME NEW h \in Handlers, TakeTasks(h) PROVE Kept'
  <2>1. handler[h].step = "results" /\ handler[h].results = {}
    BY <1>9 DEF TakeTasks, AllHandled
  <2>2. \A g \in Handlers \ {h} : handler'[g] = handler[g]
    BY <1>9, <1>0 DEF TakeTasks
  <2>3. UNCHANGED <<receipts, stage, completed, pending, sent, awaiting>>
    BY <1>9 DEF TakeTasks, taskVars, pollVars
  <2>. QED BY <2>1, <2>2, <2>3
<1>10. ASSUME NEW h \in Handlers, NEW t \in Upgrades, MarkDispatched(h, t) PROVE Kept'
  <2>1. handler[h].step = "marks"
    BY <1>10 DEF MarkDispatched
  <2>2. \A g \in Handlers \ {h} : handler'[g] = handler[g]
    BY <1>10, <1>0 DEF MarkDispatched
  <2>. QED BY <1>10, <2>1, <2>2 DEF MarkDispatched, taskVars, pollVars
<1>11. ASSUME NEW h \in Handlers, Answer(h) PROVE Kept'
  <2>1. handler[h].step = "marks"
    BY <1>11 DEF Answer
  <2>2. \A g \in Handlers \ {h} : handler'[g] = handler[g]
    BY <1>11, <1>0 DEF Answer
  <2>. QED BY <1>11, <2>1, <2>2 DEF Answer, taskVars, pollVars
<1>12. ASSUME NEW h \in Handlers, Discard(h) PROVE Kept'
  <2>1. awaiting # h
    BY <1>12 DEF Discard
  <2>2. \A g \in Handlers \ {h} : handler'[g] = handler[g]
    BY <1>12, <1>0 DEF Discard
  <2>. QED BY <1>12, <2>1, <2>2 DEF Discard, taskVars, pollVars
<1>13. ASSUME NEW h \in Handlers, PollFails(h) PROVE Kept'
  <2>1. \A g \in Handlers \ {h} : handler'[g] = handler[g]
    BY <1>13, <1>0 DEF PollFails
  <2>. QED BY <1>13, <2>1 DEF PollFails, taskVars
<1>14. ASSUME NEW t \in Tasks, Minute(t) PROVE Kept'
  BY <1>14 DEF Minute, taskVars, pollVars
<1>15. ASSUME NEW t \in Tasks, NEW ok \in BOOLEAN, Work(t, ok) PROVE Kept'
  <2>1. \A u \in Tasks : stage'[u] = "reported" => stage[u] = "reported"
    BY <1>15, <1>0 DEF Work
  <2>. QED BY <1>15, <2>1 DEF Work, pollVars
<1>16. ASSUME NEW t \in Tasks, Report(t) PROVE Kept'
  <2>1. \E r \in pending' : r.task = t
    <3>1. PICK ok : pending' = pending \cup {[task |-> t, ok |-> ok]}
      BY <1>16, Zenon DEF Report
    <3>2. [task |-> t, ok |-> ok] \in pending' /\ [task |-> t, ok |-> ok].task = t
      BY <3>1
    <3>. QED BY <3>2
  <2>2. pending \subseteq pending'
    BY <1>16 DEF Report
  <2>3. \A u \in Tasks : u \in completed' \/ stage'[u] = "reported" =>
            u = t \/ u \in completed \/ stage[u] = "reported"
    BY <1>16, <1>0 DEF Report
  <2>. QED BY <1>16, <2>1, <2>2, <2>3 DEF Report, pollVars
<1>17. ASSUME NEW t \in Tasks, RequestRestart(t) PROVE Kept'
  <2>1. \A u \in Tasks : u \in completed' \/ stage'[u] = "reported" =>
            u \in completed \/ stage[u] = "reported"
    BY <1>17, <1>0 DEF RequestRestart
  <2>. QED BY <1>17, <2>1 DEF RequestRestart, pollVars
<1>18. CASE RestartAndExit
  BY <1>18 DEF RestartAndExit, NewAgent
<1>19. CASE RestartFails
  BY <1>19 DEF RestartFails, taskVars, pollVars
<1>20. CASE AgentCrash
  BY <1>20 DEF AgentCrash, NewAgent
<1>21. CASE MasterStop
  BY <1>21 DEF MasterStop, taskVars
<1>. QED
  BY <1>1, <1>2, <1>3, <1>4, <1>5, <1>6, <1>7, <1>8, <1>9, <1>10, <1>11, <1>12,
     <1>13, <1>14, <1>15, <1>16, <1>17, <1>18, <1>19, <1>20, <1>21 DEF Next

\* The result of a task that has run to its end is never lost as long as its
\* agent lives, whatever polls fail or overlap (ResultsSurvive).
THEOREM ResultsAreNeverLost == Spec => []ResultsSurvive
<1>1. Kept => ResultsSurvive
  BY DEF Kept
<1>. QED
  BY InitKept, NextKept, TypeCorrect, <1>1, PTL DEF Spec

-----------------------------------------------------------------------------
\* No task has two results.

LEMMA InitOneResult == Init => OneResultPerTask
  BY DEF Init, OneResultPerTask

LEMMA NextOneResult == TypeOK /\ OneResultPerTask /\ [Next]_vars => OneResultPerTask'
<1> SUFFICES ASSUME TypeOK, OneResultPerTask, [Next]_vars PROVE OneResultPerTask'
  OBVIOUS
<1> USE DEF OneResultPerTask
<1>0. /\ pending \subseteq Results
      /\ stage \in [Tasks -> {"none", "working", "replaced", "succeeded", "failed", "reported"}]
      /\ \A r \in pending : r.task \in Tasks
  BY DEF TypeOK, Results
<1>1. ASSUME UNCHANGED <<stage, completed, pending>> PROVE OneResultPerTask'
  BY <1>1
\* Only a task without a result starts.
<1>2. ASSUME NEW h \in Handlers, Receive(h) PROVE OneResultPerTask'
  <2>1. pending' \subseteq pending /\ completed' = completed
    BY <1>2 DEF Receive, Keep
  <2>2. \A r \in pending : stage'[r.task] = stage[r.task]
    BY <1>0, <1>2 DEF Receive, Startable
  <2>. QED BY <2>1, <2>2
<1>3. ASSUME NEW t \in Tasks, NEW ok \in BOOLEAN, Work(t, ok) PROVE OneResultPerTask'
  <2>1. \A r \in pending : r.task # t
    BY <1>3 DEF Work
  <2>2. \A r \in pending : stage'[r.task] = stage[r.task]
    BY <1>0, <1>3, <2>1 DEF Work
  <2>. QED BY <1>3, <2>2 DEF Work
\* A task that has its outcome but no result yet gets one.
<1>4. ASSUME NEW t \in Tasks, Report(t) PROVE OneResultPerTask'
  <2>1. \A r \in pending : r.task # t
    BY <1>4 DEF Report
  <2>2. PICK ok : pending' = pending \cup {[task |-> t, ok |-> ok]}
    BY <1>4, Zenon DEF Report
  <2>3. \A r \in pending : stage'[r.task] = stage[r.task]
    BY <1>0, <1>4, <2>1 DEF Report
  <2>4. stage'[t] = "reported" \/ (stage'[t] = "none" /\ t \in completed')
    <3>1. \/ stage' = [stage EXCEPT ![t] = "reported"]
          \/ stage' = [stage EXCEPT ![t] = "none"] /\ completed' = completed \cup {t}
      BY <1>4, Zenon DEF Report
    <3>. QED BY <1>0, <3>1
  <2>5. completed \subseteq completed'
    BY <1>4 DEF Report
  <2>6. [task |-> t, ok |-> ok].task = t
    OBVIOUS
  <2>. QED BY <2>1, <2>2, <2>3, <2>4, <2>5, <2>6
<1>5. ASSUME NEW t \in Tasks, RequestRestart(t) PROVE OneResultPerTask'
  <2>1. pending' = pending /\ completed \subseteq completed'
    BY <1>5 DEF RequestRestart
  <2>2. \A r \in pending : r.task # t => stage'[r.task] = stage[r.task]
    BY <1>0, <1>5 DEF RequestRestart
  <2>3. \A r \in pending : r.task = t => stage'[t] = "none" /\ t \in completed'
    BY <1>0, <1>5 DEF RequestRestart
  <2>. QED BY <2>1, <2>2, <2>3
<1>6. ASSUME NewAgent PROVE OneResultPerTask'
  BY <1>6 DEF NewAgent
<1>7. ASSUME NEW h \in Handlers,
             SendPoll(h) \/ TakeTasks(h) \/ Answer(h) \/ Discard(h) \/ PollFails(h)
               \/ (\E r \in handler[h].results : HandleResult(h, r))
               \/ (\E t \in Upgrades : MarkDispatched(h, t))
      PROVE  OneResultPerTask'
  BY <1>1, <1>7 DEF SendPoll, TakeTasks, Answer, Discard, PollFails, HandleResult,
     MarkDispatched, taskVars
<1>8. ASSUME Timeout \/ RestartFails \/ MasterStop
               \/ (\E t \in Upgrades : RequestUpgrade(t) \/ RetryUpgrade(t))
               \/ (\E t \in Restarts \cup Probes : SendTask(t))
               \/ (\E t \in Tasks : Minute(t))
      PROVE  OneResultPerTask'
  BY <1>1, <1>8 DEF Timeout, RestartFails, MasterStop, RequestUpgrade, RetryUpgrade,
     SendTask, Minute, taskVars
<1>9. CASE UNCHANGED vars
  BY <1>1, <1>9 DEF vars, taskVars
<1>. QED
  BY <1>2, <1>3, <1>4, <1>5, <1>6, <1>7, <1>8, <1>9 DEF Next, RestartAndExit, AgentCrash

\* One agent process never has two results for a task, however often the master
\* hands it out (OneResultPerTask).
THEOREM NoSecondResult == Spec => []OneResultPerTask
  BY InitOneResult, NextOneResult, TypeCorrect, PTL DEF Spec

-----------------------------------------------------------------------------
\* What is handed out is open or overtaken.

Open == HandedOutIsOpen /\ QueueIsOpen /\ UnknownUntilRequested

LEMMA InitOpen == Init => Open
  BY DEF Init, Idle, Open, HandedOutIsOpen, QueueIsOpen, UnknownUntilRequested, Tasks

\* A handler that hands out no more than before and forgets nothing.
LEMMA StillOpen ==
  ASSUME TypeOK, HandedOutIsOpen,
         \A t \in Tasks : IsOpen(t) => IsOpen(t)',
         \A h \in Handlers :
             \/ handler'[h].marks = {} /\ handler'[h].tasks = {}
             \/ /\ handler'[h].step \notin {"idle", "results"}
                /\ handler'[h].marks \cup handler'[h].tasks
                       \subseteq handler[h].marks \cup handler[h].tasks
                /\ handler[h].overtaken \subseteq handler'[h].overtaken
  PROVE  HandedOutIsOpen'
<1>1. \A h \in Handlers : handler[h].marks \cup handler[h].tasks \subseteq Tasks
  BY DEF TypeOK, Polls, Tasks
<1>. QED BY <1>1 DEF HandedOutIsOpen

LEMMA NextHandedOut ==
  ASSUME TypeOK, Open, [Next]_vars
  PROVE  HandedOutIsOpen'
<1>0. /\ handler \in [Handlers -> Polls]
      /\ row \in [Upgrades -> {"NONE"} \cup Unsettled \cup Settled]
      /\ HandedOutIsOpen
  BY DEF TypeOK, Open
<1>. DEFINE Same(h) == handler'[h] = handler[h]
            Empty(h) == handler'[h].marks = {} /\ handler'[h].tasks = {}
\* No handler starts to hand out anything, nothing open is closed.
<1>1. ASSUME \A t \in Tasks : IsOpen(t) => IsOpen(t)', \A h \in Handlers : Same(h) \/ Empty(h)
      PROVE  HandedOutIsOpen'
  <2>1. \A h \in Handlers :
            \/ Empty(h)
            \/ /\ handler'[h].step \notin {"idle", "results"}
               /\ handler'[h].marks \cup handler'[h].tasks
                      \subseteq handler[h].marks \cup handler[h].tasks
               /\ handler[h].overtaken \subseteq handler'[h].overtaken
    BY <1>0, <1>1 DEF HandedOutIsOpen
  <2>. HIDE DEF Same, Empty
  <2>. QED BY <1>0, <1>1, <2>1, StillOpen DEF Empty
<1>2. ASSUME UNCHANGED <<row, receipts>> PROVE \A t \in Tasks : IsOpen(t) => IsOpen(t)'
  BY <1>2 DEF IsOpen
<1>3. ASSUME UNCHANGED <<handler, row, receipts>> PROVE HandedOutIsOpen'
  BY <1>1, <1>2, <1>3
<1>4. ASSUME UNCHANGED <<handler, receipts>>,
             \A t \in Upgrades : row'[t] = row[t] \/ row'[t] \in Unsettled
      PROVE  HandedOutIsOpen'
  <2>1. \A t \in Tasks : IsOpen(t) => IsOpen(t)'
    BY <1>4 DEF IsOpen
  <2>. QED BY <1>1, <1>4, <2>1
<1>5. ASSUME NEW t \in Upgrades, RequestUpgrade(t) \/ RetryUpgrade(t) PROVE HandedOutIsOpen'
  <2>1. row' = [row EXCEPT ![t] = "QUEUED"] /\ UNCHANGED <<handler, receipts>>
    BY <1>5 DEF RequestUpgrade, RetryUpgrade
  <2>2. \A u \in Upgrades : row'[u] = row[u] \/ row'[u] \in Unsettled
    BY <1>0, <2>1 DEF Unsettled
  <2>. QED BY <1>4, <2>1, <2>2
<1>6. ASSUME NEW h \in Handlers,
             SendPoll(h) \/ Receive(h) \/ Discard(h) \/ PollFails(h)
      PROVE  HandedOutIsOpen'
  <2>1. Empty(h)
    <3>1. CASE SendPoll(h)
      BY <1>0, <3>1 DEF SendPoll, Idle
    <3>2. ASSUME handler' = [handler EXCEPT ![h] = Idle]
          PROVE  handler'[h].marks = {} /\ handler'[h].tasks = {}
      BY <1>0, <3>2 DEF Idle
    <3>. QED BY <1>6, <3>1, <3>2 DEF Receive, Discard, PollFails
  <2>2. \A g \in Handlers \ {h} : Same(g)
    BY <1>0, <1>6 DEF SendPoll, Receive, Discard, PollFails
  <2>3. UNCHANGED <<row, receipts>>
    BY <1>6 DEF SendPoll, Receive, Discard, PollFails, masterVars
  <2>. HIDE DEF Same, Empty
  <2>. QED BY <1>1, <1>2, <2>1, <2>2, <2>3
\* A result closes its task, and every other handler that hands it out is told.
<1>7. ASSUME NEW h \in Handlers, NEW r \in handler[h].results, HandleResult(h, r)
      PROVE  HandedOutIsOpen'
  <2>1. Empty(h)
    BY <1>0, <1>7 DEF HandleResult, HandedOutIsOpen, Polls
  <2>2. ASSUME NEW t \in Tasks, t # r.task, IsOpen(t) PROVE IsOpen(t)'
    BY <1>0, <1>7, <2>2 DEF HandleResult, IsOpen
  <2>3. ASSUME NEW g \in Handlers, g # h
        PROVE  /\ handler'[g].step = handler[g].step
               /\ handler'[g].marks = handler[g].marks
               /\ handler'[g].tasks = handler[g].tasks
               /\ handler[g].overtaken \subseteq handler'[g].overtaken
               /\ r.task \in handler[g].marks \cup handler[g].tasks =>
                      r.task \in handler'[g].overtaken
    BY <1>0, <1>7, <2>3 DEF HandleResult, Polls
  <2>4. ASSUME NEW g \in Handlers, g # h, NEW t \in handler'[g].marks \cup handler'[g].tasks
        PROVE  IsOpen(t)' \/ t \in handler'[g].overtaken
    <3>1. t \in Tasks /\ t \in handler[g].marks \cup handler[g].tasks
      BY <1>0, <2>3, <2>4 DEF Polls, Tasks
    <3>2. IsOpen(t) \/ t \in handler[g].overtaken
      BY <1>0, <3>1 DEF HandedOutIsOpen
    <3>. QED BY <2>2, <2>3, <2>4, <3>1, <3>2
  <2>5. ASSUME NEW g \in Handlers, g # h, handler'[g].step \in {"idle", "results"}
        PROVE  handler'[g].marks = {} /\ handler'[g].tasks = {}
    BY <1>0, <2>3, <2>5 DEF HandedOutIsOpen
  <2>. QED BY <2>1, <2>4, <2>5 DEF HandedOutIsOpen
\* Tasks come from the queue, which holds no answered one, rows are unsettled.
<1>8. ASSUME NEW h \in Handlers, TakeTasks(h) PROVE HandedOutIsOpen'
  <2>1. PICK taken, rows, marks :
            /\ taken \subseteq queue \ recent
            /\ rows \subseteq {t \in Upgrades : Deployable(t)}
            /\ marks \subseteq {t \in rows : Due(t)}
            /\ handler' = [handler EXCEPT ![h] =
                   [Idle EXCEPT !.step = "marks", !.marks = marks, !.tasks = taken]]
    BY <1>8, OldestSubset DEF TakeTasks
  <2>2. row' = row /\ receipts' = receipts
    BY <1>8 DEF TakeTasks
  <2>3. \A t \in marks : IsOpen(t)'
    BY <2>1, <2>2 DEF Deployable, IsOpen
  <2>4. \A t \in taken : IsOpen(t)'
    BY <2>1, <2>2, TasksAssumption DEF TypeOK, Open, QueueIsOpen, TasksAssumption, IsOpen
  <2>5. /\ handler'[h].step = "marks"
        /\ handler'[h].marks = marks
        /\ handler'[h].tasks = taken
    BY <1>0, <2>1 DEF Idle
  <2>6. \A g \in Handlers \ {h} : handler'[g] = handler[g]
    BY <1>0, <2>1
  <2>7. ASSUME NEW g \in Handlers, g # h
        PROVE  /\ handler'[g].step \in {"idle", "results"} =>
                      handler'[g].marks = {} /\ handler'[g].tasks = {}
               /\ \A t \in handler'[g].marks \cup handler'[g].tasks :
                      IsOpen(t)' \/ t \in handler'[g].overtaken
    BY <1>0, <2>2, <2>6, <2>7 DEF HandedOutIsOpen, IsOpen
  <2>. QED BY <2>3, <2>4, <2>5, <2>7 DEF HandedOutIsOpen
<1>9. ASSUME NEW h \in Handlers, NEW t \in Upgrades, MarkDispatched(h, t)
      PROVE  HandedOutIsOpen'
  <2>1. /\ handler'[h].step = "marks"
        /\ handler'[h].marks = handler[h].marks \ {t}
        /\ handler'[h].tasks = handler[h].tasks \cup {t}
        /\ handler'[h].overtaken = handler[h].overtaken
    BY <1>0, <1>9 DEF MarkDispatched, Polls
  <2>2. \A u \in Tasks : IsOpen(u) => IsOpen(u)'
    BY <1>0, <1>9 DEF MarkDispatched, Unsettled, IsOpen
  <2>3. t \in handler[h].marks /\ handler[h].step = "marks"
    BY <1>9, OldestSubset DEF MarkDispatched
  <2>4. \A g \in Handlers \ {h} : handler'[g] = handler[g]
    BY <1>0, <1>9 DEF MarkDispatched
  <2>5. \A g \in Handlers :
            \/ handler'[g].marks = {} /\ handler'[g].tasks = {}
            \/ /\ handler'[g].step \notin {"idle", "results"}
               /\ handler'[g].marks \cup handler'[g].tasks
                      \subseteq handler[g].marks \cup handler[g].tasks
               /\ handler[g].overtaken \subseteq handler'[g].overtaken
    BY <1>0, <2>1, <2>3, <2>4 DEF HandedOutIsOpen
  <2>. QED BY <1>0, <2>2, <2>5, StillOpen
<1>10. ASSUME NEW h \in Handlers, Answer(h) PROVE HandedOutIsOpen'
  <2>1. /\ handler'[h].step = "answer"
        /\ handler'[h].marks = handler[h].marks
        /\ handler'[h].tasks = handler[h].tasks
        /\ handler'[h].overtaken = handler[h].overtaken
    BY <1>0, <1>10 DEF Answer, Polls
  <2>2. \A u \in Tasks : IsOpen(u) => IsOpen(u)'
    BY <1>2, <1>10 DEF Answer, masterVars
  <2>3. \A g \in Handlers \ {h} : handler'[g] = handler[g]
    BY <1>0, <1>10 DEF Answer
  <2>4. \A g \in Handlers :
            \/ handler'[g].marks = {} /\ handler'[g].tasks = {}
            \/ /\ handler'[g].step \notin {"idle", "results"}
               /\ handler'[g].marks \cup handler'[g].tasks
                      \subseteq handler[g].marks \cup handler[g].tasks
               /\ handler[g].overtaken \subseteq handler'[g].overtaken
    BY <1>0, <2>1, <2>3 DEF HandedOutIsOpen
  <2>. QED BY <1>0, <2>2, <2>4, StillOpen
<1>11. CASE MasterStop
  BY <1>11 DEF MasterStop, Idle, HandedOutIsOpen
<1>12. ASSUME \/ \E t \in Restarts \cup Probes : SendTask(t)
              \/ \E t \in Tasks : Minute(t) \/ Report(t) \/ RequestRestart(t)
              \/ \E t \in Tasks, ok \in BOOLEAN : Work(t, ok)
       PROVE  HandedOutIsOpen'
  BY <1>3, <1>12 DEF SendTask, Minute, Report, RequestRestart, Work, masterVars
<1>13. ASSUME Timeout \/ RestartFails \/ NewAgent \/ UNCHANGED vars
       PROVE  HandedOutIsOpen'
  BY <1>3, <1>13 DEF Timeout, RestartFails, NewAgent, vars, masterVars
<1>. QED
  BY <1>5, <1>6, <1>7, <1>8, <1>9, <1>10, <1>11, <1>12, <1>13
     DEF Next, RestartAndExit, AgentCrash

LEMMA NextQueueIsOpen ==
  ASSUME TypeOK, Open, [Next]_vars
  PROVE  QueueIsOpen'
<1> USE DEF QueueIsOpen
<1>0. QueueIsOpen /\ UnknownUntilRequested /\ queue \subseteq Restarts \cup Probes
  BY DEF Open, TypeOK
<1>1. ASSUME queue' \subseteq queue, receipts' = receipts PROVE QueueIsOpen'
  BY <1>0, <1>1
<1>2. ASSUME NEW t \in Restarts \cup Probes, SendTask(t) PROVE QueueIsOpen'
  <2>1. t \notin receipts
    BY <1>0, <1>2 DEF SendTask, Request, UnknownUntilRequested
  <2>. QED BY <1>0, <1>2, <2>1 DEF SendTask
<1>3. ASSUME NEW h \in Handlers, NEW r \in handler[h].results, HandleResult(h, r)
      PROVE  QueueIsOpen'
  <2>1. CASE r.task \in Upgrades
    <3>1. r.task \notin queue
      BY <1>0, <2>1, TasksAssumption DEF TasksAssumption
    <3>. QED BY <1>0, <1>3, <2>1, <3>1 DEF HandleResult
  <2>2. CASE r.task \notin Upgrades
    BY <1>0, <1>3, <2>2 DEF HandleResult, Unacknowledged
  <2>. QED BY <2>1, <2>2
<1>4. ASSUME NEW h \in Handlers,
             SendPoll(h) \/ Receive(h) \/ TakeTasks(h) \/ Answer(h) \/ Discard(h)
               \/ PollFails(h) \/ (\E t \in Upgrades : MarkDispatched(h, t))
      PROVE  QueueIsOpen'
  BY <1>1, <1>4 DEF SendPoll, Receive, TakeTasks, Answer, Discard, PollFails,
     MarkDispatched, masterVars
<1>5. ASSUME \/ \E t \in Upgrades : RequestUpgrade(t) \/ RetryUpgrade(t)
             \/ \E t \in Tasks : Minute(t) \/ Report(t) \/ RequestRestart(t)
             \/ \E t \in Tasks, ok \in BOOLEAN : Work(t, ok)
      PROVE  QueueIsOpen'
  BY <1>1, <1>5 DEF RequestUpgrade, RetryUpgrade, Minute, Report, RequestRestart, Work,
     masterVars
<1>6. ASSUME Timeout \/ RestartFails \/ NewAgent \/ MasterStop \/ UNCHANGED vars
      PROVE  QueueIsOpen'
  BY <1>1, <1>6 DEF Timeout, RestartFails, NewAgent, MasterStop, vars, masterVars
<1>. QED
  BY <1>2, <1>3, <1>4, <1>5, <1>6 DEF Next, RestartAndExit, AgentCrash

LEMMA NextUnknown ==
  ASSUME TypeOK, Open, [Next]_vars
  PROVE  UnknownUntilRequested'
<1> USE DEF UnknownUntilRequested
<1>0. /\ UnknownUntilRequested
      /\ handler \in [Handlers -> Polls]
      /\ requestedAt \in [Tasks -> Nat]
      /\ stage \in [Tasks -> {"none", "working", "replaced", "succeeded", "failed", "reported"}]
      /\ Restarts \cup Probes \subseteq Tasks
      /\ \A t \in Restarts \cup Probes : t \notin Upgrades
  BY TasksAssumption DEF Open, TypeOK, Tasks, TasksAssumption
<1>1. ASSUME UNCHANGED <<requestedAt, queue, receipts, stage, pending, handler>>
      PROVE  UnknownUntilRequested'
  BY <1>0, <1>1
<1>2. ASSUME NEW t \in Tasks, Request(t), receipts' = receipts, stage' = stage,
             pending' = pending, handler' = handler, queue' \subseteq queue \cup {t}
      PROVE  UnknownUntilRequested'
  <2>1. IsFiniteSet({u \in Tasks : requestedAt[u] > 0})
    BY TasksAssumption, FS_Subset, {u \in Tasks : requestedAt[u] > 0} \subseteq Tasks
       DEF TasksAssumption
  <2>2. Cardinality({u \in Tasks : requestedAt[u] > 0}) \in Nat
    BY <2>1, FS_CardinalityType
  <2>3. PICK k \in Nat : k = Cardinality({u \in Tasks : requestedAt[u] > 0})
    BY <2>2
  <2>4. requestedAt' = [requestedAt EXCEPT ![t] = k + 1]
    BY <1>2, <2>3 DEF Request
  <2>5. \A u \in Tasks : requestedAt'[u] = 0 => u # t /\ requestedAt[u] = 0
    BY <1>0, <2>4
  <2>. QED BY <1>0, <1>2, <2>5
<1>3. ASSUME NEW h \in Handlers, SendPoll(h) PROVE UnknownUntilRequested'
  <2>1. \A g \in Handlers : \/ handler'[g] = handler[g]
                            \/ handler'[g].tasks = {} /\ handler'[g].results = pending
    <3>1. handler'[h].tasks = {} /\ handler'[h].results = pending
      BY <1>0, <1>3 DEF SendPoll, Idle
    <3>2. \A g \in Handlers \ {h} : handler'[g] = handler[g]
      BY <1>0, <1>3 DEF SendPoll
    <3>. QED BY <3>1, <3>2
  <2>. QED BY <1>0, <1>3, <2>1 DEF SendPoll, masterVars, taskVars
<1>4. ASSUME NEW h \in Handlers, handler' = [handler EXCEPT ![h] = Idle]
      PROVE  \A g \in Handlers : /\ handler'[g].tasks \subseteq handler[g].tasks
                                 /\ handler'[g].results \subseteq handler[g].results
  BY <1>0, <1>4 DEF Idle, Polls
<1>5. ASSUME NEW h \in Handlers, Receive(h) PROVE UnknownUntilRequested'
  <2>1. \A t \in Tasks : t \notin handler[h].tasks => stage'[t] = stage[t]
    BY <1>5 DEF Receive
  <2>2. pending' \subseteq pending
    BY <1>5 DEF Receive, Keep
  <2>3. \A g \in Handlers : /\ handler'[g].tasks \subseteq handler[g].tasks
                            /\ handler'[g].results \subseteq handler[g].results
    BY <1>4, <1>5 DEF Receive
  <2>4. UNCHANGED <<requestedAt, queue, receipts>>
    BY <1>5 DEF Receive, masterVars
  <2>. QED BY <1>0, <2>1, <2>2, <2>3, <2>4
<1>6. ASSUME NEW h \in Handlers, Discard(h) \/ PollFails(h) PROVE UnknownUntilRequested'
  <2>1. \A g \in Handlers : /\ handler'[g].tasks \subseteq handler[g].tasks
                            /\ handler'[g].results \subseteq handler[g].results
    BY <1>4, <1>6 DEF Discard, PollFails
  <2>2. UNCHANGED <<requestedAt, queue, receipts, stage, pending>>
    BY <1>6 DEF Discard, PollFails, masterVars, taskVars
  <2>. QED BY <1>0, <2>1, <2>2
<1>7. ASSUME NEW h \in Handlers, NEW r \in handler[h].results, HandleResult(h, r)
      PROVE  UnknownUntilRequested'
  <2>1. \A g \in Handlers : /\ handler'[g].tasks = handler[g].tasks
                            /\ handler'[g].results \subseteq handler[g].results
    <3>. SUFFICES ASSUME NEW g \in Handlers
                  PROVE  /\ handler'[g].tasks = handler[g].tasks
                         /\ handler'[g].results \subseteq handler[g].results
      OBVIOUS
    <3>1. CASE g = h
      BY <1>0, <1>7, <3>1 DEF HandleResult, Polls
    <3>2. CASE g # h
      BY <1>0, <1>7, <3>2 DEF HandleResult
    <3>. QED BY <3>1, <3>2
  <2>2. queue' \subseteq queue /\ receipts' = receipts \cup {r.task}
    BY <1>7 DEF HandleResult, Unacknowledged
  <2>3. UNCHANGED <<requestedAt, stage, pending>>
    BY <1>7 DEF HandleResult, taskVars
  <2>. QED BY <1>0, <2>1, <2>2, <2>3
<1>8. ASSUME NEW h \in Handlers, TakeTasks(h) PROVE UnknownUntilRequested'
  <2>1. PICK taken, marks :
            /\ taken \subseteq queue
            /\ handler' = [handler EXCEPT ![h] =
                   [Idle EXCEPT !.step = "marks", !.marks = marks, !.tasks = taken]]
    BY <1>8, OldestSubset DEF TakeTasks
  <2>2. \A g \in Handlers : \/ handler'[g] = handler[g]
                            \/ handler'[g].tasks \subseteq queue /\ handler'[g].results = {}
    <3>1. handler'[h].tasks = taken /\ handler'[h].results = {}
      BY <1>0, <2>1 DEF Idle
    <3>2. \A g \in Handlers \ {h} : handler'[g] = handler[g]
      BY <1>0, <2>1
    <3>. QED BY <2>1, <3>1, <3>2
  <2>3. UNCHANGED <<requestedAt, queue, receipts, stage, pending>>
    BY <1>8 DEF TakeTasks, taskVars
  <2>. QED BY <1>0, <2>2, <2>3
<1>9. ASSUME NEW h \in Handlers, NEW t \in Upgrades, MarkDispatched(h, t)
      PROVE  UnknownUntilRequested'
  <2>1. \A g \in Handlers : /\ handler'[g].tasks \subseteq handler[g].tasks \cup {t}
                            /\ handler'[g].results = handler[g].results
    <3>. SUFFICES ASSUME NEW g \in Handlers
                  PROVE  /\ handler'[g].tasks \subseteq handler[g].tasks \cup {t}
                         /\ handler'[g].results = handler[g].results
      OBVIOUS
    <3>1. CASE g = h
      BY <1>0, <1>9, <3>1 DEF MarkDispatched, Polls
    <3>2. CASE g # h
      BY <1>0, <1>9, <3>2 DEF MarkDispatched
    <3>. QED BY <3>1, <3>2
  <2>2. UNCHANGED <<requestedAt, queue, receipts, stage, pending>>
    BY <1>9 DEF MarkDispatched, taskVars
  <2>. QED BY <1>0, <2>1, <2>2
<1>10. ASSUME NEW h \in Handlers, Answer(h) PROVE UnknownUntilRequested'
  <2>1. \A g \in Handlers : /\ handler'[g].tasks = handler[g].tasks
                            /\ handler'[g].results = handler[g].results
    <3>. SUFFICES ASSUME NEW g \in Handlers
                  PROVE  /\ handler'[g].tasks = handler[g].tasks
                         /\ handler'[g].results = handler[g].results
      OBVIOUS
    <3>1. CASE g = h
      BY <1>0, <1>10, <3>1 DEF Answer, Polls
    <3>2. CASE g # h
      BY <1>0, <1>10, <3>2 DEF Answer
    <3>. QED BY <3>1, <3>2
  <2>2. UNCHANGED <<requestedAt, queue, receipts, stage, pending>>
    BY <1>10 DEF Answer, masterVars, taskVars
  <2>. QED BY <1>0, <2>1, <2>2
\* A goroutine only ever concerns a task that is known.
<1>11. ASSUME NEW t \in Tasks, stage[t] # "none",
              \A u \in Tasks : u # t => stage'[u] = stage[u],
              \A r \in pending' : r \in pending \/ r.task = t,
              UNCHANGED <<requestedAt, queue, receipts, handler>>
       PROVE  UnknownUntilRequested'
  BY <1>0, <1>11
<1>12. ASSUME NEW t \in Tasks, NEW ok \in BOOLEAN, Work(t, ok) PROVE UnknownUntilRequested'
  BY <1>0, <1>11, <1>12 DEF Work, masterVars
<1>13. ASSUME NEW t \in Tasks, Report(t) PROVE UnknownUntilRequested'
  <2>1. PICK done : pending' = pending \cup {[task |-> t, ok |-> done]}
    BY <1>13, Zenon DEF Report
  <2>2. \A r \in pending' : r \in pending \/ r.task = t
    BY <2>1
  <2>3. \A u \in Tasks : u # t => stage'[u] = stage[u]
    BY <1>0, <1>13 DEF Report
  <2>4. stage[t] # "none" /\ UNCHANGED <<requestedAt, queue, receipts, handler>>
    BY <1>13 DEF Report, masterVars
  <2>. QED BY <1>11, <2>2, <2>3, <2>4
<1>14. ASSUME NEW t \in Tasks, RequestRestart(t) PROVE UnknownUntilRequested'
  <2>1. \A u \in Tasks : u # t => stage'[u] = stage[u]
    BY <1>0, <1>14 DEF RequestRestart
  <2>. QED BY <1>11, <1>14, <2>1 DEF RequestRestart, masterVars
<1>15. CASE NewAgent
  BY <1>0, <1>15 DEF NewAgent, masterVars
<1>16. CASE MasterStop
  BY <1>0, <1>16 DEF MasterStop, taskVars, Idle
<1>17. ASSUME NEW t \in Upgrades, RequestUpgrade(t) PROVE UnknownUntilRequested'
  BY <1>2, <1>17 DEF RequestUpgrade, taskVars, Tasks
<1>18. ASSUME NEW t \in Restarts \cup Probes, SendTask(t) PROVE UnknownUntilRequested'
  BY <1>2, <1>18 DEF SendTask, taskVars, Tasks
<1>19. ASSUME Timeout \/ RestartFails \/ UNCHANGED vars
              \/ (\E t \in Upgrades : RetryUpgrade(t)) \/ (\E t \in Tasks : Minute(t))
       PROVE  UnknownUntilRequested'
  BY <1>1, <1>19 DEF Timeout, RestartFails, RetryUpgrade, Minute, vars, masterVars, taskVars
<1>. QED
  BY <1>3, <1>5, <1>6, <1>7, <1>8, <1>9, <1>10, <1>12, <1>13, <1>14, <1>15, <1>16,
     <1>17, <1>18, <1>19 DEF Next, RestartAndExit, AgentCrash

LEMMA AlwaysOpen == Spec => []Open
<1>1. TypeOK /\ Open /\ [Next]_vars => Open'
  <2>. SUFFICES ASSUME TypeOK, Open, [Next]_vars PROVE Open'
    OBVIOUS
  <2>. QED BY NextHandedOut, NextQueueIsOpen, NextUnknown DEF Open
<1>. QED
  BY InitOpen, TypeCorrect, <1>1, PTL DEF Spec

\* An upgrade is only ever marked while its row is unsettled, or overtaken.
LEMMA SettledStep ==
  TypeOK /\ Open /\ [Next]_vars =>
      [\A t \in Upgrades :
          row[t] \in Settled => row'[t] \in Settled \/ RetryUpgrade(t) \/ Overtaken(t)]_vars
<1> SUFFICES ASSUME TypeOK, Open, [Next]_vars, NEW t \in Upgrades, row[t] \in Settled,
                    ~RetryUpgrade(t), ~Overtaken(t)
             PROVE  row'[t] \in Settled
  OBVIOUS
<1>0. /\ row \in [Upgrades -> {"NONE"} \cup Unsettled \cup Settled]
      /\ handler \in [Handlers -> Polls]
  BY DEF TypeOK
<1>1. ASSUME row' = row PROVE row'[t] \in Settled
  BY <1>1
<1>2. ASSUME NEW u \in Upgrades, RequestUpgrade(u) PROVE row'[t] \in Settled
  BY <1>0, <1>2 DEF RequestUpgrade, Settled
<1>3. ASSUME NEW u \in Upgrades, RetryUpgrade(u) PROVE row'[t] \in Settled
  <2>1. u # t
    BY <1>3
  <2>. QED BY <1>0, <1>3, <2>1 DEF RetryUpgrade
<1>4. ASSUME NEW h \in Handlers, NEW r \in handler[h].results, HandleResult(h, r)
      PROVE  row'[t] \in Settled
  BY <1>0, <1>4 DEF HandleResult, Outcome, Settled
\* What is marked is unsettled or overtaken, so it is another row.
<1>5. ASSUME NEW h \in Handlers, NEW u \in Upgrades, MarkDispatched(h, u)
      PROVE  row'[t] \in Settled
  <2>1. u \in handler[h].marks
    BY <1>5, OldestSubset DEF MarkDispatched
  <2>2. row[u] \in Unsettled \/ Overtaken(u)
    BY <2>1 DEF Open, HandedOutIsOpen, IsOpen, Overtaken
  <2>3. u # t
    BY <2>2 DEF Settled, Unsettled
  <2>. QED BY <1>0, <1>5, <2>3 DEF MarkDispatched
<1>6. ASSUME NEW h \in Handlers,
             SendPoll(h) \/ Receive(h) \/ TakeTasks(h) \/ Answer(h) \/ Discard(h) \/ PollFails(h)
      PROVE  row'[t] \in Settled
  BY <1>1, <1>6 DEF SendPoll, Receive, TakeTasks, Answer, Discard, PollFails, masterVars
<1>7. ASSUME \/ \E u \in Restarts \cup Probes : SendTask(u)
             \/ \E u \in Tasks : Minute(u) \/ Report(u) \/ RequestRestart(u)
             \/ \E u \in Tasks, ok \in BOOLEAN : Work(u, ok)
      PROVE  row'[t] \in Settled
  BY <1>1, <1>7 DEF SendTask, Minute, Report, RequestRestart, Work, masterVars
<1>8. ASSUME Timeout \/ RestartFails \/ NewAgent \/ MasterStop \/ UNCHANGED vars
      PROVE  row'[t] \in Settled
  BY <1>1, <1>8 DEF Timeout, RestartFails, NewAgent, MasterStop, vars, masterVars
<1>. QED
  BY <1>2, <1>3, <1>4, <1>5, <1>6, <1>7, <1>8 DEF Next, RestartAndExit, AgentCrash

\* However many polls the master handles at once, a settled upgrade is reopened by
\* a retry or by an overtaken answer only (SettledUnlessOvertaken).
THEOREM SettledStaysSettled == Spec => SettledUnlessOvertaken
  BY AlwaysOpen, TypeCorrect, SettledStep, PTL DEF Spec, SettledUnlessOvertaken

\* What starts was in the answer the agent received.
LEMMA AnsweredStep ==
  TypeOK /\ Open /\ [Next]_vars =>
      [\A t \in receipts :
          stage[t] = "none" /\ stage'[t] = "working" =>
              (t \in Upgrades /\ row[t] \notin Settled) \/ Overtaken(t)]_vars
<1> SUFFICES ASSUME TypeOK, Open, [Next]_vars, NEW t \in receipts,
                    stage[t] = "none", stage'[t] = "working", ~Overtaken(t)
             PROVE  t \in Upgrades /\ row[t] \notin Settled
  OBVIOUS
<1>0. /\ stage \in [Tasks -> {"none", "working", "replaced", "succeeded", "failed", "reported"}]
      /\ t \in Tasks
  BY DEF TypeOK
<1>1. ASSUME NEW h \in Handlers, Receive(h)
      PROVE  t \in Upgrades /\ row[t] \notin Settled
  <2>1. t \in handler[h].tasks
    BY <1>0, <1>1 DEF Receive
  <2>2. IsOpen(t)
    BY <2>1 DEF Open, HandedOutIsOpen, Overtaken
  <2>. QED BY <2>2 DEF Settled, Unsettled, IsOpen
<1>2. ASSUME stage' = stage PROVE FALSE
  BY <1>2
<1>3. ASSUME NEW u \in Tasks, NEW ok \in BOOLEAN, Work(u, ok) PROVE FALSE
  BY <1>0, <1>3 DEF Work
<1>4. ASSUME NEW u \in Tasks, Report(u) PROVE FALSE
  BY <1>0, <1>4 DEF Report
<1>5. ASSUME NEW u \in Tasks, RequestRestart(u) PROVE FALSE
  BY <1>0, <1>5 DEF RequestRestart
<1>6. ASSUME NewAgent PROVE FALSE
  BY <1>0, <1>6 DEF NewAgent
<1>7. ASSUME NEW h \in Handlers,
             SendPoll(h) \/ TakeTasks(h) \/ Answer(h) \/ Discard(h) \/ PollFails(h)
               \/ (\E r \in handler[h].results : HandleResult(h, r))
               \/ (\E u \in Upgrades : MarkDispatched(h, u))
      PROVE  FALSE
  BY <1>2, <1>7 DEF SendPoll, TakeTasks, Answer, Discard, PollFails, HandleResult,
     MarkDispatched, taskVars
<1>8. ASSUME Timeout \/ RestartFails \/ MasterStop
               \/ (\E u \in Upgrades : RequestUpgrade(u) \/ RetryUpgrade(u))
               \/ (\E u \in Restarts \cup Probes : SendTask(u))
               \/ (\E u \in Tasks : Minute(u))
      PROVE  FALSE
  BY <1>2, <1>8 DEF Timeout, RestartFails, MasterStop, RequestUpgrade, RetryUpgrade,
     SendTask, Minute, taskVars
<1>9. CASE UNCHANGED vars
  BY <1>2, <1>9 DEF vars, taskVars
<1>. QED
  BY <1>1, <1>3, <1>4, <1>5, <1>6, <1>7, <1>8, <1>9 DEF Next, RestartAndExit, AgentCrash

\* An answered task runs again only as an upgrade that was reopened or from an
\* overtaken answer, whatever processes have stopped (AnsweredTasksDoNotRunAgain).
THEOREM AnsweredStaysAnswered == Spec => AnsweredTasksDoNotRunAgain
  BY AlwaysOpen, TypeCorrect, AnsweredStep, PTL DEF Spec, AnsweredTasksDoNotRunAgain

\* What any poll is handing out is open or was overtaken (HandedOutIsOpen).
THEOREM HandsOutOpenTasks == Spec => []HandedOutIsOpen
<1>1. Open => HandedOutIsOpen
  BY DEF Open
<1>. QED BY AlwaysOpen, <1>1, PTL
=============================================================================
