----------------------------- MODULE ConfigSync -----------------------------
(***************************************************************************)
(* Delivery of node configurations.  The master builds a configuration     *)
(* from the database across many awaits, caches it behind a revision       *)
(* barrier, pushes it over the WebSocket of a node, at once or to all      *)
(* nodes after a debounce, and answers polls with it.  Connections are     *)
(* replaced by reconnecting agents and taken over by polls.                *)
(*                                                                         *)
(* A configuration is the set of changes it is sure to contain: those      *)
(* committed before its build began (a later read may see more).  Two      *)
(* builds with the same changes have different versions, and applying one  *)
(* in place of the other changes nothing here.                             *)
(*                                                                         *)
(* The code between two awaits is one step.  A payload that resolves and   *)
(* the send that follows it are one too: only microtasks run between them. *)
(*                                                                         *)
(* KeepOld, CacheAnyway, WaitersAtOnce, AnsweredNobody, ForgetAny and      *)
(* CachedAlways are faulty variants of the definition that follows them,   *)
(* used to show that a property notices such a fault; the specification    *)
(* does not use them.                                                      *)
(***************************************************************************)
EXTENDS Naturals, Sequences

CONSTANTS
    Nodes,
    Changes,       \* bound: changes, and the calls that announce them
    Links,         \* bound: connections at a time
    Polls,         \* bound: polls the master handles at a time
    MaxFaults,     \* bound: breaks, time-outs, failures, restarts
    MaxUpgrades,   \* bound: upgrade tasks
    Patient,       \* is a node quiet on the master before its agent dials again?
    NoNode, NoLink, NoPoll, NoChange, NoConfig

Callers == Changes \cup Links \cup Polls

ASSUME CallersAssumption ==
    /\ Changes \cap Links = {}
    /\ Changes \cap Polls = {}
    /\ Links \cap Polls = {}

ASSUME BoundsAssumption ==
    /\ MaxFaults \in Nat
    /\ MaxUpgrades \in Nat
    /\ Patient \in BOOLEAN
    /\ NoNode \notin Nodes
    /\ NoLink \notin Links
    /\ NoPoll \notin Polls
    /\ NoChange \notin Changes
    /\ \A S \in SUBSET Changes : S # NoConfig

VARIABLES
    data,      \* the committed changes of a node's configuration
    cache,     \* configCache
    build,     \* the builds underway, by the caller of getDesiredConfigSync
    known,     \* history: data when the node was last invalidated
    change,    \* the calls that announce the changes
    timer,     \* configPushTimer: the call that set it last
    flush,     \* the rounds of flushConfigToAll
    sockets,   \* sockets
    link,      \* connections, and the handlers of the master that serve them
    unsent,    \* history: nodes whose last push ended without a send
    poll,      \* the poll handlers of the master
    agent,     \* the agents
    upgrade,   \* binaryDeploymentTask of the node: none, due, handed out just now
    upgrades, faults

barrier == <<data, cache, build, known>>
calls == <<change, timer, flush>>
wires == <<sockets, link, unsent>>
bounds == <<upgrades, faults>>
vars == <<barrier, calls, wires, poll, agent, upgrade, bounds>>

-----------------------------------------------------------------------------
Configs == SUBSET Changes

\* A build: for a node, with the revision of its start still the current one?
Builds == [node : Nodes \cup {NoNode}, fresh : BOOLEAN, saw : Configs]
NoBuild == [node |-> NoNode, fresh |-> FALSE, saw |-> {}]

Frames == [type : {"auth_result", "config_sync", "upgrade_task"}, config : Configs]
Frame(type) == [type |-> type, config |-> {}]
ConfigFrame(config) == [type |-> "config_sync", config |-> config]

\* A call: nothing committed, committed, invalidated (its settings are being
\* read), waiting for the timer, in a push of its own or in a flush, answered, or
\* lost with the process.
Announcements == [step : {"none", "committed", "settings", "waiting", "pushing", "flushing",
                          "answered", "lost"},
                  scope : SUBSET Nodes]
NoAnnouncement == [step |-> "none", scope |-> {}]

NoFlush == [waiters |-> {}, visited |-> {}, again |-> {}]
Flushes == [waiters : SUBSET Changes, visited : SUBSET Nodes, again : SUBSET Nodes]

\* A connection: what the handler on the master has come to, what is on the way
\* to the agent, is it open, did it close before anyone listened for that, the
\* last configuration handed to it.
Connections == [node : Nodes \cup {NoNode},
                stage : {"closed", "authenticating", "registering", "dispatching", "admitted"},
                wire : Seq(Frames), open : BOOLEAN, missed : BOOLEAN, sent : Configs]
Closed == [node |-> NoNode, stage |-> "closed", wire |-> <<>>, open |-> FALSE,
           missed |-> FALSE, sent |-> {}]

PollHandlers == [node : Nodes \cup {NoNode}, step : {"idle", "arriving", "working", "building", "answer"},
                 applied : {NoConfig} \cup Configs,
                 desired : {NoConfig} \cup Configs]
IdlePoll == [node |-> NoNode, step |-> "idle", applied |-> NoConfig, desired |-> NoConfig]

\* An agent: its mode, its connection and whether it has read auth_result there,
\* the poll it awaits, the last configuration it was given and the one it applied.
Agents == [mode : {"WS", "HTTP"}, link : Links \cup {NoLink}, authed : BOOLEAN,
           awaiting : Polls \cup {NoPoll}, got : Configs, applied : {NoConfig} \cup Configs]
FreshAgent(m) == [mode |-> m, link |-> NoLink, authed |-> FALSE, awaiting |-> NoPoll,
                  got |-> {}, applied |-> NoConfig]

TypeOK ==
    /\ data \in [Nodes -> Configs]
    /\ cache \in [Nodes -> {NoConfig} \cup Configs]
    /\ build \in [Callers -> Builds]
    /\ known \in [Nodes -> Configs]
    /\ change \in [Changes -> Announcements]
    /\ timer \in Changes \cup {NoChange}
    /\ flush \in [Changes -> Flushes]
    /\ sockets \in [Nodes -> Links \cup {NoLink}]
    /\ link \in [Links -> Connections]
    /\ unsent \subseteq Nodes
    /\ poll \in [Polls -> PollHandlers]
    /\ \A h \in Polls : poll[h].step = "answer" => poll[h].desired # NoConfig
    /\ agent \in [Nodes -> Agents]
    /\ upgrade \in [Nodes -> {"none", "due", "recent"}]
    /\ upgrades \in 0 .. MaxUpgrades
    /\ faults \in 0 .. MaxFaults

Init ==
    /\ data = [n \in Nodes |-> {}]
    /\ cache = [n \in Nodes |-> NoConfig]
    /\ build = [k \in Callers |-> NoBuild]
    /\ known = [n \in Nodes |-> {}]
    /\ change = [c \in Changes |-> NoAnnouncement]
    /\ timer = NoChange
    /\ flush = [c \in Changes |-> NoFlush]
    /\ sockets = [n \in Nodes |-> NoLink]
    /\ link = [l \in Links |-> Closed]
    /\ unsent = {}
    /\ poll = [h \in Polls |-> IdlePoll]
    /\ agent \in [Nodes -> {FreshAgent("WS"), FreshAgent("HTTP")}]
    /\ upgrade = [n \in Nodes |-> "none"]
    /\ upgrades = 0
    /\ faults = 0

Fault == faults < MaxFaults /\ faults' = faults + 1

-----------------------------------------------------------------------------
\* The barrier: invalidateConfig and getDesiredConfigSync.

KeepOld(S) == cache
Cleared(S) == [n \in Nodes |-> IF n \in S THEN NoConfig ELSE cache[n]]

Invalidate(S) ==
    /\ cache' = Cleared(S)
    /\ known' = [n \in Nodes |-> IF n \in S THEN data[n] ELSE known[n]]
    /\ UNCHANGED data

\* configRevision is one for all nodes: every build underway notices.
Stale == [k \in Callers |-> [build[k] EXCEPT !.fresh = FALSE]]

\* What a finished build resolves to; NoConfig when it must be done again.
CacheAnyway(k) ==
    IF cache[build[k].node] # NoConfig THEN cache[build[k].node] ELSE build[k].saw
Desired(k) ==
    IF cache[build[k].node] # NoConfig THEN cache[build[k].node]
    ELSE IF build[k].fresh THEN build[k].saw
    ELSE NoConfig

Building(k) == build[k].node # NoNode

NewBuild(n) == [node |-> n, fresh |-> TRUE, saw |-> data[n]]

BuildAgain(k) ==
    /\ Building(k)
    /\ Desired(k) = NoConfig
    /\ build' = [build EXCEPT ![k] = NewBuild(build[k].node)]
    /\ UNCHANGED <<data, cache, known, calls, wires, poll, agent, upgrade, bounds>>

Resolve(k) ==
    /\ Building(k)
    /\ Desired(k) # NoConfig
    /\ cache' = [cache EXCEPT ![build[k].node] = Desired(k)]
    /\ build' = [build EXCEPT ![k] = NoBuild]
    /\ UNCHANGED <<data, known>>

-----------------------------------------------------------------------------
\* Pushes.

\* ws drops what is sent on a connection that is closed.
Sent(l, frame) ==
    [link EXCEPT ![l].wire = IF link[l].open THEN Append(@, frame) ELSE @,
                 ![l].sent = IF frame.type = "config_sync" THEN frame.config ELSE @]

\* pushConfig up to its await.
StartPush(k, n) ==
    /\ Invalidate({n})
    /\ build' = [Stale EXCEPT ![k] = NewBuild(n)]

\* The rest of it: to the socket the node has by now.
FinishPush(k) ==
    /\ Resolve(k)
    /\ LET n == build[k].node
       IN IF sockets[n] = NoLink
            THEN UNCHANGED <<link, unsent>>
            ELSE /\ link' = Sent(sockets[n], ConfigFrame(Desired(k)))
                 /\ unsent' = unsent \ {n}
    /\ UNCHANGED <<sockets, timer, flush, poll, agent, upgrade, bounds>>

\* A change is committed by some service, which then announces it to the one
\* node it concerns or to all.
Commit(c, S) ==
    /\ change[c].step = "none"
    /\ c = CHOOSE d \in Changes : change[d].step = "none"
    /\ data' = [n \in Nodes |-> IF n \in S THEN data[n] \cup {c} ELSE data[n]]
    /\ change' = [change EXCEPT ![c] = [step |-> "committed", scope |-> S]]
    /\ UNCHANGED <<cache, build, known, timer, flush, wires, poll, agent, upgrade, bounds>>

PushConfig(c, n) ==
    /\ change[c].step = "committed"
    /\ change[c].scope = {n}
    /\ StartPush(c, n)
    /\ change' = [change EXCEPT ![c].step = "pushing"]
    /\ UNCHANGED <<timer, flush, wires, poll, agent, upgrade, bounds>>

PushEnds(c) ==
    /\ change[c].step = "pushing"
    /\ FinishPush(c)
    /\ change' = [change EXCEPT ![c].step = "answered"]

PushConfigToAll(c) ==
    /\ change[c].step = "committed"
    /\ Invalidate(Nodes)
    /\ build' = Stale
    /\ change' = [change EXCEPT ![c].step = "settings"]
    /\ UNCHANGED <<timer, flush, wires, poll, agent, upgrade, bounds>>

Debounce(c) ==
    /\ change[c].step = "settings"
    /\ change' = [change EXCEPT ![c].step = "waiting"]
    /\ timer' = c
    /\ UNCHANGED <<barrier, flush, wires, poll, agent, upgrade, bounds>>

Waiting == {c \in Changes : change[c].step = "waiting"}

\* The timer fires: the waiters so far go with this round.
StartFlush ==
    /\ timer # NoChange
    /\ timer' = NoChange
    /\ flush' = [flush EXCEPT ![timer].waiters = Waiting]
    /\ change' = [c \in Changes |->
                     IF c \in Waiting THEN [change[c] EXCEPT !.step = "flushing"] ELSE change[c]]
    /\ UNCHANGED <<barrier, wires, poll, agent, upgrade, bounds>>

Connected == {n \in Nodes : sockets[n] # NoLink}

\* The keys of the Map are followed live: a node that comes during the round
\* has its turn, one that is removed and comes back has it again.
FlushNode(f, n) ==
    /\ flush[f].waiters # {}
    /\ ~Building(f)
    /\ n \in Connected \ flush[f].visited
    /\ StartPush(f, n)
    /\ flush' = [flush EXCEPT ![f].visited = @ \cup {n}]
    /\ UNCHANGED <<change, timer, wires, poll, agent, upgrade, bounds>>

FlushedNode(f) ==
    /\ flush[f].waiters # {}
    /\ FinishPush(f)
    /\ UNCHANGED change

WaitersAtOnce(f) == {c \in Changes : change[c].step \in {"waiting", "flushing"}}
AnsweredNobody(f) == {}
Answered(f) == flush[f].waiters

FlushEnds(f) ==
    /\ flush[f].waiters # {}
    /\ ~Building(f)
    /\ Connected \subseteq flush[f].visited
    /\ change' = [c \in Changes |->
                     IF c \in Answered(f) THEN [change[c] EXCEPT !.step = "answered"] ELSE change[c]]
    /\ flush' = [flush EXCEPT ![f] = NoFlush]
    /\ UNCHANGED <<barrier, timer, wires, poll, agent, upgrade, bounds>>

\* The build throws: the push is given up, a flush goes on with the next node.
PushFails(k) ==
    /\ k \in Changes \cup Links
    /\ Building(k)
    /\ Fault
    /\ unsent' = unsent \cup {build[k].node}
    /\ build' = [build EXCEPT ![k] = NoBuild]
    /\ change' = [c \in Changes |->
                     IF c = k /\ change[c].step = "pushing"
                       THEN [change[c] EXCEPT !.step = "answered"] ELSE change[c]]
    /\ UNCHANGED <<data, cache, known, timer, flush, sockets, link, poll,
                   agent, upgrade, upgrades>>

-----------------------------------------------------------------------------
\* Connections, on the master.

Free(l) ==
    /\ \A n \in Nodes : sockets[n] # l /\ agent[n].link # l
    /\ ~Building(l)
    /\ \/ link[l].stage = "closed"
       \/ link[l].stage = "admitted" /\ link[l].missed

Connect(l, n) ==
    [node |-> n, stage |-> "authenticating", wire |-> <<>>, open |-> TRUE,
     missed |-> FALSE, sent |-> {}]

\* register up to its first await: the new connection replaces the old one, even
\* if it is closed by now itself.
Register(l) ==
    /\ link[l].stage = "authenticating"
    /\ LET n == link[l].node
       IN /\ sockets' = [sockets EXCEPT ![n] = l]
          /\ link' = [m \in Links |->
                        IF m = l THEN [link[m] EXCEPT !.stage = "registering"]
                        ELSE IF m = sockets[n] THEN [link[m] EXCEPT !.open = FALSE]
                        ELSE link[m]]
    /\ UNCHANGED <<barrier, calls, unsent, poll, agent, upgrade, bounds>>

\* The node's row is written and read; an upgrade that is due goes out on
\* whatever socket the node has by now, and its row is marked.
DispatchQueued(l) ==
    /\ link[l].stage = "registering"
    /\ LET n == link[l].node
           due == upgrade[n] = "due" /\ sockets[n] # NoLink
           dispatched == IF due THEN Sent(sockets[n], Frame("upgrade_task")) ELSE link
       IN /\ link' = [dispatched EXCEPT ![l].stage = "dispatching"]
          /\ upgrade' = IF due THEN [upgrade EXCEPT ![n] = "recent"] ELSE upgrade
    /\ UNCHANGED <<barrier, calls, sockets, unsent, poll, agent, bounds>>

\* The handlers are attached, auth_result is sent and the first push begins.
Admit(l) ==
    /\ link[l].stage = "dispatching"
    /\ StartPush(l, link[l].node)
    /\ link' = [Sent(l, Frame("auth_result")) EXCEPT ![l].stage = "admitted"]
    /\ UNCHANGED <<calls, sockets, unsent, poll, agent, upgrade, bounds>>

FirstPush(l) ==
    /\ FinishPush(l)
    /\ UNCHANGED change

\* A key that is removed and set again is new to the flushes underway.  Bound:
\* once for each; an agent waits a second and more before it dials again, a
\* flush does not take that long.
Revisited(n) ==
    [f \in Changes |->
        IF n \in flush[f].visited \ flush[f].again
          THEN [flush[f] EXCEPT !.visited = @ \ {n}, !.again = @ \cup {n}]
          ELSE flush[f]]

ForgetAny(l) == sockets[link[l].node] # NoLink
IsCurrent(l) == sockets[link[l].node] = l

\* The close event.  Before Admit nobody listens for it.
HandleDisconnect(l) ==
    /\ link[l].stage # "closed" /\ ~link[l].open /\ ~link[l].missed
    /\ IF link[l].stage = "admitted"
         THEN /\ link' = [link EXCEPT ![l] = [Closed EXCEPT !.wire = link[l].wire]]
              /\ IF IsCurrent(l)
                   THEN /\ sockets' = [sockets EXCEPT ![link[l].node] = NoLink]
                        /\ flush' = Revisited(link[l].node)
                   ELSE UNCHANGED <<sockets, flush>>
         ELSE /\ link' = [link EXCEPT ![l].missed = TRUE]
              /\ UNCHANGED <<sockets, flush>>
    /\ UNCHANGED <<barrier, change, timer, unsent, poll, agent, upgrade, bounds>>

-----------------------------------------------------------------------------
\* Polls, on the master.

\* supersedeSocket, once the token is checked.
TakeOver(h) ==
    /\ poll[h].step = "arriving"
    /\ LET n == poll[h].node
       IN /\ poll' = [poll EXCEPT ![h].step = "working"]
          /\ sockets' = [sockets EXCEPT ![n] = NoLink]
          /\ IF sockets[n] = NoLink
               THEN UNCHANGED <<link, flush>>
               ELSE /\ link' = [link EXCEPT ![sockets[n]].open = FALSE]
                    /\ flush' = Revisited(n)
    /\ UNCHANGED <<barrier, change, timer, unsent, agent, upgrade, bounds>>

CachedAlways(n) == TRUE
Cached(n) == cache[n] # NoConfig

\* The heartbeat and the results are handled; now the configuration.
AskDesired(h) ==
    /\ poll[h].step = "working"
    /\ LET n == poll[h].node
       IN IF Cached(n)
            THEN /\ poll' = [poll EXCEPT ![h].step = "answer", ![h].desired = cache[n]]
                 /\ UNCHANGED build
            ELSE /\ poll' = [poll EXCEPT ![h].step = "building"]
                 /\ build' = [build EXCEPT ![h] = NewBuild(n)]
    /\ UNCHANGED <<data, cache, known, calls, wires, agent, upgrade, bounds>>

GetDesired(h) ==
    /\ poll[h].step = "building"
    /\ Resolve(h)
    /\ poll' = [poll EXCEPT ![h].step = "answer", ![h].desired = Desired(h)]
    /\ UNCHANGED <<calls, wires, agent, upgrade, bounds>>

NeedUpdate(h) == poll[h].applied # poll[h].desired

\* The answer to a poll nobody waits for any more.
Discard(h) ==
    /\ poll[h].step = "answer"
    /\ \A n \in Nodes : agent[n].awaiting # h
    /\ poll' = [poll EXCEPT ![h] = IdlePoll]
    /\ UNCHANGED <<barrier, calls, wires, agent, upgrade, bounds>>

\* The handler throws, or its connection breaks.
PollFails(h) ==
    /\ poll[h].step # "idle"
    /\ Fault
    /\ poll' = [poll EXCEPT ![h] = IdlePoll]
    /\ build' = [build EXCEPT ![h] = NoBuild]
    /\ agent' = [n \in Nodes |->
                   IF agent[n].awaiting = h THEN [agent[n] EXCEPT !.awaiting = NoPoll] ELSE agent[n]]
    /\ UNCHANGED <<data, cache, known, calls, wires, upgrade, upgrades>>

-----------------------------------------------------------------------------
\* Agents.

\* ApplyConfig takes the configuration, or refuses it; the version it reports is
\* that of the last one it took.
Applies(n, config, done) ==
    \/ /\ agent' = [agent EXCEPT ![n] = [done EXCEPT !.got = config, !.applied = config]]
       /\ UNCHANGED faults
    \/ /\ Fault
       /\ agent' = [agent EXCEPT ![n] = [done EXCEPT !.got = config]]

\* An agent waits a second, then longer and longer, before it dials again: by
\* then a master that keeps up is done with the builds and handshakes of its node.
Quiet(n) ==
    /\ \A k \in Callers : build[k].node # n
    /\ \A l \in Links : link[l].node = n => link[l].stage \in {"admitted", "closed"}

Dial(n, l) ==
    /\ agent[n].mode = "WS" /\ agent[n].link = NoLink
    /\ Patient => Quiet(n)
    /\ Free(l)
    /\ l = CHOOSE m \in Links : Free(m)
    /\ link' = [link EXCEPT ![l] = Connect(l, n)]
    /\ agent' = [agent EXCEPT ![n].link = l]
    /\ UNCHANGED <<barrier, calls, sockets, unsent, poll, upgrade, bounds>>

\* readLoop, and the first frame before it, which must be auth_result.
Read(n) ==
    LET l == agent[n].link
        frame == Head(link[l].wire)
        rest == [link EXCEPT ![l].wire = Tail(@)]
    IN /\ l # NoLink
       /\ link[l].wire # <<>>
       /\ CASE ~agent[n].authed /\ frame.type = "auth_result" ->
                 /\ agent' = [agent EXCEPT ![n].authed = TRUE]
                 /\ link' = rest
                 /\ UNCHANGED <<upgrade, faults>>
            [] ~agent[n].authed /\ frame.type # "auth_result" ->
                 /\ agent' = [agent EXCEPT ![n].link = NoLink]
                 /\ link' = [link EXCEPT ![l].open = FALSE, ![l].wire = <<>>]
                 /\ UNCHANGED <<upgrade, faults>>
            [] agent[n].authed /\ frame.type = "config_sync" ->
                 /\ Applies(n, frame.config, agent[n])
                 /\ link' = rest
                 /\ UNCHANGED upgrade
            [] OTHER ->
                 \* The upgrade runs; its result settles the row.
                 /\ upgrade' = [upgrade EXCEPT ![n] = "none"]
                 /\ link' = rest
                 /\ UNCHANGED <<agent, faults>>
       /\ UNCHANGED <<barrier, calls, sockets, unsent, poll, upgrades>>

\* The agent finds its connection closed, and dials again after a while.
HangUp(n) ==
    /\ agent[n].link # NoLink
    /\ ~link[agent[n].link].open
    /\ agent' = [agent EXCEPT ![n].link = NoLink, ![n].authed = FALSE]
    /\ link' = [link EXCEPT ![agent[n].link].wire = <<>>]
    /\ UNCHANGED <<barrier, calls, sockets, unsent, poll, upgrade, bounds>>

SendPoll(n, h) ==
    /\ agent[n].mode = "HTTP" /\ agent[n].awaiting = NoPoll
    /\ poll[h].step = "idle"
    /\ h = CHOOSE g \in Polls : poll[g].step = "idle"
    /\ poll' = [poll EXCEPT ![h] = [node |-> n, step |-> "arriving",
                  applied |-> agent[n].applied, desired |-> NoConfig]]
    /\ agent' = [agent EXCEPT ![n].awaiting = h]
    /\ UNCHANGED <<barrier, calls, wires, upgrade, bounds>>

Receive(n) ==
    LET h == agent[n].awaiting
        done == [agent[n] EXCEPT !.awaiting = NoPoll]
    IN /\ h # NoPoll
       /\ poll[h].step = "answer"
       /\ poll' = [poll EXCEPT ![h] = IdlePoll]
       /\ IF NeedUpdate(h)
            THEN Applies(n, poll[h].desired, done)
            ELSE agent' = [agent EXCEPT ![n] = done] /\ UNCHANGED faults
       /\ UNCHANGED <<barrier, calls, wires, upgrade, upgrades>>

-----------------------------------------------------------------------------
\* The operator, time and faults.

RequestUpgrade(n) ==
    /\ upgrades < MaxUpgrades /\ upgrades' = upgrades + 1
    /\ upgrade[n] = "none"
    /\ IF sockets[n] = NoLink
         THEN upgrade' = [upgrade EXCEPT ![n] = "due"] /\ UNCHANGED link
         ELSE /\ upgrade' = [upgrade EXCEPT ![n] = "recent"]
              /\ link' = Sent(sockets[n], Frame("upgrade_task"))
    /\ UNCHANGED <<barrier, calls, sockets, unsent, poll, agent, faults>>

\* A minute has passed since the task was handed out.
Minute(n) ==
    /\ upgrade[n] = "recent"
    /\ upgrade' = [upgrade EXCEPT ![n] = "due"]
    /\ UNCHANGED <<barrier, calls, wires, poll, agent, bounds>>

\* The connection breaks.
Break(l) ==
    /\ link[l].open
    /\ Fault
    /\ link' = [link EXCEPT ![l].open = FALSE]
    /\ UNCHANGED <<barrier, calls, sockets, unsent, poll, agent, upgrade, upgrades>>

\* The HTTP client gives up; the master goes on with the poll.
Timeout(n) ==
    /\ agent[n].awaiting # NoPoll
    /\ Fault
    /\ agent' = [agent EXCEPT ![n].awaiting = NoPoll]
    /\ UNCHANGED <<barrier, calls, wires, poll, upgrade, upgrades>>

\* The agent starts anew, in the mode of its configuration file.
AgentRestarts(n, mode) ==
    /\ Fault
    /\ agent' = [agent EXCEPT ![n] = FreshAgent(mode)]
    /\ link' = [l \in Links |->
                  IF agent[n].link = l THEN [link[l] EXCEPT !.open = FALSE, !.wire = <<>>]
                  ELSE link[l]]
    /\ UNCHANGED <<barrier, calls, sockets, unsent, poll, upgrade, upgrades>>

\* onModuleDestroy, or a crash, and a new process, whose configVersion starts
\* from the clock.
MasterRestarts ==
    /\ Fault
    /\ cache' = [n \in Nodes |-> NoConfig]
    /\ build' = [k \in Callers |-> NoBuild]
    /\ known' = data
    /\ change' = [c \in Changes |->
                    IF change[c].step \in {"none", "answered"} THEN change[c]
                    ELSE [change[c] EXCEPT !.step = "lost"]]
    /\ timer' = NoChange
    /\ flush' = [f \in Changes |-> NoFlush]
    /\ sockets' = [n \in Nodes |-> NoLink]
    /\ link' = [l \in Links |->
                  [Closed EXCEPT !.wire = link[l].wire]]
    /\ poll' = [h \in Polls |-> IdlePoll]
    /\ agent' = [n \in Nodes |-> [agent[n] EXCEPT !.awaiting = NoPoll]]
    /\ UNCHANGED <<data, unsent, upgrade, upgrades>>

-----------------------------------------------------------------------------
Scopes == {Nodes} \cup {{n} : n \in Nodes}

Announce(c) ==
    \/ \E n \in Nodes : PushConfig(c, n)
    \/ PushEnds(c)
    \/ change[c].scope = Nodes /\ PushConfigToAll(c)
    \/ Debounce(c)

Flush(f) ==
    \/ \E n \in Nodes : FlushNode(f, n)
    \/ FlushedNode(f)
    \/ FlushEnds(f)

Serve(l) == Register(l) \/ DispatchQueued(l) \/ Admit(l) \/ FirstPush(l)

HandlePoll(h) == TakeOver(h) \/ AskDesired(h) \/ GetDesired(h) \/ Discard(h)

Next ==
    \/ \E c \in Changes : (\E S \in Scopes : Commit(c, S)) \/ Announce(c) \/ Flush(c)
    \/ StartFlush
    \/ \E k \in Callers : BuildAgain(k) \/ PushFails(k)
    \/ \E l \in Links : Serve(l) \/ HandleDisconnect(l) \/ Break(l)
    \/ \E h \in Polls : HandlePoll(h) \/ PollFails(h)
    \/ \E n \in Nodes :
          \/ \E l \in Links : Dial(n, l)
          \/ \E h \in Polls : SendPoll(n, h)
          \/ Read(n) \/ HangUp(n) \/ Receive(n)
          \/ RequestUpgrade(n) \/ Minute(n)
          \/ Timeout(n) \/ \E mode \in {"WS", "HTTP"} : AgentRestarts(n, mode)
    \/ MasterRestarts

\* Pending promises and timers are run, agents keep dialling, reading and
\* polling.  Changes, upgrades and faults happen or not.
Fairness ==
    /\ \A c \in Changes : WF_vars(Announce(c)) /\ WF_vars(Flush(c))
    /\ WF_vars(StartFlush)
    /\ \A k \in Callers : WF_vars(BuildAgain(k))
    /\ \A l \in Links : WF_vars(Serve(l)) /\ WF_vars(HandleDisconnect(l))
    /\ \A h \in Polls : WF_vars(HandlePoll(h))
    /\ \A n \in Nodes :
          /\ WF_vars(\E l \in Links : Dial(n, l))
          /\ WF_vars(\E h \in Polls : SendPoll(n, h))
          /\ WF_vars(Read(n))
          /\ WF_vars(HangUp(n))
          /\ WF_vars(Receive(n))

Spec == Init /\ [][Next]_vars

LiveSpec == Spec /\ Fairness

-----------------------------------------------------------------------------
\* A cached configuration contains every change announced for its node: no build
\* that began before an invalidation enters the cache after it
\* (getDesiredConfigSync).
CacheIsCurrent == \A n \in Nodes : cache[n] # NoConfig => known[n] \subseteq cache[n]

\* A caller of pushConfig or pushConfigToAll is answered only when every node it
\* concerns that has finished connecting has been sent a configuration with its
\* change, or the last push to it failed: a flush underway when the call comes
\* does not answer it.
AnsweredAfterPush ==
    \A c \in Changes, n \in Nodes :
        LET l == sockets[n]
        IN change[c].step = "answered" /\ n \in change[c].scope \ unsent /\ l # NoLink =>
              \/ link[l].stage # "admitted"
              \/ Building(l)
              \/ c \in link[l].sent

\* The master never keeps open a connection it does not deliver to and whose
\* messages it drops: a connection that is served is the current one of its node.
ServedIsCurrent ==
    \A l \in Links :
        link[l].open /\ link[l].stage \in {"registering", "dispatching", "admitted"}
            => sockets[link[l].node] = l

\* The first frame an agent reads is auth_result (runOnce).
AuthResultComesFirst ==
    \A n \in Nodes :
        LET l == agent[n].link
        IN l # NoLink /\ ~agent[n].authed /\ link[l].wire # <<>>
            => Head(link[l].wire).type = "auth_result"

\* Every call is answered, unless the process ends first.
CallersAnswered ==
    \A c \in Changes :
        change[c].step = "committed" ~> change[c].step \in {"answered", "lost"}

\* What an agent is given is never older than what it had, and once changes and
\* faults stop it is the latest, over both transports and across replaced
\* connections; a push over a WebSocket whose build failed is not tried again.
Replica == INSTANCE Replicas WITH
    latest <- data,
    held <- [n \in Nodes |-> agent[n].got],
    givenUp <- {n \in unsent : agent[n].mode = "WS"}

Delivers == Replica!Spec

=============================================================================
