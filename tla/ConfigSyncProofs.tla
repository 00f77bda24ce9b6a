--------------------------- MODULE ConfigSyncProofs ---------------------------
(***************************************************************************)
(* Proofs about ConfigSync, for any nodes, changes, connections and polls  *)
(* and any number of faults and upgrades.  The cache and the callers'      *)
(* answers rest on the revision barrier: a build whose revision is still   *)
(* the current one has seen everything that has been announced.            *)
(***************************************************************************)
EXTENDS ConfigSync, TLAPS

BarrierType ==
    /\ data \in [Nodes -> Configs]
    /\ cache \in [Nodes -> {NoConfig} \cup Configs]
    /\ build \in [Callers -> Builds]
    /\ known \in [Nodes -> Configs]

\* A handler that has begun has a node.
NodesOK ==
    /\ \A l \in Links : link[l].stage # "closed" => link[l].node \in Nodes
    /\ \A h \in Polls : poll[h].step # "idle" => poll[h].node \in Nodes

TypeInv == TypeOK /\ NodesOK

-----------------------------------------------------------------------------
\* What the operators of the specification return.

LEMMA NewBuildType ==
    ASSUME TypeOK, NEW n \in Nodes
    PROVE  NewBuild(n) \in Builds
BY DEF TypeOK, NewBuild, Builds, Configs

LEMMA StaleType ==
    ASSUME TypeOK
    PROVE  /\ Stale \in [Callers -> Builds]
           /\ \A k \in Callers : Stale[k].node = build[k].node /\ Stale[k].fresh = FALSE
BY ZenonT(40) DEF TypeOK, Stale, Builds

LEMMA InvalidateType ==
    ASSUME TypeOK, NEW S, Invalidate(S)
    PROVE  /\ data' \in [Nodes -> Configs]
           /\ cache' \in [Nodes -> {NoConfig} \cup Configs]
           /\ known' \in [Nodes -> Configs]
BY DEF TypeOK, Invalidate, Cleared

LEMMA StartPushType ==
    ASSUME TypeOK, NEW k \in Callers, NEW n \in Nodes, StartPush(k, n)
    PROVE  BarrierType'
<1>1. build' \in [Callers -> Builds]
  BY NewBuildType, StaleType DEF StartPush
<1> QED
  BY <1>1, InvalidateType DEF StartPush, BarrierType

LEMMA DesiredType ==
    ASSUME TypeOK, NEW k \in Callers, Resolve(k)
    PROVE  Desired(k) \in Configs /\ build[k].node \in Nodes
BY DEF TypeOK, Resolve, Desired, Building, Builds

LEMMA ResolveType ==
    ASSUME TypeOK, NEW k \in Callers, Resolve(k)
    PROVE  BarrierType'
<1>1. NoBuild \in Builds
  BY DEF NoBuild, Builds, Configs
<1> QED
  BY <1>1, DesiredType DEF TypeOK, Resolve, BarrierType

LEMMA SentType ==
    ASSUME TypeOK, NEW l \in Links, NEW frame \in Frames
    PROVE  /\ Sent(l, frame) \in [Links -> Connections]
           /\ \A m \in Links : /\ Sent(l, frame)[m].node = link[m].node
                               /\ Sent(l, frame)[m].stage = link[m].stage
                               /\ Sent(l, frame)[m].open = link[m].open
                               /\ Sent(l, frame)[m].missed = link[m].missed
<1>1. link[l] \in Connections /\ frame.config \in Configs
  BY DEF TypeOK, Frames
<1>2. [link[l] EXCEPT !.wire = IF link[l].open THEN Append(@, frame) ELSE @,
                      !.sent = IF frame.type = "config_sync" THEN frame.config ELSE @]
        \in Connections
  <2>1. Append(link[l].wire, frame) \in Seq(Frames)
    BY <1>1 DEF Connections
  <2> QED
    BY <1>1, <2>1 DEF Connections
<1> QED
  BY <1>1, <1>2 DEF TypeOK, Sent, Connections

\* What an update of a record returns; the records stay folded in the proofs below.

LEMMA ConnectionUpdates ==
    \A x \in Connections :
        /\ [x EXCEPT !.open = FALSE] \in Connections
        /\ [x EXCEPT !.open = FALSE].node = x.node
        /\ [x EXCEPT !.open = FALSE].stage = x.stage
        /\ [x EXCEPT !.missed = TRUE] \in Connections
        /\ [x EXCEPT !.missed = TRUE].node = x.node
        /\ [x EXCEPT !.missed = TRUE].stage = x.stage
        /\ \A w \in Seq(Frames) :
              /\ [x EXCEPT !.wire = w] \in Connections
              /\ [x EXCEPT !.wire = w].node = x.node
              /\ [x EXCEPT !.wire = w].stage = x.stage
              /\ [x EXCEPT !.open = FALSE, !.wire = w] \in Connections
              /\ [x EXCEPT !.open = FALSE, !.wire = w].node = x.node
              /\ [x EXCEPT !.open = FALSE, !.wire = w].stage = x.stage
        /\ \A s \in {"registering", "dispatching", "admitted"} :
              /\ [x EXCEPT !.stage = s] \in Connections
              /\ [x EXCEPT !.stage = s].node = x.node
BY DEF Connections

LEMMA LinkUpdate ==
    ASSUME NEW f \in [Links -> Connections], NEW l \in Links, NEW x \in Connections
    PROVE  /\ [f EXCEPT ![l] = x] \in [Links -> Connections]
           /\ [f EXCEPT ![l] = x][l] = x
           /\ \A m \in Links \ {l} : [f EXCEPT ![l] = x][m] = f[m]
OBVIOUS

LEMMA EmptyWire == <<>> \in Seq(Frames)
OBVIOUS

LEMMA AgentUpdates ==
    \A x \in Agents :
        /\ [x EXCEPT !.authed = TRUE] \in Agents
        /\ [x EXCEPT !.link = NoLink] \in Agents
        /\ [x EXCEPT !.link = NoLink, !.authed = FALSE] \in Agents
        /\ \A l \in Links : [x EXCEPT !.link = l] \in Agents
        /\ \A h \in Polls \cup {NoPoll} : [x EXCEPT !.awaiting = h] \in Agents
BY DEF Agents

LEMMA PollUpdates ==
    \A x \in PollHandlers :
        /\ [x EXCEPT !.step = "working"] \in PollHandlers
        /\ [x EXCEPT !.step = "working"].step = "working"
        /\ [x EXCEPT !.step = "working"].node = x.node
        /\ [x EXCEPT !.step = "working"].desired = x.desired
BY DEF PollHandlers

LEMMA AnnouncementUpdates ==
    \A x \in Announcements :
        /\ [x EXCEPT !.step = "settings"] \in Announcements
        /\ [x EXCEPT !.step = "settings"].step = "settings"
        /\ [x EXCEPT !.step = "settings"].scope = x.scope
        /\ [x EXCEPT !.step = "waiting"] \in Announcements
        /\ [x EXCEPT !.step = "waiting"].step = "waiting"
        /\ [x EXCEPT !.step = "waiting"].scope = x.scope
        /\ [x EXCEPT !.step = "pushing"] \in Announcements
        /\ [x EXCEPT !.step = "pushing"].step = "pushing"
        /\ [x EXCEPT !.step = "pushing"].scope = x.scope
        /\ [x EXCEPT !.step = "answered"] \in Announcements
        /\ [x EXCEPT !.step = "answered"].step = "answered"
        /\ [x EXCEPT !.step = "answered"].scope = x.scope
BY DEF Announcements

LEMMA FlushUpdates ==
    \A x \in Flushes :
        /\ \A w \in SUBSET Changes : [x EXCEPT !.waiters = w] \in Flushes
        /\ \A n \in Nodes :
              /\ [x EXCEPT !.visited = @ \cup {n}] \in Flushes
              /\ [x EXCEPT !.visited = @ \ {n}, !.again = @ \cup {n}] \in Flushes
              /\ [x EXCEPT !.visited = @ \ {n}, !.again = @ \cup {n}].waiters = x.waiters
              /\ [x EXCEPT !.visited = @ \ {n}, !.again = @ \cup {n}].visited = x.visited \ {n}
BY DEF Flushes

LEMMA FrameType ==
    /\ Frame("auth_result") \in Frames
    /\ Frame("upgrade_task") \in Frames
    /\ \A config \in Configs : ConfigFrame(config) \in Frames
BY DEF Frame, ConfigFrame, Frames, Configs

LEMMA FinishPushType ==
    ASSUME TypeInv, NEW k \in Callers, FinishPush(k), change' \in [Changes -> Announcements]
    PROVE  TypeInv'
<1>1. BarrierType'
  BY ResolveType DEF FinishPush, TypeInv
<1>2. Desired(k) \in Configs /\ build[k].node \in Nodes
  BY DesiredType DEF FinishPush, TypeInv
<1>3. /\ link' \in [Links -> Connections]
      /\ \A m \in Links : link'[m].node = link[m].node /\ link'[m].stage = link[m].stage
  <2>1. CASE sockets[build[k].node] = NoLink
    BY <2>1, <1>2 DEF FinishPush, TypeInv, TypeOK
  <2>2. CASE sockets[build[k].node] # NoLink
    <3>1. sockets[build[k].node] \in Links
      BY <2>2, <1>2 DEF TypeInv, TypeOK
    <3>2. ConfigFrame(Desired(k)) \in Frames
      BY <1>2, FrameType
    <3> QED
      BY <2>2, <3>1, <3>2, SentType DEF FinishPush, TypeInv
  <2> QED
    BY <2>1, <2>2
<1>4. unsent' \subseteq Nodes
  BY DEF FinishPush, TypeInv, TypeOK
<1>5. UNCHANGED <<sockets, timer, flush, poll, agent, upgrade, upgrades, faults>>
  BY DEF FinishPush, bounds
<1>6. TypeOK'
  BY <1>1, <1>3, <1>4, <1>5 DEF BarrierType, TypeInv, TypeOK
<1> QED
  BY <1>3, <1>5, <1>6 DEF TypeInv, NodesOK

LEMMA AppliesType ==
    ASSUME TypeOK, NEW n \in Nodes, NEW config \in Configs, NEW done \in Agents,
           Applies(n, config, done)
    PROVE  agent' \in [Nodes -> Agents] /\ faults' \in 0 .. MaxFaults
<1>1. /\ [done EXCEPT !.got = config, !.applied = config] \in Agents
      /\ [done EXCEPT !.got = config] \in Agents
  BY DEF Agents
<1>2. agent' \in [Nodes -> Agents]
  BY <1>1 DEF TypeOK, Applies
<1>3. faults' \in 0 .. MaxFaults
  BY BoundsAssumption DEF TypeOK, Applies, Fault, BoundsAssumption
<1> QED
  BY <1>2, <1>3

LEMMA FaultType ==
    ASSUME TypeOK, Fault
    PROVE  faults' \in 0 .. MaxFaults
BY BoundsAssumption DEF TypeOK, Fault, BoundsAssumption

-----------------------------------------------------------------------------
\* Types.

LEMMA InitTypeInv == Init => TypeInv
<1> SUFFICES ASSUME Init PROVE TypeInv
  OBVIOUS
<1>1. BarrierType
  BY DEF Init, BarrierType, NoBuild, Builds, Configs
<1>2. change \in [Changes -> Announcements] /\ flush \in [Changes -> Flushes]
  BY DEF Init, NoAnnouncement, Announcements, NoFlush, Flushes
<1>3. link \in [Links -> Connections]
  BY DEF Init, Closed, Connections, Frames, Configs
<1>4. poll \in [Polls -> PollHandlers]
  BY DEF Init, IdlePoll, PollHandlers
<1>5. agent \in [Nodes -> Agents]
  <2>1. FreshAgent("WS") \in Agents /\ FreshAgent("HTTP") \in Agents
    BY DEF FreshAgent, Agents, Configs
  <2> QED
    BY <2>1 DEF Init
<1>6. TypeOK
  BY <1>1, <1>2, <1>3, <1>4, <1>5, BoundsAssumption
     DEF Init, BarrierType, TypeOK, IdlePoll, BoundsAssumption
<1> QED
  BY <1>6 DEF Init, TypeInv, NodesOK, Closed, IdlePoll

LEMMA NextTypeInv == TypeInv /\ [Next]_vars => TypeInv'
<1> SUFFICES ASSUME TypeInv, [Next]_vars PROVE TypeInv'
  OBVIOUS
<1> USE DEF TypeInv
<1>1. CASE \E c \in Changes, S \in Scopes : Commit(c, S)
  <2>0. PICK c \in Changes, S \in Scopes : Commit(c, S)
    BY <1>1
  <2>1. S \subseteq Nodes
    BY DEF Scopes
  <2>2. data' \in [Nodes -> Configs]
    BY <2>0 DEF Commit, TypeOK, Configs
  <2>3. change' \in [Changes -> Announcements]
    BY <2>0, <2>1 DEF Commit, TypeOK, Announcements
  <2> QED
    BY <2>0, <2>2, <2>3 DEF Commit, TypeOK, NodesOK, wires, bounds
<1>2. CASE \E c \in Changes, n \in Nodes : PushConfig(c, n)
  <2>0. PICK c \in Changes, n \in Nodes : PushConfig(c, n)
    BY <1>2
  <2>1. BarrierType'
    BY <2>0, StartPushType DEF PushConfig, Callers
  <2>2. change' \in [Changes -> Announcements]
    BY <2>0 DEF PushConfig, TypeOK, Announcements
  <2> QED
    BY <2>0, <2>1, <2>2 DEF PushConfig, BarrierType, TypeOK, NodesOK, wires, bounds
<1>3. CASE \E c \in Changes : PushEnds(c)
  <2>0. PICK c \in Changes : PushEnds(c)
    BY <1>3
  <2>1. change' \in [Changes -> Announcements]
    BY <2>0 DEF PushEnds, TypeOK, Announcements
  <2> QED
    BY <2>0, <2>1, FinishPushType DEF PushEnds, Callers
<1>4. CASE \E c \in Changes : PushConfigToAll(c)
  <2>0. PICK c \in Changes : PushConfigToAll(c)
    BY <1>4
  <2>1. BarrierType'
    BY <2>0, InvalidateType, StaleType DEF PushConfigToAll, BarrierType
  <2>2. change' \in [Changes -> Announcements]
    BY <2>0 DEF PushConfigToAll, TypeOK, Announcements
  <2> QED
    BY <2>0, <2>1, <2>2 DEF PushConfigToAll, BarrierType, TypeOK, NodesOK, wires, bounds
<1>5. CASE \E c \in Changes : Debounce(c)
  <2>0. PICK c \in Changes : Debounce(c)
    BY <1>5
  <2>1. change' \in [Changes -> Announcements]
    BY <2>0 DEF Debounce, TypeOK, Announcements
  <2> QED
    BY <2>0, <2>1 DEF Debounce, TypeOK, NodesOK, barrier, wires, bounds
<1>6. CASE StartFlush
  <2>1. change' \in [Changes -> Announcements]
    BY SMTT(30), <1>6 DEF StartFlush, TypeOK, Announcements
  <2>2. Waiting \in SUBSET Changes
    BY DEF Waiting
  <2>3. flush' \in [Changes -> Flushes]
    BY <1>6, <2>2, FlushUpdates DEF StartFlush, TypeOK
  <2> QED
    BY <1>6, <2>1, <2>3 DEF StartFlush, TypeOK, NodesOK, barrier, wires, bounds
<1>7. CASE \E f \in Changes, n \in Nodes : FlushNode(f, n)
  <2>0. PICK f \in Changes, n \in Nodes : FlushNode(f, n)
    BY <1>7
  <2>1. BarrierType'
    BY <2>0, StartPushType DEF FlushNode, Callers
  <2>2. flush' \in [Changes -> Flushes]
    BY <2>0, FlushUpdates DEF FlushNode, TypeOK
  <2> QED
    BY <2>0, <2>1, <2>2 DEF FlushNode, BarrierType, TypeOK, NodesOK, wires, bounds
<1>8. CASE \E f \in Changes : FlushedNode(f)
  <2>0. PICK f \in Changes : FlushedNode(f)
    BY <1>8
  <2>1. change' \in [Changes -> Announcements]
    BY <2>0 DEF FlushedNode, TypeOK
  <2> QED
    BY <2>0, <2>1, FinishPushType DEF FlushedNode, Callers
<1>9. CASE \E f \in Changes : FlushEnds(f)
  <2>0. PICK f \in Changes : FlushEnds(f)
    BY <1>9
  <2>1. change' \in [Changes -> Announcements]
    BY <2>0 DEF FlushEnds, TypeOK, Announcements
  <2>2. flush' \in [Changes -> Flushes]
    BY <2>0 DEF FlushEnds, NoFlush, TypeOK, Flushes
  <2> QED
    BY <2>0, <2>1, <2>2 DEF FlushEnds, TypeOK, NodesOK, barrier, wires, bounds
<1>10. CASE \E k \in Callers : BuildAgain(k)
  <2>0. PICK k \in Callers : BuildAgain(k)
    BY <1>10
  <2>1. build[k].node \in Nodes
    BY <2>0 DEF BuildAgain, Building, TypeOK, Builds
  <2>2. build' \in [Callers -> Builds]
    BY <2>0, <2>1, NewBuildType DEF BuildAgain, TypeOK
  <2> QED
    BY <2>0, <2>2 DEF BuildAgain, TypeOK, NodesOK, calls, wires, bounds
<1>11. CASE \E k \in Callers : PushFails(k)
  <2>0. PICK k \in Callers : PushFails(k)
    BY <1>11
  <2>1. build[k].node \in Nodes
    BY <2>0 DEF PushFails, Building, TypeOK, Builds
  <2>2. build' \in [Callers -> Builds]
    BY <2>0 DEF PushFails, TypeOK, NoBuild, Builds, Configs
  <2>3. change' \in [Changes -> Announcements]
    BY <2>0 DEF PushFails, TypeOK, Announcements
  <2>4. faults' \in 0 .. MaxFaults
    BY <2>0, FaultType DEF PushFails
  <2> QED
    BY <2>0, <2>1, <2>2, <2>3, <2>4 DEF PushFails, TypeOK, NodesOK
<1>12. CASE \E l \in Links : Register(l)
  <2>0. PICK l \in Links : Register(l)
    BY <1>12
  <2>1. link[l].node \in Nodes
    BY <2>0 DEF Register, NodesOK
  <2>2. sockets' \in [Nodes -> Links \cup {NoLink}]
    BY <2>0, <2>1 DEF Register, TypeOK
  <2>3. /\ link' \in [Links -> Connections]
        /\ \A m \in Links :
              link'[m].node = link[m].node /\ (link'[m].stage = link[m].stage \/ m = l)
    BY <2>0, ConnectionUpdates DEF Register, TypeOK
  <2> QED
    BY <2>0, <2>1, <2>2, <2>3 DEF Register, TypeOK, NodesOK, barrier, calls, bounds
<1>13. CASE \E l \in Links : DispatchQueued(l)
  <2>0. PICK l \in Links : DispatchQueued(l)
    BY <1>13
  <2>1. link[l].node \in Nodes
    BY <2>0 DEF DispatchQueued, NodesOK
  <2>2. upgrade' \in [Nodes -> {"none", "due", "recent"}]
    BY <2>0, <2>1 DEF DispatchQueued, TypeOK
  <2>3. PICK dispatched :
          /\ dispatched \in [Links -> Connections]
          /\ \A m \in Links : dispatched[m].node = link[m].node
                               /\ dispatched[m].stage = link[m].stage
          /\ link' = [dispatched EXCEPT ![l].stage = "dispatching"]
    <3>1. CASE upgrade[link[l].node] = "due" /\ sockets[link[l].node] # NoLink
      <4>1. sockets[link[l].node] \in Links
        BY <2>1, <3>1 DEF TypeOK
      <4>2. link' = [Sent(sockets[link[l].node], Frame("upgrade_task"))
                       EXCEPT ![l].stage = "dispatching"]
        BY <2>0, <3>1 DEF DispatchQueued
      <4>3. PICK sent \in [Links -> Connections] :
              /\ sent = Sent(sockets[link[l].node], Frame("upgrade_task"))
              /\ \A m \in Links : sent[m].node = link[m].node /\ sent[m].stage = link[m].stage
        BY <4>1, SentType, FrameType
      <4> QED
        BY <4>2, <4>3
    <3>2. CASE ~(upgrade[link[l].node] = "due" /\ sockets[link[l].node] # NoLink)
      BY <2>0, <3>2 DEF DispatchQueued, TypeOK
    <3> QED
      BY <3>1, <3>2
  <2>4. /\ link' \in [Links -> Connections]
        /\ \A m \in Links :
              link'[m].node = link[m].node /\ (link'[m].stage = link[m].stage \/ m = l)
    BY SMTT(30), <2>3 DEF Connections
  <2> QED
    BY <2>0, <2>1, <2>2, <2>4 DEF DispatchQueued, TypeOK, NodesOK, barrier, calls, bounds
<1>14. CASE \E l \in Links : Admit(l)
  <2>0. PICK l \in Links : Admit(l)
    BY <1>14
  <2>1. link[l].node \in Nodes
    BY <2>0 DEF Admit, NodesOK
  <2>2. BarrierType'
    BY <2>0, <2>1, StartPushType DEF Admit, Callers
  <2>3. /\ link' \in [Links -> Connections]
        /\ \A m \in Links :
              link'[m].node = link[m].node /\ (link'[m].stage = link[m].stage \/ m = l)
    <3>1. link' = [Sent(l, Frame("auth_result")) EXCEPT ![l].stage = "admitted"]
      BY <2>0 DEF Admit
    <3>2. PICK sent \in [Links -> Connections] :
            /\ sent = Sent(l, Frame("auth_result"))
            /\ \A m \in Links : sent[m].node = link[m].node /\ sent[m].stage = link[m].stage
      BY SentType, FrameType
    <3>3. link' = [sent EXCEPT ![l] = [sent[l] EXCEPT !.stage = "admitted"]]
      BY <3>1, <3>2
    <3>4. PICK x \in Connections : x = [sent[l] EXCEPT !.stage = "admitted"]
                                   /\ x.node = link[l].node
      <4>1. sent[l] \in Connections /\ sent[l].node = link[l].node
        BY <3>2
      <4>2. /\ [sent[l] EXCEPT !.stage = "admitted"] \in Connections
            /\ [sent[l] EXCEPT !.stage = "admitted"].node = sent[l].node
        BY <4>1 DEF Connections
      <4> QED
        BY <4>1, <4>2
    <3> QED
      BY <3>2, <3>3, <3>4, LinkUpdate
  <2> QED
    BY <2>0, <2>1, <2>2, <2>3 DEF Admit, BarrierType, TypeOK, NodesOK, calls, bounds
<1>15. CASE \E l \in Links : FirstPush(l)
  <2>0. PICK l \in Links : FirstPush(l)
    BY <1>15
  <2>1. change' \in [Changes -> Announcements]
    BY <2>0 DEF FirstPush, TypeOK
  <2> QED
    BY <2>0, <2>1, FinishPushType DEF FirstPush, Callers
<1>16. CASE \E l \in Links : HandleDisconnect(l)
  <2>0. PICK l \in Links : HandleDisconnect(l)
    BY <1>16
  <2>1. link[l].node \in Nodes
    BY <2>0 DEF HandleDisconnect, NodesOK
  <2>2. link[l].wire \in Seq(Frames)
    BY DEF TypeOK, Connections
  <2>3. [Closed EXCEPT !.wire = link[l].wire] \in Connections
    BY <2>2 DEF Closed, Connections, Configs
  <2>4. /\ link' \in [Links -> Connections]
        /\ \A m \in Links : link'[m].stage # "closed" =>
              link'[m].node = link[m].node /\ link[m].stage # "closed"
    <3>1. CASE link' = [link EXCEPT ![l] = [Closed EXCEPT !.wire = link[l].wire]]
      BY <2>3, <3>1 DEF Closed, TypeOK
    <3>2. CASE link' = [link EXCEPT ![l] = [link[l] EXCEPT !.missed = TRUE]]
      <4>1. PICK x \in Connections : x = [link[l] EXCEPT !.missed = TRUE]
                                     /\ x.node = link[l].node /\ x.stage = link[l].stage
        BY ConnectionUpdates DEF TypeOK
      <4> QED
        BY <3>2, <4>1, LinkUpdate DEF TypeOK
    <3> QED
      BY <2>0, <3>1, <3>2 DEF HandleDisconnect
  <2>5. Revisited(link[l].node) \in [Changes -> Flushes]
    BY <2>1, FlushUpdates DEF Revisited, TypeOK
  <2>6. flush' \in [Changes -> Flushes] /\ sockets' \in [Nodes -> Links \cup {NoLink}]
    BY <2>0, <2>5 DEF HandleDisconnect, TypeOK
  <2> QED
    BY <2>0, <2>4, <2>6 DEF HandleDisconnect, TypeOK, NodesOK, barrier, bounds
<1>17. CASE \E h \in Polls : TakeOver(h)
  <2>0. PICK h \in Polls : TakeOver(h)
    BY <1>17
  <2>1. poll[h].node \in Nodes
    BY <2>0 DEF TakeOver, NodesOK
  <2>2. /\ link' \in [Links -> Connections]
        /\ \A m \in Links : link'[m].node = link[m].node /\ link'[m].stage = link[m].stage
    <3>1. CASE sockets[poll[h].node] = NoLink
      BY <2>0, <3>1 DEF TakeOver, TypeOK
    <3>2. CASE sockets[poll[h].node] # NoLink
      <4>1. PICK l \in Links : l = sockets[poll[h].node]
        BY <2>1, <3>2 DEF TypeOK
      <4>2. PICK x \in Connections : x = [link[l] EXCEPT !.open = FALSE]
                                     /\ x.node = link[l].node /\ x.stage = link[l].stage
        BY ConnectionUpdates DEF TypeOK
      <4>3. link' = [link EXCEPT ![l] = x]
        BY <2>0, <3>2, <4>1, <4>2 DEF TakeOver
      <4> QED
        BY <4>2, <4>3, LinkUpdate DEF TypeOK
    <3> QED
      BY <3>1, <3>2
  <2>3. Revisited(poll[h].node) \in [Changes -> Flushes]
    BY <2>1, FlushUpdates DEF Revisited, TypeOK
  <2>4. flush' \in [Changes -> Flushes] /\ sockets' \in [Nodes -> Links \cup {NoLink}]
    BY <2>0, <2>3 DEF TakeOver, TypeOK
  <2>5. /\ poll' \in [Polls -> PollHandlers]
        /\ \A g \in Polls : /\ poll'[g].node = poll[g].node
                            /\ poll'[g].desired = poll[g].desired
                            /\ poll'[g].step = (IF g = h THEN "working" ELSE poll[g].step)
    <3>1. PICK x \in PollHandlers : /\ x = [poll[h] EXCEPT !.step = "working"]
                                    /\ x.node = poll[h].node /\ x.step = "working"
                                    /\ x.desired = poll[h].desired
      <4>1. poll[h] \in PollHandlers
        BY DEF TypeOK
      <4> QED
        BY <4>1, PollUpdates
    <3>2. poll' = [poll EXCEPT ![h] = x]
      BY <2>0, <3>1 DEF TakeOver
    <3>3. poll' \in [Polls -> PollHandlers] /\ poll'[h] = x
      BY <3>1, <3>2 DEF TypeOK
    <3>4. \A g \in Polls : g # h => poll'[g] = poll[g]
      BY <3>2 DEF TypeOK
    <3> QED
      BY <3>1, <3>3, <3>4
  <2> QED
    BY <2>0, <2>1, <2>2, <2>4, <2>5 DEF TakeOver, TypeOK, NodesOK, barrier, bounds
<1>18. CASE \E h \in Polls : AskDesired(h)
  <2>0. PICK h \in Polls : AskDesired(h)
    BY <1>18
  <2>1. poll[h].node \in Nodes
    BY <2>0 DEF AskDesired, NodesOK
  <2>2. build' \in [Callers -> Builds]
    BY <2>0, <2>1, NewBuildType DEF AskDesired, TypeOK, Callers
  <2>3. cache[poll[h].node] \in {NoConfig} \cup Configs
    BY <2>1 DEF TypeOK
  <2>4. /\ poll' \in [Polls -> PollHandlers]
        /\ \A g \in Polls :
              /\ poll'[g].node = poll[g].node
              /\ g # h => poll'[g] = poll[g]
              /\ poll'[h].step = "answer" => poll'[h].desired # NoConfig
    BY <2>0, <2>3 DEF AskDesired, Cached, TypeOK, PollHandlers
  <2> QED
    BY <2>0, <2>1, <2>2, <2>4 DEF AskDesired, TypeOK, NodesOK, calls, wires, bounds
<1>19. CASE \E h \in Polls : GetDesired(h)
  <2>0. PICK h \in Polls : GetDesired(h)
    BY <1>19
  <2>1. BarrierType' /\ Desired(h) \in Configs /\ Desired(h) # NoConfig
    BY <2>0, ResolveType, DesiredType DEF GetDesired, Resolve, Callers
  <2>2. /\ poll' \in [Polls -> PollHandlers]
        /\ \A g \in Polls : g # h => poll'[g] = poll[g]
        /\ poll'[h].node = poll[h].node /\ poll'[h].desired # NoConfig
    BY ZenonT(40), <2>0, <2>1 DEF GetDesired, TypeOK, PollHandlers
  <2> QED
    <3>1. UNCHANGED <<change, timer, flush, sockets, link, unsent, agent, upgrade,
                      upgrades, faults>>
      BY <2>0 DEF GetDesired, calls, wires, bounds
    <3>2. TypeOK'
      BY <2>1, <2>2, <3>1 DEF BarrierType, TypeOK
    <3>3. poll[h].node \in Nodes
      <4>1. poll[h].step # "idle"
        BY <2>0 DEF GetDesired
      <4> QED
        BY <4>1 DEF NodesOK
    <3> QED
      BY <2>2, <3>1, <3>2, <3>3 DEF NodesOK
<1>20. CASE \E h \in Polls : Discard(h)
  <2>0. PICK h \in Polls : Discard(h)
    BY <1>20
  <2>1. poll' \in [Polls -> PollHandlers]
    BY <2>0 DEF Discard, IdlePoll, TypeOK, PollHandlers
  <2> QED
    BY <2>0, <2>1 DEF Discard, IdlePoll, TypeOK, NodesOK, barrier, calls, wires, bounds
<1>21. CASE \E h \in Polls : PollFails(h)
  <2>0. PICK h \in Polls : PollFails(h)
    BY <1>21
  <2>1. poll' \in [Polls -> PollHandlers]
    BY <2>0 DEF PollFails, IdlePoll, TypeOK, PollHandlers
  <2>2. build' \in [Callers -> Builds]
    BY <2>0 DEF PollFails, TypeOK, NoBuild, Builds, Configs
  <2>3. agent' \in [Nodes -> Agents]
    BY <2>0, AgentUpdates DEF PollFails, TypeOK
  <2>4. faults' \in 0 .. MaxFaults
    BY <2>0, FaultType DEF PollFails
  <2> QED
    BY <2>0, <2>1, <2>2, <2>3, <2>4
       DEF PollFails, IdlePoll, TypeOK, NodesOK, calls, wires
<1>22. CASE \E n \in Nodes, l \in Links : Dial(n, l)
  <2>0. PICK n \in Nodes, l \in Links : Dial(n, l)
    BY <1>22
  <2>1. Connect(l, n) \in Connections
    BY DEF Connect, Connections, Frames, Configs
  <2>2. link' \in [Links -> Connections]
    BY <2>0, <2>1 DEF Dial, TypeOK
  <2>3. agent' \in [Nodes -> Agents]
    BY <2>0, AgentUpdates DEF Dial, TypeOK
  <2> QED
    BY <2>0, <2>2, <2>3 DEF Dial, Connect, TypeOK, NodesOK, barrier, calls, bounds
<1>2a. CASE \E n \in Nodes : Read(n)
  <2>0. PICK n \in Nodes : Read(n)
    BY <1>2a
  <2>1. PICK l \in Links : l = agent[n].link
    BY <2>0 DEF Read, TypeOK, Agents
  <2>2. link[l].wire \in Seq(Frames) /\ link[l].wire # <<>>
    BY <2>0, <2>1 DEF Read, TypeOK, Connections
  <2>3. Head(link[l].wire) \in Frames /\ Tail(link[l].wire) \in Seq(Frames)
    BY <2>2
  <2>4. PICK config \in Configs : config = Head(link[l].wire).config
    BY <2>3 DEF Frames
  <2>5. agent' \in [Nodes -> Agents] /\ faults' \in 0 .. MaxFaults
    <3>1. \/ Applies(n, config, agent[n])
          \/ agent' = agent /\ faults' = faults
          \/ agent' = [agent EXCEPT ![n].authed = TRUE] /\ faults' = faults
          \/ agent' = [agent EXCEPT ![n].link = NoLink] /\ faults' = faults
      BY <2>0, <2>1, <2>4 DEF Read
    <3>2. agent[n] \in Agents
      BY DEF TypeOK
    <3>3. CASE Applies(n, config, agent[n])
      BY <3>2, <3>3, AppliesType
    <3> QED
      BY <3>1, <3>2, <3>3, AgentUpdates DEF TypeOK
  <2>6. \/ link' = [link EXCEPT ![l].wire = Tail(@)]
        \/ link' = [link EXCEPT ![l].open = FALSE, ![l].wire = <<>>]
    BY <2>0, <2>1 DEF Read
  <2>7. /\ link' \in [Links -> Connections]
        /\ \A m \in Links : link'[m].node = link[m].node /\ link'[m].stage = link[m].stage
    <3>1. PICK x \in Connections : /\ x.node = link[l].node /\ x.stage = link[l].stage
                                   /\ link' = [link EXCEPT ![l] = x]
      <4>1. link[l] \in Connections
        BY DEF TypeOK
      <4>2. CASE link' = [link EXCEPT ![l].wire = Tail(@)]
        BY <2>3, <4>1, <4>2, ConnectionUpdates
      <4>3. CASE link' = [link EXCEPT ![l].open = FALSE, ![l].wire = <<>>]
        BY <4>1, <4>3, ConnectionUpdates, EmptyWire DEF TypeOK
      <4> QED
        BY <2>6, <4>2, <4>3
    <3> QED
      BY <3>1, LinkUpdate DEF TypeOK
  <2>8. upgrade' \in [Nodes -> {"none", "due", "recent"}]
    BY <2>0 DEF Read, TypeOK
  <2> QED
    BY <2>0, <2>5, <2>7, <2>8 DEF Read, TypeOK, NodesOK, barrier, calls
<1>24. CASE \E n \in Nodes : HangUp(n)
  <2>0. PICK n \in Nodes : HangUp(n)
    BY <1>24
  <2>1. agent' \in [Nodes -> Agents]
    BY <2>0, AgentUpdates DEF HangUp, TypeOK
  <2>2. /\ link' \in [Links -> Connections]
        /\ \A m \in Links : link'[m].node = link[m].node /\ link'[m].stage = link[m].stage
    <3>1. PICK l \in Links : l = agent[n].link
      BY <2>0 DEF HangUp, TypeOK, Agents
    <3>2. PICK x \in Connections : x = [link[l] EXCEPT !.wire = <<>>]
                                   /\ x.node = link[l].node /\ x.stage = link[l].stage
      <4>1. link[l] \in Connections
        BY DEF TypeOK
      <4> QED
        BY <4>1, ConnectionUpdates, EmptyWire
    <3>3. link' = [link EXCEPT ![l] = x]
      BY <2>0, <3>1, <3>2 DEF HangUp
    <3> QED
      BY <3>2, <3>3, LinkUpdate DEF TypeOK
  <2> QED
    BY <2>0, <2>1, <2>2 DEF HangUp, TypeOK, NodesOK, barrier, calls, bounds
<1>25. CASE \E n \in Nodes, h \in Polls : SendPoll(n, h)
  <2>0. PICK n \in Nodes, h \in Polls : SendPoll(n, h)
    BY <1>25
  <2>1. agent' \in [Nodes -> Agents]
    BY <2>0, AgentUpdates DEF SendPoll, TypeOK
  <2>2. agent[n].applied \in {NoConfig} \cup Configs
    BY DEF TypeOK, Agents
  <2>3. poll' \in [Polls -> PollHandlers]
    BY <2>0, <2>2 DEF SendPoll, TypeOK, PollHandlers
  <2> QED
    BY <2>0, <2>1, <2>3 DEF SendPoll, TypeOK, NodesOK, barrier, calls, wires, bounds
<1>26. CASE \E n \in Nodes : Receive(n)
  <2>0. PICK n \in Nodes : Receive(n)
    BY <1>26
  <2>1. PICK h \in Polls : h = agent[n].awaiting
    BY <2>0 DEF Receive, TypeOK, Agents
  <2>2. poll' \in [Polls -> PollHandlers]
    BY <2>0, <2>1 DEF Receive, IdlePoll, TypeOK, PollHandlers
  <2>3. [agent[n] EXCEPT !.awaiting = NoPoll] \in Agents
    BY SMTT(30) DEF TypeOK, Agents
  <2>4. PICK config \in Configs : config = poll[h].desired
    BY <2>0, <2>1 DEF Receive, TypeOK, PollHandlers
  <2>5. agent' \in [Nodes -> Agents] /\ faults' \in 0 .. MaxFaults
    <3>1. \/ Applies(n, config, [agent[n] EXCEPT !.awaiting = NoPoll])
          \/ /\ agent' = [agent EXCEPT ![n] = [agent[n] EXCEPT !.awaiting = NoPoll]]
             /\ faults' = faults
      BY <2>0, <2>1, <2>4 DEF Receive
    <3>2. CASE Applies(n, config, [agent[n] EXCEPT !.awaiting = NoPoll])
      BY <2>3, <3>2, AppliesType
    <3> QED
      BY <2>3, <3>1, <3>2 DEF TypeOK
  <2> QED
    BY <2>0, <2>1, <2>2, <2>5
       DEF Receive, IdlePoll, TypeOK, NodesOK, barrier, calls, wires
<1>27. CASE \E n \in Nodes : RequestUpgrade(n)
  <2>0. PICK n \in Nodes : RequestUpgrade(n)
    BY <1>27
  <2>1. upgrades' \in 0 .. MaxUpgrades
    BY <2>0, BoundsAssumption DEF RequestUpgrade, TypeOK, BoundsAssumption
  <2>2. upgrade' \in [Nodes -> {"none", "due", "recent"}]
    BY <2>0 DEF RequestUpgrade, TypeOK
  <2>3. /\ link' \in [Links -> Connections]
        /\ \A m \in Links : link'[m].node = link[m].node /\ link'[m].stage = link[m].stage
    <3>1. CASE sockets[n] = NoLink
      BY <2>0, <3>1 DEF RequestUpgrade, TypeOK
    <3>2. CASE sockets[n] # NoLink
      <4>1. PICK l \in Links : l = sockets[n]
        BY <3>2 DEF TypeOK
      <4>2. link' = Sent(l, Frame("upgrade_task"))
        BY <2>0, <3>2, <4>1 DEF RequestUpgrade
      <4> QED
        BY <4>2, SentType, FrameType
    <3> QED
      BY <3>1, <3>2
  <2> QED
    BY <2>0, <2>1, <2>2, <2>3 DEF RequestUpgrade, TypeOK, NodesOK, barrier, calls
<1>28. CASE \E n \in Nodes : Minute(n)
  BY <1>28 DEF Minute, TypeOK, NodesOK, barrier, calls, wires, bounds
<1>29. CASE \E l \in Links : Break(l)
  <2>0. PICK l \in Links : Break(l)
    BY <1>29
  <2>1. /\ link' \in [Links -> Connections]
        /\ \A m \in Links : link'[m].node = link[m].node /\ link'[m].stage = link[m].stage
    BY ZenonT(40), <2>0 DEF Break, TypeOK, Connections
  <2>2. faults' \in 0 .. MaxFaults
    BY <2>0, FaultType DEF Break
  <2> QED
    BY <2>0, <2>1, <2>2 DEF Break, TypeOK, NodesOK, barrier, calls
<1>30. CASE \E n \in Nodes : Timeout(n)
  <2>0. PICK n \in Nodes : Timeout(n)
    BY <1>30
  <2>1. agent' \in [Nodes -> Agents]
    BY <2>0, AgentUpdates DEF Timeout, TypeOK
  <2>2. faults' \in 0 .. MaxFaults
    BY <2>0, FaultType DEF Timeout
  <2> QED
    BY <2>0, <2>1, <2>2 DEF Timeout, TypeOK, NodesOK, barrier, calls, wires
<1>31. CASE \E n \in Nodes, mode \in {"WS", "HTTP"} : AgentRestarts(n, mode)
  <2>0. PICK n \in Nodes, mode \in {"WS", "HTTP"} : AgentRestarts(n, mode)
    BY <1>31
  <2>1. FreshAgent(mode) \in Agents
    BY DEF FreshAgent, Agents, Configs
  <2>2. agent' \in [Nodes -> Agents]
    BY <2>0, <2>1 DEF AgentRestarts, TypeOK
  <2>3. /\ link' \in [Links -> Connections]
        /\ \A m \in Links : link'[m].node = link[m].node /\ link'[m].stage = link[m].stage
    BY <2>0, ConnectionUpdates, EmptyWire DEF AgentRestarts, TypeOK
  <2>4. faults' \in 0 .. MaxFaults
    BY <2>0, FaultType DEF AgentRestarts
  <2> QED
    BY <2>0, <2>2, <2>3, <2>4 DEF AgentRestarts, TypeOK, NodesOK, barrier, calls
<1>32. CASE MasterRestarts
  <2>1. BarrierType'
    BY <1>32 DEF MasterRestarts, BarrierType, TypeOK, NoBuild, Builds, Configs
  <2>2. change' \in [Changes -> Announcements] /\ flush' \in [Changes -> Flushes]
    BY ZenonT(40), <1>32 DEF MasterRestarts, TypeOK, Announcements, NoFlush, Flushes
  <2>3. link' \in [Links -> Connections]
    BY <1>32 DEF MasterRestarts, Closed, TypeOK, Connections, Configs
  <2>4. poll' \in [Polls -> PollHandlers]
    BY <1>32 DEF MasterRestarts, IdlePoll, PollHandlers
  <2>6. agent' \in [Nodes -> Agents]
    BY <1>32, AgentUpdates DEF MasterRestarts, TypeOK
  <2>5. faults' \in 0 .. MaxFaults
    BY <1>32, FaultType DEF MasterRestarts
  <2> QED
    BY <1>32, <2>1, <2>2, <2>3, <2>4, <2>5, <2>6
       DEF MasterRestarts, BarrierType, Closed, IdlePoll, TypeOK, NodesOK
<1>33. CASE UNCHANGED vars
  BY <1>33 DEF vars, barrier, calls, wires, bounds, TypeOK, NodesOK
<1> QED
  BY <1>1, <1>2, <1>3, <1>4, <1>5, <1>6, <1>7, <1>8, <1>9, <1>10, <1>11, <1>12, <1>13,
     <1>14, <1>15, <1>16, <1>17, <1>18, <1>19, <1>20, <1>21, <1>22, <1>2a, <1>24, <1>25,
     <1>26, <1>27, <1>28, <1>29, <1>30, <1>31, <1>32, <1>33
     DEF Next, Announce, Flush, Serve, HandlePoll

LEMMA AlwaysTyped == Spec => []TypeInv
BY InitTypeInv, NextTypeInv, PTL DEF Spec

\* Every variable keeps its type, and an answer always holds a configuration.
THEOREM TypeCorrect == Spec => []TypeOK
<1>1. TypeInv => TypeOK
  BY DEF TypeInv
<1> QED
  BY <1>1, AlwaysTyped, PTL

-----------------------------------------------------------------------------
\* The invariants behind the other theorems.

\* What is known is committed, a cached configuration and a build whose revision is
\* still the current one contain all of it.
BarrierInv ==
    /\ \A n \in Nodes : known[n] \subseteq data[n]
    /\ CacheIsCurrent
    /\ \A k \in Callers :
          Building(k) /\ build[k].fresh => known[build[k].node] \subseteq build[k].saw

\* The current connection of a node is one of its own that has registered; a
\* connection builds for its own node, and not before it is admitted.
LinksInv ==
    /\ \A n \in Nodes :
          sockets[n] # NoLink =>
              /\ link[sockets[n]].node = n
              /\ link[sockets[n]].stage \in {"registering", "dispatching", "admitted"}
    /\ \A l \in Links :
          Building(l) =>
              /\ link[l].stage \in {"closed", "admitted"}
              /\ link[l].stage = "admitted" => build[l].node = link[l].node

Announced(c) ==
    change[c].step \in {"settings", "waiting", "pushing", "flushing", "answered"}

\* What callers wait for: who has announced a change has made it known, pushes to
\* the one node it concerns, or waits in one round, which he is told apart by.
CallsInv ==
    /\ \A c \in Changes : \A n \in change[c].scope :
          /\ change[c].step # "none" => c \in data[n]
          /\ Announced(c) => c \in known[n]
    /\ \A c \in Changes :
          change[c].step = "pushing" /\ Building(c) => change[c].scope = {build[c].node}
    /\ timer # NoChange => change[timer].step = "waiting"
    /\ \A f \in Changes : flush[f].waiters # {} => f \in flush[f].waiters
    /\ \A f \in Changes : flush[f].waiters = {} => flush[f].visited = {}
    /\ \A f \in Changes : \A c \in flush[f].waiters : change[c].step = "flushing"
    /\ \A f, g \in Changes : f # g => flush[f].waiters \cap flush[g].waiters = {}

\* The current connection of the node has the change, or will have it from the push
\* it begins with.
Reached(c, n) ==
    LET l == sockets[n]
    IN n \notin unsent /\ l # NoLink =>
          \/ link[l].stage # "admitted"
          \/ Building(l)
          \/ c \in link[l].sent

\* A round has reached every node it has been to but the one it builds for.
ReachInv ==
    /\ \A c \in Changes, n \in Nodes :
          change[c].step = "answered" /\ n \in change[c].scope => Reached(c, n)
    /\ \A f \in Changes, n \in Nodes : 
       \A c \in flush[f].waiters :
          n \in flush[f].visited /\ n \in change[c].scope =>
              Reached(c, n) \/ build[f].node = n

-----------------------------------------------------------------------------
\* The barrier.

LEMMA StartPushBarrier ==
    ASSUME TypeOK, BarrierInv, NEW k \in Callers, NEW n \in Nodes, StartPush(k, n)
    PROVE  BarrierInv'
<1>1. \A j \in Callers : build'[j] = IF j = k THEN NewBuild(n) ELSE Stale[j]
  BY StaleType DEF StartPush
<1>2. /\ data' = data
      /\ known' = [known EXCEPT ![n] = data[n]]
      /\ cache' = [cache EXCEPT ![n] = NoConfig]
  BY DEF StartPush, Invalidate, Cleared, TypeOK
<1>3. \A m \in Nodes : known'[m] \subseteq data'[m]
  BY <1>2 DEF BarrierInv, TypeOK
<1>4. CacheIsCurrent'
  BY <1>2 DEF BarrierInv, CacheIsCurrent, TypeOK
<1>5. ASSUME NEW j \in Callers, Building(j)', build'[j].fresh
      PROVE  known'[build'[j].node] \subseteq build'[j].saw
  <2>1. CASE j = k
    <3>1. build'[j].node = n /\ build'[j].saw = data[n]
      BY <1>1, <2>1 DEF NewBuild
    <3> QED
      BY <1>2, <3>1 DEF TypeOK
  <2>2. CASE j # k
    BY <1>1, <1>5, <2>2, StaleType
  <2> QED
    BY <2>1, <2>2
<1> QED
  BY <1>3, <1>4, <1>5 DEF BarrierInv

LEMMA DesiredIsCurrent ==
    ASSUME TypeOK, BarrierInv, NEW k \in Callers, Resolve(k)
    PROVE  known[build[k].node] \subseteq Desired(k)
BY DesiredType DEF BarrierInv, CacheIsCurrent, Resolve, Desired

LEMMA ResolveBarrier ==
    ASSUME TypeOK, BarrierInv, NEW k \in Callers, Resolve(k)
    PROVE  BarrierInv'
<1>1. build[k].node \in Nodes /\ known[build[k].node] \subseteq Desired(k)
  BY DesiredType, DesiredIsCurrent
<1>2. /\ UNCHANGED <<data, known>>
      /\ cache' = [cache EXCEPT ![build[k].node] = Desired(k)]
      /\ build' = [build EXCEPT ![k] = NoBuild]
  BY DEF Resolve
<1>3. CacheIsCurrent'
  BY <1>1, <1>2 DEF BarrierInv, CacheIsCurrent, TypeOK
<1>4. \A j \in Callers : Building(j)' => j # k /\ build'[j] = build[j]
  BY <1>2 DEF Building, NoBuild, TypeOK
<1> QED
  BY <1>2, <1>3, <1>4 DEF BarrierInv, Building

LEMMA NextBarrierInv == TypeInv /\ BarrierInv /\ [Next]_vars => BarrierInv'
<1> SUFFICES ASSUME TypeInv, BarrierInv, [Next]_vars PROVE BarrierInv'
  OBVIOUS
<1>0. TypeOK
  BY DEF TypeInv
<1>1. ASSUME UNCHANGED barrier PROVE BarrierInv'
  BY <1>1 DEF barrier, BarrierInv, CacheIsCurrent, Building
<1>2. CASE \E c \in Changes, S \in Scopes : Commit(c, S)
  <2>0. PICK c \in Changes, S \in Scopes : Commit(c, S)
    BY <1>2
  <2>1. \A n \in Nodes : data[n] \subseteq data'[n]
    BY <1>0, <2>0 DEF Commit, TypeOK
  <2> QED
    BY <2>0, <2>1 DEF Commit, BarrierInv, CacheIsCurrent, Building
<1>3. CASE \E c \in Changes, n \in Nodes : PushConfig(c, n)
  BY <1>0, <1>3, StartPushBarrier DEF PushConfig, Callers
<1>4. CASE \E c \in Changes : PushEnds(c)
  BY <1>0, <1>4, ResolveBarrier DEF PushEnds, FinishPush, Callers
<1>5. CASE \E c \in Changes : PushConfigToAll(c)
  <2>1. \A n \in Nodes : cache'[n] = NoConfig /\ known'[n] = data[n] /\ data' = data
    BY <1>5 DEF PushConfigToAll, Invalidate, Cleared
  <2>2. \A k \in Callers : build'[k].fresh = FALSE
    BY <1>0, <1>5, StaleType DEF PushConfigToAll
  <2> QED
    BY <2>1, <2>2 DEF BarrierInv, CacheIsCurrent
<1>6. CASE \E f \in Changes, n \in Nodes : FlushNode(f, n)
  BY <1>0, <1>6, StartPushBarrier DEF FlushNode, Callers
<1>7. CASE \E f \in Changes : FlushedNode(f)
  BY <1>0, <1>7, ResolveBarrier DEF FlushedNode, FinishPush, Callers
<1>8. ASSUME NEW k \in Callers, NEW n \in Nodes,
             UNCHANGED <<data, cache, known>>, build' = [build EXCEPT ![k] = NewBuild(n)]
      PROVE  BarrierInv'
  <2>1. ASSUME NEW j \in Callers, Building(j)', build'[j].fresh
        PROVE  known'[build'[j].node] \subseteq build'[j].saw
    <3>1. CASE j = k
      BY <1>0, <1>8, <3>1 DEF NewBuild, BarrierInv, TypeOK
    <3>2. CASE j # k
      BY <1>0, <1>8, <2>1, <3>2 DEF Building, BarrierInv, TypeOK
    <3> QED
      BY <3>1, <3>2
  <2> QED
    BY <1>8, <2>1 DEF BarrierInv, CacheIsCurrent
<1>9. ASSUME NEW k \in Callers,
             UNCHANGED <<data, cache, known>>, build' = [build EXCEPT ![k] = NoBuild]
      PROVE  BarrierInv'
  <2>1. \A j \in Callers : Building(j)' => j # k /\ build'[j] = build[j]
    BY <1>0, <1>9 DEF Building, NoBuild, TypeOK
  <2> QED
    BY <1>9, <2>1 DEF BarrierInv, CacheIsCurrent, Building
<1>10. CASE \E k \in Callers : BuildAgain(k)
  <2>0. PICK k \in Callers : BuildAgain(k)
    BY <1>10
  <2>1. build[k].node \in Nodes
    BY <1>0, <2>0 DEF BuildAgain, Building, TypeOK, Builds
  <2> QED
    BY <1>8, <2>0, <2>1 DEF BuildAgain
<1>11. CASE \E k \in Callers : PushFails(k)
  BY <1>9, <1>11 DEF PushFails
<1>12. CASE \E l \in Links : Admit(l)
  <2>0. PICK l \in Links : Admit(l)
    BY <1>12
  <2>1. link[l].node \in Nodes
    BY <2>0 DEF Admit, TypeInv, NodesOK
  <2> QED
    BY <1>0, <2>0, <2>1, StartPushBarrier DEF Admit, Callers
<1>13. CASE \E l \in Links : FirstPush(l)
  BY <1>0, <1>13, ResolveBarrier DEF FirstPush, FinishPush, Callers
<1>14. CASE \E h \in Polls : AskDesired(h)
  <2>0. PICK h \in Polls : AskDesired(h)
    BY <1>14
  <2>1. poll[h].node \in Nodes
    BY <2>0 DEF AskDesired, TypeInv, NodesOK
  <2>2. \/ UNCHANGED barrier
        \/ /\ build' = [build EXCEPT ![h] = NewBuild(poll[h].node)]
           /\ UNCHANGED <<data, cache, known>>
    BY <2>0 DEF AskDesired, barrier
  <2> QED
    BY <1>1, <1>8, <2>1, <2>2 DEF Callers
<1>15. CASE \E h \in Polls : GetDesired(h)
  BY <1>0, <1>15, ResolveBarrier DEF GetDesired, Callers
<1>16. CASE \E h \in Polls : PollFails(h)
  BY <1>9, <1>16 DEF PollFails, Callers
<1>17. CASE MasterRestarts
  BY <1>0, <1>17 DEF MasterRestarts, NoBuild, Building, BarrierInv, CacheIsCurrent, TypeOK
<1>18. CASE \E c \in Changes : Debounce(c) \/ FlushEnds(c)
  BY <1>1, <1>18 DEF Debounce, FlushEnds
<1>19. CASE StartFlush
  BY <1>1, <1>19 DEF StartFlush
<1>20. CASE \E l \in Links :
              Register(l) \/ DispatchQueued(l) \/ HandleDisconnect(l) \/ Break(l)
  BY <1>1, <1>20 DEF Register, DispatchQueued, HandleDisconnect, Break
<1>21. CASE \E h \in Polls : TakeOver(h) \/ Discard(h)
  BY <1>1, <1>21 DEF TakeOver, Discard
<1>22. CASE \E n \in Nodes :
              \/ \E l \in Links : Dial(n, l)
              \/ \E h \in Polls : SendPoll(n, h)
              \/ Read(n) \/ HangUp(n) \/ Receive(n) \/ RequestUpgrade(n) \/ Minute(n)
              \/ Timeout(n) \/ \E mode \in {"WS", "HTTP"} : AgentRestarts(n, mode)
  BY <1>1, <1>22 DEF Dial, SendPoll, Read, HangUp, Receive, RequestUpgrade, Minute,
     Timeout, AgentRestarts
<1>2a. CASE UNCHANGED vars
  BY <1>1, <1>2a DEF vars
<1> QED
  BY <1>2, <1>3, <1>4, <1>5, <1>6, <1>7, <1>10, <1>11, <1>12, <1>13, <1>14, <1>15, <1>16,
     <1>17, <1>18, <1>19, <1>20, <1>21, <1>22, <1>2a
     DEF Next, Announce, Flush, Serve, HandlePoll

LEMMA InitBarrierInv == Init => BarrierInv
BY DEF Init, BarrierInv, CacheIsCurrent, Building, NoBuild

LEMMA AlwaysBehindBarrier == Spec => []BarrierInv
BY InitBarrierInv, NextBarrierInv, AlwaysTyped, PTL DEF Spec

\* No build that began before an invalidation enters the cache after it: a cached
\* configuration contains every change announced for its node.
THEOREM CacheStaysCurrent == Spec => []CacheIsCurrent
<1>1. BarrierInv => CacheIsCurrent
  BY DEF BarrierInv
<1> QED
  BY <1>1, AlwaysBehindBarrier, PTL

-----------------------------------------------------------------------------
\* Connections.

\* A step that puts a message on the way, takes one, or breaks connections.
Kept ==
    \A m \in Links :
        /\ link'[m].node = link[m].node
        /\ link'[m].stage = link[m].stage
        /\ link'[m].sent = link[m].sent
        /\ link'[m].open => link[m].open

LEMMA ConnectionKeeps ==
    \A x \in Connections :
        /\ [x EXCEPT !.open = FALSE].sent = x.sent
        /\ ~[x EXCEPT !.open = FALSE].open
        /\ \A w \in Seq(Frames) :
              /\ [x EXCEPT !.wire = w].sent = x.sent
              /\ [x EXCEPT !.wire = w].open = x.open
              /\ [x EXCEPT !.open = FALSE, !.wire = w].sent = x.sent
              /\ ~[x EXCEPT !.open = FALSE, !.wire = w].open
BY DEF Connections

LEMMA SentKeeps ==
    ASSUME TypeOK, NEW l \in Links, NEW frame \in Frames
    PROVE  /\ \A m \in Links : m # l => Sent(l, frame)[m].sent = link[m].sent
           /\ frame.type # "config_sync" =>
                 \A m \in Links : Sent(l, frame)[m].sent = link[m].sent
           /\ frame.type = "config_sync" => Sent(l, frame)[l].sent = frame.config
<1>1. link[l] \in Connections
  BY DEF TypeOK
<1> QED
  BY <1>1 DEF TypeOK, Sent, Connections

LEMMA KeptSteps ==
    ASSUME TypeOK,
           \/ \E n \in Nodes : \/ Read(n) \/ HangUp(n) \/ RequestUpgrade(n)
                               \/ \E mode \in {"WS", "HTTP"} : AgentRestarts(n, mode)
           \/ \E l \in Links : Break(l)
    PROVE  Kept
<1>0. \A m \in Links : link[m] \in Connections
  BY DEF TypeOK
<1>1. ASSUME NEW l \in Links, NEW w \in Seq(Frames),
             \/ link' = [link EXCEPT ![l].wire = w]
             \/ link' = [link EXCEPT ![l].open = FALSE]
             \/ link' = [link EXCEPT ![l].open = FALSE, ![l].wire = w]
      PROVE  Kept
  <2>1. \A m \in Links : m # l => link'[m] = link[m]
    BY <1>1 DEF TypeOK
  <2>2. \/ link'[l] = [link[l] EXCEPT !.wire = w]
        \/ link'[l] = [link[l] EXCEPT !.open = FALSE]
        \/ link'[l] = [link[l] EXCEPT !.open = FALSE, !.wire = w]
    BY <1>1 DEF TypeOK
  <2>3. /\ link'[l].node = link[l].node
        /\ link'[l].stage = link[l].stage
        /\ link'[l].sent = link[l].sent
        /\ link'[l].open => link[l].open
    <3>1. link[l] \in Connections
      BY <1>0
    <3>2. CASE link'[l] = [link[l] EXCEPT !.wire = w]
      BY <3>1, <3>2 DEF Connections
    <3>3. CASE link'[l] = [link[l] EXCEPT !.open = FALSE]
      BY <3>1, <3>3, ConnectionUpdates, ConnectionKeeps
    <3>4. CASE link'[l] = [link[l] EXCEPT !.open = FALSE, !.wire = w]
      BY <3>1, <3>4 DEF Connections
    <3> QED
      BY <2>2, <3>2, <3>3, <3>4
  <2> QED
    BY <2>1, <2>3 DEF Kept
<1>2. ASSUME NEW n \in Nodes, Read(n) PROVE Kept
  <2>1. PICK l \in Links : l = agent[n].link
    BY <1>2 DEF Read, TypeOK, Agents
  <2>2. link[l].wire \in Seq(Frames) /\ link[l].wire # <<>>
    BY <1>2, <2>1 DEF Read, TypeOK, Connections
  <2>3. Tail(link[l].wire) \in Seq(Frames)
    BY <2>2
  <2>4. \/ link' = [link EXCEPT ![l].wire = Tail(link[l].wire)]
        \/ link' = [link EXCEPT ![l].open = FALSE, ![l].wire = <<>>]
    BY <1>2, <2>1 DEF Read
  <2> QED
    BY <1>1, <2>3, <2>4, EmptyWire
<1>3. ASSUME NEW n \in Nodes, HangUp(n) PROVE Kept
  <2>1. PICK l \in Links : l = agent[n].link
    BY <1>3 DEF HangUp, TypeOK, Agents
  <2> QED
    BY <1>1, <1>3, <2>1, EmptyWire DEF HangUp
<1>4. ASSUME NEW n \in Nodes, RequestUpgrade(n) PROVE Kept
  <2>1. CASE sockets[n] = NoLink
    BY <1>4, <2>1 DEF RequestUpgrade, Kept
  <2>2. CASE sockets[n] # NoLink
    <3>1. PICK l \in Links : l = sockets[n]
      BY <2>2 DEF TypeOK
    <3>2. link' = Sent(l, Frame("upgrade_task"))
      BY <1>4, <2>2, <3>1 DEF RequestUpgrade
    <3>3. Frame("upgrade_task").type # "config_sync"
      BY DEF Frame
    <3>4. \A m \in Links : /\ link'[m].node = link[m].node
                           /\ link'[m].stage = link[m].stage
                           /\ link'[m].open = link[m].open
      BY <3>2, SentType, FrameType
    <3>5. \A m \in Links : link'[m].sent = link[m].sent
      BY <3>2, <3>3, SentKeeps, FrameType
    <3> QED
      BY <3>4, <3>5 DEF Kept
  <2> QED
    BY <2>1, <2>2
<1>5. CASE \E l \in Links : Break(l)
  BY <1>1, <1>5, EmptyWire DEF Break
<1>6. ASSUME NEW n \in Nodes, NEW mode \in {"WS", "HTTP"}, AgentRestarts(n, mode) PROVE Kept
  <2>1. \A m \in Links : \/ link'[m] = link[m]
                         \/ link'[m] = [link[m] EXCEPT !.open = FALSE, !.wire = <<>>]
    BY <1>6 DEF AgentRestarts
  <2>2. SUFFICES ASSUME NEW m \in Links
                 PROVE  /\ link'[m].node = link[m].node
                        /\ link'[m].stage = link[m].stage
                        /\ link'[m].sent = link[m].sent
                        /\ link'[m].open => link[m].open
    BY DEF Kept
  <2>3. CASE link'[m] = link[m]
    BY <2>3
  <2>4. CASE link'[m] = [link[m] EXCEPT !.open = FALSE, !.wire = <<>>]
    BY <1>0, <2>4 DEF Connections
  <2> QED
    BY <2>1, <2>3, <2>4
<1> QED
  BY <1>2, <1>3, <1>4, <1>5, <1>6

ServedInv == LinksInv /\ ServedIsCurrent

\* A step that lets builds end, or begins one for a connection that is admitted.
LEMMA KeptLinks ==
    ASSUME TypeOK, ServedInv, UNCHANGED sockets, Kept,
           \A l \in Links : Building(l)' => build'[l].node = build[l].node
    PROVE  ServedInv'
<1>1. \A l \in Links : Building(l)' => Building(l)
  BY DEF Building
<1>2. \A n \in Nodes : sockets[n] # NoLink => sockets[n] \in Links
  BY DEF TypeOK
<1> QED
  BY <1>1, <1>2 DEF ServedInv, LinksInv, ServedIsCurrent, Kept

LEMMA FinishPushLinks ==
    ASSUME TypeOK, NEW k \in Callers, FinishPush(k)
    PROVE  /\ \A m \in Links : /\ link'[m].node = link[m].node
                               /\ link'[m].stage = link[m].stage
                               /\ link'[m].open = link[m].open
           /\ sockets' = sockets
           /\ build' = [build EXCEPT ![k] = NoBuild]
           /\ \A l \in Links : sockets[build[k].node] # l => link'[l].sent = link[l].sent
           /\ \A l \in Links : sockets[build[k].node] = l => link'[l].sent = Desired(k)
<1>1. Desired(k) \in Configs /\ build[k].node \in Nodes
  BY DesiredType DEF FinishPush
<1>2. sockets' = sockets /\ build' = [build EXCEPT ![k] = NoBuild]
  BY DEF FinishPush, Resolve
<1>3. CASE sockets[build[k].node] = NoLink
  BY <1>2, <1>3, BoundsAssumption DEF FinishPush, BoundsAssumption
<1>4. CASE sockets[build[k].node] # NoLink
  <2>1. PICK l \in Links : l = sockets[build[k].node]
    BY <1>1, <1>4 DEF TypeOK
  <2>2. link' = Sent(l, ConfigFrame(Desired(k)))
    BY <1>4, <2>1 DEF FinishPush
  <2>3. /\ ConfigFrame(Desired(k)) \in Frames
        /\ ConfigFrame(Desired(k)).type = "config_sync"
        /\ ConfigFrame(Desired(k)).config = Desired(k)
    BY <1>1, FrameType DEF ConfigFrame
  <2> QED
    BY <1>2, <2>1, <2>2, <2>3, SentType, SentKeeps
<1> QED
  BY <1>3, <1>4

LEMMA InitServedInv == Init => ServedInv
BY DEF Init, ServedInv, LinksInv, ServedIsCurrent, Building, NoBuild, Closed

LEMMA NextServedInv == TypeInv /\ ServedInv /\ [Next]_vars => ServedInv'
<1> SUFFICES ASSUME TypeInv, ServedInv, [Next]_vars PROVE ServedInv'
  OBVIOUS
<1>0. TypeOK
  BY DEF TypeInv
<1>0a. \A n \in Nodes : sockets[n] # NoLink => sockets[n] \in Links
  BY <1>0 DEF TypeOK
<1>0b. DOMAIN sockets = Nodes /\ sockets = [n \in Nodes |-> sockets[n]]
  BY <1>0 DEF TypeOK
<1>1. ASSUME UNCHANGED <<sockets, link>>,
             \A l \in Links : Building(l)' => build'[l].node = build[l].node
      PROVE  ServedInv'
  BY <1>0, <1>1, KeptLinks DEF Kept
<1>2. ASSUME UNCHANGED build, UNCHANGED sockets, Kept PROVE ServedInv'
  BY <1>0, <1>2, KeptLinks
<1>3. ASSUME UNCHANGED build, UNCHANGED sockets, UNCHANGED link PROVE ServedInv'
  BY <1>1, <1>3
<1>4. ASSUME NEW k \in Callers, FinishPush(k) PROVE ServedInv'
  <2>1. \A l \in Links : Building(l)' => build'[l].node = build[l].node
    BY <1>0, <1>4, FinishPushLinks DEF Building, NoBuild, Callers, TypeOK
  <2>2. \A l \in Links : Building(l)' => Building(l)
    BY <2>1 DEF Building
  <2> QED
    BY <1>0, <1>0a, <1>4, <2>1, <2>2, FinishPushLinks DEF ServedInv, LinksInv, ServedIsCurrent
<1>5. ASSUME NEW c \in Changes, NEW n \in Nodes, StartPush(c, n),
             UNCHANGED <<sockets, link>>
      PROVE  ServedInv'
  <2>1. c \notin Links
    BY CallersAssumption DEF CallersAssumption
  <2>2. \A l \in Links : build'[l].node = build[l].node
    BY <1>0, <1>5, <2>1, StaleType DEF StartPush, Callers
  <2> QED
    BY <1>1, <1>5, <2>2
<1>6. CASE \E c \in Changes : \/ \E n \in Nodes : PushConfig(c, n) \/ FlushNode(c, n)
                              \/ PushConfigToAll(c)
  <2>1. CASE \E c \in Changes, n \in Nodes : PushConfig(c, n) \/ FlushNode(c, n)
    BY <1>5, <2>1 DEF PushConfig, FlushNode, wires
  <2>2. CASE \E c \in Changes : PushConfigToAll(c)
    <3>1. \A l \in Links : build'[l].node = build[l].node
      BY <1>0, <2>2, StaleType DEF PushConfigToAll, Callers
    <3> QED
      BY <1>1, <2>2, <3>1 DEF PushConfigToAll, wires
  <2> QED
    BY <1>6, <2>1, <2>2
<1>7. CASE \E c \in Changes : PushEnds(c) \/ FlushedNode(c)
  BY <1>4, <1>7 DEF PushEnds, FlushedNode, Callers
<1>8. CASE \E c \in Changes : Debounce(c) \/ FlushEnds(c) \/ (\E S \in Scopes : Commit(c, S))
  BY <1>3, <1>8 DEF Debounce, FlushEnds, Commit, barrier, wires
<1>9. CASE StartFlush
  BY <1>3, <1>9 DEF StartFlush, barrier, wires
<1>10. CASE \E k \in Callers : BuildAgain(k)
  <2>0. PICK k \in Callers : BuildAgain(k)
    BY <1>10
  <2>1. \A l \in Links : build'[l].node = build[l].node
    BY <1>0, <2>0 DEF BuildAgain, NewBuild, TypeOK, Callers
  <2> QED
    BY <1>1, <2>0, <2>1 DEF BuildAgain, wires
<1>11. ASSUME NEW k \in Callers, build' = [build EXCEPT ![k] = NoBuild],
              UNCHANGED <<sockets, link>>
       PROVE  ServedInv'
  <2>1. \A l \in Links : Building(l)' => build'[l].node = build[l].node
    BY <1>0, <1>11 DEF Building, NoBuild, TypeOK
  <2> QED
    BY <1>1, <1>11, <2>1
<1>12. CASE \E k \in Callers : PushFails(k)
  BY <1>11, <1>12 DEF PushFails
<1>13. CASE \E h \in Polls : PollFails(h)
  BY <1>11, <1>13 DEF PollFails, wires, Callers
<1>14. CASE \E l \in Links : Register(l)
  <2>0. PICK l \in Links : Register(l)
    BY <1>14
  <2>1. PICK n \in Nodes : n = link[l].node
    BY <2>0 DEF Register, TypeInv, NodesOK
  <2>2. /\ sockets' = [sockets EXCEPT ![n] = l]
        /\ UNCHANGED build
        /\ link[l].stage = "authenticating"
    BY <2>0, <2>1 DEF Register, barrier
  <2>3. /\ link'[l].node = link[l].node /\ link'[l].stage = "registering"
        /\ \A m \in Links : m # l => /\ link'[m].node = link[m].node
                                    /\ link'[m].stage = link[m].stage
        /\ \A m \in Links : m # l /\ link'[m].open => link[m].open /\ m # sockets[n]
    <3>1. /\ link'[l] = [link[l] EXCEPT !.stage = "registering"]
          /\ \A m \in Links : m # l =>
                IF m = sockets[n] THEN link'[m] = [link[m] EXCEPT !.open = FALSE]
                ELSE link'[m] = link[m]
      BY <2>0, <2>1 DEF Register
    <3>2. \A m \in Links : link[m] \in Connections
      BY <1>0 DEF TypeOK
    <3>3. link'[l].node = link[l].node /\ link'[l].stage = "registering"
      BY <3>1, <3>2 DEF Connections
    <3>4. ASSUME NEW m \in Links, m # l
          PROVE  /\ link'[m].node = link[m].node
                 /\ link'[m].stage = link[m].stage
                 /\ link'[m].open => link[m].open /\ m # sockets[n]
      <4>1. CASE m = sockets[n]
        <5>1. link'[m] = [link[m] EXCEPT !.open = FALSE] /\ link[m] \in Connections
          BY <3>1, <3>2, <3>4, <4>1
        <5>2. /\ link'[m].node = link[m].node
              /\ link'[m].stage = link[m].stage
              /\ ~link'[m].open
          BY <5>1 DEF Connections
        <5> QED
          BY <5>2
      <4>2. CASE m # sockets[n]
        BY <3>1, <3>4, <4>2
      <4> QED
        BY <4>1, <4>2
    <3> QED
      BY <3>3, <3>4
  <2>4. ~Building(l)
    BY <2>2 DEF ServedInv, LinksInv
  <2>5. LinksInv'
    <3>1. \A m \in Nodes : sockets'[m] # NoLink =>
              /\ link'[sockets'[m]].node = m
              /\ link'[sockets'[m]].stage \in {"registering", "dispatching", "admitted"}
      <4>1. SUFFICES ASSUME NEW m \in Nodes, sockets'[m] # NoLink
                     PROVE  /\ link'[sockets'[m]].node = m
                            /\ link'[sockets'[m]].stage
                                 \in {"registering", "dispatching", "admitted"}
        OBVIOUS
      <4>2. CASE m = n
        BY <1>0b, <2>1, <2>2, <2>3, <4>2
      <4>3. CASE m # n
        <5>1. sockets'[m] = sockets[m] /\ sockets[m] \in Links
          BY <1>0a, <1>0b, <2>2, <4>1, <4>3
        <5>2. /\ link[sockets[m]].node = m
              /\ link[sockets[m]].stage \in {"registering", "dispatching", "admitted"}
          BY <4>1, <5>1 DEF ServedInv, LinksInv
        <5>3. sockets[m] # l
          BY <2>2, <5>2
        <5> QED
          BY <2>3, <5>1, <5>2, <5>3
      <4> QED
        BY <4>2, <4>3
    <3>2. \A m \in Links : Building(m)' =>
              /\ link'[m].stage \in {"closed", "admitted"}
              /\ link'[m].stage = "admitted" => build'[m].node = link'[m].node
      <4>1. \A m \in Links : Building(m)' => Building(m) /\ m # l
        BY <2>2, <2>4 DEF Building
      <4> QED
        BY <2>2, <2>3, <4>1 DEF ServedInv, LinksInv
    <3> QED
      BY <3>1, <3>2 DEF LinksInv
  <2>6. ServedIsCurrent'
    <3>1. SUFFICES ASSUME NEW m \in Links, link'[m].open,
                          link'[m].stage \in {"registering", "dispatching", "admitted"}
                   PROVE  sockets'[link'[m].node] = m
      BY DEF ServedIsCurrent
    <3>2. CASE m = l
      BY <1>0b, <2>1, <2>2, <2>3, <3>2
    <3>3. CASE m # l
      <4>1. /\ sockets[link[m].node] = m /\ link[m].node \in Nodes
            /\ link'[m].node = link[m].node /\ m # sockets[n]
        BY <2>3, <3>1, <3>3 DEF ServedInv, ServedIsCurrent, TypeInv, NodesOK
      <4> QED
        BY <1>0b, <2>2, <4>1
    <3> QED
      BY <3>2, <3>3
  <2> QED
    BY <2>5, <2>6 DEF ServedInv
<1>15. CASE \E l \in Links : DispatchQueued(l) \/ Admit(l)
  <2>0. PICK l \in Links : DispatchQueued(l) \/ Admit(l)
    BY <1>15
  <2>1. PICK n \in Nodes : n = link[l].node
    BY <2>0 DEF DispatchQueued, Admit, TypeInv, NodesOK
  <2>2. /\ \A m \in Links : /\ link'[m].node = link[m].node
                            /\ m # l => link'[m].stage = link[m].stage
                            /\ link'[m].open = link[m].open
        /\ link[l].stage \in {"registering", "dispatching"}
        /\ link'[l].stage \in {"dispatching", "admitted"}
    <3>1. CASE DispatchQueued(l)
      <4>1. PICK dispatched \in [Links -> Connections] :
              /\ \A m \in Links : /\ dispatched[m].node = link[m].node
                                  /\ dispatched[m].stage = link[m].stage
                                  /\ dispatched[m].open = link[m].open
              /\ link' = [dispatched EXCEPT ![l].stage = "dispatching"]
        <5>1. CASE upgrade[n] = "due" /\ sockets[n] # NoLink
          <6>1. PICK m \in Links : m = sockets[n]
            BY <1>0a, <5>1
          <6>2. link' = [Sent(m, Frame("upgrade_task")) EXCEPT ![l].stage = "dispatching"]
            BY <2>1, <3>1, <5>1, <6>1 DEF DispatchQueued
          <6>3. /\ Sent(m, Frame("upgrade_task")) \in [Links -> Connections]
                /\ \A j \in Links :
                      /\ Sent(m, Frame("upgrade_task"))[j].node = link[j].node
                      /\ Sent(m, Frame("upgrade_task"))[j].stage = link[j].stage
                      /\ Sent(m, Frame("upgrade_task"))[j].open = link[j].open
            BY <1>0, SentType, FrameType
          <6> QED
            BY <6>2, <6>3
        <5>2. CASE ~(upgrade[n] = "due" /\ sockets[n] # NoLink)
          BY <1>0, <2>1, <3>1, <5>2 DEF DispatchQueued, TypeOK
        <5> QED
          BY <5>1, <5>2
      <4>2. PICK c \in Connections : c = dispatched[l]
        BY <4>1
      <4>3. /\ link'[l] = [c EXCEPT !.stage = "dispatching"]
            /\ \A m \in Links : m # l => link'[m] = dispatched[m]
        BY <4>1, <4>2
      <4>4. /\ link'[l].stage = "dispatching"
            /\ link'[l].node = c.node /\ link'[l].open = c.open
        BY <4>3 DEF Connections
      <4>5. link[l].stage = "registering"
        BY <3>1 DEF DispatchQueued
      <4> QED
        BY <4>1, <4>2, <4>3, <4>4, <4>5
    <3>2. CASE Admit(l)
      <4>1. PICK sent \in [Links -> Connections] :
              /\ \A m \in Links : /\ sent[m].node = link[m].node
                                  /\ sent[m].stage = link[m].stage
                                  /\ sent[m].open = link[m].open
              /\ link' = [sent EXCEPT ![l].stage = "admitted"]
        BY ZenonT(40), <1>0, <3>2, SentType, FrameType DEF Admit
      <4> QED
        BY <3>2, <4>1 DEF Admit, Connections
    <3> QED
      BY <2>0, <3>1, <3>2
  <2>3. sockets' = sockets
    BY <2>0 DEF DispatchQueued, Admit
  <2>4. \/ UNCHANGED build
        \/ /\ build'[l].node = link[l].node
           /\ link'[l].stage = "admitted"
           /\ \A m \in Links : m # l => build'[m].node = build[m].node
    <3>1. CASE DispatchQueued(l)
      BY <3>1 DEF DispatchQueued, barrier
    <3>2. CASE Admit(l)
      <4>1. build' = [Stale EXCEPT ![l] = NewBuild(n)]
        BY <2>1, <3>2 DEF Admit, StartPush
      <4>2. /\ build'[l].node = n
            /\ \A m \in Links : m # l => build'[m].node = build[m].node
        BY <1>0, <4>1, StaleType DEF NewBuild, Callers
      <4>3. link' = [Sent(l, Frame("auth_result")) EXCEPT ![l].stage = "admitted"]
        BY <3>2 DEF Admit
      <4>4. Sent(l, Frame("auth_result")) \in [Links -> Connections]
        BY <1>0, SentType, FrameType
      <4>5. link'[l].stage = "admitted"
        BY <4>3, <4>4 DEF Connections
      <4> QED
        BY <2>1, <4>2, <4>5
    <3> QED
      BY <2>0, <3>1, <3>2
  <2>5. ~Building(l)
    BY <2>2 DEF ServedInv, LinksInv
  <2>6. \A m \in Links : Building(m)' =>
            /\ link'[m].stage \in {"closed", "admitted"}
            /\ link'[m].stage = "admitted" => build'[m].node = link'[m].node
    BY <2>2, <2>4, <2>5 DEF Building, ServedInv, LinksInv
  <2>7. \A m \in Nodes : sockets'[m] # NoLink =>
            /\ link'[sockets'[m]].node = m
            /\ link'[sockets'[m]].stage \in {"registering", "dispatching", "admitted"}
    BY <1>0a, <2>2, <2>3 DEF ServedInv, LinksInv
  <2>8. ServedIsCurrent'
    BY <2>2, <2>3 DEF ServedInv, ServedIsCurrent
  <2> QED
    BY <2>6, <2>7, <2>8 DEF ServedInv, LinksInv
<1>16. CASE \E l \in Links : FirstPush(l)
  BY <1>4, <1>16 DEF FirstPush, Callers
<1>17. CASE \E l \in Links : HandleDisconnect(l)
  <2>0. PICK l \in Links : HandleDisconnect(l)
    BY <1>17
  <2>1. PICK n \in Nodes : n = link[l].node
    BY <2>0 DEF HandleDisconnect, TypeInv, NodesOK
  <2>2. UNCHANGED build /\ ~link[l].open
    BY <2>0 DEF HandleDisconnect, barrier
  <2>3. CASE link[l].stage = "admitted"
    <3>1. link' = [link EXCEPT ![l] = [Closed EXCEPT !.wire = link[l].wire]]
      BY <2>0, <2>3 DEF HandleDisconnect
    <3>2. /\ link'[l].stage = "closed" /\ link'[l].open = FALSE
          /\ \A m \in Links : m # l => link'[m] = link[m]
      BY <1>0, <3>1 DEF Closed, TypeOK
    <3>3. /\ sockets[n] = l => sockets' = [sockets EXCEPT ![n] = NoLink]
          /\ sockets[n] # l => sockets' = sockets
      BY <2>0, <2>1, <2>3 DEF HandleDisconnect, IsCurrent
    <3>4. \A m \in Nodes : sockets'[m] # NoLink => sockets'[m] = sockets[m] /\ sockets[m] # l
      BY <1>0, <2>1, <3>3 DEF ServedInv, LinksInv, TypeOK
    <3>5. \A m \in Nodes : sockets[m] # l => sockets'[m] = sockets[m]
      BY <1>0, <2>1, <3>3 DEF TypeOK
    <3>6. LinksInv'
      BY <1>0a, <2>2, <3>2, <3>4 DEF ServedInv, LinksInv, Building
    <3>7. ServedIsCurrent'
      <4>1. SUFFICES ASSUME NEW m \in Links, link'[m].open,
                            link'[m].stage \in {"registering", "dispatching", "admitted"}
                     PROVE  sockets'[link'[m].node] = m
        BY DEF ServedIsCurrent
      <4>2. m # l /\ link'[m] = link[m]
        BY <3>2, <4>1
      <4>3. sockets[link[m].node] = m /\ link[m].node \in Nodes
        BY <4>1, <4>2 DEF ServedInv, ServedIsCurrent, TypeInv, NodesOK
      <4> QED
        BY <3>5, <4>2, <4>3
    <3> QED
      BY <3>6, <3>7 DEF ServedInv
  <2>4. CASE link[l].stage # "admitted"
    <3>1. /\ sockets' = sockets
          /\ link' = [link EXCEPT ![l].missed = TRUE]
      BY <2>0, <2>4 DEF HandleDisconnect
    <3>2. Kept
      BY <1>0, <3>1 DEF TypeOK, Connections, Kept
    <3> QED
      BY <1>2, <2>2, <3>1, <3>2
  <2> QED
    BY <2>3, <2>4
<1>18. CASE \E h \in Polls : TakeOver(h)
  <2>0. PICK h \in Polls : TakeOver(h)
    BY <1>18
  <2>1. PICK n \in Nodes : n = poll[h].node
    BY <2>0 DEF TakeOver, TypeInv, NodesOK
  <2>2. UNCHANGED build /\ sockets' = [sockets EXCEPT ![n] = NoLink]
    BY <2>0, <2>1 DEF TakeOver, barrier
  <2>3. CASE sockets[n] = NoLink
    BY <1>0, <1>3, <2>0, <2>1, <2>2, <2>3 DEF TakeOver, TypeOK
  <2>4. CASE sockets[n] # NoLink
    <3>1. PICK l \in Links : l = sockets[n]
      BY <1>0a, <2>4
    <3>2. link' = [link EXCEPT ![l].open = FALSE]
      BY <2>0, <2>1, <2>4, <3>1 DEF TakeOver
    <3>3. /\ \A m \in Links : /\ link'[m].node = link[m].node
                              /\ link'[m].stage = link[m].stage
                              /\ link'[m].open => link[m].open /\ m # l
      BY <1>0, <3>2 DEF TypeOK, Connections
    <3>4. LinksInv'
      BY <1>0, <1>0a, <2>2, <3>3 DEF ServedInv, LinksInv, Building, TypeOK
    <3>5. ServedIsCurrent'
      <4>1. SUFFICES ASSUME NEW m \in Links, link'[m].open,
                            link'[m].stage \in {"registering", "dispatching", "admitted"}
                     PROVE  sockets'[link'[m].node] = m
        BY DEF ServedIsCurrent
      <4>2. sockets[link[m].node] = m /\ link[m].node \in Nodes /\ m # l
        BY <3>3, <4>1 DEF ServedInv, ServedIsCurrent, TypeInv, NodesOK
      <4> QED
        BY <1>0, <2>2, <3>1, <3>3, <4>2 DEF TypeOK
    <3> QED
      BY <3>4, <3>5 DEF ServedInv
  <2> QED
    BY <2>3, <2>4
<1>19. CASE \E h \in Polls : AskDesired(h) \/ Discard(h)
  <2>0. PICK h \in Polls : AskDesired(h) \/ Discard(h)
    BY <1>19
  <2>1. h \notin Links
    BY CallersAssumption DEF CallersAssumption
  <2>2. \A l \in Links : build'[l] = build[l]
    BY <1>0, <2>0, <2>1 DEF AskDesired, Discard, barrier, TypeOK, Callers
  <2> QED
    BY <1>1, <2>0, <2>2 DEF AskDesired, Discard, wires
<1>20. CASE \E h \in Polls : GetDesired(h)
  BY <1>11, <1>20 DEF GetDesired, Resolve, wires, Callers
<1>21. CASE \E n \in Nodes, l \in Links : Dial(n, l)
  <2>0. PICK n \in Nodes, l \in Links : Dial(n, l)
    BY <1>21
  <2>1. /\ \A m \in Nodes : sockets[m] # l
        /\ ~Building(l)
        /\ UNCHANGED <<sockets, build>>
    BY <2>0 DEF Dial, Free, barrier
  <2>2. /\ link'[l].stage = "authenticating"
        /\ \A m \in Links : m # l => link'[m] = link[m]
    BY <1>0, <2>0 DEF Dial, Connect, TypeOK
  <2>3. LinksInv'
    BY <1>0a, <2>1, <2>2 DEF ServedInv, LinksInv, Building
  <2>4. ServedIsCurrent'
    BY <2>1, <2>2 DEF ServedInv, ServedIsCurrent
  <2> QED
    BY <2>3, <2>4 DEF ServedInv
<1>22. CASE \/ \E n \in Nodes : \/ Read(n) \/ HangUp(n) \/ RequestUpgrade(n)
                                \/ \E mode \in {"WS", "HTTP"} : AgentRestarts(n, mode)
            \/ \E l \in Links : Break(l)
  BY <1>0, <1>2, <1>22, KeptSteps
     DEF Read, HangUp, RequestUpgrade, AgentRestarts, Break, barrier
<1>2a. CASE \E n \in Nodes : \/ \E h \in Polls : SendPoll(n, h)
                             \/ Receive(n) \/ Minute(n) \/ Timeout(n)
  BY <1>3, <1>2a DEF SendPoll, Receive, Minute, Timeout, barrier, wires
<1>24. CASE MasterRestarts
  BY <1>24 DEF MasterRestarts, Closed, NoBuild, Building, ServedInv, LinksInv,
     ServedIsCurrent, Callers
<1>25. CASE UNCHANGED vars
  BY <1>3, <1>25 DEF vars, barrier, wires
<1> QED
  BY <1>6, <1>7, <1>8, <1>9, <1>10, <1>12, <1>13, <1>14, <1>15, <1>16, <1>17, <1>18,
     <1>19, <1>20, <1>21, <1>22, <1>2a, <1>24, <1>25
     DEF Next, Announce, Flush, Serve, HandlePoll

LEMMA AlwaysServed == Spec => []ServedInv
BY InitServedInv, NextServedInv, AlwaysTyped, PTL DEF Spec

\* A connection the master serves is the current one of its node, through
\* replacements, take-overs by polls and late close events.
THEOREM ServedStaysCurrent == Spec => []ServedIsCurrent
<1>1. ServedInv => ServedIsCurrent
  BY DEF ServedInv
<1> QED
  BY <1>1, AlwaysServed, PTL

-----------------------------------------------------------------------------
\* The callers.

LEMMA InitCallsInv == Init => CallsInv
BY DEF Init, CallsInv, NoAnnouncement, NoFlush, NoBuild, Building, Announced

\* A step that ends builds and forgets visits.
LEMMA KeptCalls ==
    ASSUME TypeOK, CallsInv, UNCHANGED <<data, change, timer>>,
           \A n \in Nodes : known[n] \subseteq known'[n],
           \A f \in Changes : /\ flush'[f].waiters = flush[f].waiters
                              /\ flush'[f].visited \subseteq flush[f].visited,
           \A c \in Changes : Building(c)' => build'[c].node = build[c].node
    PROVE  CallsInv'
<1>1. \A c \in Changes : change[c].scope \subseteq Nodes
  BY DEF TypeOK, Announcements
<1>2. \A c \in Changes : \A n \in change'[c].scope :
          /\ change'[c].step # "none" => c \in data'[n]
          /\ Announced(c)' => c \in known'[n]
  BY <1>1 DEF CallsInv, Announced
<1>3. \A c \in Changes :
          change'[c].step = "pushing" /\ Building(c)' => change'[c].scope = {build'[c].node}
  BY DEF CallsInv, Building
<1>4. timer' # NoChange => change'[timer'].step = "waiting"
  BY DEF CallsInv
<1>5. /\ \A f \in Changes : flush'[f].waiters # {} => f \in flush'[f].waiters
      /\ \A f \in Changes : flush'[f].waiters = {} => flush'[f].visited = {}
  BY DEF CallsInv
<1>6. /\ \A f \in Changes : \A c \in flush'[f].waiters : change'[c].step = "flushing"
      /\ \A f, g \in Changes : f # g => flush'[f].waiters \cap flush'[g].waiters = {}
  BY DEF CallsInv
<1> QED
  BY <1>2, <1>3, <1>4, <1>5, <1>6 DEF CallsInv

\* A step of an announcing call; the rounds go on.
LEMMA CallAdvances ==
    ASSUME TypeOK, CallsInv, NEW c \in Changes, NEW x \in Announcements,
           change' = [change EXCEPT ![c] = x],
           change[c].step # "flushing", change[c].step # "none" => x.scope = change[c].scope,
           \A n \in Nodes : known[n] \subseteq known'[n] /\ data[n] \subseteq data'[n],
           \A n \in x.scope : /\ x.step # "none" => c \in data'[n]
                              /\ x.step \in {"settings", "waiting", "pushing", "flushing", "answered"}
                                   => c \in known'[n],
           UNCHANGED flush,
           \/ timer' = timer /\ change[c].step # "waiting"
           \/ timer' = c /\ x.step = "waiting",
           x.step = "pushing" /\ Building(c)' => x.scope = {build'[c].node},
           \A d \in Changes : d # c /\ Building(d)' => build'[d].node = build[d].node
    PROVE  CallsInv'
<1>1. \A d \in Changes : change[d].scope \subseteq Nodes
  BY DEF TypeOK, Announcements
<1>2. change'[c] = x /\ \A d \in Changes : d # c => change'[d] = change[d]
  BY DEF TypeOK
<1>3. \A d \in Changes : \A n \in change'[d].scope :
          /\ change'[d].step # "none" => d \in data'[n]
          /\ Announced(d)' => d \in known'[n]
  <2>1. SUFFICES ASSUME NEW d \in Changes, NEW n \in change'[d].scope
                 PROVE  /\ change'[d].step # "none" => d \in data'[n]
                        /\ Announced(d)' => d \in known'[n]
    OBVIOUS
  <2>2. CASE d = c
    <3>1. change'[d] = x /\ n \in x.scope
      BY <1>2, <2>2
    <3>2. Announced(d)' => x.step \in {"settings", "waiting", "pushing", "flushing", "answered"}
      BY <3>1 DEF Announced
    <3> QED
      BY <2>2, <3>1, <3>2
  <2>3. CASE d # c
    <3>1. change'[d] = change[d] /\ n \in Nodes
      BY <1>1, <1>2, <2>3
    <3>2. /\ change[d].step # "none" => d \in data[n]
          /\ Announced(d) => d \in known[n]
      BY <3>1 DEF CallsInv
    <3> QED
      BY <3>1, <3>2 DEF Announced
  <2> QED
    BY <2>2, <2>3
<1>4. \A d \in Changes :
          change'[d].step = "pushing" /\ Building(d)' => change'[d].scope = {build'[d].node}
  BY <1>2 DEF CallsInv, Building
<1>5. timer' # NoChange => change'[timer'].step = "waiting"
  BY <1>2 DEF CallsInv, TypeOK
<1>6. \A f \in Changes : \A d \in flush'[f].waiters : change'[d].step = "flushing"
  BY <1>2 DEF CallsInv, TypeOK, Flushes
<1> QED
  BY <1>3, <1>4, <1>5, <1>6 DEF CallsInv

LEMMA KnownGrows ==
    ASSUME TypeOK, BarrierInv, NEW S, Invalidate(S)
    PROVE  \A n \in Nodes : known[n] \subseteq known'[n]
BY DEF TypeOK, BarrierInv, Invalidate

LEMMA RevisitedKeeps ==
    ASSUME TypeOK, NEW n, flush' = Revisited(n), NEW f \in Changes
    PROVE  flush'[f].waiters = flush[f].waiters /\ flush'[f].visited \subseteq flush[f].visited
<1>1. flush[f] \in Flushes
  BY DEF TypeOK
<1>2. CASE n \in flush[f].visited \ flush[f].again
  <2>1. n \in Nodes
    BY <1>1, <1>2 DEF Flushes
  <2> QED
    BY <1>1, <1>2, <2>1, FlushUpdates DEF Revisited
<1>3. CASE n \notin flush[f].visited \ flush[f].again
  BY <1>3 DEF Revisited
<1> QED
  BY <1>2, <1>3

LEMMA NextCallsInv == TypeInv /\ BarrierInv /\ CallsInv /\ [Next]_vars => CallsInv'
<1> SUFFICES ASSUME TypeInv, BarrierInv, CallsInv, [Next]_vars PROVE CallsInv'
  OBVIOUS
<1>0. TypeOK
  BY DEF TypeInv
<1>1. ASSUME UNCHANGED <<data, known, build, calls>> PROVE CallsInv'
  BY <1>0, <1>1, KeptCalls DEF calls
<1>2. ASSUME UNCHANGED <<data, known, calls>>,
             \A c \in Changes : Building(c)' => build'[c].node = build[c].node
      PROVE  CallsInv'
  BY <1>0, <1>2, KeptCalls DEF calls
<1>3. ASSUME NEW k \in Callers, build' = [build EXCEPT ![k] = NoBuild]
      PROVE  \A c \in Changes : Building(c)' => build'[c].node = build[c].node
  BY <1>0, <1>3 DEF Building, NoBuild, TypeOK, Callers
<1>4. ASSUME NEW k \in Callers, NEW n \in Nodes, StartPush(k, n)
      PROVE  /\ UNCHANGED data
             /\ \A m \in Nodes : known[m] \subseteq known'[m]
             /\ n \in Nodes => known'[n] = data[n]
             /\ build'[k].node = n
             /\ \A c \in Changes : c # k => build'[c].node = build[c].node
  <2>1. /\ \A m \in Nodes : known[m] \subseteq known'[m]
        /\ UNCHANGED data /\ known'[n] = data[n]
    BY <1>0, <1>4, KnownGrows DEF StartPush, Invalidate
  <2>2. build' = [Stale EXCEPT ![k] = NewBuild(n)]
    BY <1>4 DEF StartPush
  <2>3. build'[k].node = n /\ \A c \in Changes : c # k => build'[c].node = build[c].node
    BY <1>0, <2>2, StaleType DEF NewBuild, Callers
  <2> QED
    BY <2>1, <2>3
<1>5. CASE \E c \in Changes, S \in Scopes : Commit(c, S)
  <2>0. PICK c \in Changes, S \in Scopes : Commit(c, S)
    BY <1>5
  <2>1. S \subseteq Nodes
    BY DEF Scopes
  <2>2. PICK x \in Announcements : x = [step |-> "committed", scope |-> S]
    BY <2>1 DEF Announcements
  <2>3. /\ \A n \in Nodes : data[n] \subseteq data'[n]
        /\ \A n \in S : c \in data'[n]
    BY <1>0, <2>0, <2>1 DEF Commit, TypeOK
  <2>4. /\ change' = [change EXCEPT ![c] = x] /\ change[c].step = "none"
        /\ UNCHANGED <<known, build, timer, flush>>
    BY <2>0, <2>2 DEF Commit
  <2> QED
    BY <1>0, <2>2, <2>3, <2>4, CallAdvances DEF Building
<1>6. CASE \E c \in Changes, n \in Nodes : PushConfig(c, n)
  <2>0. PICK c \in Changes, n \in Nodes : PushConfig(c, n)
    BY <1>6
  <2>1. change[c] \in Announcements
    BY <1>0 DEF TypeOK
  <2>2. PICK x \in Announcements : x = [change[c] EXCEPT !.step = "pushing"]
                                   /\ x.step = "pushing" /\ x.scope = change[c].scope
    BY <2>1, AnnouncementUpdates
  <2>3. /\ change' = [change EXCEPT ![c] = x] /\ change[c].step = "committed"
        /\ change[c].scope = {n} /\ UNCHANGED <<timer, flush>>
    BY <2>0, <2>2 DEF PushConfig
  <2>4. /\ UNCHANGED data
        /\ \A m \in Nodes : known[m] \subseteq known'[m]
        /\ known'[n] = data[n]
        /\ build'[c].node = n
        /\ \A d \in Changes : d # c => build'[d].node = build[d].node
    BY <1>4, <2>0 DEF PushConfig, Callers
  <2>5. c \in data[n]
    BY <2>3 DEF CallsInv
  <2>6. \A m \in x.scope : c \in data'[m] /\ c \in known'[m]
    BY <2>2, <2>3, <2>4, <2>5
  <2>7. x.scope = {build'[c].node}
    BY <2>2, <2>3, <2>4
  <2> QED
    BY <1>0, <2>2, <2>3, <2>4, <2>6, <2>7, CallAdvances
<1>7. CASE \E c \in Changes : PushEnds(c)
  <2>0. PICK c \in Changes : PushEnds(c)
    BY <1>7
  <2>1. change[c] \in Announcements
    BY <1>0 DEF TypeOK
  <2>2. PICK x \in Announcements : x = [change[c] EXCEPT !.step = "answered"]
                                   /\ x.step = "answered" /\ x.scope = change[c].scope
    BY <2>1, AnnouncementUpdates
  <2>3. /\ change' = [change EXCEPT ![c] = x] /\ change[c].step = "pushing"
        /\ UNCHANGED <<data, known, timer, flush>>
        /\ build' = [build EXCEPT ![c] = NoBuild]
    BY <2>0, <2>2 DEF PushEnds, FinishPush, Resolve
  <2>4. \A d \in Changes : Building(d)' => build'[d].node = build[d].node
    BY <1>3, <2>3 DEF Callers
  <2>5. \A n \in x.scope : c \in data[n] /\ c \in known[n]
    BY <2>2, <2>3 DEF CallsInv, Announced
  <2> QED
    BY <1>0, <2>2, <2>3, <2>4, <2>5, CallAdvances
<1>8. CASE \E c \in Changes : PushConfigToAll(c)
  <2>0. PICK c \in Changes : PushConfigToAll(c)
    BY <1>8
  <2>1. change[c] \in Announcements
    BY <1>0 DEF TypeOK
  <2>2. PICK x \in Announcements : x = [change[c] EXCEPT !.step = "settings"]
                                   /\ x.step = "settings" /\ x.scope = change[c].scope
    BY <2>1, AnnouncementUpdates
  <2>3. /\ change' = [change EXCEPT ![c] = x] /\ change[c].step = "committed"
        /\ UNCHANGED <<data, timer, flush>> /\ build' = Stale
        /\ \A n \in Nodes : known'[n] = data[n]
    BY <2>0, <2>2 DEF PushConfigToAll, Invalidate
  <2>4. \A d \in Changes : build'[d].node = build[d].node
    BY <1>0, <2>3, StaleType DEF Callers
  <2>5. \A n \in Nodes : known[n] \subseteq known'[n]
    BY <1>0, <2>0, KnownGrows DEF PushConfigToAll
  <2>6. x.scope \subseteq Nodes /\ \A n \in x.scope : c \in data[n]
    BY <2>1, <2>2, <2>3 DEF CallsInv, Announcements
  <2> QED
    BY <1>0, <2>2, <2>3, <2>4, <2>5, <2>6, CallAdvances
<1>9. CASE \E c \in Changes : Debounce(c)
  <2>0. PICK c \in Changes : Debounce(c)
    BY <1>9
  <2>1. change[c] \in Announcements
    BY <1>0 DEF TypeOK
  <2>2. PICK x \in Announcements : x = [change[c] EXCEPT !.step = "waiting"]
                                   /\ x.step = "waiting" /\ x.scope = change[c].scope
    BY <2>1, AnnouncementUpdates
  <2>3. /\ change' = [change EXCEPT ![c] = x] /\ change[c].step = "settings"
        /\ timer' = c /\ UNCHANGED <<data, known, build, flush>>
    BY <2>0, <2>2 DEF Debounce, barrier
  <2>4. \A n \in x.scope : c \in data[n] /\ c \in known[n]
    BY <2>2, <2>3 DEF CallsInv, Announced
  <2> QED
    BY <1>0, <2>2, <2>3, <2>4, CallAdvances DEF Building
<1>10. CASE StartFlush
  <2>1. /\ timer \in Changes /\ timer' = NoChange /\ UNCHANGED <<data, known, build>>
        /\ change[timer].step = "waiting"
    BY <1>0, <1>10 DEF StartFlush, CallsInv, barrier, TypeOK
  <2>2. timer \in Waiting /\ \A c \in Waiting : c \in Changes /\ change[c].step = "waiting"
    BY <2>1 DEF Waiting
  <2>3. /\ flush'[timer].waiters = Waiting
        /\ flush'[timer].visited = flush[timer].visited
        /\ \A f \in Changes : f # timer => flush'[f] = flush[f]
    BY <1>0, <1>10, <2>1 DEF StartFlush, TypeOK, Flushes
  <2>4. flush[timer].waiters = {}
    BY <2>1 DEF CallsInv
  <2>5. \A c \in Changes :
           /\ change'[c].scope = change[c].scope
           /\ change'[c].step = IF c \in Waiting THEN "flushing" ELSE change[c].step
    BY <1>0, <1>10 DEF StartFlush, TypeOK, Announcements
  <2>6. \A c \in Changes : \A n \in change'[c].scope :
          /\ change'[c].step # "none" => c \in data'[n]
          /\ Announced(c)' => c \in known'[n]
    BY <2>1, <2>2, <2>5 DEF CallsInv, Announced
  <2>7. \A c \in Changes :
          change'[c].step = "pushing" /\ Building(c)' => change'[c].scope = {build'[c].node}
    BY <2>1, <2>5 DEF CallsInv, Building
  <2>8. \A f \in Changes : flush'[f].waiters # {} => f \in flush'[f].waiters
    BY <2>2, <2>3 DEF CallsInv
  <2>9. \A f \in Changes : flush'[f].waiters = {} => flush'[f].visited = {}
    BY <2>2, <2>3 DEF CallsInv
  <2>10. \A f \in Changes : \A c \in flush[f].waiters : c \in Changes /\ c \notin Waiting
    BY <1>0, <2>2 DEF CallsInv, TypeOK, Flushes
  <2>11. \A f \in Changes : \A c \in flush'[f].waiters : change'[c].step = "flushing"
    BY <2>2, <2>3, <2>5, <2>10 DEF CallsInv
  <2>12. \A f, g \in Changes : f # g => flush'[f].waiters \cap flush'[g].waiters = {}
    BY <2>3, <2>10 DEF CallsInv
  <2> QED
    BY <2>1, <2>6, <2>7, <2>8, <2>9, <2>11, <2>12 DEF CallsInv
<1>11. CASE \E f \in Changes, n \in Nodes : FlushNode(f, n)
  <2>0. PICK f \in Changes, n \in Nodes : FlushNode(f, n)
    BY <1>11
  <2>1. /\ UNCHANGED data
        /\ \A m \in Nodes : known[m] \subseteq known'[m]
        /\ \A d \in Changes : d # f => build'[d].node = build[d].node
    BY <1>4, <2>0 DEF FlushNode, Callers
  <2>2. /\ UNCHANGED <<change, timer>> /\ flush[f].waiters # {}
        /\ flush' = [flush EXCEPT ![f].visited = @ \cup {n}]
    BY <2>0 DEF FlushNode
  <2>3. \A g \in Changes : /\ flush'[g].waiters = flush[g].waiters
                           /\ flush[g].waiters = {} => flush'[g] = flush[g]
    BY <1>0, <2>2 DEF TypeOK, Flushes
  <2>4. change[f].step = "flushing"
    BY <2>2 DEF CallsInv
  <2>5. \A c \in Changes : change[c].scope \subseteq Nodes
    BY <1>0 DEF TypeOK, Announcements
  <2>6. \A c \in Changes : \A m \in change'[c].scope :
          /\ change'[c].step # "none" => c \in data'[m]
          /\ Announced(c)' => c \in known'[m]
    BY <2>1, <2>2, <2>5 DEF CallsInv, Announced
  <2>7. \A c \in Changes :
          change'[c].step = "pushing" /\ Building(c)' => change'[c].scope = {build'[c].node}
    BY <2>1, <2>2, <2>4 DEF CallsInv, Building
  <2>8. /\ \A g \in Changes : flush'[g].waiters # {} => g \in flush'[g].waiters
        /\ \A g \in Changes : flush'[g].waiters = {} => flush'[g].visited = {}
        /\ \A g \in Changes : \A c \in flush'[g].waiters : change'[c].step = "flushing"
        /\ \A g, h \in Changes : g # h => flush'[g].waiters \cap flush'[h].waiters = {}
    BY <2>2, <2>3 DEF CallsInv
  <2>9. timer' # NoChange => change'[timer'].step = "waiting"
    BY <2>2 DEF CallsInv
  <2> QED
    BY <2>6, <2>7, <2>8, <2>9 DEF CallsInv
<1>12. CASE \E f \in Changes : FlushedNode(f)
  BY <1>2, <1>3, <1>12 DEF FlushedNode, FinishPush, Resolve, calls, Callers
<1>13. CASE \E f \in Changes : FlushEnds(f)
  <2>0. PICK f \in Changes : FlushEnds(f)
    BY <1>13
  <2>1. UNCHANGED <<data, known, build, timer>>
    BY <2>0 DEF FlushEnds, barrier
  <2>2. /\ flush'[f].waiters = {} /\ flush'[f].visited = {}
        /\ \A g \in Changes : g # f => flush'[g] = flush[g]
    BY <1>0, <2>0 DEF FlushEnds, NoFlush, TypeOK
  <2>3. \A c \in Changes :
           /\ change'[c].scope = change[c].scope
           /\ change'[c].step = IF c \in flush[f].waiters THEN "answered" ELSE change[c].step
    BY <1>0, <2>0 DEF FlushEnds, Answered, TypeOK, Announcements
  <2>4. \A c \in flush[f].waiters : change[c].step = "flushing"
    BY DEF CallsInv
  <2>5. \A g \in Changes : \A c \in flush[g].waiters : c \in Changes
    BY <1>0 DEF TypeOK, Flushes
  <2>6. \A c \in Changes : \A n \in change'[c].scope :
          /\ change'[c].step # "none" => c \in data'[n]
          /\ Announced(c)' => c \in known'[n]
    BY <2>1, <2>3, <2>4 DEF CallsInv, Announced
  <2>7. \A c \in Changes :
          change'[c].step = "pushing" /\ Building(c)' => change'[c].scope = {build'[c].node}
    BY <2>1, <2>3, <2>4 DEF CallsInv, Building
  <2>8. /\ \A g \in Changes : flush'[g].waiters # {} => g \in flush'[g].waiters
        /\ \A g \in Changes : flush'[g].waiters = {} => flush'[g].visited = {}
        /\ \A g, h \in Changes : g # h => flush'[g].waiters \cap flush'[h].waiters = {}
    BY <2>2 DEF CallsInv
  <2>9. \A g \in Changes : \A c \in flush'[g].waiters : change'[c].step = "flushing"
    BY <2>2, <2>3, <2>5 DEF CallsInv
  <2>10. timer' # NoChange => change'[timer'].step = "waiting"
    BY <1>0, <2>1, <2>3, <2>4 DEF CallsInv, TypeOK
  <2> QED
    BY <2>6, <2>7, <2>8, <2>9, <2>10 DEF CallsInv
<1>14. CASE \E k \in Callers : BuildAgain(k)
  <2>0. PICK k \in Callers : BuildAgain(k)
    BY <1>14
  <2>1. \A c \in Changes : build'[c].node = build[c].node
    BY <1>0, <2>0 DEF BuildAgain, NewBuild, TypeOK, Callers
  <2> QED
    BY <1>2, <2>0, <2>1 DEF BuildAgain
<1>15. CASE \E k \in Callers : PushFails(k)
  <2>0. PICK k \in Callers : PushFails(k)
    BY <1>15
  <2>1. /\ UNCHANGED <<data, known, timer, flush>>
        /\ build' = [build EXCEPT ![k] = NoBuild]
    BY <2>0 DEF PushFails
  <2>2. \A c \in Changes : Building(c)' => build'[c].node = build[c].node
    BY <1>3, <2>1
  <2>3. CASE k \in Changes /\ change[k].step = "pushing"
    <3>1. change[k] \in Announcements
      BY <1>0, <2>3 DEF TypeOK
    <3>2. PICK x \in Announcements : x = [change[k] EXCEPT !.step = "answered"]
                                     /\ x.step = "answered" /\ x.scope = change[k].scope
      BY <3>1, AnnouncementUpdates
    <3>3. change' = [change EXCEPT ![k] = x]
      BY <1>0, <2>0, <2>3, <3>2 DEF PushFails, TypeOK
    <3>4. \A n \in x.scope : k \in data[n] /\ k \in known[n]
      BY <2>3, <3>2 DEF CallsInv, Announced
    <3> QED
      BY <1>0, <2>1, <2>2, <2>3, <3>2, <3>3, <3>4, CallAdvances
  <2>4. CASE ~(k \in Changes /\ change[k].step = "pushing")
    <3>1. change' = change
      BY <1>0, <2>0, <2>4 DEF PushFails, TypeOK
    <3> QED
      BY <1>0, <2>1, <2>2, <3>1, KeptCalls
  <2> QED
    BY <2>3, <2>4
<1>16. CASE \E l \in Links : Admit(l)
  <2>0. PICK l \in Links : Admit(l)
    BY <1>16
  <2>1. link[l].node \in Nodes
    BY <2>0 DEF Admit, TypeInv, NodesOK
  <2>2. /\ UNCHANGED data
        /\ \A m \in Nodes : known[m] \subseteq known'[m]
        /\ \A c \in Changes : c # l => build'[c].node = build[c].node
    BY <1>4, <2>0, <2>1 DEF Admit, Callers
  <2>3. l \notin Changes
    BY CallersAssumption DEF CallersAssumption
  <2> QED
    BY <1>0, <2>0, <2>2, <2>3, KeptCalls DEF Admit, calls
<1>17. CASE \E l \in Links : FirstPush(l)
  BY <1>2, <1>3, <1>17 DEF FirstPush, FinishPush, Resolve, calls, Callers
<1>18. CASE \/ \E l \in Links : HandleDisconnect(l)
            \/ \E h \in Polls : TakeOver(h)
  <2>1. UNCHANGED <<data, known, build, change, timer>>
    BY <1>18 DEF HandleDisconnect, TakeOver, barrier
  <2>2. \/ flush' = flush
        \/ \E n : flush' = Revisited(n)
    BY <1>18 DEF HandleDisconnect, TakeOver
  <2>3. \A f \in Changes : /\ flush'[f].waiters = flush[f].waiters
                           /\ flush'[f].visited \subseteq flush[f].visited
    BY <1>0, <2>2, RevisitedKeeps
  <2> QED
    BY <1>0, <2>1, <2>3, KeptCalls
<1>19. CASE \E h \in Polls : AskDesired(h)
  <2>0. PICK h \in Polls : AskDesired(h)
    BY <1>19
  <2>1. h \notin Changes
    BY CallersAssumption DEF CallersAssumption
  <2>2. \A c \in Changes : build'[c] = build[c]
    BY <1>0, <2>0, <2>1 DEF AskDesired, TypeOK, Callers
  <2> QED
    BY <1>2, <2>0, <2>2 DEF AskDesired
<1>20. CASE \E h \in Polls : GetDesired(h)
  BY <1>2, <1>3, <1>20 DEF GetDesired, Resolve, Callers
<1>21. CASE \E h \in Polls : PollFails(h)
  BY <1>2, <1>3, <1>21 DEF PollFails, Callers
<1>22. CASE MasterRestarts
  <2>1. \A c \in Changes : /\ change'[c].scope = change[c].scope
                           /\ change'[c].step # "pushing"
                           /\ change'[c].step # "none" => change[c].step # "none"
    <3>1. ASSUME NEW c \in Changes
          PROVE  /\ change'[c].scope = change[c].scope
                 /\ change'[c].step # "pushing"
                 /\ change'[c].step # "none" => change[c].step # "none"
      <4>1. change[c] \in Announcements
        BY <1>0 DEF TypeOK
      <4>2. change'[c] = IF change[c].step \in {"none", "answered"} THEN change[c]
                         ELSE [change[c] EXCEPT !.step = "lost"]
        BY <1>22 DEF MasterRestarts
      <4> QED
        BY <4>1, <4>2 DEF Announcements
    <3> QED
      BY <3>1
  <2>2. /\ data' = data /\ known' = data /\ timer' = NoChange
        /\ \A f \in Changes : flush'[f].waiters = {} /\ flush'[f].visited = {}
    BY <1>22 DEF MasterRestarts, NoFlush
  <2>3. \A c \in Changes : \A n \in change'[c].scope :
          /\ change'[c].step # "none" => c \in data'[n]
          /\ Announced(c)' => c \in known'[n]
    <3>1. \A c \in Changes : change'[c].step # "none" =>
              \A n \in change'[c].scope : c \in data[n]
      BY <2>1 DEF CallsInv
    <3>2. \A c \in Changes : Announced(c)' => change'[c].step # "none"
      BY DEF Announced
    <3> QED
      BY <2>2, <3>1, <3>2
  <2>4. \A c \in Changes : change'[c].step # "pushing"
    BY <2>1
  <2>5. /\ \A f \in Changes : flush'[f].waiters # {} => f \in flush'[f].waiters
        /\ \A f \in Changes : flush'[f].waiters = {} => flush'[f].visited = {}
        /\ \A f \in Changes : \A c \in flush'[f].waiters : change'[c].step = "flushing"
        /\ \A f, g \in Changes : f # g => flush'[f].waiters \cap flush'[g].waiters = {}
    BY <2>2
  <2> QED
    BY <2>2, <2>3, <2>4, <2>5 DEF CallsInv
<1>2a. CASE \/ \E l \in Links : Register(l) \/ DispatchQueued(l) \/ Break(l)
            \/ \E h \in Polls : Discard(h)
            \/ \E n \in Nodes :
                  \/ \E l \in Links : Dial(n, l)
                  \/ \E h \in Polls : SendPoll(n, h)
                  \/ Read(n) \/ HangUp(n) \/ Receive(n) \/ RequestUpgrade(n) \/ Minute(n)
                  \/ Timeout(n) \/ \E mode \in {"WS", "HTTP"} : AgentRestarts(n, mode)
  BY ZenonT(40), <1>1, <1>2a DEF Register, DispatchQueued, Break, Discard, Dial, SendPoll, Read, HangUp,
     Receive, RequestUpgrade, Minute, Timeout, AgentRestarts, barrier
<1>24. CASE UNCHANGED vars
  BY <1>1, <1>24 DEF vars, barrier
<1> QED
  BY <1>5, <1>6, <1>7, <1>8, <1>9, <1>10, <1>11, <1>12, <1>13, <1>14, <1>15, <1>16, <1>17,
     <1>18, <1>19, <1>20, <1>21, <1>22, <1>2a, <1>24
     DEF Next, Announce, Flush, Serve, HandlePoll

LEMMA AlwaysCalls == Spec => []CallsInv
BY InitCallsInv, NextCallsInv, AlwaysTyped, AlwaysBehindBarrier, PTL DEF Spec

-----------------------------------------------------------------------------
\* What the callers have been promised.

LEMMA InitReachInv == Init => ReachInv
BY DEF Init, ReachInv, NoAnnouncement, NoFlush

\* A step after which what was reached still is.
LEMMA KeptReach ==
    ASSUME TypeOK, ReachInv, UNCHANGED change,
           \A f \in Changes : flush'[f].waiters = flush[f].waiters,
           \A f \in Changes : flush'[f].visited \subseteq flush[f].visited,
           \A f \in Changes : flush[f].waiters # {} => build'[f].node = build[f].node,
           \A c \in Changes, n \in Nodes : Reached(c, n) => Reached(c, n)'
    PROVE  ReachInv'
<1>1. \A f \in Changes : flush[f].waiters \subseteq Changes
  BY DEF TypeOK, Flushes
<1>2. ASSUME NEW c \in Changes, NEW n \in Nodes,
             change'[c].step = "answered", n \in change'[c].scope
      PROVE  Reached(c, n)'
  BY <1>2 DEF ReachInv
<1>3. ASSUME NEW f \in Changes, NEW n \in Nodes, NEW c \in flush'[f].waiters,
             n \in flush'[f].visited, n \in change'[c].scope
      PROVE  Reached(c, n)' \/ build'[f].node = n
  <2>1. c \in flush[f].waiters /\ c \in Changes /\ n \in flush[f].visited
    BY <1>1, <1>3
  <2>2. Reached(c, n) \/ build[f].node = n
    BY <1>3, <2>1 DEF ReachInv
  <2> QED
    BY <2>1, <2>2
<1> QED
  BY <1>2, <1>3 DEF ReachInv

\* Connections that keep what they were sent, and builds.
LEMMA ReachedStays ==
    ASSUME TypeOK, UNCHANGED sockets, unsent \subseteq unsent', Kept,
           \A l \in Links : Building(l) => Building(l)',
           NEW c \in Changes, NEW n \in Nodes, Reached(c, n)
    PROVE  Reached(c, n)'
<1>1. sockets[n] # NoLink => sockets[n] \in Links
  BY DEF TypeOK
<1> QED
  BY <1>1 DEF Reached, Kept

LEMMA FinishPushReach ==
    ASSUME TypeOK, BarrierInv, ServedInv, CallsInv, ReachInv,
           NEW k \in Callers, FinishPush(k),
           \A c \in Changes :
               /\ change'[c].scope = change[c].scope
               /\ change'[c].step = "answered" =>
                     \/ change[c].step = "answered"
                     \/ change[c].step = "pushing" /\ change[c].scope = {build[k].node}
    PROVE  ReachInv'
<1>0. PICK n0 \in Nodes : n0 = build[k].node
  BY DesiredType DEF FinishPush
<1>1. known[n0] \subseteq Desired(k)
  BY <1>0, DesiredIsCurrent DEF FinishPush
<1>2. /\ \A m \in Links : link'[m].stage = link[m].stage
      /\ sockets' = sockets
      /\ flush' = flush
      /\ \A j \in Callers : j # k => build'[j] = build[j]
      /\ \A l \in Links : sockets[n0] # l => link'[l].sent = link[l].sent
      /\ \A l \in Links : sockets[n0] = l => link'[l].sent = Desired(k)
  BY <1>0, FinishPushLinks DEF FinishPush, TypeOK
<1>3. sockets[n0] # NoLink => unsent' = unsent \ {n0}
  BY <1>0 DEF FinishPush
<1>4. unsent \ {n0} \subseteq unsent'
  BY <1>0 DEF FinishPush
<1>5. \A n \in Nodes : sockets[n] # NoLink =>
          /\ sockets[n] \in Links /\ link[sockets[n]].node = n
          /\ Building(sockets[n]) /\ link[sockets[n]].stage = "admitted"
                => build[sockets[n]].node = n
  BY DEF ServedInv, LinksInv, TypeOK
<1>6. \A c \in known[n0] : Reached(c, n0)'
  <2>1. ASSUME NEW c \in known[n0], sockets[n0] # NoLink PROVE Reached(c, n0)'
    <3>1. PICK l \in Links : l = sockets[n0]
      BY <1>5, <2>1
    <3>2. c \in link'[l].sent
      BY <1>1, <1>2, <3>1
    <3> QED
      BY <1>2, <3>1, <3>2 DEF Reached
  <2>2. ASSUME NEW c \in known[n0], sockets[n0] = NoLink PROVE Reached(c, n0)'
    BY <1>2, <2>2 DEF Reached
  <2> QED
    BY <2>1, <2>2
<1>7. ASSUME NEW c \in Changes, NEW n \in Nodes, n # n0, Reached(c, n)
      PROVE  Reached(c, n)'
  <2>1. SUFFICES ASSUME n \notin unsent', sockets'[n] # NoLink,
                        link'[sockets'[n]].stage = "admitted", build'[sockets'[n]].node = NoNode
                 PROVE  c \in link'[sockets'[n]].sent
    BY DEF Reached, Building
  <2>2. PICK l \in Links : l = sockets[n] /\ l = sockets'[n]
    BY <1>2, <1>5, <2>1
  <2>3. n \notin unsent /\ link[l].stage = "admitted" /\ link[l].node = n
    BY <1>2, <1>4, <1>5, <1>7, <2>1, <2>2
  <2>4. ~Building(l)
    <3>1. SUFFICES ASSUME Building(l) PROVE FALSE
      OBVIOUS
    <3>2. build[l].node = n
      BY <1>2, <1>5, <2>1, <2>2, <2>3, <3>1
    <3>3. l # k
      BY <1>0, <1>7, <3>2
    <3> QED
      BY <1>2, <2>1, <2>2, <3>1, <3>3 DEF Building, Callers
  <2>5. c \in link[l].sent
    BY <1>7, <2>2, <2>3, <2>4, BoundsAssumption DEF Reached, BoundsAssumption
  <2>6. sockets[n0] # l
    BY <1>5, <1>7, <2>3, BoundsAssumption DEF BoundsAssumption
  <2> QED
    BY <1>2, <2>2, <2>5, <2>6
<1>8. ASSUME NEW c \in Changes, NEW n \in Nodes,
             change'[c].step = "answered", n \in change'[c].scope
      PROVE  Reached(c, n)'
  <2>1. n \in change[c].scope /\ (change[c].step = "answered" \/ change[c].step = "pushing")
    BY <1>8
  <2>2. c \in known[n]
    BY <2>1 DEF CallsInv, Announced
  <2>3. CASE n = n0
    BY <1>6, <2>2, <2>3
  <2>4. CASE n # n0
    <3>1. change[c].step = "answered"
      BY <1>0, <1>8, <2>1, <2>4
    <3> QED
      BY <1>7, <2>1, <2>4, <3>1 DEF ReachInv
  <2> QED
    BY <2>3, <2>4
<1>9. ASSUME NEW f \in Changes, NEW n \in Nodes, NEW c \in flush'[f].waiters,
             n \in flush'[f].visited, n \in change'[c].scope
      PROVE  Reached(c, n)' \/ build'[f].node = n
  <2>1. c \in flush[f].waiters /\ c \in Changes /\ n \in flush[f].visited
        /\ n \in change[c].scope
    BY <1>2, <1>9 DEF TypeOK, Flushes
  <2>2. Reached(c, n) \/ build[f].node = n
    BY <2>1 DEF ReachInv
  <2>3. CASE n = n0
    <3>1. change[c].step = "flushing"
      BY <2>1 DEF CallsInv
    <3>2. c \in known[n]
      BY <2>1, <3>1 DEF CallsInv, Announced
    <3> QED
      BY <1>6, <2>3, <3>2
  <2>4. CASE n # n0 /\ Reached(c, n)
    BY <1>7, <2>1, <2>4
  <2>5. CASE n # n0 /\ build[f].node = n
    BY <1>0, <1>2, <2>5 DEF Callers
  <2> QED
    BY <2>2, <2>3, <2>4, <2>5
<1> QED
  BY <1>8, <1>9 DEF ReachInv

LEMMA StartPushBuilds ==
    ASSUME TypeOK, NEW k \in Callers, NEW n \in Nodes, StartPush(k, n)
    PROVE  /\ build'[k].node = n
           /\ \A j \in Callers : j # k => build'[j].node = build[j].node
<1>1. build' = [Stale EXCEPT ![k] = NewBuild(n)]
  BY DEF StartPush
<1> QED
  BY <1>1, StaleType DEF NewBuild

LEMMA NextReachInv ==
    TypeInv /\ BarrierInv /\ ServedInv /\ CallsInv /\ ReachInv /\ [Next]_vars => ReachInv'
<1> SUFFICES ASSUME TypeInv, BarrierInv, ServedInv, CallsInv, ReachInv, [Next]_vars
             PROVE  ReachInv'
  OBVIOUS
<1>0. TypeOK
  BY DEF TypeInv
<1>1. \A n \in Nodes : sockets[n] # NoLink =>
          /\ sockets[n] \in Links
          /\ link[sockets[n]].node = n
          /\ link[sockets[n]].stage \in {"registering", "dispatching", "admitted"}
          /\ Building(sockets[n]) /\ link[sockets[n]].stage = "admitted"
                => build[sockets[n]].node = n
  BY <1>0 DEF ServedInv, LinksInv, TypeOK
<1>2. \A f \in Changes : flush[f].waiters \subseteq Changes
  BY <1>0 DEF TypeOK, Flushes
<1>3. ASSUME UNCHANGED <<change, flush, sockets>>, unsent \subseteq unsent', Kept,
             \A k \in Changes \cup Links : build'[k].node = build[k].node
      PROVE  ReachInv'
  <2>1. \A l \in Links : Building(l) => Building(l)'
    BY <1>3 DEF Building
  <2>2. \A c \in Changes, n \in Nodes : Reached(c, n) => Reached(c, n)'
    BY <1>0, <1>3, <2>1, ReachedStays
  <2> QED
    BY <1>0, <1>3, <2>2, KeptReach
<1>4. ASSUME UNCHANGED <<change, flush, sockets, link, unsent>>,
             \A k \in Changes \cup Links : build'[k].node = build[k].node
      PROVE  ReachInv'
  BY <1>3, <1>4 DEF Kept
<1>5. ASSUME NEW c \in Changes, change[c].step \in {"none", "committed", "settings"},
             change'[c].step # "answered", \A d \in Changes : d # c => change'[d] = change[d],
             UNCHANGED <<flush, sockets, link, unsent>>,
             \A k \in Changes \cup Links : k # c => build'[k].node = build[k].node
      PROVE  ReachInv'
  <2>1. flush[c].waiters = {}
    BY <1>5 DEF CallsInv
  <2>2. \A f \in Changes : \A d \in flush[f].waiters : d \in Changes /\ d # c /\ f # c
    BY <1>2, <1>5, <2>1 DEF CallsInv
  <2>3. \A l \in Links : build'[l].node = build[l].node
    BY <1>5, CallersAssumption DEF CallersAssumption
  <2>4. \A d \in Changes, n \in Nodes : Reached(d, n) => Reached(d, n)'
    BY <1>1, <1>5, <2>3 DEF Reached, Building
  <2>5. \A d \in Changes, n \in Nodes :
            change'[d].step = "answered" /\ n \in change'[d].scope => Reached(d, n)'
    BY <1>5, <2>4 DEF ReachInv
  <2>6. ASSUME NEW f \in Changes, NEW n \in Nodes, NEW d \in flush'[f].waiters,
               n \in flush'[f].visited, n \in change'[d].scope
        PROVE  Reached(d, n)' \/ build'[f].node = n
    <3>1. d \in flush[f].waiters /\ d \in Changes /\ d # c /\ f # c
      BY <1>5, <2>2, <2>6
    <3>2. Reached(d, n) \/ build[f].node = n
      BY <1>5, <2>6, <3>1 DEF ReachInv
    <3> QED
      BY <1>5, <2>4, <3>1, <3>2
  <2> QED
    BY <2>5, <2>6 DEF ReachInv
\* A step of a connection or of a poll that takes one over.
<1>6. ASSUME UNCHANGED change, unsent \subseteq unsent',
             \A f \in Changes : /\ flush'[f].waiters = flush[f].waiters
                                /\ flush'[f].visited \subseteq flush[f].visited
                                /\ build'[f].node = build[f].node,
             \A n \in Nodes :
                 \/ sockets'[n] = NoLink
                 \/ link'[sockets'[n]].stage # "admitted"
                 \/ build'[sockets'[n]].node # NoNode
                 \/ /\ sockets'[n] = sockets[n]
                    /\ link'[sockets[n]].stage = link[sockets[n]].stage
                    /\ link'[sockets[n]].sent = link[sockets[n]].sent
                    /\ build'[sockets[n]].node = build[sockets[n]].node
      PROVE  ReachInv'
  <2>1. \A c \in Changes, n \in Nodes : Reached(c, n) => Reached(c, n)'
    BY <1>6 DEF Reached, Building
  <2> QED
    BY <1>0, <1>6, <2>1, KeptReach
<1>7. CASE \E c \in Changes, S \in Scopes : Commit(c, S)
  <2>1. PICK c \in Changes, S \in Scopes : Commit(c, S)
    BY <1>7
  <2>2. /\ change'[c].step = "committed" /\ change[c].step = "none"
        /\ \A d \in Changes : d # c => change'[d] = change[d]
    BY <1>0, <2>1 DEF Commit, TypeOK
  <2> QED
    BY <1>5, <2>1, <2>2 DEF Commit, wires
<1>8. CASE \E c \in Changes, n \in Nodes : PushConfig(c, n)
  <2>1. PICK c \in Changes, n \in Nodes : PushConfig(c, n)
    BY <1>8
  <2>2. /\ change'[c].step = "pushing" /\ change[c].step = "committed"
        /\ \A d \in Changes : d # c => change'[d] = change[d]
    BY <1>0, <2>1 DEF PushConfig, TypeOK, Announcements
  <2>3. \A k \in Changes \cup Links : k # c => build'[k].node = build[k].node
    BY <1>0, <2>1, StartPushBuilds DEF PushConfig, Callers
  <2> QED
    BY <1>5, <2>1, <2>2, <2>3 DEF PushConfig, wires
<1>9. CASE \E c \in Changes : PushEnds(c)
  <2>1. PICK c \in Changes : PushEnds(c)
    BY <1>9
  <2>2. /\ change[c].step = "pushing" /\ change'[c].scope = change[c].scope
        /\ \A d \in Changes : d # c => change'[d] = change[d]
    BY <1>0, <2>1 DEF PushEnds, TypeOK, Announcements
  <2>3. change[c].scope = {build[c].node}
    BY <2>1, <2>2 DEF CallsInv, PushEnds, FinishPush, Resolve
  <2>4. \A d \in Changes :
            /\ change'[d].scope = change[d].scope
            /\ change'[d].step = "answered" =>
                  \/ change[d].step = "answered"
                  \/ change[d].step = "pushing" /\ change[d].scope = {build[c].node}
    BY <2>2, <2>3
  <2>5. c \in Callers /\ FinishPush(c)
    BY <2>1 DEF PushEnds, Callers
  <2> QED
    BY <1>0, <2>4, <2>5, FinishPushReach
<1>10. CASE \E c \in Changes : PushConfigToAll(c)
  <2>1. PICK c \in Changes : PushConfigToAll(c)
    BY <1>10
  <2>2. /\ change'[c].step = "settings" /\ change[c].step = "committed"
        /\ \A d \in Changes : d # c => change'[d] = change[d]
    BY <1>0, <2>1 DEF PushConfigToAll, TypeOK, Announcements
  <2>3. \A k \in Changes \cup Links : build'[k].node = build[k].node
    BY <1>0, <2>1, StaleType DEF PushConfigToAll, Callers
  <2> QED
    BY <1>5, <2>1, <2>2, <2>3 DEF PushConfigToAll, wires
<1>11. CASE \E c \in Changes : Debounce(c)
  <2>1. PICK c \in Changes : Debounce(c)
    BY <1>11
  <2>2. /\ change'[c].step = "waiting" /\ change[c].step = "settings"
        /\ \A d \in Changes : d # c => change'[d] = change[d]
    BY <1>0, <2>1 DEF Debounce, TypeOK, Announcements
  <2> QED
    BY <1>5, <2>1, <2>2 DEF Debounce, wires, barrier
<1>12. CASE StartFlush
  <2>1. /\ timer \in Changes /\ UNCHANGED <<build, sockets, link, unsent>>
        /\ change[timer].step = "waiting"
    BY <1>0, <1>12 DEF StartFlush, CallsInv, barrier, wires, TypeOK
  <2>2. flush[timer].waiters = {} /\ flush[timer].visited = {}
    BY <2>1 DEF CallsInv
  <2>3. /\ flush'[timer].visited = {}
        /\ \A f \in Changes : f # timer => flush'[f] = flush[f]
    BY <1>0, <1>12, <2>1, <2>2 DEF StartFlush, TypeOK, Flushes
  <2>4. \A c \in Changes :
           /\ change'[c].scope = change[c].scope
           /\ change'[c].step = "answered" => change[c].step = "answered"
    BY <1>0, <1>12 DEF StartFlush, TypeOK, Announcements
  <2>5. \A c \in Changes, n \in Nodes : Reached(c, n) => Reached(c, n)'
    BY <2>1 DEF Reached, Building
  <2>6. \A c \in Changes, n \in Nodes :
            change'[c].step = "answered" /\ n \in change'[c].scope => Reached(c, n)'
    BY <2>4, <2>5 DEF ReachInv
  <2>7. ASSUME NEW f \in Changes, NEW n \in Nodes, NEW c \in flush'[f].waiters,
               n \in flush'[f].visited, n \in change'[c].scope
        PROVE  Reached(c, n)' \/ build'[f].node = n
    <3>1. f # timer /\ c \in flush[f].waiters /\ c \in Changes /\ n \in flush[f].visited
      BY <1>2, <2>3, <2>7
    <3>2. Reached(c, n) \/ build[f].node = n
      BY <2>4, <2>7, <3>1 DEF ReachInv
    <3> QED
      BY <2>1, <2>5, <3>1, <3>2
  <2> QED
    BY <2>6, <2>7 DEF ReachInv
<1>13. CASE \E f \in Changes, n \in Nodes : FlushNode(f, n)
  <2>0. PICK f \in Changes, n \in Nodes : FlushNode(f, n)
    BY <1>13
  <2>1. /\ build[f].node = NoNode
        /\ UNCHANGED <<change, sockets, link, unsent>>
    BY <2>0 DEF FlushNode, Building, wires
  <2>2. /\ build'[f].node = n
        /\ \A k \in Changes \cup Links : k # f => build'[k].node = build[k].node
    BY <1>0, <2>0, StartPushBuilds DEF FlushNode, Callers
  <2>3. /\ flush'[f].waiters = flush[f].waiters
        /\ flush'[f].visited = flush[f].visited \cup {n}
        /\ \A g \in Changes : g # f => flush'[g] = flush[g]
    BY <1>0, <2>0 DEF FlushNode, TypeOK, Flushes
  <2>4. \A l \in Links : build'[l].node = build[l].node
    BY <2>2, CallersAssumption DEF CallersAssumption
  <2>5. \A c \in Changes, m \in Nodes : Reached(c, m) => Reached(c, m)'
    BY <1>1, <2>1, <2>4 DEF Reached, Building
  <2>6. \A c \in Changes, m \in Nodes :
            change'[c].step = "answered" /\ m \in change'[c].scope => Reached(c, m)'
    BY <2>1, <2>5 DEF ReachInv
  <2>7. ASSUME NEW g \in Changes, NEW m \in Nodes, NEW c \in flush'[g].waiters,
               m \in flush'[g].visited, m \in change'[c].scope
        PROVE  Reached(c, m)' \/ build'[g].node = m
    <3>1. c \in flush[g].waiters /\ c \in Changes /\ m \in change[c].scope
      BY <1>2, <2>1, <2>3, <2>7
    <3>2. CASE g = f /\ m = n
      BY <2>2, <3>2
    <3>3. CASE g # f \/ m # n
      <4>1. m \in flush[g].visited
        BY <2>3, <2>7, <3>3
      <4>2. Reached(c, m) \/ build[g].node = m
        BY <3>1, <4>1 DEF ReachInv
      <4>3. build[g].node = m => g # f
        BY <2>1, BoundsAssumption DEF BoundsAssumption
      <4> QED
        BY <2>2, <2>5, <3>1, <4>2, <4>3
    <3> QED
      BY <3>2, <3>3
  <2> QED
    BY <2>6, <2>7 DEF ReachInv
<1>14. CASE \/ \E f \in Changes : FlushedNode(f)
            \/ \E l \in Links : FirstPush(l)
  <2>1. PICK k \in Callers : FinishPush(k) /\ change' = change
    BY <1>14 DEF FlushedNode, FirstPush, Callers
  <2> QED
    BY <1>0, <2>1, FinishPushReach
<1>15. CASE \E f \in Changes : FlushEnds(f)
  <2>0. PICK f \in Changes : FlushEnds(f)
    BY <1>15
  <2>1. /\ UNCHANGED <<build, sockets, link, unsent>>
        /\ build[f].node = NoNode
        /\ \A n \in Nodes : sockets[n] # NoLink => n \in flush[f].visited
    BY <2>0 DEF FlushEnds, barrier, wires, Building, Connected
  <2>2. /\ flush'[f].waiters = {}
        /\ \A g \in Changes : g # f => flush'[g] = flush[g]
    BY <1>0, <2>0 DEF FlushEnds, NoFlush, TypeOK
  <2>3. \A c \in Changes :
           /\ change'[c].scope = change[c].scope /\ change[c].scope \subseteq Nodes
           /\ change'[c].step = IF c \in flush[f].waiters THEN "answered" ELSE change[c].step
    BY <1>0, <2>0 DEF FlushEnds, Answered, TypeOK, Announcements
  <2>4. \A c \in Changes, n \in Nodes : Reached(c, n) => Reached(c, n)'
    BY <2>1 DEF Reached, Building
  <2>5. ASSUME NEW c \in flush[f].waiters, NEW n \in Nodes, n \in change[c].scope
        PROVE  Reached(c, n)
    <3>1. CASE sockets[n] = NoLink
      BY <3>1 DEF Reached
    <3>2. CASE sockets[n] # NoLink
      <4>1. n \in flush[f].visited /\ build[f].node # n
        BY <2>1, <3>2, BoundsAssumption DEF BoundsAssumption
      <4> QED
        BY <2>5, <4>1 DEF ReachInv
    <3> QED
      BY <3>1, <3>2
  <2>6. \A c \in Changes, n \in Nodes :
            change'[c].step = "answered" /\ n \in change'[c].scope => Reached(c, n)'
    BY <2>3, <2>4, <2>5 DEF ReachInv
  <2>7. ASSUME NEW g \in Changes, NEW n \in Nodes, NEW c \in flush'[g].waiters,
               n \in flush'[g].visited, n \in change'[c].scope
        PROVE  Reached(c, n)' \/ build'[g].node = n
    <3>1. g # f /\ c \in flush[g].waiters /\ c \in Changes /\ n \in flush[g].visited
      BY <1>2, <2>2, <2>7
    <3>2. Reached(c, n) \/ build[g].node = n
      BY <2>3, <2>7, <3>1 DEF ReachInv
    <3> QED
      BY <2>1, <2>4, <3>1, <3>2
  <2> QED
    BY <2>6, <2>7 DEF ReachInv
<1>16. CASE \E k \in Callers : BuildAgain(k)
  <2>1. PICK k \in Callers : BuildAgain(k)
    BY <1>16
  <2>2. \A j \in Changes \cup Links : build'[j].node = build[j].node
    BY <1>0, <2>1 DEF BuildAgain, NewBuild, TypeOK, Callers
  <2> QED
    BY <1>4, <2>1, <2>2 DEF BuildAgain, calls, wires
<1>17. CASE \E k \in Callers : PushFails(k)
  <2>0. PICK k \in Callers : PushFails(k)
    BY <1>17
  <2>1. PICK n0 \in Nodes : n0 = build[k].node
    BY <1>0, <2>0 DEF PushFails, Building, TypeOK, Builds
  <2>2. /\ UNCHANGED <<flush, sockets, link>> /\ unsent' = unsent \cup {n0}
        /\ \A j \in Callers : j # k => build'[j] = build[j]
    BY <1>0, <2>0, <2>1 DEF PushFails, TypeOK
  <2>3. \A c \in Changes :
            /\ change'[c].scope = change[c].scope
            /\ change'[c].step = "answered" =>
                  change[c].step = "answered" \/ (c = k /\ change[c].step = "pushing")
    <3>1. \A c \in Changes :
              change'[c] = IF c = k /\ change[c].step = "pushing"
                             THEN [change[c] EXCEPT !.step = "answered"] ELSE change[c]
      BY <2>0 DEF PushFails
    <3>2. \A c \in Changes : change[c] \in Announcements
      BY <1>0 DEF TypeOK
    <3> QED
      BY ZenonT(40), <3>1, <3>2, AnnouncementUpdates
  <2>4. \A c \in Changes : Reached(c, n0)'
    BY <2>2 DEF Reached
  <2>5. ASSUME NEW c \in Changes, NEW n \in Nodes, n # n0, Reached(c, n)
        PROVE  Reached(c, n)'
    <3>1. SUFFICES ASSUME sockets[n] # NoLink, n \notin unsent,
                          link[sockets[n]].stage = "admitted", c \notin link[sockets[n]].sent
                   PROVE  build'[sockets[n]].node # NoNode
      BY <2>2 DEF Reached, Building
    <3>2. PICK l \in Links : l = sockets[n]
      BY <1>1, <3>1
    <3>3. Building(l)
      BY <2>5, <3>1, <3>2 DEF Reached
    <3>4. build[l].node = n
      BY <1>1, <3>1, <3>2, <3>3
    <3>5. l # k /\ l \in Callers
      BY <2>1, <2>5, <3>4 DEF Callers
    <3> QED
      BY <2>2, <3>2, <3>3, <3>5 DEF Building
  <2>6. ASSUME NEW c \in Changes, NEW n \in Nodes,
               change'[c].step = "answered", n \in change'[c].scope
        PROVE  Reached(c, n)'
    <3>1. CASE n = n0
      BY <2>4, <3>1
    <3>2. CASE n # n0
      <4>1. n \in change[c].scope
            /\ (change[c].step = "answered" \/ (c = k /\ change[c].step = "pushing"))
        BY <2>3, <2>6
      <4>2. c = k /\ change[c].step = "pushing" => change[c].scope = {n0}
        BY <2>0, <2>1 DEF CallsInv, PushFails
      <4>3. Reached(c, n)
        BY <3>2, <4>1, <4>2 DEF ReachInv
      <4> QED
        BY <2>5, <3>2, <4>3
    <3> QED
      BY <3>1, <3>2
  <2>7. ASSUME NEW f \in Changes, NEW n \in Nodes, NEW c \in flush'[f].waiters,
               n \in flush'[f].visited, n \in change'[c].scope
        PROVE  Reached(c, n)' \/ build'[f].node = n
    <3>1. c \in flush[f].waiters /\ c \in Changes /\ n \in flush[f].visited
      BY <1>2, <2>2, <2>7
    <3>2. Reached(c, n) \/ build[f].node = n
      BY <2>3, <2>7, <3>1 DEF ReachInv
    <3>3. CASE n = n0
      BY <2>4, <3>1, <3>3
    <3>4. CASE n # n0 /\ Reached(c, n)
      BY <2>5, <3>1, <3>4
    <3>5. CASE n # n0 /\ build[f].node = n
      BY <2>1, <2>2, <3>5 DEF Callers
    <3> QED
      BY <3>2, <3>3, <3>4, <3>5
  <2> QED
    BY <2>6, <2>7 DEF ReachInv
<1>18. CASE \E l \in Links : Register(l)
  <2>0. PICK l \in Links : Register(l)
    BY <1>18
  <2>1. PICK n \in Nodes : n = link[l].node
    BY <2>0 DEF Register, TypeInv, NodesOK
  <2>2. UNCHANGED <<change, flush, build, unsent>> /\ link[l].stage = "authenticating"
    BY <2>0 DEF Register, barrier, calls
  <2>3. sockets' = [sockets EXCEPT ![n] = l]
    BY <2>0, <2>1 DEF Register
  <2>4. \A m \in Links : link[m] \in Connections
    BY <1>0 DEF TypeOK
  <2>5. \A m \in Links : link'[m] = IF m = l THEN [link[m] EXCEPT !.stage = "registering"]
                                   ELSE IF m = sockets[n] THEN [link[m] EXCEPT !.open = FALSE]
                                   ELSE link[m]
    BY <2>0, <2>1 DEF Register
  <2>6. /\ link'[l].stage = "registering"
        /\ \A m \in Links : m # l => link'[m].stage = link[m].stage
                                     /\ link'[m].sent = link[m].sent
    BY <2>4, <2>5 DEF Connections
  <2>7. sockets'[n] = l /\ \A m \in Nodes : m # n => sockets'[m] = sockets[m]
    BY <1>0, <2>3 DEF TypeOK
  <2>8. \A m \in Nodes : sockets[m] # NoLink => sockets[m] \in Links /\ sockets[m] # l
    BY <1>1, <2>2
  <2>9. \A m \in Nodes :
                 \/ sockets'[m] = NoLink
                 \/ link'[sockets'[m]].stage # "admitted"
                 \/ build'[sockets'[m]].node # NoNode
                 \/ /\ sockets'[m] = sockets[m]
                    /\ link'[sockets[m]].stage = link[sockets[m]].stage
                    /\ link'[sockets[m]].sent = link[sockets[m]].sent
                    /\ build'[sockets[m]].node = build[sockets[m]].node
    BY <2>2, <2>6, <2>7, <2>8
  <2> QED
    BY <1>6, <2>2, <2>9
<1>19. CASE \E l \in Links : DispatchQueued(l)
  <2>0. PICK l \in Links : DispatchQueued(l)
    BY <1>19
  <2>1. PICK n \in Nodes : n = link[l].node
    BY <2>0 DEF DispatchQueued, TypeInv, NodesOK
  <2>2. UNCHANGED <<change, flush, build, unsent, sockets>>
    BY <2>0 DEF DispatchQueued, barrier, calls
  <2>3. PICK dispatched \in [Links -> Connections] :
            /\ link' = [dispatched EXCEPT ![l].stage = "dispatching"]
            /\ \A m \in Links : /\ dispatched[m].stage = link[m].stage
                                /\ dispatched[m].sent = link[m].sent
    <3>1. CASE upgrade[n] = "due" /\ sockets[n] # NoLink
      <4>1. sockets[n] \in Links
        BY <1>1, <3>1
      <4>2. link' = [Sent(sockets[n], Frame("upgrade_task")) EXCEPT ![l].stage = "dispatching"]
        BY <2>0, <2>1, <3>1 DEF DispatchQueued
      <4>3. Frame("upgrade_task").type # "config_sync"
        BY DEF Frame
      <4>4. /\ Sent(sockets[n], Frame("upgrade_task")) \in [Links -> Connections]
            /\ \A m \in Links : Sent(sockets[n], Frame("upgrade_task"))[m].stage = link[m].stage
        BY <1>0, <4>1, SentType, FrameType
      <4>5. \A m \in Links : Sent(sockets[n], Frame("upgrade_task"))[m].sent = link[m].sent
        BY <1>0, <4>1, <4>3, SentKeeps, FrameType
      <4> QED
        BY <4>2, <4>4, <4>5
    <3>2. CASE ~(upgrade[n] = "due" /\ sockets[n] # NoLink)
      <4>1. link' = [link EXCEPT ![l].stage = "dispatching"]
        BY <2>0, <2>1, <3>2 DEF DispatchQueued
      <4> QED
        BY <1>0, <4>1 DEF TypeOK
    <3> QED
      BY <3>1, <3>2
  <2>4. /\ link'[l].stage = "dispatching"
        /\ \A m \in Links : m # l => link'[m].stage = link[m].stage /\ link'[m].sent = link[m].sent
    BY <2>3 DEF Connections
  <2>5. \A m \in Nodes :
                 \/ sockets'[m] = NoLink
                 \/ link'[sockets'[m]].stage # "admitted"
                 \/ build'[sockets'[m]].node # NoNode
                 \/ /\ sockets'[m] = sockets[m]
                    /\ link'[sockets[m]].stage = link[sockets[m]].stage
                    /\ link'[sockets[m]].sent = link[sockets[m]].sent
                    /\ build'[sockets[m]].node = build[sockets[m]].node
    BY <1>1, <2>2, <2>4
  <2> QED
    BY <1>6, <2>2, <2>5
<1>20. CASE \E l \in Links : Admit(l)
  <2>0. PICK l \in Links : Admit(l)
    BY <1>20
  <2>1. PICK n \in Nodes : n = link[l].node
    BY <2>0 DEF Admit, TypeInv, NodesOK
  <2>2. UNCHANGED <<change, flush, unsent, sockets>> /\ StartPush(l, n)
    BY <2>0, <2>1 DEF Admit, calls
  <2>3. build'[l].node = n /\ \A k \in Callers : k # l => build'[k].node = build[k].node
    BY <1>0, <2>2, StartPushBuilds DEF Callers
  <2>4. \A f \in Changes : build'[f].node = build[f].node
    BY <2>3, CallersAssumption DEF CallersAssumption, Callers
  <2>5. PICK x \in [Links -> Connections] :
            /\ link' = [x EXCEPT ![l].stage = "admitted"]
            /\ \A m \in Links : x[m].stage = link[m].stage /\ x[m].sent = link[m].sent
    <3>1. link' = [Sent(l, Frame("auth_result")) EXCEPT ![l].stage = "admitted"]
      BY <2>0 DEF Admit
    <3>2. Frame("auth_result").type # "config_sync"
      BY DEF Frame
    <3>3. /\ Sent(l, Frame("auth_result")) \in [Links -> Connections]
          /\ \A m \in Links : Sent(l, Frame("auth_result"))[m].stage = link[m].stage
      BY <1>0, SentType, FrameType
    <3>4. \A m \in Links : Sent(l, Frame("auth_result"))[m].sent = link[m].sent
      BY <1>0, <3>2, SentKeeps, FrameType
    <3> QED
      BY <3>1, <3>3, <3>4
  <2>6. \A m \in Links : m # l => link'[m].stage = link[m].stage /\ link'[m].sent = link[m].sent
    BY <2>5 DEF Connections
  <2>7. n # NoNode
    BY BoundsAssumption DEF BoundsAssumption
  <2>8. \A m \in Nodes :
                 \/ sockets'[m] = NoLink
                 \/ link'[sockets'[m]].stage # "admitted"
                 \/ build'[sockets'[m]].node # NoNode
                 \/ /\ sockets'[m] = sockets[m]
                    /\ link'[sockets[m]].stage = link[sockets[m]].stage
                    /\ link'[sockets[m]].sent = link[sockets[m]].sent
                    /\ build'[sockets[m]].node = build[sockets[m]].node
    BY <1>1, <2>2, <2>3, <2>6, <2>7 DEF Callers
  <2> QED
    BY <1>6, <2>2, <2>4, <2>8
<1>21. CASE \E l \in Links : HandleDisconnect(l)
  <2>0. PICK l \in Links : HandleDisconnect(l)
    BY <1>21
  <2>1. UNCHANGED <<change, build, unsent>>
    BY <2>0 DEF HandleDisconnect, barrier
  <2>2. link[l] \in Connections
    BY <1>0 DEF TypeOK
  <2>3. \A m \in Links : m # l => link'[m] = link[m]
    BY <1>0, <2>0 DEF HandleDisconnect, TypeOK
  <2>4. flush' = flush \/ \E n : flush' = Revisited(n)
    BY <2>0 DEF HandleDisconnect
  <2>5. \A f \in Changes : /\ flush'[f].waiters = flush[f].waiters
                           /\ flush'[f].visited \subseteq flush[f].visited
    BY <1>0, <2>4, RevisitedKeeps
  <2>6. \A m \in Nodes :
                 \/ sockets'[m] = NoLink
                 \/ link'[sockets'[m]].stage # "admitted"
                 \/ build'[sockets'[m]].node # NoNode
                 \/ /\ sockets'[m] = sockets[m]
                    /\ link'[sockets[m]].stage = link[sockets[m]].stage
                    /\ link'[sockets[m]].sent = link[sockets[m]].sent
                    /\ build'[sockets[m]].node = build[sockets[m]].node
    <3>1. CASE link[l].stage = "admitted"
      <4>1. PICK n \in Nodes : n = link[l].node
        BY <3>1 DEF TypeInv, NodesOK
      <4>2. \/ \A m \in Nodes : sockets'[m] = IF m = n THEN NoLink ELSE sockets[m]
            \/ sockets' = sockets /\ sockets[n] # l
        BY <1>0, <2>0, <3>1, <4>1 DEF HandleDisconnect, IsCurrent, TypeOK
      <4>3. \A m \in Nodes : sockets[m] = l => m = n
        BY <1>1, <4>1, BoundsAssumption DEF BoundsAssumption
      <4>4. \A m \in Nodes : sockets'[m] = NoLink \/ (sockets'[m] = sockets[m] /\ sockets[m] # l)
        BY <4>2, <4>3
      <4> QED
        BY <1>1, <2>1, <2>3, <4>4
    <3>2. CASE link[l].stage # "admitted"
      <4>1. link'[l] = [link[l] EXCEPT !.missed = TRUE] /\ sockets' = sockets
        BY <1>0, <2>0, <3>2 DEF HandleDisconnect, TypeOK
      <4>2. link'[l].stage = link[l].stage /\ link'[l].sent = link[l].sent
        BY <2>2, <4>1 DEF Connections
      <4> QED
        BY <1>1, <2>1, <2>3, <4>1, <4>2
    <3> QED
      BY <3>1, <3>2
  <2> QED
    BY <1>6, <2>1, <2>5, <2>6
<1>22. CASE \E h \in Polls : TakeOver(h)
  <2>0. PICK h \in Polls : TakeOver(h)
    BY <1>22
  <2>1. PICK n \in Nodes : n = poll[h].node
    BY <2>0 DEF TakeOver, TypeInv, NodesOK
  <2>2. UNCHANGED <<change, build, unsent>>
    BY <2>0 DEF TakeOver, barrier
  <2>3. \A m \in Links : link[m] \in Connections
    BY <1>0 DEF TypeOK
  <2>4. sockets' = [sockets EXCEPT ![n] = NoLink]
    BY <2>0, <2>1 DEF TakeOver
  <2>5. \/ link' = link /\ flush' = flush
        \/ link' = [link EXCEPT ![sockets[n]].open = FALSE] /\ flush' = Revisited(n)
    BY <2>0, <2>1 DEF TakeOver
  <2>5a. \A m \in Links : link'[m] = link[m] \/ link'[m] = [link[m] EXCEPT !.open = FALSE]
    BY <1>0, <2>5 DEF TypeOK
  <2>6. \A m \in Links : link'[m].stage = link[m].stage /\ link'[m].sent = link[m].sent
    BY ZenonT(40), <2>3, <2>5a, ConnectionUpdates, ConnectionKeeps
  <2>7. \A f \in Changes : /\ flush'[f].waiters = flush[f].waiters
                           /\ flush'[f].visited \subseteq flush[f].visited
    BY <1>0, <2>5, RevisitedKeeps
  <2>8. \A m \in Nodes : sockets'[m] = NoLink \/ sockets'[m] = sockets[m]
    BY <1>0, <2>4 DEF TypeOK
  <2>9. \A m \in Nodes :
                 \/ sockets'[m] = NoLink
                 \/ link'[sockets'[m]].stage # "admitted"
                 \/ build'[sockets'[m]].node # NoNode
                 \/ /\ sockets'[m] = sockets[m]
                    /\ link'[sockets[m]].stage = link[sockets[m]].stage
                    /\ link'[sockets[m]].sent = link[sockets[m]].sent
                    /\ build'[sockets[m]].node = build[sockets[m]].node
    BY <1>1, <2>2, <2>6, <2>8
  <2> QED
    BY <1>6, <2>2, <2>7, <2>9
<1>2a. CASE \E h \in Polls : AskDesired(h) \/ GetDesired(h) \/ PollFails(h)
  <2>0. PICK h \in Polls : AskDesired(h) \/ GetDesired(h) \/ PollFails(h)
    BY <1>2a
  <2>1. UNCHANGED <<change, flush, sockets, link, unsent>>
    BY <2>0 DEF AskDesired, GetDesired, PollFails, calls, wires
  <2>2. \A k \in Callers : k # h => build'[k] = build[k]
    BY <1>0, <2>0 DEF AskDesired, GetDesired, PollFails, Resolve, TypeOK
  <2>3. \A k \in Changes \cup Links : build'[k].node = build[k].node
    BY <2>2, CallersAssumption DEF CallersAssumption, Callers
  <2> QED
    BY <1>4, <2>1, <2>3
<1>24. CASE \E n \in Nodes, l \in Links : Dial(n, l)
  <2>0. PICK n \in Nodes, l \in Links : Dial(n, l)
    BY <1>24
  <2>1. UNCHANGED <<change, flush, build, unsent, sockets>>
    BY <2>0 DEF Dial, barrier, calls
  <2>2. \A m \in Nodes : sockets[m] # l
    BY <2>0 DEF Dial, Free
  <2>3. \A m \in Links : m # l => link'[m] = link[m]
    BY <1>0, <2>0 DEF Dial, TypeOK
  <2>4. \A m \in Nodes :
                 \/ sockets'[m] = NoLink
                 \/ link'[sockets'[m]].stage # "admitted"
                 \/ build'[sockets'[m]].node # NoNode
                 \/ /\ sockets'[m] = sockets[m]
                    /\ link'[sockets[m]].stage = link[sockets[m]].stage
                    /\ link'[sockets[m]].sent = link[sockets[m]].sent
                    /\ build'[sockets[m]].node = build[sockets[m]].node
    BY <1>1, <2>1, <2>2, <2>3
  <2> QED
    BY <1>6, <2>1, <2>4
<1>25. CASE \/ \E n \in Nodes : \/ Read(n) \/ HangUp(n) \/ RequestUpgrade(n)
                                \/ \E mode \in {"WS", "HTTP"} : AgentRestarts(n, mode)
            \/ \E l \in Links : Break(l)
  <2>1. Kept
    BY <1>0, <1>25, KeptSteps
  <2>2. UNCHANGED <<change, flush, build, unsent, sockets>>
    BY <1>25 DEF Read, HangUp, RequestUpgrade, AgentRestarts, Break, barrier, calls
  <2> QED
    BY <1>3, <2>1, <2>2
<1>26. CASE \/ \E h \in Polls : Discard(h)
            \/ \E n \in Nodes : \/ \E h \in Polls : SendPoll(n, h)
                                \/ Receive(n) \/ Minute(n) \/ Timeout(n)
  BY <1>4, <1>26 DEF Discard, SendPoll, Receive, Minute, Timeout, barrier, calls, wires
<1>27. CASE MasterRestarts
  <2>1. \A n \in Nodes : sockets'[n] = NoLink
    BY <1>27 DEF MasterRestarts
  <2>2. \A f \in Changes : flush'[f].waiters = {}
    BY <1>27 DEF MasterRestarts, NoFlush
  <2>3. \A c \in Changes, n \in Nodes : Reached(c, n)'
    BY <2>1 DEF Reached
  <2> QED
    BY <2>2, <2>3 DEF ReachInv
<1>28. CASE UNCHANGED vars
  BY <1>4, <1>28 DEF vars, barrier, calls, wires
<1> QED
  BY <1>7, <1>8, <1>9, <1>10, <1>11, <1>12, <1>13, <1>14, <1>15, <1>16, <1>17, <1>18, <1>19,
     <1>20, <1>21, <1>22, <1>2a, <1>24, <1>25, <1>26, <1>27, <1>28
     DEF Next, Announce, Flush, Serve, HandlePoll

LEMMA AlwaysReached == Spec => []ReachInv
BY InitReachInv, NextReachInv, AlwaysTyped, AlwaysBehindBarrier, AlwaysServed, AlwaysCalls, PTL
   DEF Spec

\* Who announces a change is answered only when every node it concerns has been sent
\* it, will be when its connection is admitted, or was given up: whatever rounds
\* are underway, and however connections come and go.
THEOREM AnsweredAfterThePush == Spec => []AnsweredAfterPush
<1>1. TypeInv /\ ReachInv => AnsweredAfterPush
  <2>1. SUFFICES ASSUME TypeInv, ReachInv, NEW c \in Changes, NEW n \in Nodes,
                        change[c].step = "answered", n \in change[c].scope \ unsent,
                        sockets[n] # NoLink
                 PROVE  \/ link[sockets[n]].stage # "admitted"
                        \/ Building(sockets[n])
                        \/ c \in link[sockets[n]].sent
    BY DEF AnsweredAfterPush
  <2>2. Reached(c, n)
    BY <2>1 DEF ReachInv
  <2> QED
    BY <2>1, <2>2 DEF Reached
<1> QED
  BY <1>1, AlwaysTyped, AlwaysReached, PTL

-----------------------------------------------------------------------------
\* What is handed out.  A configuration that was handed to a node is committed,
\* and every configuration the node can still be handed contains it: the cached
\* one, or what the builds that may be cached have seen.
HandedTo(n, g) ==
    /\ g \subseteq data[n]
    /\ cache[n] # NoConfig => g \subseteq cache[n]
    /\ cache[n] = NoConfig =>
          \A k \in Callers : build[k].node = n /\ build[k].fresh => g \subseteq build[k].saw

\* Nothing is handed out that was not committed.
SourcesInv ==
    /\ \A n \in Nodes : cache[n] # NoConfig => cache[n] \subseteq data[n]
    /\ \A k \in Callers : Building(k) => build[k].saw \subseteq data[build[k].node]

\* How a step moves the barrier.
BarrierMoves ==
    \/ UNCHANGED <<cache, build>> /\ \A n \in Nodes : data[n] \subseteq data'[n]
    \/ \E k \in Callers, n \in Nodes : StartPush(k, n)
    \/ /\ UNCHANGED data
       /\ cache' = [n \in Nodes |-> NoConfig]
       /\ \A k \in Callers : build'[k] = NoBuild \/ build'[k] = Stale[k]
    \/ \E k \in Callers : Resolve(k)
    \/ /\ UNCHANGED <<data, cache>>
       /\ \E k \in Callers : \/ build' = [build EXCEPT ![k] = NoBuild]
                             \/ \E n \in Nodes : build' = [build EXCEPT ![k] = NewBuild(n)]

LEMMA BarrierSteps == TypeInv /\ [Next]_vars => BarrierMoves
<1> SUFFICES ASSUME TypeInv, [Next]_vars PROVE BarrierMoves
  OBVIOUS
<1>0. TypeOK
  BY DEF TypeInv
<1>1. ASSUME UNCHANGED barrier PROVE BarrierMoves
  BY <1>1 DEF barrier, BarrierMoves
<1>2. CASE \E c \in Changes, S \in Scopes : Commit(c, S)
  <2>0. PICK c \in Changes, S \in Scopes : Commit(c, S)
    BY <1>2
  <2>1. \A n \in Nodes : data[n] \subseteq data'[n]
    BY <1>0, <2>0 DEF Commit, TypeOK
  <2> QED
    BY <2>0, <2>1 DEF Commit, BarrierMoves
<1>3. CASE \E c \in Changes, n \in Nodes : PushConfig(c, n) \/ FlushNode(c, n)
  BY <1>3 DEF PushConfig, FlushNode, Callers, BarrierMoves
<1>4. CASE \E c \in Changes : PushEnds(c) \/ FlushedNode(c)
  BY <1>4 DEF PushEnds, FlushedNode, FinishPush, Callers, BarrierMoves
<1>5. CASE \E c \in Changes : PushConfigToAll(c)
  <2>1. /\ data' = data /\ build' = Stale
        /\ cache' = [n \in Nodes |-> NoConfig]
    BY <1>5 DEF PushConfigToAll, Invalidate, Cleared
  <2> QED
    BY <2>1 DEF BarrierMoves
<1>6. CASE \E k \in Callers : BuildAgain(k)
  <2>0. PICK k \in Callers : BuildAgain(k)
    BY <1>6
  <2>1. build[k].node \in Nodes
    BY <1>0, <2>0 DEF BuildAgain, Building, TypeOK, Builds
  <2> QED
    BY <2>0, <2>1 DEF BuildAgain, BarrierMoves
<1>7. CASE \E k \in Callers : PushFails(k)
  BY <1>7 DEF PushFails, BarrierMoves
<1>8. CASE \E l \in Links : Admit(l) \/ FirstPush(l)
  BY <1>8 DEF Admit, FirstPush, FinishPush, TypeInv, NodesOK, Callers, BarrierMoves
<1>9. CASE \E h \in Polls : AskDesired(h)
  <2>0. PICK h \in Polls : AskDesired(h)
    BY <1>9
  <2>1. poll[h].node \in Nodes /\ h \in Callers
    BY <2>0 DEF AskDesired, TypeInv, NodesOK, Callers
  <2>2. \/ UNCHANGED barrier
        \/ /\ build' = [build EXCEPT ![h] = NewBuild(poll[h].node)]
           /\ UNCHANGED <<data, cache>>
    BY <2>0 DEF AskDesired, barrier
  <2> QED
    BY <1>1, <2>1, <2>2 DEF BarrierMoves
<1>10. CASE \E h \in Polls : GetDesired(h) \/ PollFails(h)
  BY <1>10 DEF GetDesired, PollFails, Callers, BarrierMoves
<1>11. CASE MasterRestarts
  BY <1>11 DEF MasterRestarts, BarrierMoves
<1>12. CASE \E c \in Changes : Debounce(c) \/ FlushEnds(c)
  BY <1>1, <1>12 DEF Debounce, FlushEnds
<1>13. CASE StartFlush
  BY <1>1, <1>13 DEF StartFlush
<1>14. CASE \E l \in Links :
              Register(l) \/ DispatchQueued(l) \/ HandleDisconnect(l) \/ Break(l)
  BY <1>1, <1>14 DEF Register, DispatchQueued, HandleDisconnect, Break
<1>15. CASE \E h \in Polls : TakeOver(h) \/ Discard(h)
  BY <1>1, <1>15 DEF TakeOver, Discard
<1>16. CASE \E n \in Nodes :
              \/ \E l \in Links : Dial(n, l)
              \/ \E h \in Polls : SendPoll(n, h)
              \/ Read(n) \/ HangUp(n) \/ Receive(n) \/ RequestUpgrade(n) \/ Minute(n)
              \/ Timeout(n) \/ \E mode \in {"WS", "HTTP"} : AgentRestarts(n, mode)
  BY <1>1, <1>16 DEF Dial, SendPoll, Read, HangUp, Receive, RequestUpgrade, Minute,
     Timeout, AgentRestarts
<1>17. CASE UNCHANGED vars
  BY <1>1, <1>17 DEF vars
<1> QED
  BY <1>2, <1>3, <1>4, <1>5, <1>6, <1>7, <1>8, <1>9, <1>10, <1>11, <1>12, <1>13, <1>14,
     <1>15, <1>16, <1>17
     DEF Next, Announce, Flush, Serve, HandlePoll

\* The builds after a push has begun: its own sees what is committed, and no other
\* one is up to date.
LEMMA StartPushBuildsAnew ==
    ASSUME TypeOK, NEW k \in Callers, NEW n \in Nodes, StartPush(k, n)
    PROVE  /\ data' = data
           /\ cache' = [cache EXCEPT ![n] = NoConfig]
           /\ build'[k] = NewBuild(n)
           /\ \A j \in Callers : j # k => build'[j] = Stale[j]
<1>1. build' = [Stale EXCEPT ![k] = NewBuild(n)]
  BY DEF StartPush
<1>2. data' = data /\ cache' = [cache EXCEPT ![n] = NoConfig]
  BY DEF StartPush, Invalidate, Cleared, TypeOK
<1> QED
  BY <1>1, <1>2, StaleType

\* What was handed to a node stays behind everything it can still be handed.
LEMMA HandedStays ==
    ASSUME TypeInv, [Next]_vars, NEW n \in Nodes, NEW g, HandedTo(n, g)
    PROVE  HandedTo(n, g)'
<1>0. TypeOK
  BY DEF TypeInv
<1>1. BarrierMoves
  BY BarrierSteps
<1>2. CASE UNCHANGED <<cache, build>> /\ \A m \in Nodes : data[m] \subseteq data'[m]
  BY <1>2 DEF HandedTo
<1>3. ASSUME NEW k \in Callers, NEW m \in Nodes, StartPush(k, m)
      PROVE  HandedTo(n, g)'
  <2>1. /\ data' = data
        /\ cache' = [cache EXCEPT ![m] = NoConfig]
        /\ build'[k] = NewBuild(m)
        /\ \A j \in Callers : j # k => build'[j] = Stale[j]
    BY <1>0, <1>3, StartPushBuildsAnew
  <2>2. \A j \in Callers : build'[j].node = n /\ build'[j].fresh => g \subseteq build'[j].saw
    <3>1. \A j \in Callers : j # k => ~build'[j].fresh
      BY <1>0, <2>1, StaleType
    <3>2. build'[k].node = n => build'[k].saw = data[n]
      BY <2>1 DEF NewBuild
    <3> QED
      BY <3>1, <3>2 DEF HandedTo
  <2>3. cache'[n] # NoConfig => cache'[n] = cache[n]
    BY <1>0, <2>1 DEF TypeOK
  <2> QED
    BY <2>1, <2>2, <2>3 DEF HandedTo
<1>4. CASE /\ UNCHANGED data
           /\ cache' = [m \in Nodes |-> NoConfig]
           /\ \A k \in Callers : build'[k] = NoBuild \/ build'[k] = Stale[k]
  <2>1. \A k \in Callers : ~build'[k].fresh
    <3>1. \A k \in Callers : ~Stale[k].fresh
      BY <1>0, StaleType
    <3>2. ~NoBuild.fresh
      BY DEF NoBuild
    <3> QED
      BY <1>4, <3>1, <3>2
  <2> QED
    BY <1>4, <2>1 DEF HandedTo
<1>5. ASSUME NEW k \in Callers, Resolve(k) PROVE HandedTo(n, g)'
  <2>1. /\ data' = data
        /\ cache' = [cache EXCEPT ![build[k].node] = Desired(k)]
        /\ \A j \in Callers : build'[j] = NoBuild \/ build'[j] = build[j]
        /\ build[k].node \in Nodes /\ Desired(k) # NoConfig
    BY <1>0, <1>5, DesiredType DEF Resolve, TypeOK
  <2>2. CASE build[k].node = n
    <3>1. cache'[n] = Desired(k)
      BY <1>0, <2>1, <2>2 DEF TypeOK
    <3>2. g \subseteq Desired(k)
      BY <2>1, <2>2 DEF HandedTo, Desired
    <3> QED
      BY <2>1, <3>1, <3>2 DEF HandedTo
  <2>3. CASE build[k].node # n
    <3>1. cache'[n] = cache[n]
      BY <1>0, <2>1, <2>3 DEF TypeOK
    <3> QED
      BY <2>1, <3>1 DEF HandedTo, NoBuild
  <2> QED
    BY <2>2, <2>3
<1>6. ASSUME NEW k \in Callers, UNCHANGED <<data, cache>>,
             \/ build' = [build EXCEPT ![k] = NoBuild]
             \/ \E m \in Nodes : build' = [build EXCEPT ![k] = NewBuild(m)]
      PROVE  HandedTo(n, g)'
  <2>1. \A j \in Callers : \/ build'[j] = build[j] \/ build'[j] = NoBuild
                           \/ \E m \in Nodes : build'[j] = NewBuild(m)
    BY <1>0, <1>6 DEF TypeOK
  <2>2. \A j \in Callers : build'[j].node = n /\ build'[j].fresh =>
            build'[j] = build[j] \/ build'[j].saw = data[n]
    <3>1. NoBuild.node # n
      BY BoundsAssumption DEF BoundsAssumption, NoBuild
    <3>2. \A m \in Nodes : NewBuild(m).node = m /\ NewBuild(m).saw = data[m]
      BY DEF NewBuild
    <3> QED
      BY <2>1, <3>1, <3>2
  <2> QED
    BY <1>6, <2>2 DEF HandedTo
<1> QED
  BY <1>1, <1>2, <1>3, <1>4, <1>5, <1>6 DEF BarrierMoves

\* A payload that resolves contains all that was handed out, and is handed out
\* itself.
LEMMA ResolvedIsHanded ==
    ASSUME TypeOK, SourcesInv, NEW k \in Callers, Resolve(k),
           NEW n, n = build[k].node, NEW d, d = Desired(k)
    PROVE  /\ \A g : HandedTo(n, g) => g \subseteq d
           /\ HandedTo(n, d)'
<1>1. /\ data' = data
      /\ cache' = [cache EXCEPT ![n] = d]
      /\ n \in Nodes /\ d # NoConfig
  BY DesiredType DEF Resolve, TypeOK
<1>2. \A g : HandedTo(n, g) => g \subseteq d
  BY <1>1 DEF HandedTo, Desired
<1>3. d \subseteq data[n]
  BY <1>1 DEF SourcesInv, Desired, Resolve
<1>4. cache'[n] = d /\ d \subseteq data'[n]
  BY <1>1, <1>3 DEF TypeOK
<1> QED
  BY <1>1, <1>2, <1>4 DEF HandedTo

LEMMA NextSourcesInv == TypeInv /\ SourcesInv /\ [Next]_vars => SourcesInv'
<1> SUFFICES ASSUME TypeInv, SourcesInv, [Next]_vars PROVE SourcesInv'
  OBVIOUS
<1>0. TypeOK
  BY DEF TypeInv
<1>1. BarrierMoves
  BY BarrierSteps
<1>2. \A k \in Callers : Building(k) => build[k].node \in Nodes
  BY <1>0 DEF Building, TypeOK, Builds
<1>3. ASSUME \A n \in Nodes : data[n] \subseteq data'[n],
             \A n \in Nodes : \/ cache'[n] = NoConfig \/ cache'[n] = cache[n]
                              \/ cache'[n] \subseteq data'[n],
             \A k \in Callers : \/ build'[k].node = NoNode
                                \/ /\ build'[k].node = build[k].node
                                   /\ build'[k].saw = build[k].saw
                                \/ \E n \in Nodes : build'[k] = NewBuild(n),
             data' = data \/ build' = build
      PROVE  SourcesInv'
  <2>1. ASSUME NEW n \in Nodes, cache'[n] # NoConfig PROVE cache'[n] \subseteq data'[n]
    BY <1>3, <2>1 DEF SourcesInv
  <2>2. ASSUME NEW k \in Callers, build'[k].node # NoNode
        PROVE  build'[k].saw \subseteq data'[build'[k].node]
    <3>1. CASE \E n \in Nodes : build'[k] = NewBuild(n)
      <4>1. PICK n \in Nodes : build'[k] = NewBuild(n)
        BY <3>1
      <4>2. build'[k].saw = data[n] /\ build'[k].node = n
        BY <4>1 DEF NewBuild
      <4> QED
        BY <1>3, <4>2
    <3>2. CASE build'[k].node = build[k].node /\ build'[k].saw = build[k].saw
      <4>1. Building(k) /\ build[k].node \in Nodes
        BY <1>2, <2>2, <3>2 DEF Building
      <4>2. build[k].saw \subseteq data[build[k].node]
        BY <4>1 DEF SourcesInv
      <4> QED
        BY <1>3, <3>2, <4>1, <4>2
    <3> QED
      BY <1>3, <2>2, <3>1, <3>2
  <2> QED
    BY <2>1, <2>2 DEF SourcesInv, Building
<1>4. NoBuild.node = NoNode
  BY DEF NoBuild
<1>5. CASE UNCHANGED <<cache, build>> /\ \A m \in Nodes : data[m] \subseteq data'[m]
  BY <1>3, <1>5
<1>6. ASSUME NEW k \in Callers, NEW m \in Nodes, StartPush(k, m) PROVE SourcesInv'
  <2>1. /\ data' = data
        /\ cache' = [cache EXCEPT ![m] = NoConfig]
        /\ build'[k] = NewBuild(m)
        /\ \A j \in Callers : j # k => build'[j] = Stale[j]
    BY <1>0, <1>6, StartPushBuildsAnew
  <2>2. \A j \in Callers : Stale[j].node = build[j].node /\ Stale[j].saw = build[j].saw
    BY <1>0 DEF TypeOK, Stale, Builds
  <2>3. \A n \in Nodes : cache'[n] = NoConfig \/ cache'[n] = cache[n]
    BY <1>0, <2>1 DEF TypeOK
  <2> QED
    BY <1>3, <2>1, <2>2, <2>3
<1>7. CASE /\ UNCHANGED data
           /\ cache' = [m \in Nodes |-> NoConfig]
           /\ \A k \in Callers : build'[k] = NoBuild \/ build'[k] = Stale[k]
  <2>1. \A j \in Callers : Stale[j].node = build[j].node /\ Stale[j].saw = build[j].saw
    BY <1>0 DEF TypeOK, Stale, Builds
  <2> QED
    BY <1>3, <1>4, <1>7, <2>1
<1>8. ASSUME NEW k \in Callers, Resolve(k) PROVE SourcesInv'
  <2>1. PICK n \in Nodes, d \in Configs : n = build[k].node /\ d = Desired(k)
    BY <1>0, <1>8, DesiredType
  <2>2. HandedTo(n, d)'
    BY <1>0, <1>8, <2>1, ResolvedIsHanded
  <2>3. /\ data' = data
        /\ cache' = [cache EXCEPT ![n] = d]
        /\ \A j \in Callers : build'[j] = NoBuild \/ build'[j] = build[j]
    BY <1>0, <1>8, <2>1 DEF Resolve, TypeOK
  <2>4. \A m \in Nodes : cache'[m] = cache[m] \/ cache'[m] \subseteq data'[m]
    BY <1>0, <2>1, <2>2, <2>3 DEF TypeOK, HandedTo
  <2> QED
    BY <1>3, <1>4, <2>3, <2>4
<1>9. ASSUME NEW k \in Callers, UNCHANGED <<data, cache>>,
             \/ build' = [build EXCEPT ![k] = NoBuild]
             \/ \E m \in Nodes : build' = [build EXCEPT ![k] = NewBuild(m)]
      PROVE  SourcesInv'
  <2>1. \A j \in Callers : \/ build'[j] = build[j] \/ build'[j] = NoBuild
                           \/ \E m \in Nodes : build'[j] = NewBuild(m)
    BY <1>0, <1>9 DEF TypeOK
  <2> QED
    BY <1>3, <1>4, <1>9, <2>1
<1> QED
  BY <1>1, <1>5, <1>6, <1>7, <1>8, <1>9 DEF BarrierMoves

LEMMA InitSourcesInv == Init => SourcesInv
BY DEF Init, SourcesInv, Building, NoBuild

-----------------------------------------------------------------------------
\* Agents and what they wait for.  An agent that is connected polls nobody, its
\* connection, until it is closed on the master, is its own, and no other agent's;
\* the poll it awaits is its own.
AgentsInv ==
    \A n \in Nodes :
        /\ agent[n].link # NoLink =>
              /\ agent[n].mode = "WS"
              /\ \/ link[agent[n].link].stage = "closed"
                 \/ link[agent[n].link].node = n
              /\ \A m \in Nodes : m # n => agent[m].link # agent[n].link
        /\ agent[n].awaiting # NoPoll =>
              /\ agent[n].mode = "HTTP"
              /\ poll[agent[n].awaiting].node = n
              /\ poll[agent[n].awaiting].step # "idle"

\* Agents only let go of connections and polls, these keep their owner.
LEMMA AgentsKept ==
    ASSUME TypeOK, AgentsInv,
           \A n \in Nodes :
               /\ agent'[n].link \in {agent[n].link, NoLink}
               /\ agent'[n].awaiting \in {agent[n].awaiting, NoPoll}
               /\ agent'[n].link # NoLink \/ agent'[n].awaiting # NoPoll =>
                     agent'[n].mode = agent[n].mode,
           \A l \in Links : \/ link'[l].stage = "closed"
                            \/ /\ link'[l].node = link[l].node
                               /\ link[l].stage # "closed",
           \A h \in Polls :
               \/ /\ poll'[h].node = poll[h].node
                  /\ poll'[h].step # "idle" \/ poll[h].step = "idle"
               \/ \A n \in Nodes : agent'[n].awaiting # h
    PROVE  AgentsInv'
<1> SUFFICES ASSUME NEW n \in Nodes
             PROVE  /\ agent'[n].link # NoLink =>
                          /\ agent'[n].mode = "WS"
                          /\ \/ link'[agent'[n].link].stage = "closed"
                             \/ link'[agent'[n].link].node = n
                          /\ \A m \in Nodes : m # n => agent'[m].link # agent'[n].link
                    /\ agent'[n].awaiting # NoPoll =>
                          /\ agent'[n].mode = "HTTP"
                          /\ poll'[agent'[n].awaiting].node = n
                          /\ poll'[agent'[n].awaiting].step # "idle"
  BY DEF AgentsInv
<1>1. ASSUME agent'[n].link # NoLink
      PROVE  /\ agent'[n].mode = "WS"
             /\ \/ link'[agent'[n].link].stage = "closed"
                \/ link'[agent'[n].link].node = n
             /\ \A m \in Nodes : m # n => agent'[m].link # agent'[n].link
  <2>1. agent'[n].link = agent[n].link /\ agent[n].link # NoLink /\ agent[n].link \in Links
    BY <1>1 DEF TypeOK, Agents
  <2>2. \A m \in Nodes : agent'[m].link \in {agent[m].link, NoLink}
    OBVIOUS
  <2>3. \A m \in Nodes : m # n => agent[m].link # agent[n].link
    BY <2>1 DEF AgentsInv
  <2>4. /\ agent[n].mode = "WS"
        /\ link[agent[n].link].stage = "closed" \/ link[agent[n].link].node = n
    BY <2>1 DEF AgentsInv
  <2> QED
    BY <1>1, <2>1, <2>2, <2>3, <2>4
<1>2. ASSUME agent'[n].awaiting # NoPoll
      PROVE  /\ agent'[n].mode = "HTTP"
             /\ poll'[agent'[n].awaiting].node = n
             /\ poll'[agent'[n].awaiting].step # "idle"
  <2>1. /\ agent'[n].awaiting = agent[n].awaiting /\ agent[n].awaiting # NoPoll
        /\ agent[n].awaiting \in Polls
    BY <1>2 DEF TypeOK, Agents
  <2>2. /\ agent[n].mode = "HTTP"
        /\ poll[agent[n].awaiting].node = n
        /\ poll[agent[n].awaiting].step # "idle"
    BY <2>1 DEF AgentsInv
  <2> QED
    BY <1>2, <2>1, <2>2
<1> QED
  BY <1>1, <1>2

\* The same where agents and polls stay as they are.
LEMMA AgentsStay ==
    ASSUME TypeOK, AgentsInv, UNCHANGED <<agent, poll>>,
           \A l \in Links : /\ link'[l].node = link[l].node
                            /\ link'[l].stage = "closed" \/ link[l].stage # "closed"
    PROVE  AgentsInv'
<1>1. \A l \in Links : \/ link'[l].stage = "closed"
                       \/ /\ link'[l].node = link[l].node
                          /\ link[l].stage # "closed"
  OBVIOUS
<1>2. \A n \in Nodes :
          /\ agent'[n].link \in {agent[n].link, NoLink}
          /\ agent'[n].awaiting \in {agent[n].awaiting, NoPoll}
          /\ agent'[n].link # NoLink \/ agent'[n].awaiting # NoPoll =>
                agent'[n].mode = agent[n].mode
  OBVIOUS
<1>3. \A h \in Polls : /\ poll'[h].node = poll[h].node
                       /\ poll'[h].step # "idle" \/ poll[h].step = "idle"
  OBVIOUS
<1> QED
  BY <1>1, <1>2, <1>3, AgentsKept

\* A step that feeds a connection no configuration.
Unfed(m) ==
    /\ \/ link'[m].stage = "closed"
       \/ link'[m].node = link[m].node /\ link[m].stage # "closed"
    /\ \/ link'[m].wire = link[m].wire
       \/ link'[m].wire = <<>>
       \/ \E f \in Frames :
             f.type # "config_sync" /\ link'[m].wire = Append(link[m].wire, f)

LEMMA SentWires ==
    ASSUME TypeOK, NEW l \in Links, NEW frame \in Frames, NEW m \in Links
    PROVE  Sent(l, frame)[m].wire =
               IF m = l /\ link[l].open THEN Append(link[l].wire, frame) ELSE link[m].wire
<1>1. link[l] \in Connections /\ link[m] \in Connections
  BY DEF TypeOK
<1> QED
  BY <1>1 DEF TypeOK, Sent, Connections

\* A connection whose fields but the wire move, or that is cut off.
LEMMA UnfedMoves ==
    ASSUME NEW m \in Links, link[m] \in Connections,
           \/ link'[m] = link[m]
           \/ link'[m] = [link[m] EXCEPT !.open = FALSE]
           \/ link'[m] = [link[m] EXCEPT !.missed = TRUE]
           \/ link'[m] = [link[m] EXCEPT !.open = FALSE, !.wire = <<>>]
           \/ link'[m] = [link[m] EXCEPT !.wire = <<>>]
           \/ link'[m] = [Closed EXCEPT !.wire = link[m].wire]
           \/ link[m].stage # "closed" /\ link'[m] = [link[m] EXCEPT !.stage = "registering"]
    PROVE  Unfed(m)
<1>1. CASE link'[m] = link[m]
  BY <1>1 DEF Unfed
<1>2. CASE link'[m] = [link[m] EXCEPT !.open = FALSE]
  BY <1>2 DEF Unfed, Connections
<1>3. CASE link'[m] = [link[m] EXCEPT !.missed = TRUE]
  BY <1>3 DEF Unfed, Connections
<1>4. CASE link'[m] = [link[m] EXCEPT !.open = FALSE, !.wire = <<>>]
  BY <1>4 DEF Unfed, Connections
<1>5. CASE link'[m] = [link[m] EXCEPT !.wire = <<>>]
  BY <1>5 DEF Unfed, Connections
<1>6. CASE link'[m] = [Closed EXCEPT !.wire = link[m].wire]
  BY <1>6 DEF Unfed, Closed
<1>7. CASE link[m].stage # "closed" /\ link'[m] = [link[m] EXCEPT !.stage = "registering"]
  BY <1>7 DEF Unfed, Connections
<1> QED
  BY <1>1, <1>2, <1>3, <1>4, <1>5, <1>6, <1>7

LEMMA SentUnfeeds ==
    ASSUME TypeOK, NEW l \in Links, NEW frame \in Frames, frame.type # "config_sync",
           NEW k \in Links, NEW s \in {"dispatching", "admitted"}, link[k].stage # "closed",
           \/ link' = Sent(l, frame)
           \/ link' = [Sent(l, frame) EXCEPT ![k].stage = s]
    PROVE  \A m \in Links : Unfed(m)
<1> SUFFICES ASSUME NEW m \in Links PROVE Unfed(m)
  OBVIOUS
<1>1. PICK sent \in [Links -> Connections] : sent = Sent(l, frame)
  BY SentType
<1>2. sent[m].node = link[m].node /\ sent[m].stage = link[m].stage
  BY <1>1, SentType
<1>3. sent[m].wire = link[m].wire \/ sent[m].wire = Append(link[m].wire, frame)
  BY ZenonT(40), <1>1, SentWires
<1>4. /\ link'[m].node = sent[m].node
      /\ link'[m].stage = sent[m].stage \/ m = k
      /\ link'[m].wire = sent[m].wire
  BY <1>1 DEF Connections
<1> QED
  BY <1>2, <1>3, <1>4 DEF Unfed

LEMMA UnfedSteps ==
    ASSUME TypeInv,
           \/ \E l \in Links : \/ Register(l) \/ DispatchQueued(l) \/ Admit(l)
                               \/ HandleDisconnect(l) \/ Break(l)
           \/ \E h \in Polls : TakeOver(h)
           \/ \E n \in Nodes : \/ HangUp(n) \/ RequestUpgrade(n)
                               \/ \E mode \in {"WS", "HTTP"} : AgentRestarts(n, mode)
           \/ MasterRestarts
    PROVE  \A m \in Links : Unfed(m)
<1>0. TypeOK /\ \A m \in Links : link[m] \in Connections
  BY DEF TypeInv, TypeOK
<1>1. ASSUME \A m \in Links : link'[m] = link[m] PROVE \A m \in Links : Unfed(m)
  BY <1>0, <1>1, UnfedMoves
<1>2. ASSUME NEW l \in Links, Register(l) PROVE \A m \in Links : Unfed(m)
  <2>1. link[l].stage # "closed"
    BY <1>2 DEF Register
  <2>2. ASSUME NEW m \in Links
        PROVE  \/ link'[m] = link[m] \/ link'[m] = [link[m] EXCEPT !.open = FALSE]
               \/ m = l /\ link'[m] = [link[m] EXCEPT !.stage = "registering"]
    BY <1>2 DEF Register
  <2> QED
    BY <1>0, <2>1, <2>2, UnfedMoves
<1>3. ASSUME NEW l \in Links, DispatchQueued(l) PROVE \A m \in Links : Unfed(m)
  <2>1. PICK n \in Nodes : n = link[l].node
    BY <1>3 DEF DispatchQueued, TypeInv, NodesOK
  <2>2. link[l].stage # "closed"
    BY <1>3 DEF DispatchQueued
  <2>3. CASE upgrade[n] = "due" /\ sockets[n] # NoLink
    <3>1. PICK k \in Links : k = sockets[n]
      BY <1>0, <2>3 DEF TypeOK
    <3>2. link' = [Sent(k, Frame("upgrade_task")) EXCEPT ![l].stage = "dispatching"]
      BY <1>3, <2>1, <2>3, <3>1 DEF DispatchQueued
    <3>3. Frame("upgrade_task").type # "config_sync"
      BY DEF Frame
    <3> QED
      BY <1>0, <2>2, <3>2, <3>3, FrameType, SentUnfeeds
  <2>4. CASE ~(upgrade[n] = "due" /\ sockets[n] # NoLink)
    <3>1. link' = [link EXCEPT ![l].stage = "dispatching"]
      BY <1>3, <2>1, <2>4 DEF DispatchQueued
    <3>2. \A m \in Links : /\ link'[m].node = link[m].node
                           /\ link'[m].stage = link[m].stage \/ m = l
                           /\ link'[m].wire = link[m].wire
      BY <1>0, <3>1 DEF TypeOK, Connections
    <3> QED
      BY <2>2, <3>2 DEF Unfed
  <2> QED
    BY <2>3, <2>4
<1>4. ASSUME NEW l \in Links, Admit(l) PROVE \A m \in Links : Unfed(m)
  <2>1. /\ link[l].stage # "closed"
        /\ link' = [Sent(l, Frame("auth_result")) EXCEPT ![l].stage = "admitted"]
    BY <1>4 DEF Admit
  <2>2. Frame("auth_result").type # "config_sync"
    BY DEF Frame
  <2> QED
    BY <1>0, <2>1, <2>2, FrameType, SentUnfeeds
<1>5. ASSUME NEW l \in Links, HandleDisconnect(l) PROVE \A m \in Links : Unfed(m)
  <2>1. \/ link' = [link EXCEPT ![l] = [Closed EXCEPT !.wire = link[l].wire]]
        \/ link' = [link EXCEPT ![l].missed = TRUE]
    BY <1>5 DEF HandleDisconnect
  <2>2. ASSUME NEW m \in Links
        PROVE  \/ link'[m] = link[m]
               \/ link'[m] = [link[m] EXCEPT !.missed = TRUE]
               \/ link'[m] = [Closed EXCEPT !.wire = link[m].wire]
    BY <1>0, <2>1 DEF TypeOK
  <2> QED
    BY <1>0, <2>2, UnfedMoves
<1>6. ASSUME NEW l \in Links, Break(l) PROVE \A m \in Links : Unfed(m)
  <2>1. ASSUME NEW m \in Links
        PROVE  link'[m] = link[m] \/ link'[m] = [link[m] EXCEPT !.open = FALSE]
    BY <1>0, <1>6 DEF Break, TypeOK
  <2> QED
    BY <1>0, <2>1, UnfedMoves
<1>7. ASSUME NEW h \in Polls, TakeOver(h) PROVE \A m \in Links : Unfed(m)
  <2>1. ASSUME NEW m \in Links
        PROVE  link'[m] = link[m] \/ link'[m] = [link[m] EXCEPT !.open = FALSE]
    BY <1>0, <1>7 DEF TakeOver, TypeOK
  <2> QED
    BY <1>0, <2>1, UnfedMoves
<1>8. ASSUME NEW n \in Nodes, HangUp(n) PROVE \A m \in Links : Unfed(m)
  <2>1. ASSUME NEW m \in Links
        PROVE  link'[m] = link[m] \/ link'[m] = [link[m] EXCEPT !.wire = <<>>]
    BY <1>0, <1>8 DEF HangUp, TypeOK
  <2> QED
    BY <1>0, <2>1, UnfedMoves
<1>9. ASSUME NEW n \in Nodes, RequestUpgrade(n) PROVE \A m \in Links : Unfed(m)
  <2>1. CASE sockets[n] = NoLink
    BY <1>1, <1>9, <2>1 DEF RequestUpgrade
  <2>2. CASE sockets[n] # NoLink
    <3>1. PICK k \in Links : k = sockets[n]
      BY <1>0, <2>2 DEF TypeOK
    <3>2. link' = Sent(k, Frame("upgrade_task"))
      BY <1>9, <2>2, <3>1 DEF RequestUpgrade
    <3>3. PICK frame \in Frames : frame = Frame("upgrade_task")
      BY FrameType
    <3>4. ASSUME NEW m \in Links PROVE Unfed(m)
      <4>1. frame.type # "config_sync" /\ link' = Sent(k, frame)
        BY <3>2, <3>3 DEF Frame
      <4>2. link'[m].node = link[m].node /\ link'[m].stage = link[m].stage
        BY <1>0, <4>1, SentType
      <4>3. link'[m].wire = link[m].wire \/ link'[m].wire = Append(link[m].wire, frame)
        BY <1>0, <4>1, SentWires
      <4> QED
        BY <4>1, <4>2, <4>3 DEF Unfed
    <3> QED
      BY <3>4
  <2> QED
    BY <2>1, <2>2
<1>10. ASSUME NEW n \in Nodes, NEW mode \in {"WS", "HTTP"}, AgentRestarts(n, mode)
       PROVE  \A m \in Links : Unfed(m)
  <2>1. ASSUME NEW m \in Links
        PROVE  \/ link'[m] = link[m]
               \/ link'[m] = [link[m] EXCEPT !.open = FALSE, !.wire = <<>>]
    BY <1>10 DEF AgentRestarts
  <2> QED
    BY <1>0, <2>1, UnfedMoves
<1>11. CASE MasterRestarts
  <2>1. ASSUME NEW m \in Links
        PROVE  link'[m] = [Closed EXCEPT !.wire = link[m].wire]
    BY <1>11 DEF MasterRestarts
  <2> QED
    BY <1>0, <2>1, UnfedMoves
<1> QED
  BY <1>2, <1>3, <1>4, <1>5, <1>6, <1>7, <1>8, <1>9, <1>10, <1>11

\* The same where no configuration is sent and no agent moves.
LEMMA UnfedAgents ==
    ASSUME TypeOK, AgentsInv, \A m \in Links : Unfed(m), UNCHANGED <<agent, poll>>
    PROVE  AgentsInv'
<1>1. \A m \in Links : \/ link'[m].stage = "closed"
                       \/ /\ link'[m].node = link[m].node
                          /\ link[m].stage # "closed"
  BY DEF Unfed
<1>2. /\ \A n \in Nodes :
            /\ agent'[n].link \in {agent[n].link, NoLink}
            /\ agent'[n].awaiting \in {agent[n].awaiting, NoPoll}
            /\ agent'[n].link # NoLink \/ agent'[n].awaiting # NoPoll =>
                  agent'[n].mode = agent[n].mode
      /\ \A h \in Polls :
            /\ poll'[h].node = poll[h].node
            /\ poll'[h].step # "idle" \/ poll[h].step = "idle"
  OBVIOUS
<1> QED
  BY <1>1, <1>2, AgentsKept

LEMMA NextAgentsInv == TypeInv /\ AgentsInv /\ [Next]_vars => AgentsInv'
<1> SUFFICES ASSUME TypeInv, AgentsInv, [Next]_vars PROVE AgentsInv'
  OBVIOUS
<1>0. TypeOK
  BY DEF TypeInv
<1>1. ASSUME UNCHANGED <<agent, poll, link>> PROVE AgentsInv'
  BY <1>0, <1>1, AgentsStay
<1>2. ASSUME NEW c \in Changes,
             \/ \E S \in Scopes : Commit(c, S)
             \/ \E n \in Nodes : PushConfig(c, n)
             \/ PushConfigToAll(c)
             \/ Debounce(c)
      PROVE  AgentsInv'
  BY <1>1, <1>2 DEF Commit, PushConfig, PushConfigToAll, Debounce, wires
<1>2a. CASE \/ \E c \in Changes : (\E n \in Nodes : FlushNode(c, n)) \/ FlushEnds(c)
            \/ StartFlush
            \/ \E k \in Callers : BuildAgain(k) \/ PushFails(k)
            \/ \E n \in Nodes : Minute(n)
  BY <1>1, <1>2a DEF FlushNode, FlushEnds, StartFlush, BuildAgain, PushFails, Minute, wires
<1>3. ASSUME NEW k \in Callers, FinishPush(k) PROVE AgentsInv'
  BY <1>0, <1>3, FinishPushLinks, AgentsStay DEF FinishPush
<1>4. CASE \/ \E c \in Changes : PushEnds(c) \/ FlushedNode(c)
           \/ \E l \in Links : FirstPush(l)
  BY <1>3, <1>4 DEF PushEnds, FlushedNode, FirstPush, Callers
<1>5. CASE \/ \E l \in Links : \/ Register(l) \/ DispatchQueued(l) \/ Admit(l)
                             \/ HandleDisconnect(l) \/ Break(l)
           \/ \E n \in Nodes : RequestUpgrade(n)
  <2>1. \A m \in Links : Unfed(m)
    BY <1>5, UnfedSteps
  <2>2. UNCHANGED <<agent, poll>>
    BY <1>5 DEF Register, DispatchQueued, Admit, HandleDisconnect, Break, RequestUpgrade
  <2> QED
    BY <1>0, <2>1, <2>2, UnfedAgents
\* The agents that let go of something, below; polls go on, or are awaited by nobody.
<1>6. ASSUME \A n \in Nodes :
                 \/ agent'[n] = agent[n]
                 \/ /\ agent'[n].link \in {agent[n].link, NoLink}
                    /\ agent'[n].awaiting \in {agent[n].awaiting, NoPoll}
                    /\ agent'[n].mode = agent[n].mode
                 \/ \E mode \in {"WS", "HTTP"} : agent'[n] = FreshAgent(mode),
             \A l \in Links : \/ link'[l].stage = "closed"
                              \/ link'[l].node = link[l].node /\ link[l].stage # "closed",
             \A h \in Polls : \/ poll'[h] = poll[h]
                              \/ /\ poll'[h].node = poll[h].node
                                 /\ poll'[h].step # "idle"
                              \/ \A n \in Nodes : agent'[n].awaiting # h
      PROVE  AgentsInv'
  <2>1. \A n \in Nodes :
            /\ agent'[n].link \in {agent[n].link, NoLink}
            /\ agent'[n].awaiting \in {agent[n].awaiting, NoPoll}
            /\ agent'[n].link # NoLink \/ agent'[n].awaiting # NoPoll =>
                  agent'[n].mode = agent[n].mode
    <3>1. ASSUME NEW n \in Nodes, NEW mode, agent'[n] = FreshAgent(mode)
          PROVE  agent'[n].link = NoLink /\ agent'[n].awaiting = NoPoll
      BY <3>1 DEF FreshAgent
    <3> QED
      BY <1>6, <3>1
  <2>2. \A h \in Polls :
            \/ /\ poll'[h].node = poll[h].node
               /\ poll'[h].step # "idle" \/ poll[h].step = "idle"
            \/ \A n \in Nodes : agent'[n].awaiting # h
    BY <1>6
  <2> QED
    BY <1>0, <1>6, <2>1, <2>2, AgentsKept
<1>7. UNCHANGED link => \A l \in Links : \/ link'[l].stage = "closed"
                                        \/ /\ link'[l].node = link[l].node
                                           /\ link[l].stage # "closed"
  OBVIOUS
<1>8. ASSUME NEW h \in Polls, TakeOver(h) \/ AskDesired(h) \/ GetDesired(h)
      PROVE  AgentsInv'
  <2>1. UNCHANGED agent
    BY <1>8 DEF TakeOver, AskDesired, GetDesired
  <2>2. \A l \in Links : \/ link'[l].stage = "closed"
                         \/ link'[l].node = link[l].node /\ link[l].stage # "closed"
    <3>1. CASE TakeOver(h)
      <4>1. \A l \in Links : Unfed(l)
        BY <3>1, UnfedSteps
      <4> QED
        BY <4>1 DEF Unfed
    <3> QED
      BY <1>7, <1>8, <3>1 DEF AskDesired, GetDesired, wires
  <2>3. \A g \in Polls : \/ poll'[g] = poll[g]
                         \/ poll'[g].node = poll[g].node /\ poll'[g].step # "idle"
    <3>1. poll[h] \in PollHandlers
      BY <1>0 DEF TypeOK
    <3> QED
      BY <1>0, <1>8, <3>1 DEF TakeOver, AskDesired, GetDesired, TypeOK, PollHandlers
  <2> QED
    BY <1>6, <2>1, <2>2, <2>3
<1>9. ASSUME NEW h \in Polls, Discard(h) PROVE AgentsInv'
  <2>1. UNCHANGED <<agent, link>> /\ \A n \in Nodes : agent'[n].awaiting # h
    BY <1>9 DEF Discard, wires
  <2>2. \A g \in Polls : g # h => poll'[g] = poll[g]
    BY <1>0, <1>9 DEF Discard, TypeOK
  <2> QED
    BY <1>6, <1>7, <2>1, <2>2
<1>10. ASSUME NEW h \in Polls, PollFails(h) PROVE AgentsInv'
  <2>1. UNCHANGED link /\ \A g \in Polls : g # h => poll'[g] = poll[g]
    BY <1>0, <1>10 DEF PollFails, TypeOK, wires
  <2>2. ASSUME NEW n \in Nodes
        PROVE  /\ agent'[n].awaiting # h
               /\ \/ agent'[n] = agent[n]
                  \/ /\ agent'[n].link = agent[n].link
                     /\ agent'[n].awaiting = NoPoll
                     /\ agent'[n].mode = agent[n].mode
    <3>1. agent[n] \in Agents /\ NoPoll # h
      BY <1>0, BoundsAssumption DEF TypeOK, BoundsAssumption
    <3>2. agent'[n] = IF agent[n].awaiting = h THEN [agent[n] EXCEPT !.awaiting = NoPoll]
                      ELSE agent[n]
      BY <1>10 DEF PollFails
    <3> QED
      BY <3>1, <3>2 DEF Agents
  <2> QED
    BY <1>6, <1>7, <2>1, <2>2
<1>11. ASSUME NEW n \in Nodes, Read(n) PROVE AgentsInv'
  <2>1. Kept
    BY <1>0, <1>11, KeptSteps
  <2>2. UNCHANGED poll
    BY <1>11 DEF Read
  <2>3. \A m \in Nodes : m # n => agent'[m] = agent[m]
    BY <1>0, <1>11 DEF Read, Applies, TypeOK
  <2>4. /\ agent'[n].link \in {agent[n].link, NoLink}
        /\ agent'[n].awaiting = agent[n].awaiting
        /\ agent'[n].mode = agent[n].mode
    <3>1. agent[n] \in Agents
      BY <1>0 DEF TypeOK
    <3>2. PICK config : config = Head(link[agent[n].link].wire).config
      OBVIOUS
    <3>3. \/ agent' = agent
          \/ agent' = [agent EXCEPT ![n].authed = TRUE]
          \/ agent' = [agent EXCEPT ![n].link = NoLink]
          \/ agent' = [agent EXCEPT ![n] = [agent[n] EXCEPT !.got = config, !.applied = config]]
          \/ agent' = [agent EXCEPT ![n] = [agent[n] EXCEPT !.got = config]]
      BY <1>11, <3>2 DEF Read, Applies
    <3>4. \/ agent'[n] = agent[n]
          \/ agent'[n] = [agent[n] EXCEPT !.authed = TRUE]
          \/ agent'[n] = [agent[n] EXCEPT !.link = NoLink]
          \/ agent'[n] = [agent[n] EXCEPT !.got = config, !.applied = config]
          \/ agent'[n] = [agent[n] EXCEPT !.got = config]
      BY <1>0, <3>3 DEF TypeOK
    <3> QED
      BY <3>1, <3>4 DEF Agents
  <2> QED
    BY <1>6, <2>1, <2>2, <2>3, <2>4 DEF Kept
<1>12. ASSUME NEW n \in Nodes, HangUp(n) PROVE AgentsInv'
  <2>1. Kept
    BY <1>0, <1>12, KeptSteps
  <2>2. UNCHANGED poll /\ \A m \in Nodes : m # n => agent'[m] = agent[m]
    BY <1>0, <1>12 DEF HangUp, TypeOK
  <2>3. agent'[n] = [agent[n] EXCEPT !.link = NoLink, !.authed = FALSE]
    BY <1>0, <1>12 DEF HangUp, TypeOK
  <2>4. /\ agent'[n].link = NoLink
        /\ agent'[n].awaiting = agent[n].awaiting
        /\ agent'[n].mode = agent[n].mode
    BY <1>0, <2>3 DEF TypeOK, Agents
  <2> QED
    BY <1>6, <2>1, <2>2, <2>4 DEF Kept
<1>13. ASSUME NEW n \in Nodes, Receive(n) PROVE AgentsInv'
  <2>1. PICK h \in Polls : h = agent[n].awaiting
    BY <1>0, <1>13 DEF Receive, TypeOK, Agents
  <2>2. UNCHANGED link /\ \A g \in Polls : g # h => poll'[g] = poll[g]
    BY <1>0, <1>13, <2>1 DEF Receive, TypeOK, wires
  <2>3. \A m \in Nodes : m # n => agent'[m] = agent[m]
    BY <1>0, <1>13 DEF Receive, Applies, TypeOK
  <2>4. /\ agent'[n].link = agent[n].link
        /\ agent'[n].awaiting = NoPoll
        /\ agent'[n].mode = agent[n].mode
    <3>1. PICK done \in Agents : done = [agent[n] EXCEPT !.awaiting = NoPoll]
      BY <1>0, AgentUpdates DEF TypeOK
    <3>2. /\ done.link = agent[n].link
          /\ done.awaiting = NoPoll
          /\ done.mode = agent[n].mode
      BY <1>0, <3>1 DEF TypeOK, Agents
    <3>3. \/ agent'[n] = done
          \/ agent'[n] = [done EXCEPT !.got = poll[h].desired, !.applied = poll[h].desired]
          \/ agent'[n] = [done EXCEPT !.got = poll[h].desired]
      BY <1>0, <1>13, <2>1, <3>1 DEF Receive, Applies, TypeOK
    <3> QED
      BY <3>2, <3>3 DEF Agents
  <2>5. ASSUME NEW m \in Nodes PROVE agent'[m].awaiting # h
    <3>1. CASE m = n
      BY <2>4, <3>1, BoundsAssumption DEF BoundsAssumption
    <3>2. CASE m # n
      BY <2>1, <2>3, <3>2, BoundsAssumption DEF BoundsAssumption, AgentsInv
    <3> QED
      BY <3>1, <3>2
  <2> QED
    BY <1>6, <1>7, <2>2, <2>3, <2>4, <2>5
<1>14. ASSUME NEW n \in Nodes, Timeout(n) PROVE AgentsInv'
  <2>1. UNCHANGED <<link, poll>> /\ \A m \in Nodes : m # n => agent'[m] = agent[m]
    BY <1>0, <1>14 DEF Timeout, TypeOK, wires
  <2>2. agent'[n] = [agent[n] EXCEPT !.awaiting = NoPoll]
    BY <1>0, <1>14 DEF Timeout, TypeOK
  <2>3. /\ agent'[n].link = agent[n].link
        /\ agent'[n].awaiting = NoPoll
        /\ agent'[n].mode = agent[n].mode
    BY <1>0, <2>2 DEF TypeOK, Agents
  <2> QED
    BY <1>6, <1>7, <2>1, <2>3
<1>15. ASSUME NEW n \in Nodes, NEW mode \in {"WS", "HTTP"}, AgentRestarts(n, mode)
       PROVE  AgentsInv'
  <2>1. \A l \in Links : Unfed(l)
    BY <1>15, UnfedSteps
  <2>2. /\ UNCHANGED poll
        /\ \A m \in Nodes : m # n => agent'[m] = agent[m]
        /\ agent'[n] = FreshAgent(mode)
    BY <1>0, <1>15 DEF AgentRestarts, TypeOK
  <2> QED
    BY <1>6, <2>1, <2>2 DEF Unfed
<1>16. CASE MasterRestarts
  <2>1. \A l \in Links : Unfed(l)
    BY <1>16, UnfedSteps
  <2>2. ASSUME NEW n \in Nodes
        PROVE  /\ agent'[n].link = agent[n].link
               /\ agent'[n].awaiting = NoPoll
               /\ agent'[n].mode = agent[n].mode
    BY <1>0, <1>16 DEF MasterRestarts, TypeOK, Agents
  <2>3. \A h \in Polls, n \in Nodes : agent'[n].awaiting # h
    BY <2>2, BoundsAssumption DEF BoundsAssumption
  <2> QED
    BY <1>6, <2>1, <2>2, <2>3 DEF Unfed
<1>17. ASSUME NEW n \in Nodes, NEW l \in Links, Dial(n, l) PROVE AgentsInv'
  <2>1. /\ UNCHANGED poll
        /\ \A m \in Nodes : m # n => agent'[m] = agent[m] /\ agent'[m].link # l
        /\ \A m \in Links : m # l => link'[m] = link[m]
        /\ link'[l].node = n
    BY <1>0, <1>17 DEF Dial, Free, Connect, TypeOK
  <2>2. /\ agent'[n].link = l /\ agent'[n].mode = "WS"
        /\ agent'[n].awaiting = agent[n].awaiting
    <3>1. agent'[n] = [agent[n] EXCEPT !.link = l] /\ agent[n].mode = "WS"
      BY <1>0, <1>17 DEF Dial, TypeOK
    <3> QED
      BY <1>0, <3>1 DEF TypeOK, Agents
  <2>3. \A m \in Nodes : agent[m].link # NoLink => agent[m].link \in Links
    BY <1>0 DEF TypeOK, Agents
  <2>4. ASSUME NEW m \in Nodes, agent'[m].link # NoLink
        PROVE  /\ agent'[m].mode = "WS"
               /\ \/ link'[agent'[m].link].stage = "closed"
                  \/ link'[agent'[m].link].node = m
               /\ \A p \in Nodes : p # m => agent'[p].link # agent'[m].link
    <3>1. CASE m = n
      BY <2>1, <2>2, <3>1
    <3>2. CASE m # n
      <4>1. /\ agent'[m] = agent[m] /\ agent[m].link # l /\ agent[m].link # NoLink
            /\ link'[agent[m].link] = link[agent[m].link]
        BY <2>1, <2>3, <2>4, <3>2
      <4>2. /\ agent[m].mode = "WS"
            /\ link[agent[m].link].stage = "closed" \/ link[agent[m].link].node = m
            /\ \A p \in Nodes : p # m => agent[p].link # agent[m].link
        BY <4>1 DEF AgentsInv
      <4> QED
        BY <2>1, <2>2, <4>1, <4>2
    <3> QED
      BY <3>1, <3>2
  <2>5. ASSUME NEW m \in Nodes, agent'[m].awaiting # NoPoll
        PROVE  /\ agent'[m].mode = "HTTP"
               /\ poll'[agent'[m].awaiting].node = m
               /\ poll'[agent'[m].awaiting].step # "idle"
    <3>1. agent[m].awaiting # NoPoll /\ agent'[m].awaiting = agent[m].awaiting
      BY <2>1, <2>2, <2>5
    <3>2. /\ agent[m].mode = "HTTP"
          /\ poll[agent[m].awaiting].node = m
          /\ poll[agent[m].awaiting].step # "idle"
      BY <3>1 DEF AgentsInv
    <3>3. m # n
      BY <1>17, <3>2 DEF Dial
    <3> QED
      BY <2>1, <3>1, <3>2, <3>3
  <2> QED
    BY <2>4, <2>5 DEF AgentsInv
<1>18. ASSUME NEW n \in Nodes, NEW h \in Polls, SendPoll(n, h) PROVE AgentsInv'
  <2>1. /\ UNCHANGED link
        /\ \A m \in Nodes : m # n => agent'[m] = agent[m]
        /\ \A g \in Polls : g # h => poll'[g] = poll[g]
        /\ poll'[h].node = n /\ poll'[h].step = "arriving"
        /\ poll[h].step = "idle"
    BY <1>0, <1>18 DEF SendPoll, TypeOK, wires
  <2>2. /\ agent'[n].awaiting = h /\ agent'[n].mode = "HTTP" /\ agent[n].mode = "HTTP"
        /\ agent'[n].link = agent[n].link
    <3>1. agent'[n] = [agent[n] EXCEPT !.awaiting = h] /\ agent[n].mode = "HTTP"
      BY <1>0, <1>18 DEF SendPoll, TypeOK
    <3> QED
      BY <1>0, <3>1 DEF TypeOK, Agents
  <2>3. \A m \in Nodes : agent[m].awaiting # NoPoll => agent[m].awaiting \in Polls
    BY <1>0 DEF TypeOK, Agents
  <2>4. ASSUME NEW m \in Nodes, agent'[m].link # NoLink
        PROVE  /\ agent'[m].mode = "WS"
               /\ \/ link'[agent'[m].link].stage = "closed"
                  \/ link'[agent'[m].link].node = m
               /\ \A p \in Nodes : p # m => agent'[p].link # agent'[m].link
    <3>1. \A p \in Nodes : agent'[p].link = agent[p].link /\ agent'[p].mode = agent[p].mode
      BY <2>1, <2>2
    <3>2. /\ agent[m].mode = "WS"
          /\ link[agent[m].link].stage = "closed" \/ link[agent[m].link].node = m
          /\ \A p \in Nodes : p # m => agent[p].link # agent[m].link
      BY <2>4, <3>1 DEF AgentsInv
    <3> QED
      BY <2>1, <3>1, <3>2
  <2>5. ASSUME NEW m \in Nodes, agent'[m].awaiting # NoPoll
        PROVE  /\ agent'[m].mode = "HTTP"
               /\ poll'[agent'[m].awaiting].node = m
               /\ poll'[agent'[m].awaiting].step # "idle"
    <3>1. CASE m = n
      BY <2>1, <2>2, <3>1
    <3>2. CASE m # n
      <4>1. agent'[m] = agent[m] /\ agent[m].awaiting # NoPoll
        BY <2>1, <2>5, <3>2
      <4>2. /\ agent[m].mode = "HTTP"
            /\ poll[agent[m].awaiting].node = m
            /\ poll[agent[m].awaiting].step # "idle"
        BY <4>1 DEF AgentsInv
      <4>3. agent[m].awaiting # h /\ agent[m].awaiting \in Polls
        BY <2>1, <2>3, <4>1, <4>2
      <4> QED
        BY <2>1, <4>1, <4>2, <4>3
    <3> QED
      BY <3>1, <3>2
  <2> QED
    BY <2>4, <2>5 DEF AgentsInv
<1>19. CASE UNCHANGED vars
  BY <1>1, <1>19 DEF vars, wires
<1>20. ASSUME NEW c \in Changes, (\E S \in Scopes : Commit(c, S)) \/ Announce(c) \/ Flush(c)
       PROVE  AgentsInv'
  <2>1. CASE \E S \in Scopes : Commit(c, S)
    BY <1>2, <2>1
  <2>2. CASE Announce(c)
    BY <1>2, <1>4, <2>2 DEF Announce
  <2>3. CASE Flush(c)
    BY <1>4, <1>2a, <2>3 DEF Flush
  <2> QED
    BY <1>20, <2>1, <2>2, <2>3
<1>21. ASSUME NEW l \in Links, Serve(l) \/ HandleDisconnect(l) \/ Break(l) PROVE AgentsInv'
  BY <1>4, <1>5, <1>21 DEF Serve
<1>22. ASSUME NEW h \in Polls, HandlePoll(h) \/ PollFails(h) PROVE AgentsInv'
  BY <1>8, <1>9, <1>10, <1>22 DEF HandlePoll
<1> QED
  BY <1>2, <1>5, <1>11, <1>12, <1>13, <1>14, <1>15, <1>16, <1>17, <1>18, <1>19, <1>20,
     <1>21, <1>22, <1>2a
     DEF Next

LEMMA InitAgentsInv == Init => AgentsInv
<1> SUFFICES ASSUME Init PROVE AgentsInv
  OBVIOUS
<1>1. ASSUME NEW n \in Nodes PROVE agent[n].link = NoLink /\ agent[n].awaiting = NoPoll
  BY DEF Init, FreshAgent
<1> QED
  BY <1>1 DEF AgentsInv

-----------------------------------------------------------------------------
\* What is on the way to an agent.

IsConfig(frame) == frame.type = "config_sync"

\* The configurations on a wire contain what the agent was given, and each the ones
\* before it.
Grows(g, w) ==
    \A i \in 1 .. Len(w) :
        IsConfig(w[i]) =>
            /\ g \subseteq w[i].config
            /\ \A j \in 1 .. Len(w) : i < j /\ IsConfig(w[j]) => w[i].config \subseteq w[j].config

AllHanded(n, w) ==
    \A i \in 1 .. Len(w) : IsConfig(w[i]) => HandedTo(n, w[i].config)

\* A poll that builds does so for its own node.
PollsBuild ==
    \A h \in Polls : Building(h) => poll[h].step = "building" /\ poll[h].node = build[h].node

DeliveryInv ==
    /\ SourcesInv
    /\ AgentsInv
    /\ PollsBuild
    /\ \A n \in Nodes : HandedTo(n, agent[n].got)
    /\ \A n \in Nodes, l \in Links :
          agent[n].link = l => Grows(agent[n].got, link[l].wire) /\ AllHanded(n, link[l].wire)
    /\ \A n \in Nodes, h \in Polls :
          agent[n].awaiting = h /\ poll[h].step = "answer" =>
              HandedTo(n, poll[h].desired) /\ agent[n].got \subseteq poll[h].desired

LEMMA EmptyGrows ==
    ASSUME NEW n \in Nodes, NEW g
    PROVE  Grows(g, <<>>) /\ AllHanded(n, <<>>)
BY DEF Grows, AllHanded

LEMMA TailGrows ==
    ASSUME NEW n \in Nodes, NEW g, NEW w \in Seq(Frames), w # <<>>,
           Grows(g, w), AllHanded(n, w)
    PROVE  /\ Grows(g, Tail(w)) /\ AllHanded(n, Tail(w))
           /\ IsConfig(Head(w)) =>
                 /\ g \subseteq Head(w).config
                 /\ HandedTo(n, Head(w).config)
                 /\ Grows(Head(w).config, Tail(w))
<1>0. Tail(w) \in Seq(Frames)
  OBVIOUS
<1>1. PICK t \in Seq(Frames) : t = Tail(w)
  BY <1>0
<1>2. /\ Len(w) \in Nat \ {0} /\ Len(t) = Len(w) - 1
      /\ \A i \in 1 .. Len(t) : i + 1 \in 1 .. Len(w) /\ t[i] = w[i + 1]
      /\ Head(w) = w[1] /\ 1 \in 1 .. Len(w)
      /\ \A i \in 1 .. Len(t) : 1 < i + 1
      /\ \A i, j \in 1 .. Len(t) : i < j => i + 1 < j + 1
  BY <1>1
<1>3. Grows(g, t)
  BY SMTT(30), <1>2 DEF Grows
<1>4. AllHanded(n, t)
  BY <1>2 DEF AllHanded
<1>5. IsConfig(w[1]) => Grows(w[1].config, t)
  BY <1>2 DEF Grows
<1>6. IsConfig(w[1]) => g \subseteq w[1].config /\ HandedTo(n, w[1].config)
  BY <1>2 DEF Grows, AllHanded
<1> QED
  BY <1>1, <1>2, <1>3, <1>4, <1>5, <1>6

LEMMA AppendGrows ==
    ASSUME NEW g, NEW w \in Seq(Frames), NEW frame \in Frames, Grows(g, w),
           IsConfig(frame) =>
              /\ g \subseteq frame.config
              /\ \A i \in 1 .. Len(w) : IsConfig(w[i]) => w[i].config \subseteq frame.config
    PROVE  Grows(g, Append(w, frame))
<1>0. Append(w, frame) \in Seq(Frames)
  OBVIOUS
<1>1. PICK a \in Seq(Frames) : a = Append(w, frame)
  BY <1>0
<1>2. /\ Len(w) \in Nat /\ Len(a) = Len(w) + 1
      /\ \A i \in 1 .. Len(w) : a[i] = w[i]
      /\ a[Len(w) + 1] = frame
  BY <1>1
<1>3. \A i \in 1 .. Len(a) : i \in 1 .. Len(w) \/ i = Len(w) + 1
  BY <1>2
<1>4. ASSUME NEW i \in 1 .. Len(a), IsConfig(a[i]) PROVE g \subseteq a[i].config
  BY <1>2, <1>3, <1>4 DEF Grows
<1>5. ASSUME NEW i \in 1 .. Len(a), NEW j \in 1 .. Len(a), i < j, IsConfig(a[i]), IsConfig(a[j])
      PROVE  a[i].config \subseteq a[j].config
  <2>1. i \in 1 .. Len(w)
    BY <1>2, <1>5
  <2>2. CASE j \in 1 .. Len(w)
    BY <1>2, <1>5, <2>1, <2>2 DEF Grows
  <2>3. CASE j = Len(w) + 1
    BY <1>2, <1>5, <2>1, <2>3
  <2> QED
    BY <1>3, <2>2, <2>3
<1> QED
  BY <1>1, <1>4, <1>5 DEF Grows

LEMMA AppendHanded ==
    ASSUME NEW n \in Nodes, NEW w \in Seq(Frames), NEW frame \in Frames, AllHanded(n, w),
           IsConfig(frame) => HandedTo(n, frame.config)
    PROVE  AllHanded(n, Append(w, frame))
<1>0. Append(w, frame) \in Seq(Frames)
  OBVIOUS
<1>1. PICK a \in Seq(Frames) : a = Append(w, frame)
  BY <1>0
<1>2. /\ Len(w) \in Nat /\ Len(a) = Len(w) + 1
      /\ \A i \in 1 .. Len(w) : a[i] = w[i]
      /\ a[Len(w) + 1] = frame
  BY <1>1
<1>3. \A i \in 1 .. Len(a) : i \in 1 .. Len(w) \/ i = Len(w) + 1
  BY <1>2
<1> QED
  BY <1>1, <1>2, <1>3 DEF AllHanded

LEMMA AllHandedStays ==
    ASSUME TypeInv, [Next]_vars, NEW n \in Nodes, NEW w, AllHanded(n, w)
    PROVE  AllHanded(n, w)'
<1> SUFFICES ASSUME NEW i \in 1 .. Len(w), IsConfig(w[i]) PROVE HandedTo(n, w[i].config)'
  BY DEF AllHanded
<1>1. PICK g : g = w[i].config
  OBVIOUS
<1>2. HandedTo(n, g)
  BY <1>1 DEF AllHanded
<1>3. HandedTo(n, g)'
  BY <1>2, HandedStays
<1> QED
  BY <1>1, <1>3

LEMMA NextPollsBuild == TypeInv /\ PollsBuild /\ [Next]_vars => PollsBuild'
<1> SUFFICES ASSUME TypeInv, PollsBuild, [Next]_vars PROVE PollsBuild'
  OBVIOUS
<1>0. TypeOK
  BY DEF TypeInv
<1>1. NoBuild.node = NoNode
  BY DEF NoBuild
<1>2. ASSUME \A h \in Polls :
                 \/ build'[h].node = NoNode
                 \/ /\ build'[h].node = build[h].node
                    /\ poll'[h] = poll[h] \/ poll[h].step # "building"
                 \/ poll'[h].step = "building" /\ poll'[h].node = build'[h].node
      PROVE  PollsBuild'
  BY <1>2 DEF PollsBuild, Building
<1>3. ASSUME UNCHANGED <<build, poll>> PROVE PollsBuild'
  BY <1>2, <1>3
<1>4. ASSUME NEW k \in Changes \cup Links, NEW n \in Nodes, StartPush(k, n), UNCHANGED poll
      PROVE  PollsBuild'
  <2>1. k \in Callers /\ \A h \in Polls : h \in Callers /\ h # k
    BY CallersAssumption DEF CallersAssumption, Callers
  <2>2. \A h \in Polls : build'[h].node = build[h].node
    BY <1>0, <1>4, <2>1, StartPushBuildsAnew, StaleType
  <2> QED
    BY <1>2, <1>4, <2>2
<1>5. ASSUME NEW c \in Changes,
             \/ \E n \in Nodes : PushConfig(c, n) \/ FlushNode(c, n)
             \/ PushConfigToAll(c)
      PROVE  PollsBuild'
  <2>1. CASE \E n \in Nodes : PushConfig(c, n) \/ FlushNode(c, n)
    BY <1>4, <2>1 DEF PushConfig, FlushNode
  <2>2. CASE PushConfigToAll(c)
    <3>1. UNCHANGED poll /\ build' = Stale
      BY <2>2 DEF PushConfigToAll
    <3> QED
      BY <1>0, <1>2, <3>1, StaleType DEF Callers
  <2> QED
    BY <1>5, <2>1, <2>2
<1>6. ASSUME NEW l \in Links, Admit(l) PROVE PollsBuild'
  BY <1>4, <1>6 DEF Admit, TypeInv, NodesOK
<1>7. ASSUME NEW k \in Callers, UNCHANGED poll, build' = [build EXCEPT ![k] = NoBuild]
      PROVE  PollsBuild'
  <2>1. \A h \in Polls : build'[h] = NoBuild \/ build'[h] = build[h]
    BY <1>0, <1>7 DEF TypeOK, Callers
  <2> QED
    BY <1>1, <1>2, <1>7, <2>1
<1>8. CASE \/ \E c \in Changes : PushEnds(c) \/ FlushedNode(c)
           \/ \E l \in Links : FirstPush(l)
           \/ \E k \in Callers : PushFails(k)
  BY <1>7, <1>8 DEF PushEnds, FlushedNode, FirstPush, FinishPush, Resolve, PushFails, Callers
<1>9. ASSUME NEW k \in Callers, BuildAgain(k) PROVE PollsBuild'
  <2>1. NewBuild(build[k].node).node = build[k].node
    BY DEF NewBuild
  <2>2. UNCHANGED poll /\ \A h \in Polls : build'[h].node = build[h].node
    BY <1>0, <1>9, <2>1 DEF BuildAgain, TypeOK, Callers
  <2> QED
    BY <1>2, <2>2
<1>10. ASSUME NEW h \in Polls, TakeOver(h) \/ Discard(h) PROVE PollsBuild'
  <2>1. UNCHANGED build /\ poll[h].step # "building"
    BY <1>10 DEF TakeOver, Discard, barrier
  <2>2. \A g \in Polls : g # h => poll'[g] = poll[g]
    BY <1>0, <1>10 DEF TakeOver, Discard, TypeOK
  <2> QED
    BY <1>2, <2>1, <2>2
<1>11. ASSUME NEW h \in Polls, AskDesired(h) PROVE PollsBuild'
  <2>1. PICK n \in Nodes : n = poll[h].node
    BY <1>11 DEF AskDesired, TypeInv, NodesOK
  <2>2. poll[h] \in PollHandlers /\ poll[h].step = "working" /\ h \in Callers
    BY <1>0, <1>11 DEF TypeOK, AskDesired, Callers
  <2>3. \A g \in Polls : g # h => poll'[g] = poll[g] /\ build'[g] = build[g]
    BY <1>0, <1>11 DEF AskDesired, TypeOK, Callers
  <2>4. CASE Cached(n)
    BY <1>2, <1>11, <2>1, <2>2, <2>3, <2>4 DEF AskDesired
  <2>5. CASE ~Cached(n)
    <3>1. poll' = [poll EXCEPT ![h].step = "building"] /\ build' = [build EXCEPT ![h] = NewBuild(n)]
      BY <1>11, <2>1, <2>5 DEF AskDesired
    <3>2. poll'[h].step = "building" /\ poll'[h].node = n
      BY <1>0, <2>1, <2>2, <3>1 DEF TypeOK, PollHandlers
    <3>3. build'[h].node = n
      BY <1>0, <2>2, <3>1 DEF TypeOK, NewBuild
    <3> QED
      BY <1>2, <2>3, <3>2, <3>3
  <2> QED
    BY <2>4, <2>5
<1>12. ASSUME NEW h \in Polls, GetDesired(h) \/ PollFails(h) PROVE PollsBuild'
  <2>1. build' = [build EXCEPT ![h] = NoBuild] /\ h \in Callers
    BY <1>12 DEF GetDesired, PollFails, Resolve, Callers
  <2>2. \A g \in Polls : g # h => poll'[g] = poll[g]
    BY <1>0, <1>12 DEF GetDesired, PollFails, TypeOK
  <2>3. build'[h].node = NoNode /\ \A g \in Polls : g # h => build'[g] = build[g]
    BY <1>0, <1>1, <2>1 DEF TypeOK, Callers
  <2> QED
    BY <1>2, <2>2, <2>3
<1>13. ASSUME NEW h \in Polls, UNCHANGED build, poll[h].step # "building",
              \A g \in Polls : g # h => poll'[g] = poll[g]
       PROVE  PollsBuild'
  BY <1>2, <1>13
<1>13a. ASSUME NEW n \in Nodes, NEW h \in Polls, SendPoll(n, h) PROVE PollsBuild'
  BY <1>0, <1>13, <1>13a DEF SendPoll, TypeOK, barrier
<1>13b. ASSUME NEW n \in Nodes, Receive(n) PROVE PollsBuild'
  <2>1. PICK h \in Polls : h = agent[n].awaiting
    BY <1>0, <1>13b DEF Receive, TypeOK, Agents
  <2> QED
    BY <1>0, <1>13, <1>13b, <2>1 DEF Receive, TypeOK, barrier
<1>14. CASE MasterRestarts
  <2>1. \A h \in Polls : build'[h] = NoBuild
    BY <1>14 DEF MasterRestarts, Callers
  <2> QED
    BY <1>1, <1>2, <2>1
<1>15. ASSUME NEW c \in Changes,
              (\E S \in Scopes : Commit(c, S)) \/ Debounce(c) \/ FlushEnds(c)
       PROVE  PollsBuild'
  BY <1>3, <1>15 DEF Commit, Debounce, FlushEnds, barrier
<1>16. ASSUME NEW l \in Links, \/ Register(l) \/ DispatchQueued(l)
                              \/ HandleDisconnect(l) \/ Break(l)
       PROVE  PollsBuild'
  BY <1>3, <1>16 DEF Register, DispatchQueued, HandleDisconnect, Break, barrier
<1>17. ASSUME NEW n \in Nodes,
              \/ \E l \in Links : Dial(n, l)
              \/ Read(n) \/ HangUp(n) \/ RequestUpgrade(n) \/ Minute(n) \/ Timeout(n)
              \/ \E mode \in {"WS", "HTTP"} : AgentRestarts(n, mode)
       PROVE  PollsBuild'
  BY <1>3, <1>17 DEF Dial, Read, HangUp, RequestUpgrade, Minute, Timeout, AgentRestarts, barrier
<1>18. CASE StartFlush \/ UNCHANGED vars
  BY <1>3, <1>18 DEF StartFlush, vars, barrier
<1>19. ASSUME NEW c \in Changes, (\E S \in Scopes : Commit(c, S)) \/ Announce(c) \/ Flush(c)
       PROVE  PollsBuild'
  <2>1. CASE \E S \in Scopes : Commit(c, S)
    BY <1>15, <2>1
  <2>2. CASE Announce(c)
    BY <1>5, <1>8, <1>15, <2>2 DEF Announce
  <2>3. CASE Flush(c)
    BY <1>5, <1>8, <1>15, <2>3 DEF Flush
  <2> QED
    BY <1>19, <2>1, <2>2, <2>3
<1>20. ASSUME NEW l \in Links, Serve(l) \/ HandleDisconnect(l) \/ Break(l) PROVE PollsBuild'
  BY <1>6, <1>8, <1>16, <1>20 DEF Serve
<1>21. ASSUME NEW h \in Polls, HandlePoll(h) \/ PollFails(h) PROVE PollsBuild'
  BY <1>10, <1>11, <1>12, <1>21 DEF HandlePoll
<1>22. ASSUME NEW k \in Callers, BuildAgain(k) \/ PushFails(k) PROVE PollsBuild'
  BY <1>8, <1>9, <1>22
<1>23. ASSUME NEW n \in Nodes,
              \/ \E l \in Links : Dial(n, l)
              \/ \E h \in Polls : SendPoll(n, h)
              \/ Read(n) \/ HangUp(n) \/ Receive(n)
              \/ RequestUpgrade(n) \/ Minute(n)
              \/ Timeout(n) \/ \E mode \in {"WS", "HTTP"} : AgentRestarts(n, mode)
       PROVE  PollsBuild'
  BY <1>13a, <1>13b, <1>17, <1>23
<1> QED
  BY <1>14, <1>18, <1>19, <1>20, <1>21, <1>22, <1>23 DEF Next

\* Only reading, receiving and starting anew change what an agent was given.
LEMMA GotSteps ==
    ASSUME TypeInv, [Next]_vars
    PROVE  \/ /\ \A n \in Nodes : agent'[n].got = agent[n].got
              /\ UNCHANGED data \/ \E c \in Changes, S \in Scopes : Commit(c, S)
           \/ \E m \in Nodes : Read(m) \/ Receive(m)
           \/ \E m \in Nodes, mode \in {"WS", "HTTP"} : AgentRestarts(m, mode)
<1>0. TypeOK /\ \A n \in Nodes : agent[n] \in Agents
  BY DEF TypeInv, TypeOK
<1>1. ASSUME UNCHANGED <<agent, data>>
      PROVE  UNCHANGED data /\ \A n \in Nodes : agent'[n].got = agent[n].got
  BY <1>1
<1>2. ASSUME NEW m \in Nodes,
             \/ HangUp(m) \/ Timeout(m)
             \/ \E l \in Links : Dial(m, l)
             \/ \E h \in Polls : SendPoll(m, h)
      PROVE  UNCHANGED data /\ \A n \in Nodes : agent'[n].got = agent[n].got
  <2>0. UNCHANGED data
    BY <1>2 DEF HangUp, Timeout, Dial, SendPoll, barrier
  <2> SUFFICES ASSUME NEW n \in Nodes PROVE agent'[n].got = agent[n].got
    BY <2>0
  <2>1. CASE m = n
    <3>1. \/ agent'[n] = [agent[n] EXCEPT !.link = NoLink, !.authed = FALSE]
          \/ agent'[n] = [agent[n] EXCEPT !.awaiting = NoPoll]
          \/ \E l \in Links : agent'[n] = [agent[n] EXCEPT !.link = l]
          \/ \E h \in Polls : agent'[n] = [agent[n] EXCEPT !.awaiting = h]
      BY <1>0, <1>2, <2>1 DEF HangUp, Timeout, Dial, SendPoll, TypeOK
    <3>2. agent'[n].got = agent[n].got
      BY <1>0, <3>1 DEF Agents
    <3> QED
      BY <2>0, <3>2
  <2>2. CASE m # n
    BY <1>0, <1>2, <2>0, <2>2 DEF HangUp, Timeout, Dial, SendPoll, TypeOK
  <2> QED
    BY <2>1, <2>2
<1>3. ASSUME (\E h \in Polls : PollFails(h)) \/ MasterRestarts
      PROVE  UNCHANGED data /\ \A n \in Nodes : agent'[n].got = agent[n].got
  <2>0. UNCHANGED data
    BY <1>3 DEF PollFails, MasterRestarts
  <2>1. ASSUME NEW n \in Nodes PROVE agent'[n].got = agent[n].got
    <3>1. agent'[n] = agent[n] \/ agent'[n] = [agent[n] EXCEPT !.awaiting = NoPoll]
      BY <1>3 DEF PollFails, MasterRestarts
    <3> QED
      BY <1>0, <3>1 DEF Agents
  <2> QED
    BY <2>0, <2>1
<1>4. ASSUME NEW c \in Changes, NEW S \in Scopes, Commit(c, S)
      PROVE  \A n \in Nodes : agent'[n].got = agent[n].got
  BY <1>4 DEF Commit
<1>5. ASSUME NEW c \in Changes, NEW n \in Nodes, StartPush(c, n) PROVE UNCHANGED data
  BY <1>5 DEF StartPush, Invalidate
<1>6. ASSUME NEW c \in Changes, Announce(c) \/ Flush(c) PROVE UNCHANGED <<agent, data>>
  <2>1. CASE Announce(c)
    BY <2>1 DEF Announce, PushConfig, PushEnds, FinishPush, PushConfigToAll, Debounce,
       StartPush, Invalidate, Resolve, barrier
  <2>2. CASE Flush(c)
    BY <2>2 DEF Flush, FlushNode, FlushedNode, FinishPush, FlushEnds,
       StartPush, Invalidate, Resolve, barrier
  <2> QED
    BY <1>6, <2>1, <2>2
<1>7. ASSUME NEW l \in Links, Serve(l) \/ HandleDisconnect(l) \/ Break(l)
      PROVE  UNCHANGED <<agent, data>>
  BY <1>7 DEF Serve, Register, DispatchQueued, Admit, FirstPush, FinishPush,
     HandleDisconnect, Break, StartPush, Invalidate, Resolve, barrier
<1>8. ASSUME NEW h \in Polls, HandlePoll(h) PROVE UNCHANGED <<agent, data>>
  BY <1>8 DEF HandlePoll, TakeOver, AskDesired, GetDesired, Discard, Resolve, barrier
<1>9. CASE \/ StartFlush \/ UNCHANGED vars
           \/ \E k \in Callers : BuildAgain(k) \/ PushFails(k)
  <2>1. UNCHANGED <<agent, data>>
    BY <1>9 DEF StartFlush, vars, BuildAgain, PushFails, barrier
  <2> QED
    BY <1>1, <2>1
<1>10. ASSUME NEW c \in Changes, (\E S \in Scopes : Commit(c, S)) \/ Announce(c) \/ Flush(c)
       PROVE  /\ \A n \in Nodes : agent'[n].got = agent[n].got
              /\ UNCHANGED data \/ \E d \in Changes, S \in Scopes : Commit(d, S)
  <2>1. CASE \E S \in Scopes : Commit(c, S)
    BY <1>4, <2>1
  <2>2. CASE Announce(c) \/ Flush(c)
    BY <1>1, <1>6, <2>2
  <2> QED
    BY <1>10, <2>1, <2>2
<1>11. ASSUME NEW h \in Polls, HandlePoll(h) \/ PollFails(h)
       PROVE  UNCHANGED data /\ \A n \in Nodes : agent'[n].got = agent[n].got
  <2>1. CASE HandlePoll(h)
    BY <1>1, <1>8, <2>1
  <2>2. CASE PollFails(h)
    BY <1>3, <2>2
  <2> QED
    BY <1>11, <2>1, <2>2
<1>12. ASSUME NEW l \in Links, Serve(l) \/ HandleDisconnect(l) \/ Break(l)
       PROVE  UNCHANGED data /\ \A n \in Nodes : agent'[n].got = agent[n].got
  BY <1>1, <1>7, <1>12
<1>13. ASSUME NEW m \in Nodes,
              \/ \E l \in Links : Dial(m, l)
              \/ \E h \in Polls : SendPoll(m, h)
              \/ Read(m) \/ HangUp(m) \/ Receive(m)
              \/ RequestUpgrade(m) \/ Minute(m)
              \/ Timeout(m) \/ \E mode \in {"WS", "HTTP"} : AgentRestarts(m, mode)
       PROVE  \/ UNCHANGED data /\ \A n \in Nodes : agent'[n].got = agent[n].got
              \/ Read(m) \/ Receive(m)
              \/ \E mode \in {"WS", "HTTP"} : AgentRestarts(m, mode)
  <2>1. CASE \/ HangUp(m) \/ Timeout(m)
             \/ \E l \in Links : Dial(m, l)
             \/ \E h \in Polls : SendPoll(m, h)
    BY <1>2, <2>1
  <2>2. CASE RequestUpgrade(m) \/ Minute(m)
    BY <1>1, <2>2 DEF RequestUpgrade, Minute, barrier
  <2> QED
    BY <1>13, <2>1, <2>2
<1> QED
  BY <1>3, <1>9, <1>10, <1>11, <1>12, <1>13 DEF Next

\* What an agent was given last, after a step.
LEMMA GotMoves ==
    ASSUME TypeInv, [Next]_vars, NEW n \in Nodes
    PROVE  \/ agent'[n].got = agent[n].got
           \/ /\ \E mode \in {"WS", "HTTP"} : agent'[n] = FreshAgent(mode)
              /\ agent'[n].got = {} /\ UNCHANGED data
           \/ \E l \in Links :
                 /\ l = agent[n].link /\ link[l].wire # <<>>
                 /\ IsConfig(Head(link[l].wire))
                 /\ agent'[n].got = Head(link[l].wire).config
                 /\ UNCHANGED data
           \/ \E h \in Polls :
                 /\ h = agent[n].awaiting /\ poll[h].step = "answer"
                 /\ agent'[n].got = poll[h].desired
                 /\ UNCHANGED data
<1>0. TypeOK
  BY DEF TypeInv
<1>1. agent[n] \in Agents
  BY <1>0 DEF TypeOK
<1>5. ASSUME NEW m \in Nodes, Read(m) PROVE \/ agent'[n].got = agent[n].got
           \/ \E l \in Links :
                 /\ l = agent[n].link /\ link[l].wire # <<>>
                 /\ IsConfig(Head(link[l].wire))
                 /\ agent'[n].got = Head(link[l].wire).config
                 /\ UNCHANGED data
  <2>1. PICK l \in Links : l = agent[m].link
    BY <1>0, <1>5 DEF Read, TypeOK, Agents
  <2>2. PICK frame : frame = Head(link[l].wire)
    OBVIOUS
  <2>3. /\ UNCHANGED data /\ link[l].wire # <<>>
        /\ \/ agent' = agent
           \/ agent' = [agent EXCEPT ![m].authed = TRUE]
           \/ agent' = [agent EXCEPT ![m].link = NoLink]
           \/ /\ IsConfig(frame)
              /\ \/ agent' = [agent EXCEPT ![m] = [agent[m] EXCEPT !.got = frame.config,
                                                                 !.applied = frame.config]]
                 \/ agent' = [agent EXCEPT ![m] = [agent[m] EXCEPT !.got = frame.config]]
    BY <1>5, <2>1, <2>2 DEF Read, Applies, IsConfig, barrier
  <2>4. CASE m = n
    <3>1. \/ agent'[n] = agent[n]
          \/ agent'[n] = [agent[n] EXCEPT !.authed = TRUE]
          \/ agent'[n] = [agent[n] EXCEPT !.link = NoLink]
          \/ /\ IsConfig(frame)
             /\ \/ agent'[n] = [agent[n] EXCEPT !.got = frame.config, !.applied = frame.config]
                \/ agent'[n] = [agent[n] EXCEPT !.got = frame.config]
      BY <1>0, <2>3, <2>4 DEF TypeOK
    <3>2. CASE \/ agent'[n] = agent[n]
               \/ agent'[n] = [agent[n] EXCEPT !.authed = TRUE]
               \/ agent'[n] = [agent[n] EXCEPT !.link = NoLink]
      <4>1. agent'[n].got = agent[n].got
        BY <1>1, <3>2 DEF Agents
      <4> QED
        BY <4>1
    <3>3. CASE /\ IsConfig(frame)
               /\ \/ agent'[n] = [agent[n] EXCEPT !.got = frame.config, !.applied = frame.config]
                  \/ agent'[n] = [agent[n] EXCEPT !.got = frame.config]
      <4>1. agent'[n].got = frame.config
        BY <1>1, <3>3 DEF Agents
      <4> QED
        BY <2>1, <2>2, <2>3, <2>4, <3>3, <4>1
    <3> QED
      BY <3>1, <3>2, <3>3
  <2>5. CASE m # n
    <3>1. agent'[n] = agent[n]
      BY <1>0, <2>3, <2>5 DEF TypeOK
    <3> QED
      BY <3>1
  <2> QED
    BY <2>4, <2>5
<1>6. ASSUME NEW m \in Nodes, Receive(m) PROVE \/ agent'[n].got = agent[n].got
           \/ \E h \in Polls :
                 /\ h = agent[n].awaiting /\ poll[h].step = "answer"
                 /\ agent'[n].got = poll[h].desired
                 /\ UNCHANGED data
  <2>1. PICK h \in Polls : h = agent[m].awaiting
    BY <1>0, <1>6 DEF Receive, TypeOK, Agents
  <2>2. PICK done \in Agents : done = [agent[m] EXCEPT !.awaiting = NoPoll]
    BY <1>0, AgentUpdates DEF TypeOK
  <2>3. /\ UNCHANGED data /\ poll[h].step = "answer"
        /\ \/ agent' = [agent EXCEPT ![m] = done]
           \/ agent' = [agent EXCEPT ![m] = [done EXCEPT !.got = poll[h].desired,
                                                         !.applied = poll[h].desired]]
           \/ agent' = [agent EXCEPT ![m] = [done EXCEPT !.got = poll[h].desired]]
    BY <1>6, <2>1, <2>2 DEF Receive, Applies, barrier
  <2>4. CASE m = n
    <3>1. done.got = agent[n].got
      BY <1>1, <2>2, <2>4 DEF Agents
    <3>2. \/ agent'[n] = done
          \/ agent'[n] = [done EXCEPT !.got = poll[h].desired, !.applied = poll[h].desired]
          \/ agent'[n] = [done EXCEPT !.got = poll[h].desired]
      BY <1>0, <2>3, <2>4 DEF TypeOK
    <3>3. agent'[n].got = agent[n].got \/ agent'[n].got = poll[h].desired
      BY <3>1, <3>2 DEF Agents
    <3> QED
      BY <2>1, <2>3, <2>4, <3>3
  <2>5. CASE m # n
    BY <1>0, <2>3, <2>5 DEF TypeOK
  <2> QED
    BY <2>4, <2>5
<1>8. ASSUME NEW m \in Nodes, NEW mode \in {"WS", "HTTP"}, AgentRestarts(m, mode)
      PROVE  \/ agent'[n] = agent[n]
             \/ agent'[n] = FreshAgent(mode) /\ agent'[n].got = {} /\ UNCHANGED data
  <2>1. UNCHANGED data /\ agent' = [agent EXCEPT ![m] = FreshAgent(mode)]
    BY <1>8 DEF AgentRestarts, barrier
  <2>2. agent'[n] = IF m = n THEN FreshAgent(mode) ELSE agent[n]
    BY <1>0, <2>1 DEF TypeOK
  <2>3. FreshAgent(mode).got = {}
    BY DEF FreshAgent
  <2> QED
    BY <2>1, <2>2, <2>3
<1> QED
  BY <1>5, <1>6, <1>8, GotSteps

\* A push to the node, once its payload has resolved.
Pushed(n, w, v) ==
    \E k \in Callers :
        Resolve(k) /\ build[k].node = n /\ v = Append(w, ConfigFrame(Desired(k)))

\* How the connection of an agent is fed and read.
WireMoves(n, l) ==
    \/ link'[l].wire = <<>>
    \/ /\ agent[n].link = l /\ agent'[n].got = agent[n].got
       /\ \/ link'[l].wire = link[l].wire
          \/ link[l].wire # <<>> /\ link'[l].wire = Tail(link[l].wire)
          \/ \E f \in Frames : ~IsConfig(f) /\ link'[l].wire = Append(link[l].wire, f)
          \/ Pushed(n, link[l].wire, link'[l].wire)
    \/ /\ agent[n].link = l /\ link[l].wire # <<>> /\ IsConfig(Head(link[l].wire))
       /\ agent'[n].got = Head(link[l].wire).config
       /\ link'[l].wire = Tail(link[l].wire)

LEMMA WireSteps ==
    ASSUME TypeInv, ServedInv, AgentsInv, [Next]_vars,
           NEW n \in Nodes, NEW l \in Links, agent'[n].link = l
    PROVE  WireMoves(n, l)
<1>0. TypeOK /\ agent[n] \in Agents /\ l # NoLink
  BY BoundsAssumption DEF TypeInv, TypeOK, BoundsAssumption
<1>1. ASSUME Unfed(l), agent[n].link = l, agent'[n].got = agent[n].got PROVE WireMoves(n, l)
  BY <1>1 DEF Unfed, WireMoves, IsConfig
<1>2. ASSUME link'[l].wire = link[l].wire, agent[n].link = l, agent'[n].got = agent[n].got
      PROVE  WireMoves(n, l)
  BY <1>2 DEF WireMoves
<1>3. CASE \/ \E m \in Links : \/ Register(m) \/ DispatchQueued(m) \/ Admit(m)
                             \/ HandleDisconnect(m) \/ Break(m)
           \/ \E h \in Polls : TakeOver(h)
           \/ \E m \in Nodes : RequestUpgrade(m)
  <2>1. Unfed(l)
    BY <1>3, UnfedSteps
  <2>2. UNCHANGED agent
    BY <1>3 DEF Register, DispatchQueued, Admit, HandleDisconnect, Break, TakeOver, RequestUpgrade
  <2> QED
    BY <1>1, <2>1, <2>2
<1>4. ASSUME NEW k \in Callers, FinishPush(k) PROVE WireMoves(n, l)
  <2>1. UNCHANGED agent /\ Resolve(k)
    BY <1>4 DEF FinishPush
  <2>2. PICK m \in Nodes, d \in Configs : m = build[k].node /\ d = Desired(k)
    BY <1>0, <2>1, DesiredType
  <2>3. CASE sockets[m] = NoLink
    BY <1>2, <1>4, <2>1, <2>2, <2>3 DEF FinishPush
  <2>4. CASE sockets[m] # NoLink
    <3>1. PICK j \in Links : j = sockets[m]
      BY <1>0, <2>4 DEF TypeOK
    <3>2. PICK frame \in Frames : frame = ConfigFrame(d)
      BY FrameType
    <3>3. link' = Sent(j, frame)
      BY <1>4, <2>2, <2>4, <3>1, <3>2 DEF FinishPush
    <3>4. link'[l].wire = IF l = j /\ link[j].open THEN Append(link[j].wire, frame) ELSE link[l].wire
      BY <1>0, <3>3, SentWires
    <3>5. CASE l = j /\ link[j].open
      <4>1. link[j].node = m /\ link[j].stage # "closed"
        BY <2>4, <3>1 DEF ServedInv, LinksInv
      <4>2. agent[n].link = l
        BY <2>1
      <4>3. link[l].node = n
        BY <1>0, <3>5, <4>1, <4>2 DEF AgentsInv
      <4>4. build[k].node = n
        BY <2>2, <3>5, <4>1, <4>3
      <4>5. link'[l].wire = Append(link[l].wire, ConfigFrame(Desired(k)))
        BY <2>2, <3>2, <3>4, <3>5
      <4> QED
        BY <2>1, <4>2, <4>4, <4>5 DEF WireMoves, Pushed
    <3>6. CASE ~(l = j /\ link[j].open)
      BY <1>2, <2>1, <3>4, <3>6
    <3> QED
      BY <3>5, <3>6
  <2> QED
    BY <2>3, <2>4
<1>5. ASSUME NEW m \in Nodes, Read(m) PROVE WireMoves(n, l)
  <2>1. PICK j \in Links : j = agent[m].link
    BY <1>0, <1>5 DEF Read, TypeOK, Agents
  <2>2. PICK frame : frame = Head(link[j].wire)
    OBVIOUS
  <2>3. /\ link[j].wire # <<>>
        /\ \/ /\ agent' = agent \/ agent' = [agent EXCEPT ![m].authed = TRUE]
              /\ link' = [link EXCEPT ![j].wire = Tail(link[j].wire)]
           \/ /\ agent' = [agent EXCEPT ![m].link = NoLink]
              /\ link' = [link EXCEPT ![j].open = FALSE, ![j].wire = <<>>]
           \/ /\ IsConfig(frame)
              /\ \/ agent' = [agent EXCEPT ![m] = [agent[m] EXCEPT !.got = frame.config,
                                                                 !.applied = frame.config]]
                 \/ agent' = [agent EXCEPT ![m] = [agent[m] EXCEPT !.got = frame.config]]
              /\ link' = [link EXCEPT ![j].wire = Tail(link[j].wire)]
    BY <1>5, <2>1, <2>2 DEF Read, Applies, IsConfig
  <2>4. CASE m = n
    <3>1. link[j] \in Connections
      BY <1>0 DEF TypeOK
    <3>2. CASE /\ agent' = agent \/ agent' = [agent EXCEPT ![m].authed = TRUE]
               /\ link' = [link EXCEPT ![j].wire = Tail(link[j].wire)]
      <4>1. agent'[n] = agent[n] \/ agent'[n] = [agent[n] EXCEPT !.authed = TRUE]
        BY <1>0, <2>4, <3>2 DEF TypeOK
      <4>2. agent'[n].link = agent[n].link /\ agent'[n].got = agent[n].got
        BY <1>0, <4>1 DEF Agents
      <4>3. l = j /\ link'[j].wire = Tail(link[j].wire)
        BY <1>0, <2>1, <2>4, <3>1, <3>2, <4>2 DEF TypeOK, Connections
      <4> QED
        BY <2>3, <4>2, <4>3 DEF WireMoves
    <3>3. CASE agent' = [agent EXCEPT ![m].link = NoLink]
      <4>1. agent'[n] = [agent[n] EXCEPT !.link = NoLink]
        BY <1>0, <2>4, <3>3 DEF TypeOK
      <4>2. agent'[n].link = NoLink
        BY <1>0, <4>1 DEF Agents
      <4> QED
        BY <1>0, <4>2
    <3>4. CASE /\ IsConfig(frame)
               /\ \/ agent' = [agent EXCEPT ![m] = [agent[m] EXCEPT !.got = frame.config,
                                                                  !.applied = frame.config]]
                  \/ agent' = [agent EXCEPT ![m] = [agent[m] EXCEPT !.got = frame.config]]
               /\ link' = [link EXCEPT ![j].wire = Tail(link[j].wire)]
      <4>1. \/ agent'[n] = [agent[n] EXCEPT !.got = frame.config, !.applied = frame.config]
            \/ agent'[n] = [agent[n] EXCEPT !.got = frame.config]
        BY <1>0, <2>4, <3>4 DEF TypeOK
      <4>2. agent'[n].link = agent[n].link /\ agent'[n].got = frame.config
        BY <1>0, <4>1 DEF Agents
      <4>3. l = j /\ link'[j].wire = Tail(link[j].wire)
        BY <1>0, <2>1, <2>4, <3>1, <3>4, <4>2 DEF TypeOK, Connections
      <4> QED
        BY <2>2, <2>3, <3>4, <4>2, <4>3 DEF WireMoves
    <3> QED
      BY <2>3, <3>2, <3>3, <3>4
  <2>5. CASE m # n
    <3>1. agent'[n] = agent[n]
      BY <1>0, <2>3, <2>5 DEF TypeOK
    <3>2. l # j
      BY <1>0, <2>1, <2>5, <3>1 DEF AgentsInv
    <3>3. link'[l] = link[l]
      BY <1>0, <2>3, <3>2 DEF TypeOK
    <3> QED
      BY <1>2, <3>1, <3>3
  <2> QED
    BY <2>4, <2>5
<1>6. ASSUME NEW m \in Nodes, NEW mode \in {"WS", "HTTP"}, HangUp(m) \/ AgentRestarts(m, mode)
      PROVE  WireMoves(n, l)
  <2>1. CASE m = n
    <3>1. \/ agent'[n] = [agent[n] EXCEPT !.link = NoLink, !.authed = FALSE]
          \/ agent'[n] = FreshAgent(mode)
      BY <1>0, <1>6, <2>1 DEF HangUp, AgentRestarts, TypeOK
    <3>2. agent'[n].link = NoLink
      <4>1. FreshAgent(mode).link = NoLink
        BY DEF FreshAgent
      <4>2. [agent[n] EXCEPT !.link = NoLink, !.authed = FALSE].link = NoLink
        BY <1>0 DEF Agents
      <4> QED
        BY <3>1, <4>1, <4>2
    <3> QED
      BY <1>0, <3>2
  <2>2. CASE m # n
    <3>1. agent'[n] = agent[n]
      BY <1>0, <1>6, <2>2 DEF HangUp, AgentRestarts, TypeOK
    <3>2. Unfed(l)
      BY <1>6, UnfedSteps
    <3> QED
      BY <1>1, <3>1, <3>2
  <2> QED
    BY <2>1, <2>2
<1>7. CASE MasterRestarts
  <2>1. agent'[n] = [agent[n] EXCEPT !.awaiting = NoPoll]
    BY <1>7 DEF MasterRestarts
  <2>2. agent'[n].link = agent[n].link /\ agent'[n].got = agent[n].got
    BY <1>0, <2>1 DEF Agents
  <2>3. Unfed(l)
    BY <1>7, UnfedSteps
  <2> QED
    BY <1>1, <2>2, <2>3
<1>8. ASSUME NEW m \in Nodes, NEW j \in Links, Dial(m, j) PROVE WireMoves(n, l)
  <2>1. CASE m = n
    <3>1. agent'[n] = [agent[n] EXCEPT !.link = j]
      BY <1>0, <1>8, <2>1 DEF Dial, TypeOK
    <3>2. l = j
      BY <1>0, <3>1 DEF Agents
    <3>3. link'[l].wire = <<>>
      BY <1>0, <1>8, <3>2 DEF Dial, Connect, TypeOK
    <3> QED
      BY <3>3 DEF WireMoves
  <2>2. CASE m # n
    <3>1. agent'[n] = agent[n] /\ l # j
      BY <1>0, <1>8, <2>2 DEF Dial, Free, TypeOK
    <3>2. link'[l] = link[l]
      BY <1>0, <1>8, <3>1 DEF Dial, TypeOK
    <3> QED
      BY <1>2, <3>1, <3>2
  <2> QED
    BY <2>1, <2>2
<1>9. ASSUME UNCHANGED link, NEW h, agent'[n] = agent[n] \/ agent'[n] = [agent[n] EXCEPT !.awaiting = h]
      PROVE  WireMoves(n, l)
  <2>1. agent'[n].link = agent[n].link /\ agent'[n].got = agent[n].got
    BY <1>0, <1>9 DEF Agents
  <2> QED
    BY <1>2, <1>9, <2>1
<1>9a. ASSUME NEW h \in Polls, PollFails(h) PROVE WireMoves(n, l)
  BY <1>9, <1>9a DEF PollFails, wires
<1>9b. ASSUME NEW m \in Nodes, Timeout(m) PROVE WireMoves(n, l)
  <2>1. agent'[n] = agent[n] \/ agent'[n] = [agent[n] EXCEPT !.awaiting = NoPoll]
    BY <1>0, <1>9b DEF Timeout, TypeOK
  <2> QED
    BY <1>9, <1>9b, <2>1 DEF Timeout, wires
<1>9c. ASSUME NEW m \in Nodes, NEW h \in Polls, SendPoll(m, h) PROVE WireMoves(n, l)
  <2>1. agent'[n] = agent[n] \/ agent'[n] = [agent[n] EXCEPT !.awaiting = h]
    BY <1>0, <1>9c DEF SendPoll, TypeOK
  <2> QED
    BY <1>9, <1>9c, <2>1 DEF SendPoll, wires
<1>10. ASSUME NEW m \in Nodes, Receive(m) PROVE WireMoves(n, l)
  <2>1. UNCHANGED link
    BY <1>10 DEF Receive, wires
  <2>2. CASE m = n
    <3>1. agent[n].awaiting # NoPoll
      BY <1>10, <2>2 DEF Receive
    <3>2. agent[n].link = NoLink
      BY <3>1 DEF AgentsInv
    <3>3. PICK done \in Agents : done = [agent[n] EXCEPT !.awaiting = NoPoll]
      BY <1>0, AgentUpdates
    <3>4. PICK d : d = poll[agent[n].awaiting].desired
      OBVIOUS
    <3>5. \/ agent' = [agent EXCEPT ![n] = done]
          \/ agent' = [agent EXCEPT ![n] = [done EXCEPT !.got = d, !.applied = d]]
          \/ agent' = [agent EXCEPT ![n] = [done EXCEPT !.got = d]]
      BY <1>10, <2>2, <3>3, <3>4 DEF Receive, Applies
    <3>6. \/ agent'[n] = done
          \/ agent'[n] = [done EXCEPT !.got = d, !.applied = d]
          \/ agent'[n] = [done EXCEPT !.got = d]
      BY <1>0, <3>5 DEF TypeOK
    <3>7. agent'[n].link = done.link /\ done.link = agent[n].link
      BY <1>0, <3>3, <3>6 DEF Agents
    <3> QED
      BY <1>0, <3>2, <3>7
  <2>3. CASE m # n
    <3>1. agent'[n] = agent[n]
      BY <1>0, <1>10, <2>3 DEF Receive, Applies, TypeOK
    <3> QED
      BY <1>2, <2>1, <3>1
  <2> QED
    BY <2>2, <2>3
<1>11. ASSUME UNCHANGED <<agent, link>> PROVE WireMoves(n, l)
  BY <1>2, <1>11
<1>12. ASSUME NEW k \in Callers, FinishPush(k) \/ BuildAgain(k) \/ PushFails(k)
       PROVE  WireMoves(n, l)
  BY <1>4, <1>11, <1>12 DEF BuildAgain, PushFails, wires
<1>13. ASSUME NEW c \in Changes, (\E S \in Scopes : Commit(c, S)) \/ Announce(c) \/ Flush(c)
       PROVE  WireMoves(n, l)
  <2>1. CASE \E S \in Scopes : Commit(c, S)
    BY <1>11, <2>1 DEF Commit, wires
  <2>2. CASE Announce(c)
    BY <1>11, <1>12, <2>2 DEF Announce, PushConfig, PushEnds, PushConfigToAll, Debounce,
       Callers, wires
  <2>3. CASE Flush(c)
    BY <1>11, <1>12, <2>3 DEF Flush, FlushNode, FlushedNode, FlushEnds, Callers, wires
  <2> QED
    BY <1>13, <2>1, <2>2, <2>3
<1>14. ASSUME NEW m \in Links, Serve(m) \/ HandleDisconnect(m) \/ Break(m) PROVE WireMoves(n, l)
  BY <1>3, <1>12, <1>14 DEF Serve, FirstPush, Callers
<1>15. ASSUME NEW h \in Polls, HandlePoll(h) \/ PollFails(h) PROVE WireMoves(n, l)
  BY <1>3, <1>9a, <1>11, <1>15 DEF HandlePoll, AskDesired, GetDesired, Discard, wires
<1>16. CASE StartFlush \/ (\E m \in Nodes : Minute(m)) \/ UNCHANGED vars
  BY <1>11, <1>16 DEF StartFlush, Minute, vars, wires
<1> QED
  BY <1>3, <1>5, <1>6, <1>7, <1>8, <1>9b, <1>9c, <1>10, <1>12, <1>13, <1>14, <1>15, <1>16
     DEF Next

\* How the answer an agent awaits comes about.
PollMoves(n, h) ==
    /\ agent[n].awaiting = h /\ agent'[n].got = agent[n].got
    /\ \/ poll[h].step = "answer" /\ poll'[h].desired = poll[h].desired
       \/ cache[n] # NoConfig /\ poll'[h].desired = cache[n]
       \/ \E k \in Callers : /\ Resolve(k) /\ build[k].node = n
                            /\ poll'[h].desired = Desired(k)

LEMMA PollSteps ==
    ASSUME TypeInv, AgentsInv, PollsBuild, [Next]_vars,
           NEW n \in Nodes, NEW h \in Polls, agent'[n].awaiting = h, poll'[h].step = "answer"
    PROVE  PollMoves(n, h)
<1>0. TypeOK /\ agent[n] \in Agents /\ h # NoPoll /\ poll[h] \in PollHandlers
  BY BoundsAssumption DEF TypeInv, TypeOK, BoundsAssumption
<1>1. ASSUME agent'[n] = agent[n], poll'[h] = poll[h] PROVE PollMoves(n, h)
  BY <1>1 DEF PollMoves
<1>2. ASSUME UNCHANGED <<agent, poll>> PROVE PollMoves(n, h)
  BY <1>1, <1>2
<1>3. ASSUME NEW g \in Polls, AskDesired(g) PROVE PollMoves(n, h)
  <2>1. agent'[n] = agent[n]
    BY <1>3 DEF AskDesired
  <2>2. CASE g # h
    BY <1>0, <1>1, <1>3, <2>1, <2>2 DEF AskDesired, TypeOK
  <2>3. CASE g = h
    <3>1. poll[h].node = n
      BY <1>0, <2>1 DEF AgentsInv
    <3>2. CASE Cached(n)
      <4>1. poll' = [poll EXCEPT ![h].step = "answer", ![h].desired = cache[n]]
        BY <1>3, <2>3, <3>1, <3>2 DEF AskDesired
      <4>2. poll'[h].desired = cache[n]
        BY <1>0, <4>1 DEF TypeOK, PollHandlers
      <4> QED
        BY <2>1, <3>2, <4>2 DEF PollMoves, Cached
    <3>3. CASE ~Cached(n)
      <4>1. poll' = [poll EXCEPT ![h].step = "building"]
        BY <1>3, <2>3, <3>1, <3>3 DEF AskDesired
      <4> QED
        BY <1>0, <4>1 DEF TypeOK, PollHandlers
    <3> QED
      BY <3>2, <3>3
  <2> QED
    BY <2>2, <2>3
<1>4. ASSUME NEW g \in Polls, GetDesired(g) PROVE PollMoves(n, h)
  <2>1. agent'[n] = agent[n]
    BY <1>4 DEF GetDesired
  <2>2. CASE g # h
    BY <1>0, <1>1, <1>4, <2>1, <2>2 DEF GetDesired, TypeOK
  <2>3. CASE g = h
    <3>1. poll[h].node = n /\ h \in Callers
      BY <1>0, <2>1 DEF AgentsInv, Callers
    <3>2. Resolve(h) /\ build[h].node = n
      BY <1>4, <2>3, <3>1 DEF GetDesired, Resolve, PollsBuild
    <3>3. poll' = [poll EXCEPT ![h].step = "answer", ![h].desired = Desired(h)]
      BY <1>4, <2>3 DEF GetDesired
    <3>4. poll'[h].desired = Desired(h)
      BY <1>0, <3>3 DEF TypeOK, PollHandlers
    <3> QED
      BY <2>1, <3>1, <3>2, <3>4 DEF PollMoves
  <2> QED
    BY <2>2, <2>3
<1>5. ASSUME NEW g \in Polls, TakeOver(g) \/ Discard(g) PROVE PollMoves(n, h)
  <2>1. agent'[n] = agent[n]
    BY <1>5 DEF TakeOver, Discard
  <2>2. CASE g # h
    BY <1>0, <1>1, <1>5, <2>1, <2>2 DEF TakeOver, Discard, TypeOK
  <2>3. CASE g = h
    <3>1. poll'[h].step # "answer"
      BY <1>0, <1>5, <2>3 DEF TakeOver, Discard, IdlePoll, TypeOK, PollHandlers
    <3> QED
      BY <3>1
  <2> QED
    BY <2>2, <2>3
<1>6. ASSUME NEW g \in Polls, PollFails(g) PROVE PollMoves(n, h)
  <2>1. CASE g = h
    <3>1. poll'[h].step # "answer"
      BY <1>0, <1>6, <2>1 DEF PollFails, IdlePoll, TypeOK
    <3> QED
      BY <3>1
  <2>2. CASE g # h
    <3>1. poll'[h] = poll[h]
      BY <1>0, <1>6, <2>2 DEF PollFails, TypeOK
    <3>2. \/ agent'[n] = agent[n]
          \/ agent'[n] = [agent[n] EXCEPT !.awaiting = NoPoll]
      BY <1>6 DEF PollFails
    <3>3. agent'[n] = agent[n]
      BY <1>0, <3>2 DEF Agents
    <3> QED
      BY <1>1, <3>1, <3>3
  <2> QED
    BY <2>1, <2>2
<1>7. CASE MasterRestarts
  <2>1. poll'[h].step # "answer"
    BY <1>7 DEF MasterRestarts, IdlePoll
  <2> QED
    BY <2>1
<1>9. ASSUME NEW m \in Nodes, Read(m) PROVE PollMoves(n, h)
  <2>1. UNCHANGED poll
    BY <1>9 DEF Read
  <2>2. CASE m # n
    <3>1. agent'[n] = agent[n]
      BY <1>0, <1>9, <2>2 DEF Read, Applies, TypeOK
    <3> QED
      BY <1>1, <2>1, <3>1
  <2>3. CASE m = n
    <3>1. agent[n].link # NoLink
      BY <1>9, <2>3 DEF Read
    <3>2. agent[n].awaiting = NoPoll
      BY <3>1 DEF AgentsInv
    <3>3. PICK d : d = Head(link[agent[n].link].wire).config
      OBVIOUS
    <3>4. \/ agent' = agent
          \/ agent' = [agent EXCEPT ![n].authed = TRUE]
          \/ agent' = [agent EXCEPT ![n].link = NoLink]
          \/ agent' = [agent EXCEPT ![n] = [agent[n] EXCEPT !.got = d, !.applied = d]]
          \/ agent' = [agent EXCEPT ![n] = [agent[n] EXCEPT !.got = d]]
      BY <1>9, <2>3, <3>3 DEF Read, Applies
    <3>5. \/ agent'[n] = agent[n]
          \/ agent'[n] = [agent[n] EXCEPT !.authed = TRUE]
          \/ agent'[n] = [agent[n] EXCEPT !.link = NoLink]
          \/ agent'[n] = [agent[n] EXCEPT !.got = d, !.applied = d]
          \/ agent'[n] = [agent[n] EXCEPT !.got = d]
      BY <1>0, <3>4 DEF TypeOK
    <3>6. agent'[n].awaiting = agent[n].awaiting
      BY <1>0, <3>5 DEF Agents
    <3> QED
      BY <1>0, <3>2, <3>6
  <2> QED
    BY <2>2, <2>3
<1>10. ASSUME NEW m \in Nodes, Receive(m) PROVE PollMoves(n, h)
  <2>1. CASE m = n
    <3>1. PICK done \in Agents : done = [agent[n] EXCEPT !.awaiting = NoPoll]
      BY <1>0, AgentUpdates
    <3>2. PICK d : d = poll[agent[n].awaiting].desired
      OBVIOUS
    <3>3. \/ agent' = [agent EXCEPT ![n] = done]
          \/ agent' = [agent EXCEPT ![n] = [done EXCEPT !.got = d, !.applied = d]]
          \/ agent' = [agent EXCEPT ![n] = [done EXCEPT !.got = d]]
      BY <1>10, <2>1, <3>1, <3>2 DEF Receive, Applies
    <3>4. \/ agent'[n] = done
          \/ agent'[n] = [done EXCEPT !.got = d, !.applied = d]
          \/ agent'[n] = [done EXCEPT !.got = d]
      BY <1>0, <3>3 DEF TypeOK
    <3>5. agent'[n].awaiting = done.awaiting /\ done.awaiting = NoPoll
      BY <1>0, <3>1, <3>4 DEF Agents
    <3> QED
      BY <1>0, <3>5
  <2>2. CASE m # n
    <3>1. agent'[n] = agent[n]
      BY <1>0, <1>10, <2>2 DEF Receive, Applies, TypeOK
    <3>2. agent[m].awaiting # h
      BY <1>0, <2>2, <3>1 DEF AgentsInv
    <3>3. poll'[h] = poll[h]
      BY <1>0, <1>10, <3>2 DEF Receive, TypeOK
    <3> QED
      BY <1>1, <3>1, <3>3
  <2> QED
    BY <2>1, <2>2
<1>11. ASSUME NEW m \in Nodes, NEW g \in Polls, SendPoll(m, g) PROVE PollMoves(n, h)
  <2>1. CASE g = h
    <3>1. poll'[h].step = "arriving"
      BY <1>0, <1>11, <2>1 DEF SendPoll, TypeOK
    <3> QED
      BY <3>1
  <2>2. CASE g # h
    <3>1. poll'[h] = poll[h]
      BY <1>0, <1>11, <2>2 DEF SendPoll, TypeOK
    <3>2. agent'[n] = agent[n] \/ agent'[n] = [agent[n] EXCEPT !.awaiting = g]
      BY <1>0, <1>11 DEF SendPoll, TypeOK
    <3>3. agent'[n] = agent[n]
      BY <1>0, <2>2, <3>2 DEF Agents
    <3> QED
      BY <1>1, <3>1, <3>3
  <2> QED
    BY <2>1, <2>2
<1>12. ASSUME NEW m \in Nodes, NEW l \in Links, Dial(m, l) PROVE PollMoves(n, h)
  <2>1. UNCHANGED poll /\ (agent'[n] = agent[n] \/ agent'[n] = [agent[n] EXCEPT !.link = l])
    BY <1>0, <1>12 DEF Dial, TypeOK
  <2>2. agent'[n].awaiting = agent[n].awaiting /\ agent'[n].got = agent[n].got
    BY <1>0, <2>1 DEF Agents
  <2> QED
    BY <2>1, <2>2 DEF PollMoves
<1>13. ASSUME NEW m \in Nodes, HangUp(m) PROVE PollMoves(n, h)
  <2>1. /\ UNCHANGED poll
        /\ \/ agent'[n] = agent[n]
           \/ agent'[n] = [agent[n] EXCEPT !.link = NoLink, !.authed = FALSE]
    BY <1>0, <1>13 DEF HangUp, TypeOK
  <2>2. agent'[n].awaiting = agent[n].awaiting /\ agent'[n].got = agent[n].got
    BY <1>0, <2>1 DEF Agents
  <2> QED
    BY <2>1, <2>2 DEF PollMoves
<1>14. ASSUME NEW m \in Nodes, Timeout(m) PROVE PollMoves(n, h)
  <2>1. /\ UNCHANGED poll
        /\ \/ agent'[n] = agent[n]
           \/ agent'[n] = [agent[n] EXCEPT !.awaiting = NoPoll]
    BY <1>0, <1>14 DEF Timeout, TypeOK
  <2>2. agent'[n] = agent[n]
    BY <1>0, <2>1 DEF Agents
  <2> QED
    BY <1>1, <2>1, <2>2
<1>15. ASSUME NEW m \in Nodes, NEW mode \in {"WS", "HTTP"}, AgentRestarts(m, mode)
       PROVE  PollMoves(n, h)
  <2>1. UNCHANGED poll /\ (agent'[n] = agent[n] \/ agent'[n] = FreshAgent(mode))
    BY <1>0, <1>15 DEF AgentRestarts, TypeOK
  <2>2. FreshAgent(mode).awaiting = NoPoll
    BY DEF FreshAgent
  <2> QED
    BY <1>0, <1>1, <2>1, <2>2
<1>16. ASSUME NEW c \in Changes, (\E S \in Scopes : Commit(c, S)) \/ Announce(c) \/ Flush(c)
       PROVE  UNCHANGED <<agent, poll>>
  <2>1. CASE \E S \in Scopes : Commit(c, S)
    BY <2>1 DEF Commit
  <2>2. CASE Announce(c)
    BY <2>2 DEF Announce, PushConfig, PushEnds, FinishPush, PushConfigToAll, Debounce
  <2>3. CASE Flush(c)
    BY <2>3 DEF Flush, FlushNode, FlushedNode, FinishPush, FlushEnds
  <2> QED
    BY <1>16, <2>1, <2>2, <2>3
<1>17. ASSUME NEW l \in Links, Serve(l) \/ HandleDisconnect(l) \/ Break(l)
       PROVE  UNCHANGED <<agent, poll>>
  BY <1>17 DEF Serve, Register, DispatchQueued, Admit, FirstPush, FinishPush,
     HandleDisconnect, Break
<1>18. CASE \/ StartFlush \/ UNCHANGED vars
            \/ \E k \in Callers : BuildAgain(k) \/ PushFails(k)
            \/ \E m \in Nodes : RequestUpgrade(m) \/ Minute(m)
  BY <1>2, <1>18 DEF StartFlush, vars, BuildAgain, PushFails, RequestUpgrade, Minute
<1>19. ASSUME NEW g \in Polls, HandlePoll(g) \/ PollFails(g) PROVE PollMoves(n, h)
  BY <1>3, <1>4, <1>5, <1>6, <1>19 DEF HandlePoll
<1>20. ASSUME NEW m \in Nodes,
              \/ \E l \in Links : Dial(m, l)
              \/ \E g \in Polls : SendPoll(m, g)
              \/ Read(m) \/ HangUp(m) \/ Receive(m)
              \/ RequestUpgrade(m) \/ Minute(m)
              \/ Timeout(m) \/ \E mode \in {"WS", "HTTP"} : AgentRestarts(m, mode)
       PROVE  PollMoves(n, h)
  BY <1>9, <1>10, <1>11, <1>12, <1>13, <1>14, <1>15, <1>18, <1>20
<1> QED
  BY <1>2, <1>7, <1>16, <1>17, <1>18, <1>19, <1>20 DEF Next

LEMMA NextDeliveryInv ==
    TypeInv /\ ServedInv /\ DeliveryInv /\ [Next]_vars => DeliveryInv'
<1> SUFFICES ASSUME TypeInv, ServedInv, DeliveryInv, [Next]_vars PROVE DeliveryInv'
  OBVIOUS
<1>0. TypeOK /\ SourcesInv /\ AgentsInv /\ PollsBuild
  BY DEF TypeInv, DeliveryInv
<1>1. SourcesInv' /\ AgentsInv' /\ PollsBuild'
  BY <1>0, NextSourcesInv, NextAgentsInv, NextPollsBuild
<1>2. ASSUME NEW n \in Nodes PROVE HandedTo(n, agent[n].got)
  BY DEF DeliveryInv
<1>3. ASSUME NEW n \in Nodes, NEW l \in Links, agent[n].link = l
      PROVE  Grows(agent[n].got, link[l].wire) /\ AllHanded(n, link[l].wire)
  BY <1>3 DEF DeliveryInv
<1>4. ASSUME NEW n \in Nodes, NEW h \in Polls, agent[n].awaiting = h, poll[h].step = "answer"
      PROVE  HandedTo(n, poll[h].desired) /\ agent[n].got \subseteq poll[h].desired
  BY <1>4 DEF DeliveryInv
<1>5. \A l \in Links : link[l].wire \in Seq(Frames)
  BY <1>0 DEF TypeOK, Connections
<1>6. ASSUME NEW n \in Nodes, NEW g, HandedTo(n, g) PROVE HandedTo(n, g)'
  BY <1>6, HandedStays
<1>7. ASSUME NEW n \in Nodes PROVE HandedTo(n, agent[n].got)'
  <2>1. PICK g : g = agent[n].got
    OBVIOUS
  <2>2. PICK d : d = agent'[n].got
    OBVIOUS
  <2>3. CASE d = g
    BY <1>2, <1>6, <2>1, <2>2, <2>3
  <2>4. CASE d = {}
    BY <2>2, <2>4 DEF HandedTo
  <2>5. ASSUME NEW l \in Links, l = agent[n].link, link[l].wire # <<>>,
               IsConfig(Head(link[l].wire)), d = Head(link[l].wire).config
        PROVE  HandedTo(n, agent[n].got)'
    <3>1. HandedTo(n, d)
      BY <1>3, <1>5, <2>5, TailGrows
    <3> QED
      BY <1>6, <2>2, <3>1
  <2>6. ASSUME NEW h \in Polls, h = agent[n].awaiting, poll[h].step = "answer",
               d = poll[h].desired
        PROVE  HandedTo(n, agent[n].got)'
    BY <1>4, <1>6, <2>2, <2>6
  <2> QED
    BY <2>1, <2>2, <2>3, <2>4, <2>5, <2>6, GotMoves
<1>8. ASSUME NEW n \in Nodes, NEW l \in Links, agent'[n].link = l
      PROVE  Grows(agent[n].got, link[l].wire)' /\ AllHanded(n, link[l].wire)'
  <2>0. PICK w \in Seq(Frames) : w = link[l].wire
    BY <1>5
  <2>1. PICK g : g = agent[n].got /\ w = link[l].wire
    BY <2>0
  <2>2. PICK d, v : d = agent'[n].got /\ v = link'[l].wire
    OBVIOUS
  <2>3. SUFFICES Grows(d, v) /\ AllHanded(n, v)'
    BY <2>2 DEF Grows
  <2>4. CASE v = <<>>
    BY <2>4, EmptyGrows DEF Grows, AllHanded
  <2>5. SUFFICES ASSUME agent[n].link = l, v # <<>> PROVE Grows(d, v) /\ AllHanded(n, v)'
    BY <1>0, <1>8, <2>2, <2>4, WireSteps DEF WireMoves
  <2>6. Grows(g, w) /\ AllHanded(n, w)
    BY <1>3, <2>1, <2>5
  <2>7. AllHanded(n, w)'
    BY <2>6, AllHandedStays
  <2>8. CASE d = g /\ v = w
    BY <2>6, <2>7, <2>8
  <2>9. CASE w # <<>> /\ v = Tail(w) /\ (d = g \/ (IsConfig(Head(w)) /\ d = Head(w).config))
    <3>1. /\ Grows(g, v) /\ AllHanded(n, v)
          /\ IsConfig(Head(w)) => Grows(Head(w).config, v)
      BY <2>6, <2>9, TailGrows
    <3>2. AllHanded(n, v)'
      BY <3>1, AllHandedStays
    <3> QED
      BY <2>9, <3>1, <3>2
  <2>10. ASSUME d = g, NEW f \in Frames, ~IsConfig(f), v = Append(w, f)
         PROVE  Grows(d, v) /\ AllHanded(n, v)'
    <3>1. Grows(g, v) /\ AllHanded(n, v)
      BY <2>6, <2>10, AppendGrows, AppendHanded
    <3>2. AllHanded(n, v)'
      BY <3>1, AllHandedStays
    <3> QED
      BY <2>10, <3>1, <3>2
  <2>11. ASSUME d = g, NEW k \in Callers, Resolve(k), build[k].node = n,
                v = Append(w, ConfigFrame(Desired(k)))
         PROVE  Grows(d, v) /\ AllHanded(n, v)'
    <3>1. PICK x \in Configs : x = Desired(k)
      BY <1>0, <2>11, DesiredType
    <3>2. (\A y : HandedTo(n, y) => y \subseteq x) /\ HandedTo(n, x)'
      BY <1>0, <2>11, <3>1, ResolvedIsHanded
    <3>3. PICK f \in Frames : f = ConfigFrame(x)
      BY FrameType
    <3>4. f.config = x /\ v = Append(w, f)
      BY <2>11, <3>1, <3>3 DEF ConfigFrame
    <3>5. g \subseteq x
      BY <1>2, <2>1, <3>2
    <3>6. \A i \in 1 .. Len(w) : IsConfig(w[i]) => w[i].config \subseteq x
      BY <2>6, <3>2 DEF AllHanded
    <3>7. Grows(g, v)
      BY <2>6, <3>4, <3>5, <3>6, AppendGrows
    <3>8. AllHanded(n, v)'
      <4>1. Append(w, f) \in Seq(Frames)
        OBVIOUS
      <4>2. /\ Len(w) \in Nat /\ Len(v) = Len(w) + 1
            /\ \A i \in 1 .. Len(w) : v[i] = w[i]
            /\ v[Len(w) + 1] = f
        BY <3>4
      <4>3. \A i \in 1 .. Len(v) : i \in 1 .. Len(w) \/ i = Len(w) + 1
        BY <4>2
      <4>4. \A i \in 1 .. Len(w) : IsConfig(w[i]) => HandedTo(n, w[i].config)'
        BY <2>7 DEF AllHanded
      <4> QED
        BY <3>2, <3>4, <4>2, <4>3, <4>4 DEF AllHanded
    <3> QED
      BY <2>11, <3>7, <3>8
  <2>12. WireMoves(n, l)
    BY <1>0, <1>8, WireSteps
  <2>13. CASE d = g
    <3>1. \/ v = w
          \/ w # <<>> /\ v = Tail(w)
          \/ \E f \in Frames : ~IsConfig(f) /\ v = Append(w, f)
          \/ Pushed(n, w, v)
      <4>1. CASE v = Tail(w) /\ w # <<>>
        BY <4>1
      <4>2. CASE ~(v = Tail(w) /\ w # <<>>)
        BY <2>1, <2>2, <2>5, <2>12, <4>2, Zenon DEF WireMoves
      <4> QED
        BY <4>1, <4>2
    <3>2. CASE v = w \/ (w # <<>> /\ v = Tail(w))
      BY <2>8, <2>9, <2>13, <3>2
    <3>3. CASE \E f \in Frames : ~IsConfig(f) /\ v = Append(w, f)
      BY <2>10, <2>13, <3>3
    <3>4. CASE Pushed(n, w, v)
      BY <2>11, <2>13, <3>4 DEF Pushed
    <3> QED
      BY <3>1, <3>2, <3>3, <3>4
  <2>14. CASE d # g
    BY <2>1, <2>2, <2>5, <2>9, <2>12, <2>14 DEF WireMoves
  <2> QED
    BY <2>13, <2>14
<1>9. ASSUME NEW n \in Nodes, NEW h \in Polls, agent'[n].awaiting = h, poll'[h].step = "answer"
      PROVE  HandedTo(n, poll[h].desired)' /\ agent'[n].got \subseteq poll'[h].desired
  <2>1. PICK g : g = agent[n].got
    OBVIOUS
  <2>2. PICK d : d = poll'[h].desired
    OBVIOUS
  <2>3. PollMoves(n, h)
    BY <1>0, <1>9, PollSteps
  <2>4. agent'[n].got = g /\ agent[n].awaiting = h
    BY <2>1, <2>3 DEF PollMoves
  <2>5. SUFFICES HandedTo(n, d)' /\ g \subseteq d
    BY <2>2, <2>4
  <2>6. CASE poll[h].step = "answer" /\ d = poll[h].desired
    BY <1>4, <1>6, <2>1, <2>4, <2>6
  <2>7. CASE cache[n] # NoConfig /\ d = cache[n]
    <3>1. HandedTo(n, d)
      BY <1>0, <2>7 DEF SourcesInv, HandedTo
    <3>2. g \subseteq d
      BY <1>2, <2>1, <2>7 DEF HandedTo
    <3> QED
      BY <1>6, <3>1, <3>2
  <2>8. ASSUME NEW k \in Callers, Resolve(k), build[k].node = n, d = Desired(k)
        PROVE  HandedTo(n, d)' /\ g \subseteq d
    <3>1. (\A y : HandedTo(n, y) => y \subseteq d) /\ HandedTo(n, d)'
      BY <1>0, <2>8, ResolvedIsHanded
    <3> QED
      BY <1>2, <2>1, <3>1
  <2> QED
    BY <2>2, <2>3, <2>6, <2>7, <2>8 DEF PollMoves
<1> QED
  BY <1>1, <1>7, <1>8, <1>9 DEF DeliveryInv

LEMMA InitDeliveryInv == Init => DeliveryInv
<1> SUFFICES ASSUME Init PROVE DeliveryInv
  OBVIOUS
<1>1. SourcesInv /\ AgentsInv
  BY InitSourcesInv, InitAgentsInv
<1>2. PollsBuild
  BY DEF Init, PollsBuild, Building, NoBuild, Callers
<1>3. ASSUME NEW n \in Nodes PROVE agent[n].got = {} /\ agent[n].link = NoLink
  BY DEF Init, FreshAgent
<1>4. ASSUME NEW n \in Nodes PROVE HandedTo(n, agent[n].got)
  BY <1>3 DEF HandedTo
<1>5. \A h \in Polls : poll[h].step # "answer"
  BY DEF Init, IdlePoll
<1>6. \A n \in Nodes : \A l \in Links : agent[n].link # l
  BY <1>3, BoundsAssumption DEF BoundsAssumption
<1> QED
  BY <1>1, <1>2, <1>4, <1>5, <1>6 DEF DeliveryInv

LEMMA AlwaysDelivering == Spec => []DeliveryInv
BY InitDeliveryInv, NextDeliveryInv, AlwaysTyped, AlwaysServed, PTL DEF Spec

-----------------------------------------------------------------------------
\* Delivery keeps what Replicas promises at every step.

Held == [n \in Nodes |-> agent[n].got]
GivenUp == {n \in unsent : agent[n].mode = "WS"}

LEMMA DeliveryInit == Init => Replica!Init
<1> SUFFICES ASSUME Init PROVE Replica!Init
  OBVIOUS
<1>0. /\ data = [n \in Nodes |-> {}] /\ unsent = {}
      /\ \A n \in Nodes : agent[n] \in {FreshAgent("WS"), FreshAgent("HTTP")}
  BY DEF Init
<1>1. \A n \in Nodes : agent[n].got = {}
  <2>1. FreshAgent("WS").got = {} /\ FreshAgent("HTTP").got = {}
    BY DEF FreshAgent
  <2> QED
    BY <1>0, <2>1
<1>2. Held = [n \in Nodes |-> {}]
  BY <1>1 DEF Held
<1>3. GivenUp = {}
  BY <1>0 DEF GivenUp
<1> QED
  BY <1>0, <1>2, <1>3 DEF Held, GivenUp, Replica!Init

\* A step that leaves the committed changes alone and gives one agent a newer copy.
LEMMA GivesOne ==
    ASSUME NEW n \in Nodes, UNCHANGED data,
           \A m \in Nodes : m # n => agent'[m].got = agent[m].got,
           agent'[n].got \subseteq data[n], agent[n].got \subseteq agent'[n].got,
           GivenUp' \subseteq Nodes
    PROVE  Replica!Next
<1>1. PICK copy \in SUBSET data[n] : copy = agent'[n].got
  OBVIOUS
<1>2. Held' = [Held EXCEPT ![n] = copy]
  BY <1>1 DEF Held
<1>3. Held[n] \subseteq copy
  BY <1>1 DEF Held
<1>4. Replica!Give(n)
  BY <1>1, <1>2, <1>3 DEF Replica!Give, Held
<1> QED
  BY <1>4 DEF Replica!Next, GivenUp

LEMMA StartsOne ==
    ASSUME NEW n \in Nodes, UNCHANGED data,
           \A m \in Nodes : m # n => agent'[m].got = agent[m].got,
           agent'[n].got = {},
           GivenUp' \subseteq Nodes
    PROVE  Replica!Next
<1>1. Held' = [Held EXCEPT ![n] = {}]
  BY DEF Held
<1>2. Replica!StartOver(n)
  BY <1>1 DEF Replica!StartOver, Held
<1> QED
  BY <1>2 DEF Replica!Next, GivenUp

LEMMA DeliveryStep ==
    TypeInv /\ TypeInv' /\ DeliveryInv /\ [Next]_vars => [Replica!Next]_(Replica!vars)
<1> SUFFICES ASSUME TypeInv, TypeInv', DeliveryInv, [Next]_vars
             PROVE  Replica!Next \/ UNCHANGED Replica!vars
  OBVIOUS
<1>0. TypeOK /\ AgentsInv
  BY DEF TypeInv, DeliveryInv
<1>1. GivenUp' \subseteq Nodes
  BY DEF TypeInv, TypeOK, GivenUp
<1>2. ASSUME NEW n \in Nodes PROVE HandedTo(n, agent[n].got)
  BY DEF DeliveryInv
<1>3. ASSUME UNCHANGED data, \A n \in Nodes : agent'[n].got = agent[n].got
      PROVE  Replica!Next \/ UNCHANGED Replica!vars
  <2>1. CASE Nodes = {}
    <3>1. Held' = Held
      BY <1>3 DEF Held
    <3>2. GivenUp = {} /\ GivenUp' = {}
      BY <1>0, <1>1, <2>1 DEF TypeOK, GivenUp
    <3> QED
      BY <1>3, <3>1, <3>2 DEF Replica!vars, Held, GivenUp
  <2>2. CASE Nodes # {}
    <3>1. PICK n \in Nodes : TRUE
      BY <2>2
    <3>2. agent'[n].got = agent[n].got /\ agent[n].got \subseteq data[n]
      BY <1>2, <1>3 DEF HandedTo
    <3> QED
      BY <1>1, <1>3, <3>2, GivesOne
  <2> QED
    BY <2>1, <2>2
<1>4. ASSUME NEW c \in Changes, NEW S \in Scopes, Commit(c, S)
      PROVE  Replica!Next
  <2>1. S \in SUBSET Nodes
    BY DEF Scopes
  <2>2. data' = [n \in Nodes |-> IF n \in S THEN data[n] \cup {c} ELSE data[n]]
    BY <1>4 DEF Commit
  <2>3. Held' = Held
    BY <1>4 DEF Commit, Held
  <2>4. Replica!Change(c, S)
    BY <2>2, <2>3 DEF Replica!Change, Held
  <2> QED
    BY <1>1, <2>1, <2>4 DEF Replica!Next, GivenUp
<1>5. ASSUME NEW m \in Nodes, Read(m) \/ Receive(m)
      PROVE  Replica!Next \/ UNCHANGED Replica!vars
  <2>1. UNCHANGED data /\ \A n \in Nodes : n # m => agent'[n].got = agent[n].got
    BY <1>0, <1>5 DEF Read, Receive, Applies, TypeOK, barrier
  <2>2. agent[m].got \subseteq data[m]
    BY <1>2 DEF HandedTo
  <2>3. CASE agent'[m].got = agent[m].got
    BY <1>1, <2>1, <2>2, <2>3, GivesOne
  <2>4. CASE agent'[m].got = {}
    BY <1>1, <2>1, <2>4, StartsOne
  <2>5. ASSUME NEW l \in Links, l = agent[m].link, link[l].wire # <<>>,
               IsConfig(Head(link[l].wire)), NEW d, d = Head(link[l].wire).config,
               agent'[m].got = d
        PROVE  Replica!Next
    <3>1. link[l].wire \in Seq(Frames)
      BY <1>0 DEF TypeOK, Connections
    <3>2. Grows(agent[m].got, link[l].wire) /\ AllHanded(m, link[l].wire)
      BY <2>5 DEF DeliveryInv
    <3>3. agent[m].got \subseteq d /\ HandedTo(m, d)
      BY <2>5, <3>1, <3>2, TailGrows
    <3> QED
      BY <1>1, <2>1, <2>5, <3>3, GivesOne DEF HandedTo
  <2>6. ASSUME NEW h \in Polls, h = agent[m].awaiting, poll[h].step = "answer",
               agent'[m].got = poll[h].desired
        PROVE  Replica!Next
    <3>1. HandedTo(m, poll[h].desired) /\ agent[m].got \subseteq poll[h].desired
      BY <2>6 DEF DeliveryInv
    <3> QED
      BY <1>1, <2>1, <2>6, <3>1, GivesOne DEF HandedTo
  <2> QED
    BY <2>3, <2>4, <2>5, <2>6, GotMoves
<1>6. ASSUME NEW m \in Nodes, NEW mode \in {"WS", "HTTP"}, AgentRestarts(m, mode)
      PROVE  Replica!Next
  <2>1. UNCHANGED data /\ agent' = [agent EXCEPT ![m] = FreshAgent(mode)]
    BY <1>6 DEF AgentRestarts, barrier
  <2>2. FreshAgent(mode).got = {}
    BY DEF FreshAgent
  <2>3. agent'[m].got = {} /\ \A n \in Nodes : n # m => agent'[n].got = agent[n].got
    BY <1>0, <2>1, <2>2 DEF TypeOK
  <2> QED
    BY <1>1, <2>1, <2>3, StartsOne
<1> QED
  BY <1>3, <1>4, <1>5, <1>6, GotSteps

\* An agent is only ever given configurations that are committed and contain the one
\* it had, over both transports and across replaced connections, failed builds and
\* restarts of the master: what Replicas promises at every step.
THEOREM DeliveryKeepsReplicas == Spec => Replica!Safe
BY DeliveryInit, DeliveryStep, AlwaysTyped, AlwaysDelivering, PTL DEF Spec, Replica!Safe

=============================================================================
