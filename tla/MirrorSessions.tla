--------------------------- MODULE MirrorSessions ---------------------------
(***************************************************************************)
(* Mirror sites: an HTTP request to the master is answered by a job of a   *)
(* node's agent, which fetches from upstream and streams headers, chunks   *)
(* and an end back over the node's WebSocket.  The master keeps a session  *)
(* by task id while it waits.  A request ends by the last frame, an error, *)
(* its timer, its client or the end of the connection, in any order, and   *)
(* also while it is still being started; connections are replaced, taken   *)
(* over by polling and closed for what they send under it.                 *)
(*                                                                         *)
(* One node, and one site whose requests are Tasks; those in Tests are an  *)
(* administrator's tests of it.  Left out: mirror_cancel frames and the    *)
(* slots of the executor, as a job may fail at any time without them; what *)
(* a site allows; the restart of the master, which takes everything here   *)
(* with it.                                                                *)
(*                                                                         *)
(* OverAgain, OpenedAnyway, FailedSilently and ExpiresEarly are faulty     *)
(* variants of the definition that follows them, used to show that a       *)
(* property notices such a fault; the specification does not use them.     *)
(***************************************************************************)
EXTENDS Naturals, Sequences

CONSTANTS
    Tasks, Tests,
    Links,          \* connections the agent ever makes, in their order (a bound)
    MaxChunks,      \* bound: chunks of a response
    NoLink

ASSUME MirrorAssumption ==
    /\ Tests \subseteq Tasks
    /\ Links \subseteq Nat /\ NoLink \notin Links
    /\ MaxChunks \in Nat

VARIABLES
    request,        \* by task: the HTTP request, or the test
    sessions,       \* mirrorSessions
    tracked,        \* activeTaskIds of the site
    socket,         \* the node's entry of sockets
    link,           \* connections, as the master sees them
    agent,          \* the connection the agent has
    job             \* by task: the agent's job

vars == <<request, sessions, tracked, socket, link, agent, job>>

-----------------------------------------------------------------------------
\* closed: its client is gone; headers, got: what arrived; finished: how often the
\* end was recorded.
RequestType ==
    [step : {"none", "reading", "starting", "started", "rejected", "refused"},
     ended : BOOLEAN, closed : BOOLEAN, headers : BOOLEAN,
     got : Nat, answer : {"open", "complete", "error", "broken"},
     finished : 0 .. 1]
NoRequest == [step |-> "none", ended |-> FALSE, closed |-> FALSE, headers |-> FALSE,
              got |-> 0, answer |-> "open", finished |-> 0]

\* open: neither side has given it up; asked: requests on their way; early: one of
\* them was sent before auth_result.
\* closing: the master has begun to close it, as it sent too much; it stays current.
LinkType == [stage : {"unused", "dialled", "registered", "attached", "closing"},
             open : BOOLEAN, asked : SUBSET Tasks, early : BOOLEAN]
NoConnection == [stage |-> "unused", open |-> FALSE, asked |-> {}, early |-> FALSE]

\* frames: all it has written; read: how many of them the master has taken; lost,
\* which only the properties read: how many of those it refused, but for a test.
JobType == [step : {"none", "running", "streaming", "done"}, link : Links \cup {NoLink},
            frames : Seq({"headers", "chunk", "end", "error"}), read : Nat, lost : Nat]
NoJob == [step |-> "none", link |-> NoLink, frames |-> <<>>, read |-> 0, lost |-> 0]

TypeOK ==
    /\ request \in [Tasks -> RequestType]
    /\ sessions \subseteq Tasks
    /\ tracked \subseteq Tasks \ Tests
    /\ socket \in Links \cup {NoLink}
    /\ link \in [Links -> LinkType]
    /\ agent \in Links \cup {NoLink}
    /\ job \in [Tasks -> JobType]

Init ==
    /\ request = [t \in Tasks |-> NoRequest]
    /\ sessions = {}
    /\ tracked = {}
    /\ socket = NoLink
    /\ link = [l \in Links |-> NoConnection]
    /\ agent = NoLink
    /\ job = [t \in Tasks |-> NoJob]

-----------------------------------------------------------------------------
\* A response that is closed can be given nothing, one that has been given an
\* answer keeps it.
Answered(r, a) ==
    [r EXCEPT !.answer = IF @ # "open" THEN @ ELSE IF r.closed THEN "broken" ELSE a]

\* The request r ends with answer a, unless it has ended.
OverAgain(r, a) == [Answered(r, a) EXCEPT !.ended = TRUE, !.finished = @ + 1]
Over(r, a) ==
    IF r.ended THEN r ELSE [Answered(r, a) EXCEPT !.ended = TRUE, !.finished = @ + 1]

\* finish: the session is cancelled and the task no longer tracked, but not a
\* second time.
Freed(t, S) == IF request[t].ended THEN S ELSE S \ {t}

\* onError: an answer that has begun can only be cut off.
FailedSilently(r) == IF r.headers \/ r.got > 0 THEN "complete" ELSE "error"
Failed(r) == IF r.headers \/ r.got > 0 THEN "broken" ELSE "error"

-----------------------------------------------------------------------------
\* proxy, test: the site is read.
Ask(t) ==
    /\ request[t].step = "none"
    /\ request' = [request EXCEPT ![t].step = "reading"]
    /\ UNCHANGED <<sessions, tracked, socket, link, agent, job>>

\* It is refused, or the timer is set and the close of the response listened to,
\* which may have come already.
Prepare(t) ==
    /\ request[t].step = "reading"
    /\ \/ request' = [request EXCEPT ![t] = Answered([@ EXCEPT !.step = "refused"], "error")]
       \/ request' = [request EXCEPT ![t].step = "starting"]
    /\ UNCHANGED <<sessions, tracked, socket, link, agent, job>>

\* startMirrorTask, after the node's row was read, adds the session; a request
\* that has ended meanwhile takes it back at once, but is tracked nevertheless.
\* What is sent to a socket that is closed or closing is lost.
OpenedAnyway(t) == sessions \cup {t}
Opened(t) == IF request[t].ended THEN sessions ELSE sessions \cup {t}

Accept(t) ==
    /\ request[t].step = "starting"
    /\ socket # NoLink
    /\ request' = [request EXCEPT ![t].step = "started"]
    /\ sessions' = Opened(t)
    /\ tracked' = IF t \in Tests THEN tracked ELSE tracked \cup {t}
    /\ link' = IF link[socket].open /\ link[socket].stage # "closing"
                 THEN [link EXCEPT ![socket].asked = @ \cup {t},
                                   ![socket].early = @ \/ link[socket].stage = "registered"]
                 ELSE link
    /\ UNCHANGED <<socket, agent, job>>

\* The row says the node is away or cannot do it, or there is no socket.  A test
\* ends; a request is answered and ends when its response closes.
Reject(t) ==
    /\ request[t].step = "starting"
    /\ request' = [request EXCEPT ![t] =
          LET r == [@ EXCEPT !.step = "rejected"]
          IN IF t \in Tests THEN Over(r, "error") ELSE Answered(r, "error")]
    /\ UNCHANGED <<sessions, tracked, socket, link, agent, job>>

\* The timer, set when the start began; a request that has ended is left alone.
ExpiresEarly(t) == request[t].step \in {"starting", "started"} /\ ~request[t].headers
Expires(t) == request[t].step \in {"starting", "started"}

Timeout(t) ==
    /\ Expires(t)
    /\ request' = [request EXCEPT ![t] = Over(@, IF @.got > 0 THEN "broken" ELSE "error")]
    /\ sessions' = Freed(t, sessions)
    /\ tracked' = Freed(t, tracked)
    /\ UNCHANGED <<socket, link, agent, job>>

\* The response closes before its end: the client has gone away, or the request was
\* rejected.  While the site is read nobody listens.
Closes(t) ==
    /\ t \notin Tests
    /\ request[t].step \notin {"none", "refused"}
    /\ ~request[t].closed /\ ~request[t].ended
    /\ IF request[t].step = "reading"
         THEN /\ request' = [request EXCEPT ![t].closed = TRUE]
              /\ UNCHANGED <<sessions, tracked>>
         ELSE /\ request' = [request EXCEPT ![t] = Over([@ EXCEPT !.closed = TRUE], "broken")]
              /\ sessions' = Freed(t, sessions)
              /\ tracked' = Freed(t, tracked)
    /\ UNCHANGED <<socket, link, agent, job>>

\* update, remove: cancelActiveTasks.
EditSite ==
    /\ tracked # {}
    /\ sessions' = sessions \ tracked
    /\ tracked' = {}
    /\ UNCHANGED <<request, socket, link, agent, job>>

-----------------------------------------------------------------------------
\* handleMirrorText, handleMirrorBinary and the handlers of a request that has a
\* session and so has not ended.  A test is satisfied with the headers.
Heard(t, frame) ==
    LET r == request[t]
    IN CASE frame = "headers" ->
                IF t \in Tests THEN Over(r, "complete") ELSE [r EXCEPT !.headers = TRUE]
         [] frame = "chunk" ->
                IF t \in Tests \/ r.closed THEN r ELSE [r EXCEPT !.got = @ + 1]
         [] frame = "end" -> Over(r, "complete")
         [] frame = "error" -> Over(r, Failed(r))

\* Frames of a connection that is not the current one are dropped.  So are those of
\* a task without a session, which gets none again: they are left unread here.
Arrive(t) ==
    LET r == Heard(t, job[t].frames[job[t].read + 1])
    IN /\ t \in sessions /\ job[t].read < Len(job[t].frames)
       /\ job' = [job EXCEPT ![t].read = @ + 1]
       /\ IF socket = job[t].link
            THEN /\ request' = [request EXCEPT ![t] = r]
                 /\ sessions' = IF r.ended THEN sessions \ {t} ELSE sessions
                 /\ tracked' = IF r.ended THEN tracked \ {t} ELSE tracked
            ELSE UNCHANGED <<request, sessions, tracked>>
       /\ UNCHANGED <<socket, link, agent>>

\* consumeQuota: a frame beyond what a connection may send in a minute is dropped and
\* the connection told to close.  Until its close comes, it stays the current one and
\* what fits the quota is heard, be it smaller or in the next minute.
Refuse(t) ==
    /\ t \in sessions /\ job[t].read < Len(job[t].frames)
    /\ socket = job[t].link
    /\ link[socket].stage \in {"attached", "closing"}
    /\ job' = [job EXCEPT ![t].read = @ + 1, ![t].lost = IF t \in Tests THEN @ ELSE @ + 1]
    /\ link' = [link EXCEPT ![socket].stage = "closing"]
    /\ UNCHANGED <<request, sessions, tracked, socket, agent>>

\* The frame is a heartbeat, or of a task without a session.
OverQuota ==
    /\ socket # NoLink /\ link[socket].stage = "attached"
    /\ link' = [link EXCEPT ![socket].stage = "closing"]
    /\ UNCHANGED <<request, sessions, tracked, socket, agent, job>>

-----------------------------------------------------------------------------
Dial(l) ==
    /\ agent = NoLink
    /\ link[l].stage = "unused"
    /\ \A k \in Links : k < l => link[k].stage # "unused"
    /\ link' = [link EXCEPT ![l].stage = "dialled", ![l].open = TRUE]
    /\ agent' = l
    /\ UNCHANGED <<request, sessions, tracked, socket, job>>

\* register: the old connection is closed, the sessions stay.
Register(l) ==
    /\ link[l].stage = "dialled"
    /\ link' = [k \in Links |-> IF k = l THEN [link[l] EXCEPT !.stage = "registered"]
                                ELSE IF k = socket THEN [link[k] EXCEPT !.open = FALSE]
                                ELSE link[k]]
    /\ socket' = l
    /\ UNCHANGED <<request, sessions, tracked, agent, job>>

\* handleConnection after register: the handlers are attached and auth_result sent.
Attach(l) ==
    /\ link[l].stage = "registered"
    /\ link' = [link EXCEPT ![l].stage = "attached"]
    /\ UNCHANGED <<request, sessions, tracked, socket, agent, job>>

\* supersedeSocket, by a poll; disconnectNode does the same.
TakeOver ==
    /\ socket # NoLink
    /\ link' = [link EXCEPT ![socket].open = FALSE]
    /\ socket' = NoLink
    /\ UNCHANGED <<request, sessions, tracked, agent, job>>

\* handleDisconnect and unregister.  The close of a connection that is not the
\* current one does nothing; one that comes before a handler is attached is missed.
\* One the master has begun to close ends by the agent's answer or its own time-out.
HandleDisconnect(l) ==
    /\ \/ link[l].stage = "attached" /\ ~link[l].open
       \/ link[l].stage = "closing"
    /\ socket = l
    /\ socket' = NoLink
    /\ link' = [link EXCEPT ![l].open = FALSE]
    /\ request' = [t \in Tasks |-> IF t \in sessions
                      THEN Over(request[t], Failed(request[t])) ELSE request[t]]
    /\ sessions' = {}
    /\ tracked' = tracked \ sessions
    /\ UNCHANGED <<agent, job>>

-----------------------------------------------------------------------------
\* runOnce, readLoop, handleMirror: once auth_result has been read, and it was the
\* first frame, requests are.
ReadRequest(t) ==
    /\ agent # NoLink
    /\ link[agent].stage \in {"attached", "closing"} /\ ~link[agent].early
    /\ t \in link[agent].asked
    /\ link' = [link EXCEPT ![agent].asked = @ \ {t}]
    /\ job' = [job EXCEPT ![t] = [NoJob EXCEPT !.step = "running", !.link = agent]]
    /\ UNCHANGED <<request, sessions, tracked, socket, agent>>

\* The agent gives its connection up, because of another first frame, or because it
\* breaks, or the process ends.  Its jobs are cancelled and can send nothing more;
\* the master learns of it later or never.
HangUp ==
    /\ agent # NoLink
    /\ link' = [link EXCEPT ![agent].open = FALSE, ![agent].asked = {}]
    /\ job' = [t \in Tasks |-> IF job[t].link = agent
                  THEN [job[t] EXCEPT !.step = "done"] ELSE job[t]]
    /\ agent' = NoLink
    /\ UNCHANGED <<request, sessions, tracked, socket>>

\* Do: a job whose connection is gone can only end.  A test asks for the headers
\* only (HEAD).
Headers(t) ==
    /\ job[t].step = "running" /\ link[job[t].link].open
    /\ job' = [job EXCEPT ![t].step = "streaming", ![t].frames = Append(@, "headers")]
    /\ UNCHANGED <<request, sessions, tracked, socket, link, agent>>

Chunk(t) ==
    /\ t \notin Tests
    /\ job[t].step = "streaming" /\ link[job[t].link].open
    /\ Len(job[t].frames) <= MaxChunks
    /\ job' = [job EXCEPT ![t].frames = Append(@, "chunk")]
    /\ UNCHANGED <<request, sessions, tracked, socket, link, agent>>

Completes(t) ==
    /\ job[t].step = "streaming" /\ link[job[t].link].open
    /\ job' = [job EXCEPT ![t].step = "done", ![t].frames = Append(@, "end")]
    /\ UNCHANGED <<request, sessions, tracked, socket, link, agent>>

\* Upstream, the request, the time, a cancellation or the connection.
Fails(t) ==
    /\ job[t].step \in {"running", "streaming"}
    /\ job' = [job EXCEPT ![t].step = "done",
                          ![t].frames = IF link[job[t].link].open THEN Append(@, "error") ELSE @]
    /\ UNCHANGED <<request, sessions, tracked, socket, link, agent>>

-----------------------------------------------------------------------------
Serve(t) == Prepare(t) \/ Accept(t) \/ Reject(t)

Next ==
    \/ \E t \in Tasks :
          \/ Ask(t) \/ Serve(t) \/ Timeout(t) \/ Closes(t) \/ Arrive(t) \/ Refuse(t)
          \/ ReadRequest(t) \/ Headers(t) \/ Chunk(t) \/ Completes(t) \/ Fails(t)
    \/ EditSite
    \/ \E l \in Links : Dial(l) \/ Register(l) \/ Attach(l) \/ HandleDisconnect(l)
    \/ OverQuota \/ TakeOver \/ HangUp

Spec == Init /\ [][Next]_vars

\* The database answers or the timer runs.  Agents, clients and connections do what
\* they like.
Fairness == \A t \in Tasks : WF_vars(Serve(t) \/ Timeout(t))

LiveSpec == Spec /\ Fairness

-----------------------------------------------------------------------------
\* A session exists only for a request that still waits, in whatever order it is
\* started, answered, timed out, closed or disconnected (an end during the start
\* included); and a change of the site finds it (proxy, startMirrorTask).
SessionsAreWanted ==
    \A t \in sessions :
        /\ request[t].step = "started" /\ ~request[t].ended
        /\ t \in tracked \cup Tests

\* What a client was given of a response.
Given(r) == r.got + (IF r.headers THEN 1 ELSE 0)

\* When a client is told its response is complete the agent has sent all of it, and
\* the client was given each frame but those the master refused; one that is sent an
\* error as the response was sent nothing before.  So nothing is lost with connections
\* that are replaced under a stream (onEnd, onError, isCurrentSocket).  A frame refused
\* for the connection's quota is lost without a trace: an end that fits it again, and
\* comes before the close does, passes the rest for the whole.
AnswersAreWhole ==
    \A t \in Tasks \ Tests :
        LET f == job[t].frames
        IN /\ request[t].answer = "complete" =>
                 /\ f # <<>> /\ f[Len(f)] = "end"
                 /\ Given(request[t]) + job[t].lost = Len(f) - 1
           /\ request[t].answer = "error" => request[t].got = 0

\* Every request is answered, or its client is gone, and leaves no session, also
\* when the agent never answers and nobody hears of its connection's end.  As none is
\* asked twice, this is: once asked, it is answered in the end.
RequestsEnd ==
    \A t \in Tasks :
        []<>(request[t].step = "none" \/ (request[t].answer # "open" /\ t \notin sessions))

=============================================================================
