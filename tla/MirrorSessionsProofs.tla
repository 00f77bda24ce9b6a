------------------------ MODULE MirrorSessionsProofs ------------------------
(***************************************************************************)
(* Proofs about MirrorSessions, for any number of requests, connections    *)
(* and chunks.                                                             *)
(*                                                                         *)
(* SessionsAreWanted is inductive with the types.  For AnswersAreWhole it  *)
(* is needed that a task is asked for once, over one connection, by which  *)
(* its job answers (Asked); what the frames of a job look like (Framed);   *)
(* and that a session whose job's connection is current has handled every  *)
(* frame it took but those that were refused (Caught): besides, a frame is *)
(* dropped only on a connection that will never be current again, as a     *)
(* connection registers once.                                              *)
(***************************************************************************)
EXTENDS MirrorSessions, SequenceTheorems, TLAPS

Frames == {"headers", "chunk", "end", "error"}

\* The end is recorded once.
Once == \A t \in Tasks : request[t].finished = IF request[t].ended THEN 1 ELSE 0

Asked ==
    /\ socket # NoLink => link[socket].stage \notin {"unused", "dialled"}
    /\ \A l \in Links, t \in Tasks :
          t \in link[l].asked =>
             /\ request[t].step = "started" /\ job[t] = NoJob
             /\ link[l].stage \notin {"unused", "dialled"}
             /\ \A k \in Links : t \in link[k].asked => k = l
    /\ \A t \in Tasks :
          \/ job[t] = NoJob
          \/ /\ request[t].step = "started"
             /\ job[t].step # "none"
             /\ job[t].link \in Links
             /\ link[job[t].link].stage \notin {"unused", "dialled"}
             /\ \A k \in Links : t \notin link[k].asked

FramedBy(j) ==
    /\ j.read <= Len(j.frames)
    /\ j.step \in {"none", "running"} => j.frames = <<>>
    /\ j.step = "streaming" => j.frames # <<>>
    /\ \A i \in 1 .. Len(j.frames) :
          /\ i = 1 => j.frames[i] \in {"headers", "error"}
          /\ i # 1 => j.frames[i] # "headers"
          /\ j.frames[i] \in {"end", "error"} => i = Len(j.frames) /\ j.step = "done"

Framed == \A t \in Tasks : FramedBy(job[t])

Caught ==
    \A t \in Tasks \ Tests :
        /\ job[t] = NoJob => request[t].got = 0 /\ ~request[t].headers
        /\ t \in sessions /\ socket = job[t].link /\ ~request[t].closed =>
              Given(request[t]) + job[t].lost = job[t].read

\* Whoever has been answered has ended, or was never started.
Answers ==
    \A t \in Tasks \ Tests :
        /\ request[t].answer # "open" =>
              request[t].ended \/ request[t].step \in {"rejected", "refused"}
        /\ request[t].answer = "complete" => request[t].ended

TypeInv == TypeOK /\ Once

-----------------------------------------------------------------------------
\* What ending a request does to its record.

LEMMA AnsweredProperties ==
    ASSUME NEW r \in RequestType, NEW a \in {"complete", "error", "broken"}
    PROVE  /\ Answered(r, a) \in RequestType
           /\ Answered(r, a).ended = r.ended
           /\ Answered(r, a).finished = r.finished
           /\ Answered(r, a).step = r.step /\ Answered(r, a).got = r.got
           /\ Answered(r, a).closed = r.closed /\ Answered(r, a).headers = r.headers
           /\ Answered(r, a).answer =
                 IF r.answer # "open" THEN r.answer ELSE IF r.closed THEN "broken" ELSE a
BY DEF Answered, RequestType

LEMMA OverProperties ==
    ASSUME NEW r \in RequestType, NEW a \in {"complete", "error", "broken"},
           r.finished = IF r.ended THEN 1 ELSE 0
    PROVE  /\ Over(r, a) \in RequestType
           /\ Over(r, a).ended
           /\ Over(r, a).finished = 1
           /\ Over(r, a).step = r.step /\ Over(r, a).got = r.got
           /\ Over(r, a).closed = r.closed /\ Over(r, a).headers = r.headers
           /\ Over(r, a).answer =
                 IF r.ended \/ r.answer # "open" THEN r.answer
                 ELSE IF r.closed THEN "broken" ELSE a
<1> DEFINE q == Answered(r, a)
<1>1. /\ q \in RequestType /\ q.ended = r.ended /\ q.finished = r.finished
      /\ q.step = r.step /\ q.got = r.got /\ q.closed = r.closed /\ q.headers = r.headers
      /\ q.answer = IF r.answer # "open" THEN r.answer ELSE IF r.closed THEN "broken" ELSE a
  BY AnsweredProperties
<1>2. Over(r, a) = IF r.ended THEN r ELSE [q EXCEPT !.ended = TRUE, !.finished = @ + 1]
  BY DEF Over
<1> HIDE DEF q
<1>3. CASE r.ended
  BY <1>2, <1>3
<1>4. CASE ~r.ended
  <2>1. q.finished + 1 = 1
    BY <1>1, <1>4
  <2>2. Over(r, a) = [q EXCEPT !.ended = TRUE, !.finished = 1]
    BY <1>2, <1>4, <2>1
  <2>3. q \in RequestType
    BY <1>1
  <2>4. \A v \in 0 .. 1 : [q EXCEPT !.ended = TRUE, !.finished = v] \in RequestType
    BY <2>3 DEF RequestType
  <2>5. Over(r, a) \in RequestType
    BY <2>2, <2>4
  <2> QED BY <1>1, <1>4, <2>2, <2>3, <2>5 DEF RequestType
<1> QED BY <1>3, <1>4

LEMMA FailedProperties ==
    ASSUME NEW r \in RequestType
    PROVE  Failed(r) \in {"error", "broken"} /\ (Failed(r) = "error" => r.got = 0)
BY DEF Failed, RequestType

LEMMA HeardProperties ==
    ASSUME TypeInv, NEW t \in Tasks, NEW f \in Frames
    PROVE  /\ Heard(t, f) \in RequestType
           /\ Heard(t, f).finished = IF Heard(t, f).ended THEN 1 ELSE 0
           /\ Heard(t, f).step = request[t].step
           /\ Heard(t, f).closed = request[t].closed
           /\ request[t].ended => Heard(t, f).ended
           /\ f \in {"end", "error"} => Heard(t, f).ended
           /\ t \notin Tests /\ f \in {"headers", "chunk"} =>
                 /\ Heard(t, f).ended = request[t].ended
                 /\ Heard(t, f).answer = request[t].answer
                 /\ Heard(t, f).got = IF f = "chunk" /\ ~request[t].closed
                                        THEN request[t].got + 1 ELSE request[t].got
                 /\ Heard(t, f).headers = (f = "headers" \/ request[t].headers)
           /\ t \notin Tests /\ f \in {"end", "error"} =>
                 /\ Heard(t, f).got = request[t].got
                 /\ Heard(t, f).headers = request[t].headers
                 /\ Heard(t, f).answer =
                       IF request[t].ended \/ request[t].answer # "open"
                         THEN request[t].answer
                       ELSE IF request[t].closed THEN "broken"
                       ELSE IF f = "end" THEN "complete" ELSE Failed(request[t])
           /\ Heard(t, f).answer # request[t].answer => Heard(t, f).ended
<1> DEFINE r == request[t]
<1>1. r \in RequestType /\ r.finished = IF r.ended THEN 1 ELSE 0
  BY DEF TypeInv, TypeOK, Once
<1>2. Failed(r) \in {"error", "broken"}
  BY <1>1, FailedProperties
<1>3. CASE f = "headers"
  <2>1. CASE t \in Tests
    <3>1. Heard(t, f) = Over(r, "complete")
      BY <1>3, <2>1 DEF Heard
    <3> QED BY <1>1, <1>3, <2>1, <3>1, OverProperties
  <2>2. CASE t \notin Tests
    <3>1. Heard(t, f) = [r EXCEPT !.headers = TRUE]
      BY <1>3, <2>2 DEF Heard
    <3> QED BY <1>1, <1>3, <2>2, <3>1 DEF RequestType
  <2> QED BY <2>1, <2>2
<1>4. CASE f = "chunk"
  <2>1. Heard(t, f) = IF t \in Tests \/ r.closed THEN r ELSE [r EXCEPT !.got = @ + 1]
    BY <1>4 DEF Heard
  <2> QED BY <1>1, <1>4, <2>1 DEF RequestType
<1>5. CASE f = "end"
  <2>1. Heard(t, f) = Over(r, "complete")
    BY <1>5 DEF Heard
  <2> QED BY <1>1, <1>5, <2>1, OverProperties
<1>6. CASE f = "error"
  <2>1. Heard(t, f) = Over(r, Failed(r))
    BY <1>6 DEF Heard
  <2> QED BY <1>1, <1>2, <1>6, <2>1, OverProperties
<1> QED BY <1>3, <1>4, <1>5, <1>6 DEF Frames

-----------------------------------------------------------------------------
LEMMA TypeInit == Init => TypeInv
<1> SUFFICES ASSUME Init PROVE TypeInv
  OBVIOUS
<1>1. NoRequest \in RequestType /\ NoConnection \in LinkType /\ NoJob \in JobType
  BY EmptySeq DEF NoRequest, RequestType, NoConnection, LinkType, NoJob, JobType
<1>2. TypeOK
  BY <1>1, MirrorAssumption DEF Init, TypeOK
<1>3. Once
  BY DEF Init, Once, NoRequest
<1> QED BY <1>2, <1>3 DEF TypeInv

\* The frame that arrives is one the job has written.
LEMMA NextFrame ==
    ASSUME TypeOK, NEW t \in Tasks, job[t].read < Len(job[t].frames)
    PROVE  /\ job[t].read + 1 \in 1 .. Len(job[t].frames)
           /\ job[t].frames[job[t].read + 1] \in Frames
<1>1. job[t].frames \in Seq(Frames) /\ job[t].read \in Nat
  BY DEF TypeOK, JobType, Frames
<1>2. job[t].read + 1 \in 1 .. Len(job[t].frames)
  BY <1>1, LenProperties
<1> QED BY <1>1, <1>2, ElementOfSeq

LEMMA TypeStep == TypeInv /\ [Next]_vars => TypeInv'
<1> SUFFICES ASSUME TypeInv, [Next]_vars PROVE TypeInv'
  OBVIOUS
<1> USE MirrorAssumption
<1>1. ASSUME NEW t \in Tasks
      PROVE  request[t] \in RequestType /\ request[t].finished = IF request[t].ended THEN 1 ELSE 0
  BY DEF TypeInv, TypeOK, Once
<1>2. ASSUME NEW t \in Tasks, NEW r \in RequestType,
             r.finished = IF r.ended THEN 1 ELSE 0,
             request' = [request EXCEPT ![t] = r]
      PROVE  request' \in [Tasks -> RequestType] /\ Once'
  BY <1>1, <1>2 DEF TypeInv, TypeOK, Once
<1>3. ASSUME request' = request PROVE Once'
  BY <1>3 DEF TypeInv, Once
<1>4. ASSUME NEW t \in Tasks, NEW j \in JobType, job' = [job EXCEPT ![t] = j]
      PROVE  job' \in [Tasks -> JobType]
  BY <1>4 DEF TypeInv, TypeOK
<1>5. ASSUME NEW l \in Links, NEW k \in LinkType, link' = [link EXCEPT ![l] = k]
      PROVE  link' \in [Links -> LinkType]
  BY <1>5 DEF TypeInv, TypeOK
<1>6. ASSUME NEW l \in Links PROVE link[l] \in LinkType
  BY DEF TypeInv, TypeOK
<1>7. ASSUME NEW t \in Tasks PROVE job[t] \in JobType
  BY DEF TypeInv, TypeOK
<1>11. ASSUME NEW t \in Tasks, Ask(t) PROVE TypeInv'
  <2>1. [request[t] EXCEPT !.step = "reading"] \in RequestType
    BY <1>1 DEF RequestType
  <2> QED BY <1>1, <1>2, <1>11, <2>1 DEF Ask, TypeInv, TypeOK, RequestType
<1>12. ASSUME NEW t \in Tasks, Prepare(t) PROVE TypeInv'
  <2> DEFINE r == [request[t] EXCEPT !.step = "refused"]
             s == [request[t] EXCEPT !.step = "starting"]
  <2>1. /\ r \in RequestType /\ r.finished = IF r.ended THEN 1 ELSE 0
        /\ s \in RequestType /\ s.finished = IF s.ended THEN 1 ELSE 0
    BY <1>1 DEF RequestType
  <2>2. /\ Answered(r, "error") \in RequestType
        /\ Answered(r, "error").finished = IF Answered(r, "error").ended THEN 1 ELSE 0
    <3> HIDE DEF r
    <3> QED BY <2>1, AnsweredProperties
  <2>3. \/ request' = [request EXCEPT ![t] = Answered(r, "error")]
        \/ request' = [request EXCEPT ![t] = s]
    BY <1>12 DEF Prepare
  <2>4. request' \in [Tasks -> RequestType] /\ Once'
    BY <1>2, <2>1, <2>2, <2>3
  <2> QED BY <1>12, <2>4 DEF Prepare, TypeInv, TypeOK
<1>13. ASSUME NEW t \in Tasks, Accept(t) PROVE TypeInv'
  <2> DEFINE r == [request[t] EXCEPT !.step = "started"]
             k == [link[socket] EXCEPT !.asked = @ \cup {t},
                                       !.early = @ \/ link[socket].stage = "registered"]
  <2>1. r \in RequestType /\ r.finished = IF r.ended THEN 1 ELSE 0
    BY <1>1 DEF RequestType
  <2>2. request' \in [Tasks -> RequestType] /\ Once'
    BY <1>2, <1>13, <2>1 DEF Accept
  <2>3. socket \in Links
    BY <1>13 DEF Accept, TypeInv, TypeOK
  <2>4. k \in LinkType
    BY <1>6, <2>3 DEF LinkType
  <2>5. link' = link \/ link' = [link EXCEPT ![socket] = k]
    BY <1>13, <2>3 DEF Accept, TypeInv, TypeOK
  <2>6. link' \in [Links -> LinkType]
    BY <1>5, <2>3, <2>4, <2>5 DEF TypeInv, TypeOK
  <2> QED BY <1>13, <2>2, <2>6 DEF Accept, Opened, TypeInv, TypeOK
<1>14. ASSUME NEW t \in Tasks, Reject(t) PROVE TypeInv'
  <2> DEFINE r == [request[t] EXCEPT !.step = "rejected"]
             s == IF t \in Tests THEN Over(r, "error") ELSE Answered(r, "error")
  <2>1. r \in RequestType /\ r.finished = IF r.ended THEN 1 ELSE 0
    BY <1>1 DEF RequestType
  <2>2. s \in RequestType /\ s.finished = IF s.ended THEN 1 ELSE 0
    <3> HIDE DEF r
    <3> QED BY <2>1, OverProperties, AnsweredProperties
  <2>3. request' = [request EXCEPT ![t] = s]
    BY <1>14 DEF Reject
  <2>4. request' \in [Tasks -> RequestType] /\ Once'
    BY <1>2, <2>2, <2>3
  <2> QED BY <1>14, <2>4 DEF Reject, TypeInv, TypeOK
<1>15. ASSUME NEW t \in Tasks, Timeout(t) PROVE TypeInv'
  <2> DEFINE a == IF request[t].got > 0 THEN "broken" ELSE "error"
             s == Over(request[t], a)
  <2>1. s \in RequestType /\ s.finished = IF s.ended THEN 1 ELSE 0
    BY <1>1, OverProperties
  <2>2. request' = [request EXCEPT ![t] = s]
    BY <1>15 DEF Timeout
  <2>3. request' \in [Tasks -> RequestType] /\ Once'
    BY <1>2, <2>1, <2>2
  <2> QED BY <1>15, <2>3 DEF Timeout, Freed, TypeInv, TypeOK
<1>16. ASSUME NEW t \in Tasks, Closes(t) PROVE TypeInv'
  <2> DEFINE r == [request[t] EXCEPT !.closed = TRUE]
             s == Over(r, "broken")
  <2>1. r \in RequestType /\ r.finished = IF r.ended THEN 1 ELSE 0
    BY <1>1 DEF RequestType
  <2>2. s \in RequestType /\ s.finished = IF s.ended THEN 1 ELSE 0
    <3> HIDE DEF r
    <3> QED BY <2>1, OverProperties
  <2>3. request' = [request EXCEPT ![t] = r] \/ request' = [request EXCEPT ![t] = s]
    BY <1>16 DEF Closes
  <2>4. request' \in [Tasks -> RequestType] /\ Once'
    BY <1>2, <2>1, <2>2, <2>3
  <2> QED BY <1>16, <2>4 DEF Closes, Freed, TypeInv, TypeOK
<1>17. ASSUME NEW t \in Tasks, Arrive(t) PROVE TypeInv'
  <2> DEFINE f == job[t].frames[job[t].read + 1]
             j == [job[t] EXCEPT !.read = @ + 1]
  <2>1. f \in Frames
    BY <1>17, NextFrame DEF Arrive, TypeInv
  <2>2. /\ Heard(t, f) \in RequestType
        /\ Heard(t, f).finished = IF Heard(t, f).ended THEN 1 ELSE 0
    BY <2>1, HeardProperties
  <2>3. request' = request \/ request' = [request EXCEPT ![t] = Heard(t, f)]
    BY <1>17 DEF Arrive
  <2>4. request' \in [Tasks -> RequestType] /\ Once'
    BY <1>2, <1>3, <2>2, <2>3 DEF TypeInv, TypeOK
  <2>5. j \in JobType
    BY <1>7 DEF JobType
  <2>6. job' \in [Tasks -> JobType]
    BY <1>4, <1>17, <2>5 DEF Arrive
  <2> QED BY <1>17, <2>4, <2>6 DEF Arrive, TypeInv, TypeOK
<1>18. ASSUME EditSite PROVE TypeInv'
  BY <1>3, <1>18 DEF EditSite, TypeInv, TypeOK
<1>19. ASSUME NEW l \in Links, Dial(l) PROVE TypeInv'
  <2>1. [link[l] EXCEPT !.stage = "dialled", !.open = TRUE] \in LinkType
    BY <1>6 DEF LinkType
  <2>2. link' = [link EXCEPT ![l] = [link[l] EXCEPT !.stage = "dialled", !.open = TRUE]]
    BY <1>19 DEF Dial, TypeInv, TypeOK
  <2>3. link' \in [Links -> LinkType]
    BY <1>5, <2>1, <2>2
  <2> QED BY <1>3, <1>19, <2>3 DEF Dial, TypeInv, TypeOK
<1>20. ASSUME NEW l \in Links, Register(l) PROVE TypeInv'
  <2>1. ASSUME NEW k \in Links
        PROVE  /\ [link[k] EXCEPT !.stage = "registered"] \in LinkType
               /\ [link[k] EXCEPT !.open = FALSE] \in LinkType
    BY <1>6 DEF LinkType
  <2>2. link' \in [Links -> LinkType]
    BY <1>6, <1>20, <2>1 DEF Register
  <2> QED BY <1>3, <1>20, <2>2 DEF Register, TypeInv, TypeOK
<1>21. ASSUME NEW l \in Links, Attach(l) PROVE TypeInv'
  <2>1. [link[l] EXCEPT !.stage = "attached"] \in LinkType
    BY <1>6 DEF LinkType
  <2>2. link' \in [Links -> LinkType]
    BY <1>5, <1>21, <2>1 DEF Attach
  <2> QED BY <1>3, <1>21, <2>2 DEF Attach, TypeInv, TypeOK
<1>22. ASSUME TakeOver PROVE TypeInv'
  <2>1. socket \in Links
    BY <1>22 DEF TakeOver, TypeInv, TypeOK
  <2>2. [link[socket] EXCEPT !.open = FALSE] \in LinkType
    BY <1>6, <2>1 DEF LinkType
  <2>3. link' \in [Links -> LinkType]
    BY <1>5, <1>22, <2>1, <2>2 DEF TakeOver
  <2> QED BY <1>3, <1>22, <2>3 DEF TakeOver, TypeInv, TypeOK
<1>23. ASSUME NEW l \in Links, HandleDisconnect(l) PROVE TypeInv'
  <2>1. ASSUME NEW t \in Tasks
        PROVE  /\ request'[t] \in RequestType
               /\ request'[t].finished = IF request'[t].ended THEN 1 ELSE 0
    <3>1. Failed(request[t]) \in {"error", "broken"}
      BY <1>1, FailedProperties
    <3>2. request'[t] = IF t \in sessions THEN Over(request[t], Failed(request[t]))
                                          ELSE request[t]
      BY <1>23 DEF HandleDisconnect
    <3> QED BY <1>1, <3>1, <3>2, OverProperties
  <2>2. request' \in [Tasks -> RequestType] /\ Once'
    BY <1>23, <2>1 DEF HandleDisconnect, Once
  <2>3. link' \in [Links -> LinkType]
    <3>1. [link[l] EXCEPT !.open = FALSE] \in LinkType
      BY <1>6 DEF LinkType
    <3> QED BY <1>5, <1>23, <3>1 DEF HandleDisconnect
  <2> QED BY <1>23, <2>2, <2>3 DEF HandleDisconnect, TypeInv, TypeOK
<1>24. ASSUME NEW t \in Tasks, ReadRequest(t) PROVE TypeInv'
  <2>1. agent \in Links
    BY <1>24 DEF ReadRequest, TypeInv, TypeOK
  <2>2. [link[agent] EXCEPT !.asked = @ \ {t}] \in LinkType
    BY <1>6, <2>1 DEF LinkType
  <2>3. link' \in [Links -> LinkType]
    BY <1>5, <1>24, <2>1, <2>2 DEF ReadRequest
  <2>4. [NoJob EXCEPT !.step = "running", !.link = agent] \in JobType
    BY <2>1, EmptySeq DEF NoJob, JobType
  <2>5. job' \in [Tasks -> JobType]
    BY <1>4, <1>24, <2>4 DEF ReadRequest
  <2> QED BY <1>3, <1>24, <2>3, <2>5 DEF ReadRequest, TypeInv, TypeOK
<1>25. ASSUME HangUp PROVE TypeInv'
  <2>1. agent \in Links
    BY <1>25 DEF HangUp, TypeInv, TypeOK
  <2>2. [link[agent] EXCEPT !.open = FALSE, !.asked = {}] \in LinkType
    BY <1>6, <2>1 DEF LinkType
  <2>3. link' \in [Links -> LinkType]
    BY ZenonT(40), <1>5, <1>25, <2>1, <2>2 DEF HangUp
  <2>4. ASSUME NEW t \in Tasks PROVE [job[t] EXCEPT !.step = "done"] \in JobType
    BY <1>7 DEF JobType
  <2>5. job' \in [Tasks -> JobType]
    BY <1>7, <1>25, <2>4 DEF HangUp
  <2> QED BY <1>3, <1>25, <2>3, <2>5 DEF HangUp, TypeInv, TypeOK
<1>26. ASSUME NEW t \in Tasks, NEW f \in Frames PROVE Append(job[t].frames, f) \in Seq(Frames)
  BY <1>7, AppendProperties DEF JobType, Frames
<1>27. ASSUME NEW t \in Tasks, Headers(t) \/ Chunk(t) \/ Completes(t) \/ Fails(t)
       PROVE  TypeInv'
  <2>1. \E s \in {"streaming", "done"} : \E q \in Seq(Frames) :
           job' = [job EXCEPT ![t] = [job[t] EXCEPT !.step = s, !.frames = q]]
    <3>1. job[t].frames \in Seq(Frames) /\ job[t] \in JobType
      BY <1>7 DEF JobType, Frames
    <3>2. CASE Headers(t)
      BY <1>26, <3>1, <3>2 DEF Headers, Frames, TypeInv, TypeOK, JobType
    <3>3. CASE Chunk(t)
      <4>1. job[t] = [job[t] EXCEPT !.step = "streaming"]
        BY <3>1, <3>3 DEF Chunk, JobType
      <4>2. job' = [job EXCEPT ![t] = [job[t] EXCEPT !.step = "streaming",
                                          !.frames = Append(job[t].frames, "chunk")]]
        BY <3>3, <4>1 DEF Chunk, TypeInv, TypeOK, JobType
      <4> QED BY <1>26, <4>2 DEF Frames
    <3>4. CASE Completes(t)
      BY <1>26, <3>1, <3>4 DEF Completes, Frames, TypeInv, TypeOK, JobType
    <3>5. CASE Fails(t)
      BY ZenonT(40), <1>26, <3>1, <3>5 DEF Fails, Frames, TypeInv, TypeOK, JobType
    <3> QED BY <1>27, <3>2, <3>3, <3>4, <3>5
  <2>2. job' \in [Tasks -> JobType]
    BY <1>4, <1>7, <2>1 DEF JobType, Frames
  <2>3. UNCHANGED <<request, sessions, tracked, socket, link, agent>>
    BY <1>27 DEF Headers, Chunk, Completes, Fails
  <2> QED BY <1>3, <2>2, <2>3 DEF TypeInv, TypeOK
<1>28. CASE UNCHANGED vars
  BY <1>3, <1>28 DEF vars, TypeInv, TypeOK
<1>29. ASSUME NEW l \in Links PROVE [link[l] EXCEPT !.stage = "closing"] \in LinkType
  BY <1>6 DEF LinkType
<1>30. ASSUME NEW t \in Tasks, Refuse(t) PROVE TypeInv'
  <2>1. link' \in [Links -> LinkType]
    BY <1>6, <1>29, <1>30 DEF Refuse, TypeInv, TypeOK
  <2> DEFINE j == [job[t] EXCEPT !.read = job[t].read + 1,
                                !.lost = IF t \in Tests THEN job[t].lost ELSE job[t].lost + 1]
  <2>2. job[t] \in JobType /\ job[t].read + 1 \in Nat /\ job[t].lost + 1 \in Nat
    BY <1>7 DEF JobType
  <2>3. ASSUME NEW m \in Nat, NEW n \in Nat
        PROVE  [job[t] EXCEPT !.read = m, !.lost = n] \in JobType
    BY <2>2 DEF JobType
  <2>4. j \in JobType
    BY <2>2, <2>3 DEF JobType
  <2>5. job' \in [Tasks -> JobType]
    <3>1. ASSUME NEW u \in Tasks PROVE job'[u] = IF u = t THEN j ELSE job[u]
      BY <1>7, <1>30 DEF Refuse, TypeInv, TypeOK, JobType
    <3>2. job' = [u \in Tasks |-> job'[u]]
      BY <1>30 DEF Refuse, TypeInv, TypeOK
    <3> HIDE DEF j
    <3> QED BY <1>7, <2>4, <3>1, <3>2
  <2> QED BY <1>3, <1>30, <2>1, <2>5 DEF Refuse, TypeInv, TypeOK
<1>31. ASSUME OverQuota PROVE TypeInv'
  <2>1. socket \in Links
    BY <1>31 DEF OverQuota, TypeInv, TypeOK
  <2>2. link' \in [Links -> LinkType]
    BY <1>5, <1>29, <1>31, <2>1 DEF OverQuota
  <2> QED BY <1>3, <1>31, <2>2 DEF OverQuota, TypeInv, TypeOK
<1> QED
  BY <1>11, <1>12, <1>13, <1>14, <1>15, <1>16, <1>17, <1>18, <1>19, <1>20, <1>21, <1>22,
     <1>23, <1>24, <1>25, <1>27, <1>28, <1>30, <1>31 DEF Next, Serve

\* Every variable keeps its type, and no end is recorded twice.
THEOREM TypeCorrect == Spec => []TypeOK
<1>1. TypeInv => TypeOK
  BY DEF TypeInv
<1> QED BY TypeInit, TypeStep, <1>1, PTL DEF Spec

-----------------------------------------------------------------------------
LEMMA WantedStep == TypeInv /\ SessionsAreWanted /\ [Next]_vars => SessionsAreWanted'
<1> SUFFICES ASSUME TypeInv, SessionsAreWanted, [Next]_vars PROVE SessionsAreWanted'
  OBVIOUS
<1>1. ASSUME NEW t \in Tasks, t \notin sessions',
             \A u \in Tasks : u # t => request'[u] = request[u],
             sessions' \subseteq sessions, tracked \ {t} \subseteq tracked'
      PROVE  SessionsAreWanted'
  BY <1>1 DEF SessionsAreWanted, TypeInv, TypeOK
<1>2. ASSUME UNCHANGED <<request, sessions, tracked>> PROVE SessionsAreWanted'
  BY <1>2 DEF SessionsAreWanted
<1>3. ASSUME NEW t \in Tasks PROVE request[t] \in RequestType
  BY DEF TypeInv, TypeOK
<1>11. ASSUME NEW t \in Tasks, Ask(t) \/ Prepare(t) \/ Reject(t) PROVE SessionsAreWanted'
  <2>1. t \notin sessions
    BY <1>11 DEF Ask, Prepare, Reject, SessionsAreWanted
  <2>2. /\ sessions' = sessions /\ tracked' = tracked
        /\ \A u \in Tasks : u # t => request'[u] = request[u]
    BY <1>11 DEF Ask, Prepare, Reject, TypeInv, TypeOK
  <2> QED BY <1>1, <2>1, <2>2
<1>12. ASSUME NEW t \in Tasks, Accept(t) PROVE SessionsAreWanted'
  <2>1. /\ request'[t].step = "started" /\ request'[t].ended = request[t].ended
        /\ \A u \in Tasks : u # t => request'[u] = request[u]
    BY <1>3, <1>12 DEF Accept, TypeInv, TypeOK, RequestType
  <2>2. t \notin sessions
    BY <1>12 DEF Accept, SessionsAreWanted
  <2>3. /\ sessions' = IF request[t].ended THEN sessions ELSE sessions \cup {t}
        /\ tracked' = IF t \in Tests THEN tracked ELSE tracked \cup {t}
    BY <1>12 DEF Accept, Opened
  <2> QED BY <2>1, <2>2, <2>3 DEF SessionsAreWanted, TypeInv, TypeOK
<1>13. ASSUME NEW t \in Tasks, Timeout(t) \/ Closes(t) PROVE SessionsAreWanted'
  <2>1. \A u \in Tasks : u # t => request'[u] = request[u]
    BY <1>13 DEF Timeout, Closes, TypeInv, TypeOK
  <2>2. CASE UNCHANGED <<sessions, tracked>>
    <3>1. Closes(t) => request[t].step = "reading" \/ sessions' = Freed(t, sessions)
      BY DEF Closes
    <3>2. t \notin sessions
      BY <1>13, <2>2, <3>1 DEF Timeout, Freed, SessionsAreWanted
    <3> QED BY <1>1, <2>1, <2>2, <3>2
  <2>3. CASE sessions' = Freed(t, sessions) /\ tracked' = Freed(t, tracked)
    <3>1. t \notin sessions'
      BY <2>3 DEF Freed, SessionsAreWanted
    <3> QED BY <1>1, <2>1, <2>3, <3>1 DEF Freed
  <2> QED BY <1>13, <2>2, <2>3 DEF Timeout, Closes
<1>14. ASSUME NEW t \in Tasks, Arrive(t) PROVE SessionsAreWanted'
  <2> DEFINE f == job[t].frames[job[t].read + 1]
  <2>1. CASE UNCHANGED <<request, sessions, tracked>>
    BY <1>2, <2>1
  <2>2. CASE /\ request' = [request EXCEPT ![t] = Heard(t, f)]
             /\ sessions' = IF Heard(t, f).ended THEN sessions \ {t} ELSE sessions
             /\ tracked' = IF Heard(t, f).ended THEN tracked \ {t} ELSE tracked
    <3>1. f \in Frames
      BY <1>14, NextFrame DEF Arrive, TypeInv
    <3>2. Heard(t, f).step = request[t].step
      BY <3>1, HeardProperties
    <3> HIDE DEF f
    <3>3. /\ request'[t] = Heard(t, f)
          /\ \A u \in Tasks : u # t => request'[u] = request[u]
      BY <2>2 DEF TypeInv, TypeOK
    <3>4. t \in sessions
      BY <1>14 DEF Arrive
    <3>5. CASE Heard(t, f).ended
      BY <1>1, <2>2, <3>3, <3>5
    <3>6. CASE ~Heard(t, f).ended
      BY <2>2, <3>2, <3>3, <3>4, <3>6 DEF SessionsAreWanted, TypeInv, TypeOK
    <3> QED BY <3>5, <3>6
  <2> QED BY <1>14, <2>1, <2>2 DEF Arrive
<1>15. CASE EditSite
  BY <1>15 DEF EditSite, SessionsAreWanted
<1>16. ASSUME NEW l \in Links, HandleDisconnect(l) PROVE SessionsAreWanted'
  BY <1>16 DEF HandleDisconnect, SessionsAreWanted
<1>17. ASSUME NEW l \in Links, Dial(l) \/ Register(l) \/ Attach(l) PROVE SessionsAreWanted'
  BY <1>2, <1>17 DEF Dial, Register, Attach
<1>18. ASSUME NEW t \in Tasks,
              ReadRequest(t) \/ Headers(t) \/ Chunk(t) \/ Completes(t) \/ Fails(t)
       PROVE  SessionsAreWanted'
  BY <1>2, <1>18 DEF ReadRequest, Headers, Chunk, Completes, Fails
<1>19. CASE OverQuota \/ TakeOver \/ HangUp \/ UNCHANGED vars
  BY <1>2, <1>19 DEF OverQuota, TakeOver, HangUp, vars
<1>20. ASSUME NEW t \in Tasks, Refuse(t) PROVE SessionsAreWanted'
  BY <1>2, <1>20 DEF Refuse
<1> QED
  BY <1>11, <1>12, <1>13, <1>14, <1>15, <1>16, <1>17, <1>18, <1>19, <1>20
     DEF Next, Serve

\* However a request ends, and whenever: no session is left without a request that
\* waits for it, and each can be found from its site.
THEOREM SessionsStayWanted == Spec => []SessionsAreWanted
<1>1. Init => SessionsAreWanted
  BY DEF Init, SessionsAreWanted
<1>2. Spec => []TypeInv
  BY TypeInit, TypeStep, PTL DEF Spec
<1> QED BY <1>1, <1>2, WantedStep, PTL DEF Spec

-----------------------------------------------------------------------------
\* A job's frames.

LEMMA WriteFrame ==
    ASSUME NEW j \in JobType, FramedBy(j), NEW f \in Frames, NEW s \in {"streaming", "done"},
           \/ j.step = "running" /\ f \in {"headers", "error"}
           \/ j.step = "streaming" /\ f # "headers",
           f \in {"end", "error"} <=> s = "done"
    PROVE  FramedBy([j EXCEPT !.step = s, !.frames = Append(j.frames, f)])
<1> DEFINE q == Append(j.frames, f)
           k == [j EXCEPT !.step = s, !.frames = q]
<1>1. j.frames \in Seq(Frames) /\ j.read \in Nat
  BY DEF JobType, Frames
<1>2. /\ Len(q) = Len(j.frames) + 1 /\ Len(j.frames) \in Nat
      /\ \A i \in 1 .. Len(j.frames) : q[i] = j.frames[i]
      /\ q[Len(j.frames) + 1] = f
      /\ q # <<>>
  BY <1>1, AppendProperties, LenProperties
<1>3. k.step = s /\ k.frames = q /\ k.read = j.read
  BY DEF JobType
<1>4. j.step = "running" => Len(j.frames) = 0
  BY <1>1, EmptySeq DEF FramedBy
<1>5. j.step = "streaming" => Len(j.frames) # 0
  BY <1>1, EmptySeq DEF FramedBy
<1>6. \A i \in 1 .. Len(j.frames) : j.frames[i] \notin {"end", "error"}
  BY DEF FramedBy
<1> HIDE DEF q, k
<1>7. ASSUME NEW i \in 1 .. Len(q)
      PROVE  /\ i = 1 => q[i] \in {"headers", "error"}
             /\ i # 1 => q[i] # "headers"
             /\ q[i] \in {"end", "error"} => i = Len(q) /\ s = "done"
  <2>1. CASE i \in 1 .. Len(j.frames)
    BY <1>2, <1>6, <2>1 DEF FramedBy
  <2>2. CASE i = Len(j.frames) + 1
    BY <1>2, <1>4, <1>5, <2>2
  <2> QED BY <1>2, <2>1, <2>2
<1>8. k.read <= Len(k.frames) /\ k.step \notin {"none", "running"} /\ k.frames # <<>>
  BY <1>1, <1>2, <1>3 DEF FramedBy
<1>9. FramedBy(k)
  BY <1>3, <1>7, <1>8 DEF FramedBy
<1> QED BY <1>9 DEF k, q

\* What a step can do to a job: nothing, its start, one frame more, its end without
\* one, one frame read, heard or refused.
Wrote(t) ==
    \E f \in Frames, s \in {"streaming", "done"} :
        /\ \/ job[t].step = "running" /\ f \in {"headers", "error"}
           \/ job[t].step = "streaming" /\ f # "headers"
        /\ f \in {"end", "error"} <=> s = "done"
        /\ job'[t] = [job[t] EXCEPT !.step = s, !.frames = Append(job[t].frames, f)]

Stopped(t) ==
    /\ job[t].step # "none"
    /\ job'[t] = [job[t] EXCEPT !.step = "done"]

Began(t) ==
    /\ agent \in Links /\ t \in link[agent].asked
    /\ job'[t] = [NoJob EXCEPT !.step = "running", !.link = agent]

Took(t) ==
    /\ t \in sessions
    /\ job[t].read < Len(job[t].frames)
    /\ job'[t] = [job[t] EXCEPT !.read = @ + 1]

Refused(t) ==
    /\ t \in sessions
    /\ job[t].read < Len(job[t].frames)
    /\ job'[t] = [job[t] EXCEPT !.read = @ + 1,
                                !.lost = IF t \in Tests THEN @ ELSE @ + 1]

LEMMA JobSteps ==
    ASSUME TypeInv, Asked, [Next]_vars, NEW t \in Tasks
    PROVE  \/ job'[t] = job[t]
           \/ Wrote(t) \/ Stopped(t)
           \/ (\E u \in Tasks : ReadRequest(u)) /\ Began(t)
           \/ Arrive(t) /\ Took(t)
           \/ Refuse(t) /\ Refused(t)
<1>1. \A u \in Tasks : job[u] \in JobType
  BY DEF TypeInv, TypeOK
<1>2. ASSUME NEW u \in Tasks, u # t,
             \/ ReadRequest(u) \/ Headers(u) \/ Chunk(u) \/ Completes(u) \/ Fails(u)
             \/ Arrive(u) \/ Refuse(u)
      PROVE  job'[t] = job[t]
  BY <1>2 DEF ReadRequest, Headers, Chunk, Completes, Fails, Arrive, Refuse, TypeInv, TypeOK
<1>3. ASSUME Headers(t) PROVE Wrote(t)
  <2>1. job'[t] = [job[t] EXCEPT !.step = "streaming", !.frames = Append(job[t].frames, "headers")]
    BY <1>1, <1>3 DEF Headers, TypeInv, TypeOK, JobType
  <2> QED BY <1>3, <2>1 DEF Headers, Wrote, Frames
<1>4. ASSUME Chunk(t) PROVE Wrote(t)
  <2>1. job'[t] = [job[t] EXCEPT !.step = "streaming", !.frames = Append(job[t].frames, "chunk")]
    BY <1>1, <1>4 DEF Chunk, TypeInv, TypeOK, JobType
  <2> QED BY <1>4, <2>1 DEF Chunk, Wrote, Frames
<1>5. ASSUME Completes(t) PROVE Wrote(t)
  <2>1. job'[t] = [job[t] EXCEPT !.step = "done", !.frames = Append(job[t].frames, "end")]
    BY <1>1, <1>5 DEF Completes, TypeInv, TypeOK, JobType
  <2> QED BY <1>5, <2>1 DEF Completes, Wrote, Frames
<1>6. ASSUME Fails(t) PROVE Wrote(t) \/ Stopped(t)
  <2>1. CASE link[job[t].link].open
    <3>1. job'[t] = [job[t] EXCEPT !.step = "done", !.frames = Append(job[t].frames, "error")]
      BY <1>1, <1>6, <2>1 DEF Fails, TypeInv, TypeOK, JobType
    <3> QED BY <1>6, <3>1 DEF Fails, Wrote, Frames
  <2>2. CASE ~link[job[t].link].open
    <3>1. job'[t] = [job[t] EXCEPT !.step = "done"]
      BY <1>1, <1>6, <2>2 DEF Fails, TypeInv, TypeOK, JobType
    <3> QED BY <1>6, <3>1 DEF Fails, Stopped
  <2> QED BY <2>1, <2>2
<1>7. ASSUME ReadRequest(t) PROVE Began(t)
  BY <1>7 DEF ReadRequest, Began, TypeInv, TypeOK
<1>8. ASSUME Arrive(t) PROVE Took(t)
  BY <1>8 DEF Arrive, Took, TypeInv, TypeOK
<1>9. ASSUME HangUp PROVE job'[t] = job[t] \/ Stopped(t)
  <2>1. CASE job[t].link = agent
    <3>1. job[t].step # "none"
      BY <1>9, <2>1, MirrorAssumption DEF HangUp, Asked, NoJob, TypeInv, TypeOK
    <3> QED BY <1>9, <2>1, <3>1 DEF HangUp, Stopped
  <2>2. CASE job[t].link # agent
    BY <1>9, <2>2 DEF HangUp
  <2> QED BY <2>1, <2>2
<1>10. ASSUME \/ UNCHANGED vars \/ EditSite \/ OverQuota \/ TakeOver
              \/ \E u \in Tasks : Ask(u) \/ Serve(u) \/ Timeout(u) \/ Closes(u)
              \/ \E l \in Links : Dial(l) \/ Register(l) \/ Attach(l) \/ HandleDisconnect(l)
       PROVE  job' = job
  BY <1>10 DEF vars, EditSite, OverQuota, TakeOver, Ask, Serve, Prepare, Accept, Reject, Timeout,
     Closes, Dial, Register, Attach, HandleDisconnect
<1>11. ASSUME Refuse(t) PROVE Refused(t)
  BY <1>11 DEF Refuse, Refused, TypeInv, TypeOK
<1> QED BY <1>2, <1>3, <1>4, <1>5, <1>6, <1>7, <1>8, <1>9, <1>10, <1>11 DEF Next

-----------------------------------------------------------------------------
\* What a step can do to a proxied request: nothing to its answer, a chunk more, its
\* answer.
Heeded(t, f) ==
    /\ Arrive(t) /\ socket = job[t].link /\ ~request[t].closed
    /\ job[t].frames[job[t].read + 1] = f

Quiet(t) == request'[t].got = request[t].got /\ request'[t].answer = request[t].answer

Gained(t) ==
    /\ Heeded(t, "chunk")
    /\ request'[t].got = request[t].got + 1 /\ request'[t].answer = request[t].answer

Settled(t) ==
    /\ request[t].answer = "open" /\ request'[t].got = request[t].got
    /\ request'[t].ended \/ request'[t].step \in {"rejected", "refused"}
    /\ request'[t].answer = "complete" => request'[t].ended /\ Heeded(t, "end")
    /\ request'[t].answer = "error" =>
          request[t].got = 0 \/ request[t].step \in {"reading", "starting"}

Kept(t) ==
    /\ request[t].step \in {"started", "rejected", "refused"} =>
          request'[t].step = request[t].step
    /\ request[t].ended => request'[t].ended
    /\ request[t].closed => request'[t].closed

LEMMA RequestSteps ==
    ASSUME TypeInv, SessionsAreWanted, [Next]_vars, NEW t \in Tasks
    PROVE  /\ Kept(t)
           /\ t \notin Tests => Quiet(t) \/ Gained(t) \/ Settled(t)
<1> DEFINE r == request[t]
<1>1. r \in RequestType /\ r.finished = IF r.ended THEN 1 ELSE 0
  BY DEF TypeInv, TypeOK, Once
<1>2. ASSUME request'[t] = r PROVE Kept(t) /\ Quiet(t)
  BY <1>2 DEF Kept, Quiet
<1>3. ASSUME NEW u \in Tasks, u # t,
             \/ Ask(u) \/ Prepare(u) \/ Accept(u) \/ Reject(u) \/ Timeout(u)
             \/ Closes(u) \/ Arrive(u)
      PROVE  request'[t] = r
  BY <1>3 DEF Ask, Prepare, Accept, Reject, Timeout, Closes, Arrive, TypeInv, TypeOK
<1>4. ASSUME NEW a \in {"error", "broken"}, request'[t] = Over(r, a),
             a = "error" => r.got = 0 \/ r.step \in {"reading", "starting"}
      PROVE  Kept(t) /\ (Quiet(t) \/ Settled(t))
  <2>1. /\ request'[t].ended /\ request'[t].got = r.got
        /\ request'[t].step = r.step /\ request'[t].closed = r.closed
        /\ request'[t].answer = IF r.ended \/ r.answer # "open" THEN r.answer
                                ELSE IF r.closed THEN "broken" ELSE a
    BY <1>1, <1>4, OverProperties
  <2> QED BY <1>1, <1>4, <2>1 DEF Kept, Quiet, Settled, RequestType
<1>11. ASSUME Ask(t) PROVE Kept(t) /\ Quiet(t)
  <2>1. request'[t] = [r EXCEPT !.step = "reading"] /\ r.step = "none"
    BY <1>11 DEF Ask, TypeInv, TypeOK
  <2> QED BY <1>1, <2>1 DEF Kept, Quiet, RequestType
<1>12. ASSUME Prepare(t) PROVE Kept(t) /\ (Quiet(t) \/ Settled(t))
  <2> DEFINE q == [r EXCEPT !.step = "refused"]
  <2>1. q \in RequestType /\ q.got = r.got /\ q.ended = r.ended /\ q.closed = r.closed
        /\ q.answer = r.answer /\ q.step = "refused"
    BY <1>1 DEF RequestType
  <2>2. CASE request'[t] = Answered(q, "error")
    <3> HIDE DEF q
    <3>1. /\ request'[t].got = r.got /\ request'[t].step = "refused"
          /\ request'[t].ended = r.ended /\ request'[t].closed = r.closed
          /\ request'[t].answer = IF r.answer # "open" THEN r.answer
                                  ELSE IF r.closed THEN "broken" ELSE "error"
      BY <2>1, <2>2, AnsweredProperties
    <3>2. r.step = "reading"
      BY <1>12 DEF Prepare
    <3> QED BY <1>1, <3>1, <3>2 DEF Kept, Quiet, Settled, RequestType
  <2>3. CASE request'[t] = [r EXCEPT !.step = "starting"]
    <3>1. r.step = "reading"
      BY <1>12 DEF Prepare
    <3> QED BY <1>1, <2>3, <3>1 DEF Kept, Quiet, RequestType
  <2> QED BY <1>12, <2>2, <2>3 DEF Prepare, TypeInv, TypeOK
<1>13. ASSUME Accept(t) PROVE Kept(t) /\ Quiet(t)
  <2>1. request'[t] = [r EXCEPT !.step = "started"] /\ r.step = "starting"
    BY <1>13 DEF Accept, TypeInv, TypeOK
  <2> QED BY <1>1, <2>1 DEF Kept, Quiet, RequestType
<1>14. ASSUME Reject(t) PROVE Kept(t) /\ (t \notin Tests => Quiet(t) \/ Settled(t))
  <2> DEFINE q == [r EXCEPT !.step = "rejected"]
  <2>1. /\ q \in RequestType /\ q.got = r.got /\ q.ended = r.ended /\ q.closed = r.closed
        /\ q.answer = r.answer /\ q.step = "rejected" /\ q.finished = r.finished
    BY <1>1 DEF RequestType
  <2>2. r.step = "starting"
    BY <1>14 DEF Reject
  <2>3. request'[t] = IF t \in Tests THEN Over(q, "error") ELSE Answered(q, "error")
    BY <1>14 DEF Reject, TypeInv, TypeOK
  <2> HIDE DEF q
  <2>4. CASE t \in Tests
    <3>1. /\ request'[t].ended /\ request'[t].closed = r.closed
      BY <1>1, <2>1, <2>3, <2>4, OverProperties
    <3> QED BY <2>2, <2>4, <3>1 DEF Kept
  <2>5. CASE t \notin Tests
    <3>1. /\ request'[t].got = r.got /\ request'[t].step = "rejected"
          /\ request'[t].ended = r.ended /\ request'[t].closed = r.closed
          /\ request'[t].answer = IF r.answer # "open" THEN r.answer
                                  ELSE IF r.closed THEN "broken" ELSE "error"
      BY <2>1, <2>3, <2>5, AnsweredProperties
    <3> QED BY <1>1, <2>2, <3>1 DEF Kept, Quiet, Settled, RequestType
  <2> QED BY <2>4, <2>5
<1>15. ASSUME Timeout(t) PROVE Kept(t) /\ (Quiet(t) \/ Settled(t))
  <2>1. request'[t] = Over(r, IF r.got > 0 THEN "broken" ELSE "error")
    BY <1>15 DEF Timeout, TypeInv, TypeOK
  <2>2. r.got > 0 \/ r.got = 0
    BY <1>1 DEF RequestType
  <2> QED BY <1>4, <2>1, <2>2
<1>16. ASSUME Closes(t) PROVE Kept(t) /\ (Quiet(t) \/ Settled(t))
  <2> DEFINE q == [r EXCEPT !.closed = TRUE]
  <2>1. /\ q \in RequestType /\ q.got = r.got /\ q.ended = r.ended /\ q.closed
        /\ q.answer = r.answer /\ q.step = r.step /\ q.finished = r.finished
    BY <1>1 DEF RequestType
  <2>2. request'[t] = q \/ request'[t] = Over(q, "broken")
    BY <1>16 DEF Closes, TypeInv, TypeOK
  <2> HIDE DEF q
  <2>3. CASE request'[t] = q
    BY <2>1, <2>3 DEF Kept, Quiet
  <2>4. CASE request'[t] = Over(q, "broken")
    <3>1. /\ request'[t].ended /\ request'[t].closed /\ request'[t].got = r.got
          /\ request'[t].step = r.step
          /\ request'[t].answer = IF r.ended \/ r.answer # "open" THEN r.answer ELSE "broken"
      BY <1>1, <2>1, <2>4, OverProperties
    <3> QED BY <1>1, <3>1 DEF Kept, Quiet, Settled, RequestType
  <2> QED BY <2>2, <2>3, <2>4
<1>17. ASSUME Arrive(t)
       PROVE  Kept(t) /\ (t \notin Tests => Quiet(t) \/ Gained(t) \/ Settled(t))
  <2> DEFINE f == job[t].frames[job[t].read + 1]
  <2>1. CASE UNCHANGED <<request, sessions, tracked>>
    BY <1>2, <2>1
  <2>2. CASE socket = job[t].link /\ request' = [request EXCEPT ![t] = Heard(t, f)]
    <3>1. f \in Frames
      BY <1>17, NextFrame DEF Arrive, TypeInv
    <3>2. f = "chunk" /\ ~r.closed => Heeded(t, "chunk")
      BY <1>17, <2>2 DEF Heeded
    <3>3. f = "end" /\ ~r.closed => Heeded(t, "end")
      BY <1>17, <2>2 DEF Heeded
    <3> HIDE DEF f
    <3>4. request'[t] = Heard(t, f)
      BY <2>2 DEF TypeInv, TypeOK
    <3>5. /\ request'[t].step = r.step /\ request'[t].closed = r.closed
          /\ r.ended => request'[t].ended
      BY <3>1, <3>4, HeardProperties
    <3>6. CASE t \notin Tests /\ f \in {"headers", "chunk"}
      <4>1. /\ request'[t].answer = r.answer
            /\ request'[t].got = IF f = "chunk" /\ ~r.closed THEN r.got + 1 ELSE r.got
        BY <3>1, <3>4, <3>6, HeardProperties
      <4> QED BY <3>2, <3>5, <4>1 DEF Kept, Quiet, Gained
    <3>7. CASE t \notin Tests /\ f \in {"end", "error"}
      <4>1. /\ request'[t].ended /\ request'[t].got = r.got
            /\ request'[t].answer =
                  IF r.ended \/ r.answer # "open" THEN r.answer
                  ELSE IF r.closed THEN "broken"
                  ELSE IF f = "end" THEN "complete" ELSE Failed(r)
        BY <3>1, <3>4, <3>7, HeardProperties
      <4>2. Failed(r) \in {"error", "broken"} /\ (Failed(r) = "error" => r.got = 0)
        BY <1>1, FailedProperties
      <4> HIDE DEF r
      <4> QED BY <3>3, <3>5, <4>1, <4>2 DEF Kept, Quiet, Settled, r
    <3>8. CASE t \in Tests
      BY <3>5, <3>8 DEF Kept
    <3> QED BY <3>1, <3>6, <3>7, <3>8 DEF Frames
  <2> QED BY <1>17, <2>1, <2>2 DEF Arrive
<1>18. ASSUME NEW l \in Links, HandleDisconnect(l)
       PROVE  Kept(t) /\ (Quiet(t) \/ Settled(t))
  <2>1. request'[t] = r \/ request'[t] = Over(r, Failed(r))
    BY <1>18 DEF HandleDisconnect
  <2>2. Failed(r) \in {"error", "broken"} /\ (Failed(r) = "error" => r.got = 0)
    BY <1>1, FailedProperties
  <2> QED BY <1>2, <1>4, <2>1, <2>2
<1>19. ASSUME \/ UNCHANGED vars \/ EditSite \/ OverQuota \/ TakeOver \/ HangUp
              \/ \E l \in Links : Dial(l) \/ Register(l) \/ Attach(l)
              \/ \E u \in Tasks : \/ ReadRequest(u) \/ Headers(u) \/ Chunk(u)
                                 \/ Completes(u) \/ Fails(u) \/ Refuse(u)
       PROVE  request'[t] = r
  BY <1>19 DEF vars, EditSite, OverQuota, Refuse, TakeOver, HangUp, Dial, Register, Attach, ReadRequest,
     Headers, Chunk, Completes, Fails
<1> QED
  BY <1>2, <1>3, <1>11, <1>12, <1>13, <1>14, <1>15, <1>16, <1>17, <1>18, <1>19 DEF Next, Serve

\* Only a frame that arrives changes what was heard of the headers.
LEMMA HeadersSteps ==
    ASSUME TypeInv, [Next]_vars, NEW t \in Tasks, ~Arrive(t)
    PROVE  request'[t].headers = request[t].headers
<1> DEFINE r == request[t]
<1>1. r \in RequestType /\ r.finished = IF r.ended THEN 1 ELSE 0
  BY DEF TypeInv, TypeOK, Once
<1>2. ASSUME NEW u \in Tasks, u # t,
             \/ Ask(u) \/ Prepare(u) \/ Accept(u) \/ Reject(u) \/ Timeout(u)
             \/ Closes(u) \/ Arrive(u)
      PROVE  request'[t] = r
  BY <1>2 DEF Ask, Prepare, Accept, Reject, Timeout, Closes, Arrive, TypeInv, TypeOK
<1>3. ASSUME NEW s \in {"reading", "starting", "started", "rejected", "refused"}
      PROVE  LET q == [r EXCEPT !.step = s]
             IN  /\ q \in RequestType /\ q.finished = IF q.ended THEN 1 ELSE 0
                 /\ q.headers = r.headers
  BY <1>1 DEF RequestType
<1>4. ASSUME Ask(t) \/ Accept(t) PROVE request'[t].headers = r.headers
  <2>1. \/ request'[t] = [r EXCEPT !.step = "reading"]
        \/ request'[t] = [r EXCEPT !.step = "started"]
    BY <1>4 DEF Ask, Accept, TypeInv, TypeOK
  <2> QED BY <1>3, <2>1
<1>5. ASSUME Prepare(t) PROVE request'[t].headers = r.headers
  <2> DEFINE q == [r EXCEPT !.step = "refused"]
             s == [r EXCEPT !.step = "starting"]
  <2>1. request'[t] = Answered(q, "error") \/ request'[t] = s
    BY <1>5 DEF Prepare, TypeInv, TypeOK
  <2>2. q \in RequestType /\ q.headers = r.headers /\ s.headers = r.headers
    BY <1>3
  <2> HIDE DEF q, s
  <2> QED BY <2>1, <2>2, AnsweredProperties
<1>6. ASSUME Reject(t) PROVE request'[t].headers = r.headers
  <2> DEFINE q == [r EXCEPT !.step = "rejected"]
  <2>1. request'[t] = Over(q, "error") \/ request'[t] = Answered(q, "error")
    BY <1>6 DEF Reject, TypeInv, TypeOK
  <2>2. q \in RequestType /\ q.headers = r.headers /\ q.finished = IF q.ended THEN 1 ELSE 0
    BY <1>3
  <2> HIDE DEF q
  <2> QED BY <2>1, <2>2, AnsweredProperties, OverProperties
<1>7. ASSUME Timeout(t) PROVE request'[t].headers = r.headers
  <2>1. request'[t] = Over(r, "broken") \/ request'[t] = Over(r, "error")
    BY <1>7 DEF Timeout, TypeInv, TypeOK
  <2> QED BY <1>1, <2>1, OverProperties
<1>8. ASSUME Closes(t) PROVE request'[t].headers = r.headers
  <2> DEFINE q == [r EXCEPT !.closed = TRUE]
  <2>1. q \in RequestType /\ q.headers = r.headers /\ q.finished = IF q.ended THEN 1 ELSE 0
    BY <1>1 DEF RequestType
  <2>2. request'[t] = q \/ request'[t] = Over(q, "broken")
    BY <1>8 DEF Closes, TypeInv, TypeOK
  <2> HIDE DEF q
  <2> QED BY <2>1, <2>2, OverProperties
<1>9. ASSUME NEW l \in Links, HandleDisconnect(l) PROVE request'[t].headers = r.headers
  <2>1. request'[t] = r \/ request'[t] = Over(r, Failed(r))
    BY <1>9 DEF HandleDisconnect
  <2>2. Failed(r) \in {"error", "broken"}
    BY <1>1, FailedProperties
  <2> QED BY <1>1, <2>1, <2>2, OverProperties
<1>10. ASSUME \/ UNCHANGED vars \/ EditSite \/ OverQuota \/ TakeOver \/ HangUp
              \/ \E l \in Links : Dial(l) \/ Register(l) \/ Attach(l)
              \/ \E u \in Tasks : \/ ReadRequest(u) \/ Headers(u) \/ Chunk(u)
                                 \/ Completes(u) \/ Fails(u) \/ Refuse(u)
       PROVE  request'[t] = r
  BY <1>10 DEF vars, EditSite, OverQuota, Refuse, TakeOver, HangUp, Dial, Register, Attach,
     ReadRequest, Headers, Chunk, Completes, Fails
<1> QED
  BY <1>2, <1>4, <1>5, <1>6, <1>7, <1>8, <1>9, <1>10 DEF Next, Serve

-----------------------------------------------------------------------------
\* Only a dialled connection becomes the current one, and none is dialled again.
LEMMA LinkSteps ==
    ASSUME TypeInv, Asked, [Next]_vars, NEW l \in Links
    PROVE  /\ link[l].stage \notin {"unused", "dialled"} =>
                 /\ link'[l].stage \notin {"unused", "dialled"}
                 /\ socket' = l => socket = l
           /\ \/ link'[l].asked \subseteq link[l].asked
              \/ \E t \in Tasks :
                    /\ Accept(t) /\ socket = l
                    /\ link'[l].asked = link[l].asked \cup {t}
           /\ socket' = l => link'[l].stage \notin {"unused", "dialled"}
<1>1. \A k \in Links : link[k] \in LinkType
  BY DEF TypeInv, TypeOK
<1>2. socket = l => link[l].stage \notin {"unused", "dialled"}
  BY MirrorAssumption DEF Asked
<1>3. ASSUME link'[l] = link[l], socket' = socket \/ socket' = NoLink
      PROVE  /\ link'[l].stage \notin {"unused", "dialled"} \/ link'[l].stage = link[l].stage
             /\ link'[l].asked \subseteq link[l].asked
             /\ socket' = l => socket = l /\ link'[l].stage \notin {"unused", "dialled"}
  BY <1>2, <1>3, MirrorAssumption
<1>4. ASSUME NEW t \in Tasks, Accept(t)
      PROVE  /\ link'[l].stage = link[l].stage /\ socket' = socket
             /\ \/ link'[l].asked = link[l].asked
                \/ socket = l /\ link'[l].asked = link[l].asked \cup {t}
  BY <1>1, <1>4 DEF Accept, TypeInv, TypeOK, LinkType
<1>5. ASSUME NEW k \in Links, Dial(k)
      PROVE  /\ link'[l].asked = link[l].asked /\ socket' = socket
             /\ k # l => link'[l] = link[l]
             /\ k = l => link[l].stage = "unused"
  BY <1>1, <1>5 DEF Dial, TypeInv, TypeOK, LinkType
<1>6. ASSUME NEW k \in Links, Register(k)
      PROVE  /\ link'[l].asked = link[l].asked /\ socket' = k
             /\ k # l => link'[l].stage = link[l].stage
             /\ k = l => link[l].stage = "dialled" /\ link'[l].stage = "registered"
  BY <1>1, <1>6 DEF Register, TypeInv, TypeOK, LinkType
<1>7. ASSUME NEW k \in Links, Attach(k)
      PROVE  /\ link'[l].asked = link[l].asked /\ socket' = socket
             /\ \/ link'[l].stage = link[l].stage
                \/ link'[l].stage = "attached"
  BY <1>1, <1>7 DEF Attach, TypeInv, TypeOK, LinkType
<1>8. ASSUME TakeOver \/ HangUp \/ (\E t \in Tasks : ReadRequest(t))
      PROVE  /\ link'[l].stage = link[l].stage /\ link'[l].asked \subseteq link[l].asked
             /\ socket' = socket \/ socket' = NoLink
  BY <1>1, <1>8 DEF TakeOver, HangUp, ReadRequest, TypeInv, TypeOK, LinkType
<1>9. ASSUME \/ UNCHANGED vars \/ EditSite
             \/ \E t \in Tasks :
                   \/ Ask(t) \/ Prepare(t) \/ Reject(t) \/ Timeout(t) \/ Closes(t)
                   \/ Arrive(t) \/ Headers(t) \/ Chunk(t) \/ Completes(t) \/ Fails(t)
      PROVE  link' = link /\ (socket' = socket \/ socket' = NoLink)
  BY <1>9 DEF vars, EditSite, Ask, Prepare, Reject, Timeout, Closes,
     Arrive, Headers, Chunk, Completes, Fails
<1>10. NoLink # l
  BY MirrorAssumption
<1>11. ASSUME OverQuota \/ (\E t \in Tasks : Refuse(t)) \/ (\E k \in Links : HandleDisconnect(k))
       PROVE  /\ link'[l].stage = link[l].stage \/ link'[l].stage = "closing"
              /\ link'[l].asked = link[l].asked
              /\ socket' = socket \/ socket' = NoLink
              /\ link'[l].stage # link[l].stage => socket = l
  <2>1. link \in [Links -> LinkType]
    BY DEF TypeInv, TypeOK
  <2>2. ASSUME OverQuota \/ (\E t \in Tasks : Refuse(t))
        PROVE  link' = [link EXCEPT ![socket].stage = "closing"] /\ socket' = socket
    BY <2>2 DEF OverQuota, Refuse
  <2>3. ASSUME NEW k \in Links, HandleDisconnect(k)
        PROVE  link' = [link EXCEPT ![k].open = FALSE] /\ socket' = NoLink
    BY <2>3 DEF HandleDisconnect
  <2>4. CASE OverQuota \/ (\E t \in Tasks : Refuse(t))
    BY <1>1, <2>1, <2>2, <2>4 DEF LinkType
  <2>5. ASSUME NEW k \in Links, HandleDisconnect(k)
        PROVE  link'[l].stage = link[l].stage /\ link'[l].asked = link[l].asked
    BY <1>1, <2>1, <2>3, <2>5 DEF LinkType
  <2> QED BY <1>11, <2>2, <2>3, <2>4, <2>5
<1> QED
  BY <1>2, <1>3, <1>4, <1>5, <1>6, <1>7, <1>8, <1>9, <1>10, <1>11 DEF Next, Serve

\* A task without a job gets one only by the request that asks for it.
LEMMA NoJobSteps ==
    ASSUME TypeInv, Asked, [Next]_vars, NEW t \in Tasks
    PROVE  /\ job'[t] = NoJob => job[t] = NoJob
           /\ job[t] = NoJob =>
                 job'[t] = NoJob \/ ((\E u \in Tasks : ReadRequest(u)) /\ Began(t))
           /\ job[t] # NoJob => job'[t].link = job[t].link /\ job[t].link \in Links
<1>1. job[t] \in JobType
  BY DEF TypeInv, TypeOK
<1>2. job[t].frames \in Seq(Frames) /\ job[t].read \in Nat
  BY <1>1 DEF JobType, Frames
<1>3. NoJob.step = "none" /\ NoJob.read = 0 /\ NoJob.link = NoLink /\ Len(NoJob.frames) = 0
  BY EmptySeq DEF NoJob
<1>4. job[t] # NoJob => job[t].step # "none" /\ job[t].link \in Links
  BY DEF Asked
<1>5. ASSUME Wrote(t)
      PROVE  job'[t].step # "none" /\ job'[t].link = job[t].link /\ job[t].step # "none"
  BY <1>1, <1>5 DEF Wrote, JobType
<1>6. ASSUME Stopped(t)
      PROVE  job'[t].step # "none" /\ job'[t].link = job[t].link /\ job[t].step # "none"
  BY <1>1, <1>6 DEF Stopped, JobType
<1>7. ASSUME Began(t) PROVE job[t] = NoJob /\ job'[t].step = "running"
  BY <1>7 DEF Began, Asked, NoJob
<1>8. ASSUME Took(t)
      PROVE  job'[t].link = job[t].link /\ job[t] # NoJob /\ job'[t].read # 0
  BY <1>1, <1>2, <1>3, <1>8 DEF Took, JobType
<1>9. ASSUME Refused(t)
      PROVE  job'[t].link = job[t].link /\ job[t] # NoJob /\ job'[t].read # 0
  BY <1>1, <1>2, <1>3, <1>9 DEF Refused, JobType
<1> QED BY <1>3, <1>4, <1>5, <1>6, <1>7, <1>8, <1>9, JobSteps

LEMMA AskedStep ==
    TypeInv /\ SessionsAreWanted /\ Asked /\ [Next]_vars => Asked'
<1> SUFFICES ASSUME TypeInv, SessionsAreWanted, Asked, [Next]_vars PROVE Asked'
  OBVIOUS
<1>1. TypeInv'
  BY TypeStep
<1>2. socket' # NoLink => link'[socket'].stage \notin {"unused", "dialled"}
  BY <1>1, LinkSteps DEF TypeInv, TypeOK
<1>3. ASSUME NEW t \in Tasks, Accept(t)
      PROVE  /\ request[t].step = "starting" /\ request'[t].step = "started"
             /\ job' = job /\ job[t] = NoJob
             /\ \A l \in Links : t \notin link[l].asked
  <2>1. request'[t] = [request[t] EXCEPT !.step = "started"]
    BY <1>3 DEF Accept, TypeInv, TypeOK
  <2> QED BY <1>3, <2>1 DEF Accept, Asked, TypeInv, TypeOK, RequestType
<1>4. ASSUME NEW t \in Tasks PROVE request[t].step = "started" => request'[t].step = "started"
  BY RequestSteps DEF Kept
<1>5. ASSUME NEW t \in Tasks, ReadRequest(t)
      PROVE  /\ agent \in Links /\ t \in link[agent].asked
             /\ t \notin link'[agent].asked
             /\ \A u \in Tasks : u # t => job'[u] = job[u]
             /\ \A l \in Links : l # agent => link'[l] = link[l]
  BY <1>5 DEF ReadRequest, TypeInv, TypeOK, LinkType
<1>6. ASSUME NEW l \in Links, NEW t \in Tasks, t \in link'[l].asked
      PROVE  /\ request'[t].step = "started" /\ job'[t] = NoJob
             /\ link'[l].stage \notin {"unused", "dialled"}
             /\ \A k \in Links : t \in link'[k].asked => k = l
  <2>1. CASE t \in link[l].asked
    <3>1. request[t].step = "started" /\ job[t] = NoJob
      BY <2>1 DEF Asked
    <3>2. link'[l].stage \notin {"unused", "dialled"}
      BY <2>1, LinkSteps DEF Asked
    <3>3. \A k \in Links : t \in link'[k].asked => k = l
      BY <1>3, <2>1, LinkSteps DEF Asked
    <3>4. job'[t] = NoJob
      <4>1. ASSUME NEW u \in Tasks, ReadRequest(u), Began(t) PROVE FALSE
        <5>1. job'[t] # job[t]
          <6>1. job[t].step = "none" /\ job'[t].step = "running"
            BY <3>1, <4>1 DEF Began, NoJob
          <6> QED BY <6>1
        <5>2. u = t
          BY <1>5, <4>1, <5>1
        <5>3. agent = l
          BY <1>5, <2>1, <4>1, <5>2 DEF Asked
        <5> QED BY <1>5, <1>6, <4>1, <5>2, <5>3
      <4> QED BY <3>1, <4>1, NoJobSteps
    <3> QED BY <1>4, <3>1, <3>2, <3>3, <3>4
  <2>2. CASE t \notin link[l].asked
    <3>1. Accept(t) /\ socket = l
      BY <1>6, <2>2, LinkSteps
    <3>2. \A k \in Links : t \in link'[k].asked => k = l
      BY <1>3, <3>1, LinkSteps
    <3>3. link'[l].stage \notin {"unused", "dialled"}
      BY <3>1, LinkSteps, MirrorAssumption DEF Asked
    <3> QED BY <1>3, <3>1, <3>2, <3>3
  <2> QED BY <2>1, <2>2
<1>7. ASSUME NEW t \in Tasks, job'[t] # NoJob
      PROVE  /\ request'[t].step = "started"
             /\ job'[t].step # "none"
             /\ job'[t].link \in Links
             /\ link'[job'[t].link].stage \notin {"unused", "dialled"}
             /\ \A k \in Links : t \notin link'[k].asked
  <2>1. \A k \in Links : t \notin link'[k].asked
    BY <1>6, <1>7
  <2>2. CASE job[t] # NoJob
    <3>1. /\ request[t].step = "started" /\ job[t].link \in Links
          /\ link[job[t].link].stage \notin {"unused", "dialled"} /\ job[t].step # "none"
      BY <2>2 DEF Asked
    <3>2. job'[t].link = job[t].link
      BY <2>2, NoJobSteps
    <3>3. job'[t].step # "none"
      <4>1. job[t] \in JobType
        BY DEF TypeInv, TypeOK
      <4>2. Wrote(t) => job'[t].step # "none"
        BY <4>1 DEF Wrote, JobType
      <4>3. Stopped(t) => job'[t].step # "none"
        BY <4>1 DEF Stopped, JobType
      <4>4. Began(t) => job'[t].step # "none"
        BY DEF Began, NoJob
      <4>5. Took(t) => job'[t].step # "none"
        BY <3>1, <4>1 DEF Took, JobType
      <4>6. Refused(t) => job'[t].step # "none"
        BY <3>1, <4>1 DEF Refused, JobType
      <4> QED BY <3>1, <4>2, <4>3, <4>4, <4>5, <4>6, JobSteps
    <3> QED BY <1>4, <2>1, <3>1, <3>2, <3>3, LinkSteps
  <2>3. CASE job[t] = NoJob
    <3>1. Began(t)
      BY <1>7, <2>3, NoJobSteps
    <3>2. agent \in Links /\ t \in link[agent].asked
      BY <3>1 DEF Began
    <3>3. job'[t].step = "running" /\ job'[t].link = agent
      BY <3>1 DEF Began, NoJob
    <3>4. request[t].step = "started" /\ link[agent].stage \notin {"unused", "dialled"}
      BY <3>2 DEF Asked
    <3> QED BY <1>4, <2>1, <3>2, <3>3, <3>4, LinkSteps
  <2> QED BY <2>2, <2>3
<1> QED BY <1>2, <1>6, <1>7 DEF Asked

-----------------------------------------------------------------------------
LEMMA FramedStep == TypeInv /\ Asked /\ Framed /\ [Next]_vars => Framed'
<1> SUFFICES ASSUME TypeInv, Asked, Framed, [Next]_vars, NEW t \in Tasks
             PROVE  FramedBy(job'[t])
  BY DEF Framed
<1>1. job[t] \in JobType /\ FramedBy(job[t])
  BY DEF TypeInv, TypeOK, Framed
<1>2. job[t].frames \in Seq(Frames) /\ job[t].read \in Nat
  BY <1>1 DEF JobType, Frames
<1>3. ASSUME Wrote(t) PROVE FramedBy(job'[t])
  <2>1. PICK f \in Frames, s \in {"streaming", "done"} :
           /\ \/ job[t].step = "running" /\ f \in {"headers", "error"}
              \/ job[t].step = "streaming" /\ f # "headers"
           /\ f \in {"end", "error"} <=> s = "done"
           /\ job'[t] = [job[t] EXCEPT !.step = s, !.frames = Append(job[t].frames, f)]
    BY <1>3 DEF Wrote
  <2>2. FramedBy([job[t] EXCEPT !.step = s, !.frames = Append(job[t].frames, f)])
    BY <1>1, <2>1, WriteFrame
  <2> QED BY <2>1, <2>2
<1>4. ASSUME Stopped(t) PROVE FramedBy(job'[t])
  <2>1. /\ job'[t].frames = job[t].frames /\ job'[t].read = job[t].read
        /\ job'[t].step = "done"
    BY <1>1, <1>4 DEF Stopped, JobType
  <2> QED BY <1>1, <2>1 DEF FramedBy
<1>5. ASSUME Began(t) PROVE FramedBy(job'[t])
  <2>1. job'[t].frames = <<>> /\ job'[t].read = 0 /\ job'[t].step = "running"
    BY <1>5 DEF Began, NoJob
  <2>2. Len(<<>>) = 0
    BY EmptySeq
  <2> QED BY <2>1, <2>2 DEF FramedBy
<1>6. ASSUME Took(t) \/ Refused(t) PROVE FramedBy(job'[t])
  <2>1. /\ job'[t].frames = job[t].frames /\ job'[t].read = job[t].read + 1
        /\ job'[t].step = job[t].step
    BY <1>1, <1>6 DEF Took, Refused, JobType
  <2>2. job'[t].read <= Len(job'[t].frames)
    BY <1>2, <1>6, <2>1, LenProperties DEF Took, Refused
  <2> QED BY <1>1, <2>1, <2>2 DEF FramedBy
<1> QED BY <1>1, <1>3, <1>4, <1>5, <1>6, JobSteps

\* A session can only begin with the start of its request.
LEMMA NewSession ==
    ASSUME TypeInv, [Next]_vars, NEW t \in Tasks, t \in sessions'
    PROVE  t \in sessions \/ Accept(t)
<1>1. ASSUME NEW u \in Tasks, Accept(u) PROVE t \in sessions \/ u = t
  BY <1>1 DEF Accept, Opened
<1>2. ASSUME NEW u \in Tasks, Timeout(u) \/ Closes(u) \/ Arrive(u) PROVE t \in sessions
  BY <1>2 DEF Timeout, Closes, Arrive, Freed
<1>3. ASSUME \/ UNCHANGED vars \/ EditSite \/ OverQuota \/ TakeOver \/ HangUp
             \/ \E l \in Links : Dial(l) \/ Register(l) \/ Attach(l) \/ HandleDisconnect(l)
             \/ \E u \in Tasks : \/ Ask(u) \/ Prepare(u) \/ Reject(u) \/ ReadRequest(u)
                                \/ Headers(u) \/ Chunk(u) \/ Completes(u) \/ Fails(u)
                                \/ Refuse(u)
      PROVE  t \in sessions
  BY <1>3 DEF vars, EditSite, OverQuota, Refuse, TakeOver, HangUp, Dial, Register, Attach, HandleDisconnect,
     Ask, Prepare, Reject, ReadRequest, Headers, Chunk, Completes, Fails
<1> QED BY <1>1, <1>2, <1>3 DEF Next, Serve

\* A frame that is heeded comes after those that were given and those that were
\* refused; an end is the last.
LEMMA HeededFrame ==
    ASSUME TypeInv, Asked, Framed, Caught, NEW t \in Tasks \ Tests, NEW f, Heeded(t, f)
    PROVE  /\ job[t] # NoJob
           /\ job[t].read + 1 \in 1 .. Len(job[t].frames)
           /\ Given(request[t]) + job[t].lost = job[t].read
           /\ f = "headers" => job[t].read = 0
           /\ f = "end" =>
                 /\ job[t].step = "done" /\ Len(job[t].frames) = job[t].read + 1
<1>1. /\ t \in sessions /\ socket = job[t].link /\ ~request[t].closed
      /\ job[t].read < Len(job[t].frames) /\ job[t].frames[job[t].read + 1] = f
  BY DEF Heeded, Arrive
<1>2. job[t].read + 1 \in 1 .. Len(job[t].frames) /\ job[t].read \in Nat
  BY <1>1, NextFrame DEF TypeInv, TypeOK, JobType
<1>3. job[t] # NoJob
  BY <1>2, EmptySeq DEF NoJob
<1>4. FramedBy(job[t])
  BY DEF Framed
<1> QED BY <1>1, <1>2, <1>3, <1>4 DEF FramedBy, Caught

LEMMA CaughtStep ==
    TypeInv /\ SessionsAreWanted /\ Asked /\ Framed /\ Caught /\ [Next]_vars => Caught'
<1> SUFFICES ASSUME TypeInv, SessionsAreWanted, Asked, Framed, Caught, [Next]_vars,
                    NEW t \in Tasks \ Tests
             PROVE  /\ job'[t] = NoJob => request'[t].got = 0 /\ ~request'[t].headers
                    /\ t \in sessions' /\ socket' = job'[t].link /\ ~request'[t].closed =>
                          Given(request'[t]) + job'[t].lost = job'[t].read
  BY DEF Caught, Given
<1>1. /\ job[t] \in JobType /\ job[t].read \in Nat /\ job[t].lost \in Nat /\ t \in Tasks
      /\ t \notin Tests /\ request[t].got \in Nat
  BY DEF TypeInv, TypeOK, JobType, RequestType
<1>2. ~Arrive(t) =>
         /\ request'[t].got = request[t].got
         /\ request'[t].headers = request[t].headers
         /\ Given(request'[t]) = Given(request[t])
  BY <1>1, RequestSteps, HeadersSteps DEF Quiet, Gained, Settled, Heeded, Given
<1>3. request[t].closed => request'[t].closed
  BY <1>1, RequestSteps DEF Kept
<1>4. job[t] = NoJob => ~Arrive(t)
  BY EmptySeq DEF Arrive, NoJob
<1>5. CASE job[t] = NoJob
  <2>1. request'[t].got = 0 /\ ~request'[t].headers /\ Given(request'[t]) = 0
    BY <1>2, <1>4, <1>5 DEF Caught, Given
  <2>2. job'[t].read = 0 /\ job'[t].lost = 0
    <3>1. CASE job'[t] = NoJob
      BY <3>1 DEF NoJob
    <3>2. CASE Began(t)
      BY <3>2 DEF Began, NoJob
    <3> QED BY <1>1, <1>5, <3>1, <3>2, NoJobSteps
  <2> QED BY <2>1, <2>2
<1>6. CASE job[t] # NoJob
  <2>1. /\ job'[t] # NoJob /\ job'[t].link = job[t].link /\ job[t].link \in Links
        /\ request[t].step = "started" /\ link[job[t].link].stage \notin {"unused", "dialled"}
    BY <1>1, <1>6, NoJobSteps DEF Asked
  <2>2. SUFFICES ASSUME t \in sessions', socket' = job'[t].link, ~request'[t].closed
                 PROVE  Given(request'[t]) + job'[t].lost = job'[t].read
    BY <2>1
  <2>3. t \in sessions
    BY <1>1, <2>1, <2>2, NewSession DEF Accept
  <2>4. socket = job[t].link
    BY <2>1, <2>2, LinkSteps
  <2>5. ~request[t].closed
    BY <1>3, <2>2
  <2>6. Given(request[t]) + job[t].lost = job[t].read
    BY <2>3, <2>4, <2>5 DEF Caught
  <2>7. CASE ~Arrive(t)
    <3>1. Wrote(t) => job'[t].read = job[t].read /\ job'[t].lost = job[t].lost
      BY <1>1 DEF Wrote, JobType
    <3>2. Stopped(t) => job'[t].read = job[t].read /\ job'[t].lost = job[t].lost
      BY <1>1 DEF Stopped, JobType
    <3>3. ~Began(t)
      BY <1>6 DEF Began, Asked
    <3>4. Refused(t) => job'[t].read = job[t].read + 1 /\ job'[t].lost = job[t].lost + 1
      BY <1>1 DEF Refused, JobType
    <3>5. \/ job'[t].read = job[t].read /\ job'[t].lost = job[t].lost
          \/ job'[t].read = job[t].read + 1 /\ job'[t].lost = job[t].lost + 1
      BY <1>1, <2>7, <3>1, <3>2, <3>3, <3>4, JobSteps
    <3>6. Given(request[t]) \in Nat
      BY <1>1 DEF Given
    <3> QED BY <1>1, <1>2, <2>6, <2>7, <3>5, <3>6
  <2>8. CASE Arrive(t)
    <3> DEFINE f == job[t].frames[job[t].read + 1]
    <3>1. f \in Frames
      BY <1>1, <2>8, NextFrame DEF Arrive, TypeInv
    <3>2. Heeded(t, f)
      BY <2>4, <2>5, <2>8 DEF Heeded
    <3>3. /\ request'[t] = Heard(t, f)
          /\ sessions' = IF Heard(t, f).ended THEN sessions \ {t} ELSE sessions
          /\ job'[t].read = job[t].read + 1 /\ job'[t].lost = job[t].lost
      BY <1>1, <2>4, <2>8 DEF Arrive, TypeInv, TypeOK, JobType
    <3> HIDE DEF f
    <3>4. f \in {"headers", "chunk"}
      BY <1>1, <2>2, <3>1, <3>3, HeardProperties DEF Frames
    <3>5. /\ request'[t].got = IF f = "chunk" THEN request[t].got + 1 ELSE request[t].got
          /\ request'[t].headers = (f = "headers" \/ request[t].headers)
      BY <1>1, <2>5, <3>1, <3>3, <3>4, HeardProperties
    <3>6. f = "headers" => ~request[t].headers
      <4>1. f = "headers" => job[t].read = 0
        BY <3>2, HeededFrame
      <4>2. CASE request[t].headers
        <5>1. Given(request[t]) = request[t].got + 1
          BY <4>2 DEF Given
        <5> QED BY <1>1, <2>6, <4>1, <5>1
      <4> QED BY <4>2
    <3>7. Given(request'[t]) = Given(request[t]) + 1
      <4>1. CASE f = "headers"
        <5>1. request'[t].got = request[t].got /\ request'[t].headers /\ ~request[t].headers
          BY <3>5, <3>6, <4>1
        <5> QED BY <1>1, <5>1 DEF Given
      <4>2. CASE f = "chunk"
        <5>1. request'[t].got = request[t].got + 1 /\ (request'[t].headers <=> request[t].headers)
          BY <3>5, <4>2
        <5>2. CASE request[t].headers
          BY <1>1, <5>1, <5>2 DEF Given
        <5>3. CASE ~request[t].headers
          BY <1>1, <5>1, <5>3 DEF Given
        <5> QED BY <5>2, <5>3
      <4> QED BY <3>4, <4>1, <4>2
    <3>8. Given(request[t]) \in Nat
      BY <1>1 DEF Given
    <3> QED BY <1>1, <2>6, <3>3, <3>7, <3>8
  <2> QED BY <2>7, <2>8
<1> QED BY <1>5, <1>6

LEMMA AnswersStep ==
    TypeInv /\ SessionsAreWanted /\ Answers /\ [Next]_vars => Answers'
<1> SUFFICES ASSUME TypeInv, SessionsAreWanted, Answers, [Next]_vars, NEW t \in Tasks \ Tests
             PROVE  /\ request'[t].answer # "open" =>
                          request'[t].ended \/ request'[t].step \in {"rejected", "refused"}
                    /\ request'[t].answer = "complete" => request'[t].ended
  BY DEF Answers
<1>1. Kept(t) /\ (Quiet(t) \/ Gained(t) \/ Settled(t))
  BY RequestSteps
<1> QED BY <1>1 DEF Kept, Quiet, Gained, Settled, Answers

WholeInv ==
    /\ TypeInv /\ SessionsAreWanted /\ Asked /\ Framed /\ Caught /\ Answers
    /\ AnswersAreWhole

LEMMA WholeInit == Init => WholeInv
<1> SUFFICES ASSUME Init PROVE WholeInv
  OBVIOUS
<1>1. \A t \in Tasks : request[t] = NoRequest /\ job[t] = NoJob
  BY DEF Init
<1>2. TypeInv /\ SessionsAreWanted
  BY TypeInit DEF Init, SessionsAreWanted
<1>3. Asked
  BY <1>1 DEF Init, Asked, NoConnection
<1>4. Framed
  <2>1. Len(<<>>) = 0
    BY EmptySeq
  <2>2. NoJob.step = "none" /\ NoJob.frames = <<>> /\ NoJob.read = 0
    BY DEF NoJob
  <2>3. FramedBy(NoJob)
    BY <2>1, <2>2 DEF FramedBy
  <2> QED BY <1>1, <2>3 DEF Framed
<1>5. Caught /\ Answers
  <2>1. NoRequest.answer = "open" /\ NoRequest.got = 0 /\ ~NoRequest.headers /\ sessions = {}
    BY DEF Init, NoRequest
  <2> QED BY <1>1, <2>1 DEF Caught, Answers
<1>6. AnswersAreWhole
  <2>1. NoRequest.answer = "open"
    BY DEF NoRequest
  <2> QED BY <1>1, <2>1 DEF AnswersAreWhole
<1> QED BY <1>2, <1>3, <1>4, <1>5, <1>6 DEF WholeInv

LEMMA WholeStep == WholeInv /\ [Next]_vars => AnswersAreWhole'
<1> SUFFICES ASSUME WholeInv, [Next]_vars, NEW t \in Tasks \ Tests
             PROVE  LET f == job'[t].frames
                    IN /\ request'[t].answer = "complete" =>
                             /\ f # <<>> /\ f[Len(f)] = "end"
                             /\ Given(request'[t]) + job'[t].lost = Len(f) - 1
                       /\ request'[t].answer = "error" => request'[t].got = 0
  BY DEF AnswersAreWhole, Given
<1>1. Kept(t) /\ (Quiet(t) \/ Gained(t) \/ Settled(t))
  BY RequestSteps DEF WholeInv
<1>2. job[t] \in JobType /\ FramedBy(job[t]) /\ t \in Tasks
  BY DEF WholeInv, TypeInv, TypeOK, Framed
<1>3. ASSUME Heeded(t, "chunk") PROVE request[t].answer = "open"
  <2>1. request[t].step = "started" /\ ~request[t].ended
    BY <1>3 DEF Heeded, Arrive, WholeInv, SessionsAreWanted
  <2> QED BY <1>2, <2>1 DEF WholeInv, Answers
<1>4. CASE request'[t].answer = "complete"
  <2>1. CASE request[t].answer = "complete"
    <3>1. Given(request'[t]) = Given(request[t]) /\ t \notin sessions
      <4>1. request'[t].got = request[t].got
        BY <1>1, <1>3, <2>1 DEF Quiet, Gained, Settled
      <4>2. t \notin sessions
        BY <2>1 DEF WholeInv, Answers, SessionsAreWanted
      <4>3. request'[t].headers = request[t].headers
        BY <1>2, <4>2, HeadersSteps DEF Arrive, WholeInv
      <4> QED BY <4>1, <4>2, <4>3 DEF Given
    <3>2. /\ job[t].frames # <<>> /\ job[t].frames[Len(job[t].frames)] = "end"
          /\ Given(request[t]) + job[t].lost = Len(job[t].frames) - 1
      BY <2>1 DEF WholeInv, AnswersAreWhole
    <3>3. job[t].step = "done" /\ job[t] # NoJob
      <4>1. Len(job[t].frames) \in 1 .. Len(job[t].frames)
        BY <1>2, <3>2, EmptySeq, LenProperties DEF JobType
      <4> QED BY <1>2, <3>2, <4>1 DEF FramedBy, NoJob
    <3>4. job'[t].frames = job[t].frames /\ job'[t].lost = job[t].lost
      <4>1. ~Wrote(t)
        BY <3>3 DEF Wrote
      <4>2. ~Began(t)
        BY <1>2, <3>3 DEF Began, WholeInv, Asked
      <4>3. Stopped(t) => job'[t].frames = job[t].frames /\ job'[t].lost = job[t].lost
        BY <1>2 DEF Stopped, JobType
      <4>4. ~Took(t) /\ ~Refused(t)
        BY <3>1 DEF Took, Refused
      <4> QED BY <1>2, <4>1, <4>2, <4>3, <4>4, JobSteps DEF WholeInv
    <3> QED BY <1>4, <3>1, <3>2, <3>4
  <2>2. CASE request[t].answer # "complete"
    <3>1. Settled(t) /\ Heeded(t, "end")
      BY <1>1, <1>4, <2>2 DEF Quiet, Gained, Settled
    <3>2. /\ job[t].read + 1 \in 1 .. Len(job[t].frames)
          /\ Given(request[t]) + job[t].lost = job[t].read
          /\ Len(job[t].frames) = job[t].read + 1
      BY <3>1, HeededFrame DEF WholeInv
    <3>3. /\ job'[t].frames = job[t].frames /\ job'[t].lost = job[t].lost
          /\ job[t].frames[job[t].read + 1] = "end"
      BY <1>2, <3>1 DEF Heeded, Arrive, WholeInv, TypeInv, TypeOK, JobType
    <3>4. Given(request'[t]) = Given(request[t])
      <4>1. request'[t] = Heard(t, "end")
        BY <1>2, <3>1, <3>3 DEF Heeded, Arrive, WholeInv, TypeInv, TypeOK
      <4>2. request'[t].got = request[t].got /\ request'[t].headers = request[t].headers
        BY <1>2, <4>1, HeardProperties DEF WholeInv, Frames
      <4> QED BY <4>2 DEF Given
    <3>5. job[t].read \in Nat /\ job[t].frames # <<>>
      BY <1>2, <3>2, EmptySeq DEF JobType
    <3> QED BY <1>4, <3>2, <3>3, <3>4, <3>5
  <2> QED BY <2>1, <2>2
<1>5. CASE request'[t].answer = "error"
  <2>1. CASE request[t].answer = "error"
    BY <1>1, <1>3, <2>1 DEF Quiet, Gained, Settled, WholeInv, AnswersAreWhole
  <2>2. CASE request[t].answer # "error"
    <3>1. /\ request'[t].got = request[t].got
          /\ request[t].got = 0 \/ request[t].step \in {"reading", "starting"}
      BY <1>1, <1>5, <2>2 DEF Quiet, Gained, Settled
    <3>2. request[t].step # "started" => request[t].got = 0
      BY <1>2 DEF WholeInv, Asked, Caught
    <3> QED BY <1>5, <3>1, <3>2
  <2> QED BY <2>1, <2>2
<1> QED BY <1>4, <1>5

\* Whatever connections are replaced under it: a client that is told its response is
\* complete has every frame that was not refused for the connection's quota, and one
\* that is told of an error has no chunk.
THEOREM AnswersStayWhole == Spec => []AnswersAreWhole
<1>1. WholeInv /\ [Next]_vars => WholeInv'
  BY TypeStep, WantedStep, AskedStep, FramedStep, CaughtStep, AnswersStep, WholeStep
     DEF WholeInv
<1>2. WholeInv => AnswersAreWhole
  BY DEF WholeInv
<1> QED BY WholeInit, <1>1, <1>2, PTL DEF Spec

=============================================================================
