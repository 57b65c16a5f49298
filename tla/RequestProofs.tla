---------------------------- MODULE RequestProofs ----------------------------
(***************************************************************************)
(* What holds of a request whatever its reply and however many addresses   *)
(* its host has: the hand-over of the resolver's job, the interest in the  *)
(* socket, what the parsers count, and what success means.                 *)
(***************************************************************************)
EXTENDS LlmRequest, FiniteSetTheorems, TLAPS

States == {"resolving", "connecting", "handshake", "established", "closed"}

Conn == [state: States, interest: SUBSET {"read", "write"}, addresses: Nat,
         queued: Nat, readNeedsWrite: BOOLEAN, writeNeedsRead: BOOLEAN]
Job  == [abandoned: BOOLEAN, finished: BOOLEAN, found: Nat, byte: BOOLEAN,
         freed: Nat]

(* Whose the job is, in the terms of its two owners: the connection has it  *)
(* while it is resolving, the thread until it is gone.                      *)
Handover ==
    /\ conn.state = "resolving" => ~job.abandoned /\ job.freed = 0
    /\ thread = "resolving" =>
          ~job.finished /\ job.freed = 0 /\ (conn.state = "resolving" \/ job.abandoned)
    /\ thread = "notifying" => job.finished /\ conn.state = "resolving"
    /\ thread = "freeing" => job.abandoned /\ job.freed = 0
    /\ thread = "gone" =>
          IF conn.state = "resolving" THEN job.finished ELSE job.freed = 1

(* The interest of a connection is what its queue and TLS ask for.          *)
Settled(c) ==
    /\ "read" \in c.interest
    /\ "write" \in c.interest <=>
          \/ c.readNeedsWrite
          \/ c.queued > 0 /\ ~c.writeNeedsRead

IInv ==
    /\ conn \in Conn /\ job \in Job
    /\ thread \in {"resolving", "notifying", "freeing", "gone"}
    /\ Handover
    /\ NoLostWakeup

-----------------------------------------------------------------------------
(* What the functions of the connection keep of it.                         *)
LEMMA WithInterestSettles ==
    ASSUME NEW c \in Conn
    PROVE  /\ WithInterest(c) \in Conn /\ WithInterest(c).state = c.state
           /\ Settled(WithInterest(c))
  <1> DEFINE wants == IF c.readNeedsWrite \/ (c.queued > 0 /\ ~c.writeNeedsRead)
                      THEN {"read", "write"} ELSE {"read"}
  <1>1. /\ WithInterest(c) = [c EXCEPT !.interest = wants]
        /\ wants \subseteq {"read", "write"} /\ "read" \in wants
        /\ "write" \in wants <=> c.readNeedsWrite \/ (c.queued > 0 /\ ~c.writeNeedsRead)
    BY DEF WithInterest
  <1> HIDE DEF wants
  <1> QED
    BY <1>1 DEF Conn, Settled

LEMMA FlushedToSettles ==
    ASSUME NEW c \in Conn, NEW n \in Nat, NEW w \in BOOLEAN
    PROVE  /\ FlushedTo(c, n, w) \in Conn /\ FlushedTo(c, n, w).state = c.state
           /\ Settled(FlushedTo(c, n, w))
  <1>1. /\ [c EXCEPT !.queued = n, !.writeNeedsRead = w] \in Conn
        /\ [c EXCEPT !.queued = n, !.writeNeedsRead = w].state = c.state
    BY DEF Conn
  <1> QED
    BY <1>1, WithInterestSettles DEF FlushedTo

LEMMA FlushedSettles ==
    ASSUME NEW c \in Conn, NEW d \in Flushed(c)
    PROVE  d \in Conn /\ d.state = c.state /\ Settled(d)
  <1>1. CASE d = FlushedTo(c, 0, c.writeNeedsRead /\ c.queued = 0)
    <2> DEFINE w == c.writeNeedsRead /\ c.queued = 0
    <2>1. w \in BOOLEAN /\ d = FlushedTo(c, 0, w)
      BY <1>1
    <2> HIDE DEF w
    <2> QED
      BY <2>1, FlushedToSettles
  <1>2. ASSUME NEW n \in 1..c.queued,
               d = FlushedTo(c, n, FALSE) \/ d = FlushedTo(c, n, TRUE)
        PROVE  d \in Conn /\ d.state = c.state /\ Settled(d)
    <2>1. n \in Nat /\ TRUE \in BOOLEAN /\ FALSE \in BOOLEAN
      BY DEF Conn
    <2> QED
      BY <1>2, <2>1, FlushedToSettles
  <1> QED
    BY <1>1, <1>2 DEF Flushed

LEMMA AfterFlushSettles ==
    ASSUME NEW c \in Conn, Settled(c), NEW ev, NEW d \in AfterFlush(c, ev)
    PROVE  d \in Conn /\ d.state = c.state /\ Settled(d)
  <1> DEFINE first == IF "read" \in ev /\ c.writeNeedsRead /\ c.queued > 0
                      THEN Flushed(c) ELSE {c}
  <1>1. \A e \in first : e \in Conn /\ e.state = c.state /\ Settled(e)
    BY FlushedSettles
  <1>2. d \in first \/ \E e \in first : d \in Flushed(e)
    BY DEF AfterFlush
  <1> HIDE DEF first
  <1> QED
    BY <1>1, <1>2, FlushedSettles

LEMMA DrainedSettles ==
    ASSUME NEW c \in Conn, NEW d \in Drained(c)
    PROVE  d \in Conn /\ d.state = c.state /\ Settled(d)
  <1>1. PICK w \in BOOLEAN : d = WithInterest([c EXCEPT !.readNeedsWrite = w])
    BY DEF Drained
  <1>2. /\ [c EXCEPT !.readNeedsWrite = w] \in Conn
        /\ [c EXCEPT !.readNeedsWrite = w].state = c.state
    BY DEF Conn
  <1> QED
    BY <1>1, <1>2, WithInterestSettles

LEMMA WriteSettles ==
    ASSUME NEW c \in Conn
    PROVE  /\ Write(c, 1) \in Conn /\ Write(c, 1).state = c.state
           /\ Settled(Write(c, 1))
  <1>1. /\ [c EXCEPT !.queued = @ + 1] \in Conn
        /\ [c EXCEPT !.queued = @ + 1].state = c.state
    BY DEF Conn
  <1> QED
    BY <1>1, WithInterestSettles DEF Write

LEMMA Connects ==
    ASSUME NEW c \in Conn
    PROVE  /\ \A d \in TcpConnects(c) : d \in Conn /\ d.state = "connecting"
           /\ \A d \in Handshakes(c) : d \in Conn /\ d.state = "handshake"
           /\ Established(c) \in Conn /\ Established(c).state = "established"
  <1>1. ASSUME NEW d \in TcpConnects(c)
        PROVE  d \in Conn /\ d.state = "connecting"
    <2>1. PICK n \in 0..MaxAddresses :
             d = [c EXCEPT !.state = "connecting", !.interest = {"write"}, !.addresses = n]
      BY <1>1 DEF TcpConnects
    <2>2. n \in Nat
      BY <2>1, LlmConnAssumption
    <2>3. {"write"} \in SUBSET {"read", "write"} /\ "connecting" \in States
      BY DEF States
    <2> QED
      BY <2>1, <2>2, <2>3 DEF Conn
  <1>2. ASSUME NEW d \in Handshakes(c)
        PROVE  d \in Conn /\ d.state = "handshake"
    <2>1. PICK i \in {"read", "write"} :
             d = [c EXCEPT !.state = "handshake", !.interest = {i}, !.addresses = 0]
      BY <1>2 DEF Handshakes
    <2> QED
      BY <2>1 DEF Conn, States
  <1>3. Established(c) \in Conn /\ Established(c).state = "established"
    BY DEF Established, Conn, States
  <1> QED
    BY <1>1, <1>2, <1>3

-----------------------------------------------------------------------------
(* A step that leaves the job and the thread alone keeps the hand-over as   *)
(* long as the connection stays on its side of resolving.                   *)
LEMMA Untouched ==
    ASSUME IInv, conn' \in Conn, UNCHANGED <<job, thread>>,
           conn.state = "resolving" <=> conn'.state = "resolving",
           NoLostWakeup'
    PROVE  IInv'
  BY DEF IInv, Handover

(* finish and cancel give the connection's side of the job up.              *)
LEMMA EndsStep ==
    ASSUME IInv, NEW how, Ends(how)
    PROVE  IInv'
  <1>1. conn' \in Conn /\ conn'.state = "closed" /\ thread' = thread
    BY DEF Ends, IInv, Conn, States
  <1>2. NoLostWakeup'
    BY <1>1 DEF NoLostWakeup, InState
  <1>3. job' \in Job /\ Handover'
    <2>1. CASE ~HasJob
      <3>1. job' = job /\ conn.state # "resolving"
        BY <2>1 DEF Ends, JobAfterClose, HasJob
      <3> QED
        BY <1>1, <3>1 DEF IInv, Handover
    <2>2. CASE HasJob /\ job.finished
      <3>1. job' = [job EXCEPT !.freed = @ + 1] /\ thread = "gone" /\ job.freed = 0
        BY <2>2 DEF Ends, JobAfterClose, MayClose, HasJob, IInv, Handover
      <3>2. job' \in Job /\ job'.freed = 1
        BY <3>1 DEF IInv, Job
      <3> QED
        BY <1>1, <3>1, <3>2 DEF Handover
    <2>3. CASE HasJob /\ ~job.finished
      <3>1. /\ job' = [job EXCEPT !.abandoned = TRUE] /\ conn.state = "resolving"
            /\ thread = "resolving" /\ job.freed = 0
        BY <2>3 DEF Ends, JobAfterClose, HasJob, IInv, Handover
      <3>2. /\ job' \in Job /\ job'.abandoned /\ job'.freed = 0 /\ ~job'.finished
        BY <2>3, <3>1 DEF IInv, Job
      <3> QED
        BY <1>1, <3>1, <3>2 DEF Handover
    <2> QED
      BY <2>1, <2>2, <2>3
  <1> QED
    BY <1>1, <1>2, <1>3 DEF IInv

(* The steps of on_fd_event before the connection is established.           *)
LEMMA ConnectStep ==
    ASSUME IInv, ResolverReady \/ TcpEvent \/ TlsEvent
    PROVE  IInv'
  <1>1. conn \in Conn /\ job \in Job
    BY DEF IInv
  <1>2. CASE ResolverReady
    <2>1. /\ conn.state = "resolving" /\ thread = "gone" /\ thread' = thread
          /\ conn' \in TcpConnects([conn EXCEPT !.addresses = job.found])
          /\ job' = [job EXCEPT !.freed = @ + 1] /\ job.freed = 0
      BY <1>2 DEF ResolverReady, InState, Proceeds, AfterResolving, IInv, Handover
    <2>2. [conn EXCEPT !.addresses = job.found] \in Conn
      BY <1>1 DEF Conn, Job
    <2>3. conn' \in Conn /\ conn'.state = "connecting"
      BY <2>1, <2>2, Connects
    <2>4. job' \in Job /\ job'.freed = 1
      BY <1>1, <2>1 DEF Job
    <2>5. NoLostWakeup'
      BY <2>3 DEF NoLostWakeup, InState
    <2> QED
      BY <2>1, <2>3, <2>4, <2>5 DEF IInv, Handover
  <1>3. CASE TcpEvent \/ TlsEvent
    <2>1. /\ conn.state # "resolving" /\ UNCHANGED <<job, thread>>
          /\ conn' \in TcpConnects(conn) \cup Handshakes(conn) \cup {Established(conn)}
          /\ at' = IF conn'.state = "established" THEN "connected" ELSE "loop"
      BY <1>3 DEF TcpEvent, TlsEvent, InState, Proceeds, AfterConnecting, AfterHandshake,
                  reqVars, GoesTo
    <2>2. conn' \in Conn /\ conn'.state # "resolving"
      BY <1>1, <2>1, Connects
    <2>3. NoLostWakeup'
      BY <2>1 DEF NoLostWakeup, InState
    <2> QED
      BY <2>1, <2>2, <2>3, Untouched
  <1> QED
    BY <1>2, <1>3

(* Those of an established connection.                                      *)
LEMMA EstablishedStep ==
    ASSUME IInv, OnConnected \/ SocketEvent \/ ReadChunk \/ ReadAll
    PROVE  IInv'
  <1>1. conn \in Conn
    BY DEF IInv
  <1>2. CASE \E how \in {"INVAL", "CLOSED"} : Ends(how)
    BY <1>2, EndsStep
  <1>3. CASE UNCHANGED <<job, thread>> /\ conn' \in Conn /\ conn'.state = conn.state
             /\ (at' = "loop" => Settled(conn'))
    <2>1. NoLostWakeup'
      BY <1>3 DEF NoLostWakeup, InState, Settled
    <2> QED
      BY <1>3, <2>1, Untouched
  <1>4. CASE OnConnected /\ ~ \E how \in {"INVAL", "CLOSED"} : Ends(how)
    <2>1. conn' = Write(Write(conn, 1), 1) /\ UNCHANGED <<job, thread>>
      BY <1>4 DEF OnConnected, Finish
    <2> QED
      BY <1>1, <1>3, <2>1, WriteSettles
  <1>5. CASE SocketEvent
    <2>1. /\ UNCHANGED <<job, thread>> /\ InState("established")
          /\ \E ev \in SUBSET conn.interest \ {{}} : conn' \in AfterFlush(conn, ev)
      BY <1>5 DEF SocketEvent
    <2>2. Settled(conn)
      BY <2>1 DEF IInv, NoLostWakeup, Settled
    <2> QED
      BY <1>1, <1>3, <2>1, <2>2, AfterFlushSettles
  <1>6. CASE ReadChunk
    <2>1. /\ UNCHANGED <<job, thread>> /\ at' = "parsing"
          /\ conn' = [conn EXCEPT !.readNeedsWrite = FALSE]
      BY <1>6 DEF ReadChunk
    <2>2. conn' \in Conn /\ conn'.state = conn.state
      BY <1>1, <2>1 DEF Conn
    <2> QED
      BY <1>3, <2>1, <2>2
  <1>7. CASE ReadAll /\ ~ \E how \in {"INVAL", "CLOSED"} : Ends(how)
    <2>1. conn' \in Drained(conn) /\ UNCHANGED <<job, thread>>
      BY <1>7 DEF ReadAll, Finish
    <2> QED
      BY <1>1, <1>3, <2>1, DrainedSettles
  <1> QED
    BY <1>2, <1>4, <1>5, <1>6, <1>7

(* Those of the resolver's thread.                                          *)
LEMMA ThreadStep ==
    ASSUME IInv, ResolverThread
    PROVE  IInv'
  <1>1. conn' = conn /\ NoLostWakeup' /\ job \in Job
    BY DEF ResolverThread, Resolve, ThreadEnds, reqVars, IInv, NoLostWakeup, InState, Live
  <1>2. CASE Resolve /\ job.abandoned
    BY <1>1, <1>2 DEF Resolve, IInv, Handover
  <1>3. CASE Resolve /\ ~job.abandoned
    <2>1. PICK n \in 0..MaxAddresses : job' = [job EXCEPT !.finished = TRUE, !.found = n]
      BY <1>3 DEF Resolve
    <2>2. n \in Nat
      BY LlmConnAssumption
    <2>3. /\ job' \in Job /\ job'.finished /\ job'.freed = job.freed
          /\ job'.abandoned = job.abandoned
      BY <1>1, <2>1, <2>2 DEF Job
    <2> QED
      BY <1>1, <1>3, <2>3 DEF Resolve, IInv, Handover
  <1>4. CASE ThreadEnds /\ thread = "notifying"
    <2>1. job' = [job EXCEPT !.byte = TRUE] /\ thread' = "gone"
      BY <1>4 DEF ThreadEnds
    <2>2. /\ job' \in Job /\ job'.finished = job.finished /\ job'.freed = job.freed
          /\ job'.abandoned = job.abandoned
      BY <1>1, <2>1 DEF Job
    <2> QED
      BY <1>1, <1>4, <2>1, <2>2 DEF IInv, Handover
  <1>5. CASE ThreadEnds /\ thread = "freeing"
    <2>1. job' = [job EXCEPT !.freed = @ + 1] /\ thread' = "gone" /\ job.freed = 0
      BY <1>5 DEF ThreadEnds, IInv, Handover
    <2>2. job' \in Job /\ job'.freed = 1 /\ conn.state # "resolving"
      BY <1>1, <1>5, <2>1 DEF Job, IInv, Handover
    <2> QED
      BY <1>1, <2>1, <2>2 DEF IInv, Handover
  <1> QED
    BY <1>2, <1>3, <1>4, <1>5 DEF ResolverThread, ThreadEnds

-----------------------------------------------------------------------------
LEMMA InitIInv == Init => IInv
  BY DEF Init, ConnInit, Connecting, NewJob, IInv, Conn, States, Job, Handover,
         NoLostWakeup, InState

LEMMA NextIInv == IInv /\ [Next]_vars => IInv'
  <1> SUFFICES ASSUME IInv, [Next]_vars PROVE IInv'
    OBVIOUS
  <1>1. CASE \E how \in {"cancelled", "TIMEOUT", "IO", "PARSE", "HTTP", "OK"} : Ends(how)
    BY <1>1, EndsStep
  <1>2. CASE UNCHANGED connVars /\ (at' = "loop" => at = "loop" /\ (Live' => Live))
    BY <1>2 DEF connVars, IInv, Handover, NoLostWakeup, InState
  <1>3. CASE ResolverReady \/ TcpEvent \/ TlsEvent
    BY <1>3, ConnectStep
  <1>4. CASE OnConnected \/ SocketEvent \/ ReadChunk \/ ReadAll
    BY <1>4, EstablishedStep
  <1>5. CASE ResolverThread
    BY <1>5, ThreadStep
  <1>6. CASE Cancel \/ TimedOut \/ Fails
    BY <1>1, <1>6 DEF Cancel, TimedOut, Fails, Finish
  <1>7. CASE Emit
    <2>1. Ends("cancelled") \/ (UNCHANGED connVars /\ at' # "loop")
      BY <1>7 DEF Emit
    <2> QED
      BY <1>1, <1>2, <2>1
  <1>8. CASE ChunkDone
    <2>1. \/ Ends("PARSE") \/ Ends("HTTP") \/ Ends("OK")
          \/ UNCHANGED connVars /\ at' # "loop"
      BY <1>8 DEF ChunkDone, EndsAfterFeed
    <2> QED
      BY <1>1, <1>2, <2>1
  <1>9. CASE ParseToken
    <2>1. UNCHANGED connVars /\ at' # "loop"
      <3>1. at = "parsing" /\ UNCHANGED connVars /\ (at' = at \/ at' = "emitting")
        BY <1>9 DEF ParseToken
      <3> QED
        BY <3>1
    <2> QED
      BY <1>2, <2>1
  <1>10. CASE Arrives \/ Expires \/ Ended
    BY <1>2, <1>10 DEF Arrives, Expires, Ended, vars, Live, reqVars
  <1>11. CASE UNCHANGED vars
    BY <1>2, <1>11 DEF vars, Live, reqVars
  <1> QED
    BY <1>3, <1>4, <1>5, <1>6, <1>7, <1>8, <1>9, <1>10, <1>11 DEF Next, Loop

(* The job shared with the resolver's thread is freed exactly once, by the  *)
(* second side to give it up, in every interleaving of the thread's end     *)
(* with close, timeout and cancel (llm_conn.c).                             *)
THEOREM JobIsFreedOnce == Spec => []ResolverJobIsFreedOnce
  <1>1. IInv => ResolverJobIsFreedOnce
    BY DEF IInv, Handover, ResolverJobIsFreedOnce, Job
  <1> QED
    BY <1>1, InitIInv, NextIInv, PTL DEF Spec

(* After every handler the descriptor is registered for what the queue and  *)
(* TLS wait for (update_interest).                                          *)
THEOREM NoWakeupIsLost == Spec => []NoLostWakeup
  <1>1. IInv => NoLostWakeup
    BY DEF IInv
  <1> QED
    BY <1>1, InitIInv, NextIInv, PTL DEF Spec

-----------------------------------------------------------------------------
(* Types: what is in the queue and what the parsers count.                  *)
Fragment == {"text", "head", "args"}

Statuses == {"live", "cancelled", "TIMEOUT", "IO", "INVAL", "CLOSED", "PARSE", "HTTP",
             "OK"}

HttpStates == {"status", "header", "size", "chunk data", "data end", "final",
               "content", "done", "error"}

ReqType == [state: Statuses, due: BOOLEAN, http: HttpStates, ok: BOOLEAN,
            chunked: BOOLEAN, length: Nat, remaining: Nat, line: BodyText \cup {"none"},
            tools: SUBSET {"head", "args"}, sawDone: BOOLEAN, failed: BOOLEAN]

(* While a body is read a piece of it is missing, so that the count does    *)
(* not come below zero.                                                     *)
Sound(q) == q \in ReqType /\ (q.http \in BodyStates => q.remaining > 0)

(* What has been queued for writing is at most the header and the body, and *)
(* nothing before the connection is there.                                  *)
Queue ==
    /\ conn.queued <= 2
    /\ conn.state \in {"resolving", "connecting", "handshake"} \/ at = "connected" =>
          conn.queued = 0
    /\ at = "connected" => conn.state = "established"

Places ==
    /\ at \in {"loop", "connected", "reading", "parsing", "emitting"}
    /\ chunk \in Seq(Token) /\ emits \in Seq(Fragment)
    /\ wire.reply \in Seq(Token) /\ wire.arrived \in 0 .. Len(wire.reply)
    /\ wire.read \in Nat /\ DOMAIN wire = {"reply", "arrived", "read", "eof"}
    /\ at = "emitting" => emits # <<>>

Typed == IInv /\ Sound(req) /\ Queue /\ Places

-----------------------------------------------------------------------------
(* The parsers.                                                             *)
LEMMA TokenFields ==
    ASSUME NEW t \in Token
    PROVE  /\ t.k = "status" => t.ok \in BOOLEAN
           /\ t.k \in {"length", "size"} => t.n \in Nat
           /\ t.k = "body" => t.x \in BodyText
  BY DEF Token

LEMMA LineIsSound ==
    ASSUME NEW q, Sound(q), q.http \notin BodyStates, NEW t \in Token
    PROVE  Sound(Line(q, t))
  <1>1. ASSUME NEW h \in HttpStates, h \notin BodyStates PROVE Sound([q EXCEPT !.http = h])
    BY <1>1 DEF Sound, ReqType
  <1>2. "error" \in HttpStates \ BodyStates /\ "size" \in HttpStates \ BodyStates
        /\ "done" \in HttpStates \ BodyStates
    BY DEF HttpStates, BodyStates
  <1>3. CASE q.http = "header"
    <2>1. CASE t.k = "chunked"
      BY <1>3, <2>1 DEF Line, Header, Sound, ReqType, BodyStates
    <2>2. CASE t.k = "length"
      <3>1. t.n \in Nat
        BY <2>2, TokenFields
      <3>2. Sound([q EXCEPT !.length = t.n + 1])
        <4>1. \A n \in Nat : Sound([q EXCEPT !.length = n])
          BY <1>3 DEF Sound, ReqType, BodyStates
        <4>2. t.n + 1 \in Nat
          BY <3>1
        <4> QED
          BY <4>1, <4>2
      <3> QED
        BY <1>1, <1>2, <1>3, <2>2, <3>2 DEF Line, Header
    <2>3. CASE t.k = "blank"
      <3> DEFINE h == IF q.chunked THEN IF q.length > 0 THEN "error" ELSE "size"
                      ELSE IF q.length > 1 THEN "content" ELSE "done"
                 r == IF q.length > 0 THEN q.length - 1 ELSE 0
      <3>1. h \in HttpStates /\ r \in Nat /\ (h \in BodyStates => r > 0)
        <4>1. q.length \in Nat /\ q.chunked \in BOOLEAN
          BY DEF Sound, ReqType
        <4>2. r \in Nat /\ (q.length > 1 => r > 0)
          BY <4>1
        <4> QED
          BY <4>1, <4>2 DEF HttpStates, BodyStates
      <3>2. Line(q, t) = [q EXCEPT !.http = h, !.remaining = r]
        BY <1>3, <2>3 DEF Line, Header, HeadersDone
      <3> HIDE DEF h, r
      <3> QED
        BY <3>1, <3>2 DEF Sound, ReqType
    <2>4. CASE t.k \notin {"chunked", "length", "blank"}
      BY <1>1, <1>2, <1>3, <2>4 DEF Line, Header
    <2> QED
      BY <2>1, <2>2, <2>3, <2>4
  <1>4. CASE q.http = "status" /\ t.k = "status"
    <2>1. t.ok \in BOOLEAN /\ Line(q, t) = [q EXCEPT !.http = "header", !.ok = t.ok]
      BY <1>4, TokenFields DEF Line
    <2> QED
      BY <2>1 DEF Sound, ReqType, HttpStates, BodyStates
  <1>5. CASE q.http = "size" /\ t.k = "size"
    <2>1. t.n \in Nat
      BY <1>5, TokenFields
    <2> DEFINE h == IF t.n = 0 THEN "final" ELSE "chunk data"
    <2>2. h \in HttpStates /\ (h \in BodyStates => t.n > 0)
      <3>1. t.n = 0 \/ t.n > 0
        BY <2>1
      <3>2. CASE t.n = 0
        BY <3>2 DEF HttpStates, BodyStates
      <3>3. CASE t.n # 0
        BY <3>1, <3>3 DEF HttpStates
      <3> QED
        BY <3>2, <3>3
    <2>3. Line(q, t) = [q EXCEPT !.http = h, !.remaining = t.n]
      BY <1>5 DEF Line
    <2> HIDE DEF h
    <2> QED
      BY <2>1, <2>2, <2>3 DEF Sound, ReqType
  <1>6. CASE /\ q.http # "header" /\ ~(q.http = "status" /\ t.k = "status")
             /\ ~(q.http = "size" /\ t.k = "size")
    <2>1. Line(q, t) \in {[q EXCEPT !.http = h] : h \in {"error", "size", "done"}}
      BY <1>6 DEF Line
    <2> QED
      BY <1>1, <1>2, <2>1
  <1> QED
    BY <1>3, <1>4, <1>5, <1>6

LEMMA TakenIsSound ==
    ASSUME NEW q, Sound(q), q.http \in BodyStates
    PROVE  Sound(Taken(q))
  <1> DEFINE h == IF q.remaining > 1 THEN q.http
                  ELSE IF q.http = "chunk data" THEN "data end" ELSE "done"
             r == q.remaining - 1
  <1>1. h \in HttpStates /\ r \in Nat /\ (h \in BodyStates => r > 0)
    <2>1. q.remaining \in Nat /\ q.remaining > 0 /\ q.http \in HttpStates
      BY DEF Sound, ReqType
    <2>2. r \in Nat /\ (q.remaining > 1 => r > 0)
      BY <2>1
    <2> QED
      BY <2>1, <2>2 DEF HttpStates, BodyStates
  <1>2. Taken(q) = [q EXCEPT !.remaining = r, !.http = h]
    BY DEF Taken, Sound, ReqType
  <1> HIDE DEF h, r
  <1> QED
    BY <1>1, <1>2 DEF Sound, ReqType

LEMMA SseIsSound ==
    ASSUME NEW q, Sound(q)
    PROVE  Sound(SseEvent(q)) /\ SseEvent(q) \in ReqType
  <1>1. \/ SseEvent(q) = q
        \/ SseEvent(q) = [q EXCEPT !.sawDone = TRUE]
        \/ \E b \in BOOLEAN : SseEvent(q) = [q EXCEPT !.failed = b]
    BY DEF SseEvent
  <1> QED
    BY <1>1 DEF Sound, ReqType

LEMMA BodyIsSound ==
    ASSUME NEW q, Sound(q)
    PROVE  /\ \A x \in BodyText : Sound(BodyPiece(q, x))
           /\ Sound([SseEvent(q) EXCEPT !.line = "none"])
           /\ Emitted(q) \in Seq(Fragment)
  <1>1. ASSUME NEW x \in BodyText PROVE Sound(BodyPiece(q, x))
    <2>1. PICK l \in {x, "junk"} : BodyPiece(q, x) = [q EXCEPT !.line = l]
      BY DEF BodyPiece, Sound, ReqType
    <2>2. l \in BodyText
      BY <2>1 DEF BodyText
    <2> QED
      BY <2>1, <2>2 DEF Sound, ReqType
  <1>2. Sound(SseEvent(q))
    BY SseIsSound
  <1>3. Sound([SseEvent(q) EXCEPT !.line = "none"])
    <2> DEFINE e == SseEvent(q)
    <2>1. Sound(e)
      BY <1>2
    <2> HIDE DEF e
    <2>2. Sound([e EXCEPT !.line = "none"])
      BY <2>1 DEF Sound, ReqType
    <2> QED
      BY <2>2 DEF e
  <1>4. Emitted(q) \in Seq(Fragment)
    <2>1. /\ <<>> \in Seq(Fragment) /\ <<"text">> \in Seq(Fragment)
          /\ <<"head">> \in Seq(Fragment) /\ <<"args">> \in Seq(Fragment)
          /\ <<"text", "head">> \in Seq(Fragment)
      BY DEF Fragment
    <2>2. \A x : Fragments(x) \in Seq(Fragment)
      BY <2>1 DEF Fragments
    <2> QED
      BY <2>1, <2>2 DEF Emitted
  <1> QED
    BY <1>1, <1>3, <1>4

-----------------------------------------------------------------------------
(* The queue.                                                               *)
LEMMA FlushedQueue ==
    ASSUME NEW c \in Conn, NEW d \in Flushed(c)
    PROVE  d.queued <= c.queued
  <1>1. \A n \in Nat, w \in BOOLEAN : FlushedTo(c, n, w).queued = n
    BY DEF FlushedTo, WithInterest, Conn
  <1>2. CASE d = FlushedTo(c, 0, c.writeNeedsRead /\ c.queued = 0)
    <2> DEFINE w == c.writeNeedsRead /\ c.queued = 0
    <2>1. w \in BOOLEAN /\ d = FlushedTo(c, 0, w)
      BY <1>2
    <2> HIDE DEF w
    <2> QED
      BY <1>1, <2>1 DEF Conn
  <1>3. ASSUME NEW n \in 1..c.queued,
               d = FlushedTo(c, n, FALSE) \/ d = FlushedTo(c, n, TRUE)
        PROVE  d.queued <= c.queued
    <2>1. n \in Nat /\ n <= c.queued /\ TRUE \in BOOLEAN /\ FALSE \in BOOLEAN
      BY DEF Conn
    <2> QED
      BY <1>1, <1>3, <2>1
  <1> QED
    BY <1>2, <1>3 DEF Flushed

LEMMA AfterFlushQueue ==
    ASSUME NEW c \in Conn, Settled(c), NEW ev, NEW d \in AfterFlush(c, ev)
    PROVE  d.queued <= c.queued
  <1> DEFINE first == IF "read" \in ev /\ c.writeNeedsRead /\ c.queued > 0
                      THEN Flushed(c) ELSE {c}
  <1>1. \A e \in first : e \in Conn /\ e.queued <= c.queued
    <2>1. c.queued <= c.queued
      BY DEF Conn
    <2> QED
      BY <2>1, FlushedSettles, FlushedQueue
  <1>2. d \in first \/ \E e \in first : d \in Flushed(e)
    BY DEF AfterFlush
  <1> HIDE DEF first
  <1>3. CASE d \in first
    BY <1>1, <1>3
  <1>4. ASSUME NEW e \in first, d \in Flushed(e) PROVE d.queued <= c.queued
    <2>1. d \in Conn /\ d.queued <= e.queued /\ e \in Conn /\ e.queued <= c.queued
      BY <1>1, <1>4, FlushedSettles, FlushedQueue
    <2> QED
      BY <2>1 DEF Conn
  <1> QED
    BY <1>2, <1>3, <1>4

-----------------------------------------------------------------------------
(* The steps.  Most of them leave the parsers and what they read alone.     *)
LEMMA QuietTyped ==
    ASSUME Typed, IInv', UNCHANGED reqVars, Queue',
           at' \in {"loop", "connected", "reading", "parsing"}
    PROVE  Typed'
  BY DEF Typed, reqVars, Places, Sound

LEMMA EndsTyped ==
    ASSUME Typed, IInv', NEW how \in Statuses, Ends(how)
    PROVE  Typed'
  <1>1. /\ req' = [req EXCEPT !.state = how] /\ at' = "loop" /\ chunk' = <<>> /\ emits' = <<>>
        /\ UNCHANGED wire /\ conn' = [conn EXCEPT !.state = "closed"]
    BY DEF Ends
  <1>2. Sound(req')
    BY <1>1 DEF Typed, Sound, ReqType
  <1>3. Queue'
    BY <1>1 DEF Typed, Queue, IInv, Conn
  <1>4. Places'
    BY <1>1 DEF Typed, Places
  <1> QED
    BY <1>2, <1>3, <1>4 DEF Typed

LEMMA ConnectTyped ==
    ASSUME Typed, IInv', ResolverReady \/ TcpEvent \/ TlsEvent \/ OnConnected
    PROVE  Typed'
  <1>1. conn \in Conn /\ job \in Job
    BY DEF Typed, IInv
  <1>2. CASE ResolverReady \/ TcpEvent \/ TlsEvent
    <2> DEFINE Kept(d) == d.queued = conn.queued /\ d.state \in States
    <2>1. \A n \in Nat : \A d \in TcpConnects([conn EXCEPT !.addresses = n]) : Kept(d)
      BY <1>1 DEF TcpConnects, Conn, States
    <2>2. \A d \in TcpConnects(conn) \cup Handshakes(conn) \cup {Established(conn)} : Kept(d)
      BY <1>1 DEF TcpConnects, Handshakes, Established, Conn, States
    <2>3. job.found \in Nat
      BY <1>1 DEF Job
    <2>4. Kept(conn')
      BY <1>2, <2>1, <2>2, <2>3 DEF ResolverReady, TcpEvent, TlsEvent, Proceeds, AfterResolving,
                          AfterConnecting, AfterHandshake
    <2>5. /\ conn.state \in {"resolving", "connecting", "handshake"} /\ UNCHANGED reqVars
          /\ at' = IF conn'.state = "established" THEN "connected" ELSE "loop"
      BY <1>2 DEF ResolverReady, TcpEvent, TlsEvent, Proceeds, GoesTo, InState
    <2>6. conn'.queued = 0
      BY <2>4, <2>5 DEF Typed, Queue
    <2>7. Queue'
      BY <2>5, <2>6 DEF Queue
    <2> QED
      BY <2>5, <2>7, QuietTyped
  <1>3. CASE OnConnected
    <2>1. CASE Finish("INVAL")
      BY <2>1, EndsTyped DEF Finish, Statuses
    <2>2. CASE conn' = Write(Write(conn, 1), 1) /\ at' = "loop" /\ UNCHANGED reqVars
      <3>1. conn.queued = 0 /\ conn.state = "established"
        BY <1>3 DEF OnConnected, Typed, Queue
      <3>2. \A c \in Conn : /\ Write(c, 1).queued = c.queued + 1
                             /\ Write(c, 1).state = c.state
        BY DEF Write, WithInterest, Conn
      <3>3. conn'.queued = 2 /\ conn'.state = "established"
        <4> DEFINE d == Write(conn, 1)
        <4>1. d \in Conn /\ d.queued = 1 /\ d.state = "established"
          BY <1>1, <3>1, <3>2, WriteSettles
        <4> HIDE DEF d
        <4>2. Write(d, 1).queued = 2 /\ Write(d, 1).state = "established"
          BY <3>2, <4>1
        <4> QED
          BY <2>2, <4>2 DEF d
      <3>4. Queue'
        BY <2>2, <3>3 DEF Queue
      <3> QED
        BY <2>2, <3>4, QuietTyped
    <2> QED
      BY <1>3, <2>1, <2>2 DEF OnConnected, GoesTo
  <1> QED
    BY <1>2, <1>3

LEMMA ReadTyped ==
    ASSUME Typed, IInv', SocketEvent \/ ReadChunk \/ ReadAll
    PROVE  Typed'
  <1>1. conn \in Conn
    BY DEF Typed, IInv
  <1>2. conn.queued \in Nat /\ conn.queued <= 2
    BY <1>1 DEF Conn, Typed, Queue
  <1>3. CASE SocketEvent
    <2>1. /\ InState("established") /\ UNCHANGED reqVars /\ at' \in {"loop", "reading"}
          /\ \E ev : conn' \in AfterFlush(conn, ev)
      BY <1>3 DEF SocketEvent, GoesTo
    <2>2. Settled(conn)
      BY <2>1 DEF Typed, IInv, NoLostWakeup, Settled
    <2>3. conn'.queued <= conn.queued /\ conn'.state = "established" /\ conn' \in Conn
      BY <1>1, <2>1, <2>2, AfterFlushQueue, AfterFlushSettles DEF InState
    <2>4. conn'.queued \in Nat
      BY <2>3 DEF Conn
    <2>5. Queue'
      BY <1>2, <2>1, <2>3, <2>4 DEF Queue
    <2> QED
      BY <2>1, <2>5, QuietTyped
  <1>4. CASE ReadChunk
    <2>1. PICK n \in wire.read + 1 .. wire.arrived :
              /\ chunk' = SubSeq(wire.reply, wire.read + 1, n)
              /\ wire' = [wire EXCEPT !.read = n]
      BY <1>4 DEF ReadChunk
    <2>2. /\ conn' = [conn EXCEPT !.readNeedsWrite = FALSE]
          /\ at' = "parsing" /\ UNCHANGED <<req, emits>> /\ at = "reading"
      BY <1>4 DEF ReadChunk
    <2>3. Queue'
      BY <1>1, <1>2, <2>2 DEF Typed, Queue, Conn
    <2>4. Places'
      <3>1. n \in Nat /\ wire.read \in Nat /\ n <= Len(wire.reply)
            /\ wire.reply \in Seq(Token)
        BY <2>1 DEF Typed, Places
      <3>2. chunk' \in Seq(Token)
        BY <2>1, <3>1
      <3>3. /\ wire'.reply = wire.reply /\ wire'.arrived = wire.arrived /\ wire'.read = n
            /\ DOMAIN wire' = DOMAIN wire
        BY <2>1 DEF Typed, Places
      <3> QED
        BY <2>2, <3>1, <3>2, <3>3 DEF Typed, Places
    <2>5. Sound(req')
      BY <2>2 DEF Typed
    <2> QED
      BY <2>3, <2>4, <2>5 DEF Typed
  <1>5. CASE ReadAll
    <2>1. CASE Finish("CLOSED")
      BY <2>1, EndsTyped DEF Finish, Statuses
    <2>2. CASE conn' \in Drained(conn) /\ at' = "loop" /\ UNCHANGED reqVars
      <3>1. PICK w \in BOOLEAN : conn' = WithInterest([conn EXCEPT !.readNeedsWrite = w])
        BY <2>2 DEF Drained
      <3>2. conn'.queued = conn.queued /\ conn'.state = conn.state
        BY <1>1, <3>1 DEF WithInterest, Conn
      <3>3. Queue'
        BY <2>2, <3>2 DEF Typed, Queue
      <3> QED
        BY <2>2, <3>3, QuietTyped
    <2> QED
      BY <1>5, <2>1, <2>2 DEF ReadAll, GoesTo
  <1> QED
    BY <1>3, <1>4, <1>5

LEMMA ParseTyped ==
    ASSUME Typed, IInv', ParseToken \/ ChunkDone \/ Emit
    PROVE  Typed'
  <1>1. ASSUME UNCHANGED <<conn, wire>>, at # "connected", at' # "connected",
               Sound(req'), chunk' \in Seq(Token), emits' \in Seq(Fragment),
               at' \in {"loop", "reading", "parsing", "emitting"},
               at' = "emitting" => emits' # <<>>
        PROVE  Typed'
    <2>1. Queue'
      BY <1>1 DEF Typed, Queue
    <2>2. Places'
      BY <1>1 DEF Typed, Places
    <2> QED
      BY <1>1, <2>1, <2>2 DEF Typed
  <1>2. Sound(req) /\ chunk \in Seq(Token) /\ emits \in Seq(Fragment)
    BY DEF Typed, Places
  <1>3. CASE ParseToken
    <2> DEFINE t == Head(chunk)
               q == Taken(req)
    <2>1. /\ at = "parsing" /\ chunk # <<>> /\ chunk' = Tail(chunk)
          /\ UNCHANGED <<conn, wire>>
      BY <1>3 DEF ParseToken, connVars
    <2>2. t \in Token /\ chunk' \in Seq(Token)
      BY <1>2, <2>1
    <2>3. CASE req.http \notin BodyStates
      <3>1. req' = Line(req, t) /\ UNCHANGED <<emits, at>>
        BY <1>3, <2>3 DEF ParseToken
      <3>2. Sound(req')
        BY <1>2, <2>2, <2>3, <3>1, LineIsSound
      <3> QED
        BY <1>1, <1>2, <2>1, <2>2, <3>1, <3>2
    <2>4. CASE req.http \in BodyStates
      <3>1. Sound(q)
        BY <1>2, <2>4, TakenIsSound
      <3>2. CASE ~req.ok \/ req.failed
        <4>1. req' = q /\ UNCHANGED <<emits, at>>
          BY <1>3, <2>4, <3>2 DEF ParseToken
        <4> QED
          BY <1>1, <1>2, <2>1, <2>2, <3>1, <4>1
      <3>3. CASE req.ok /\ ~req.failed /\ (t.k # "body" \/ t.x # "nl")
        <4> DEFINE x == IF t.k = "body" THEN t.x ELSE "junk"
        <4>1. req' = BodyPiece(q, x) /\ UNCHANGED <<emits, at>>
          BY <1>3, <2>4, <3>3 DEF ParseToken
        <4>2. x \in BodyText
          BY <2>2, TokenFields DEF BodyText
        <4> HIDE DEF x, q
        <4>3. Sound(req')
          BY <3>1, <4>1, <4>2, BodyIsSound
        <4> QED
          BY <1>1, <1>2, <2>1, <2>2, <4>1, <4>3
      <3>4. CASE req.ok /\ ~req.failed /\ t.k = "body" /\ t.x = "nl"
        <4>1. /\ req' = [SseEvent(q) EXCEPT !.line = "none"] /\ emits' = Emitted(q)
              /\ at' = IF emits' = <<>> THEN at ELSE "emitting"
          BY <1>3, <2>4, <3>4 DEF ParseToken
        <4> HIDE DEF q
        <4>2. Sound(req') /\ emits' \in Seq(Fragment)
          BY <3>1, <4>1, BodyIsSound
        <4>3. at' \in {"parsing", "emitting"} /\ (at' = "emitting" => emits' # <<>>)
          BY <2>1, <4>1
        <4> QED
          BY <1>1, <2>1, <2>2, <4>2, <4>3
      <3> QED
        BY <1>2, <3>2, <3>3, <3>4 DEF Sound, ReqType
    <2> QED
      BY <2>3, <2>4
  <1>4. CASE ChunkDone
    <2>1. CASE \E how \in {"PARSE", "HTTP", "OK"} : EndsAfterFeed(how)
      BY <2>1, EndsTyped DEF EndsAfterFeed, Statuses
    <2>2. CASE at' = "reading" /\ UNCHANGED <<connVars, reqVars>>
      <3>1. at = "parsing" /\ UNCHANGED <<conn, wire, req, chunk, emits>>
        BY <1>4, <2>2 DEF ChunkDone, connVars, reqVars
      <3> QED
        BY <1>1, <1>2, <2>2, <3>1
    <2>3. CASE /\ req' = [SseEvent(req) EXCEPT !.line = "none"]
               /\ emits' = Emitted(req)
               /\ at' = IF emits' = <<>> THEN at ELSE "emitting"
               /\ UNCHANGED <<connVars, chunk, wire, events, touched>>
      <3>1. at = "parsing"
        BY <1>4 DEF ChunkDone
      <3>2. Sound(req') /\ emits' \in Seq(Fragment)
        BY <1>2, <2>3, BodyIsSound
      <3>3. at' \in {"parsing", "emitting"} /\ (at' = "emitting" => emits' # <<>>)
        BY <2>3, <3>1
      <3>4. UNCHANGED <<conn, wire, chunk>>
        BY <2>3 DEF connVars
      <3> QED
        BY <1>1, <1>2, <3>1, <3>2, <3>3, <3>4
    <2> QED
      BY <1>4, <2>1, <2>2, <2>3 DEF ChunkDone
  <1>5. CASE Emit
    <2>1. CASE Ends("cancelled")
      BY <2>1, EndsTyped DEF Statuses
    <2>2. CASE /\ req' = [req EXCEPT !.tools = @ \cup ({Head(emits)} \ {"text"})]
               /\ emits' = Tail(emits)
               /\ at' = IF emits' = <<>> THEN "parsing" ELSE at
               /\ UNCHANGED <<connVars, chunk, wire, touched>>
      <3>1. at = "emitting" /\ emits # <<>>
        BY <1>5 DEF Emit, Typed, Places
      <3>2. Head(emits) \in Fragment /\ emits' \in Seq(Fragment)
        BY <1>2, <2>2, <3>1
      <3>3. Sound(req')
        <4> DEFINE ts == req.tools \cup ({Head(emits)} \ {"text"})
        <4>1. req' = [req EXCEPT !.tools = ts] /\ ts \in SUBSET {"head", "args"}
          BY <1>2, <2>2, <3>2 DEF Sound, ReqType, Fragment
        <4> HIDE DEF ts
        <4> QED
          BY <1>2, <4>1 DEF Sound, ReqType
      <3>4. at' \in {"parsing", "emitting"} /\ (at' = "emitting" => emits' # <<>>)
        BY <2>2, <3>1
      <3>5. UNCHANGED <<conn, wire, chunk>>
        BY <2>2 DEF connVars
      <3> QED
        BY <1>1, <1>2, <3>1, <3>2, <3>3, <3>4, <3>5
    <2> QED
      BY <1>5, <2>1, <2>2 DEF Emit
  <1> QED
    BY <1>3, <1>4, <1>5

LEMMA NextTyped == Typed /\ [Next]_vars => Typed'
  <1> SUFFICES ASSUME Typed, [Next]_vars PROVE Typed'
    OBVIOUS
  <1>1. IInv'
    BY NextIInv DEF Typed
  <1>2. CASE \E how \in Statuses : Ends(how)
    BY <1>1, <1>2, EndsTyped
  <1>3. CASE Cancel \/ TimedOut \/ Fails
    BY <1>2, <1>3 DEF Cancel, TimedOut, Fails, Finish, Statuses
  <1>4. CASE ResolverReady \/ TcpEvent \/ TlsEvent \/ OnConnected
    BY <1>1, <1>4, ConnectTyped
  <1>5. CASE SocketEvent \/ ReadChunk \/ ReadAll
    BY <1>1, <1>5, ReadTyped
  <1>6. CASE ParseToken \/ Emit \/ ChunkDone
    BY <1>1, <1>6, ParseTyped
  <1>7. CASE Arrives
    <2>1. /\ UNCHANGED <<conn, at, req, chunk, emits>>
          /\ \/ /\ wire.arrived < Len(wire.reply)
                /\ wire' = [wire EXCEPT !.arrived = @ + 1]
             \/ wire' = [wire EXCEPT !.eof = TRUE]
      BY <1>7 DEF Arrives, connVars
    <2>2. Places'
      BY SMTT(30), <2>1 DEF Typed, Places
    <2> QED
      BY <1>1, <2>1, <2>2 DEF Typed, Queue
  <1>8. CASE Expires
    <2>1. UNCHANGED <<conn, at, chunk, emits, wire>> /\ req' = [req EXCEPT !.due = TRUE]
      BY <1>8 DEF Expires, connVars
    <2>2. Sound(req')
      BY <2>1 DEF Typed, Sound, ReqType
    <2> QED
      BY <1>1, <2>1, <2>2 DEF Typed, Queue, Places
  <1>9. CASE ResolverThread \/ UNCHANGED vars
    <2>1. UNCHANGED <<conn, at, req, chunk, emits, wire>>
      BY <1>9 DEF ResolverThread, Resolve, ThreadEnds, vars, connVars, reqVars
    <2> QED
      BY <1>1, <2>1 DEF Typed, Queue, Places
  <1> QED
    BY <1>3, <1>4, <1>5, <1>6, <1>7, <1>8, <1>9 DEF Next, Loop, Ended

LEMMA InitTyped == Init => Typed
  <1> SUFFICES ASSUME Init PROVE Typed
    OBVIOUS
  <1>1. PICK r \in Replies : wire = [reply |-> r, arrived |-> 0, read |-> 0, eof |-> FALSE]
    BY DEF Init
  <1>2. Places
    <2>1. r \in Seq(Token)
      BY LlmRequestAssumption
    <2> QED
      BY <1>1, <2>1 DEF Init, Places
  <1>3. Sound(req)
    BY DEF Init, Sound, ReqType, Statuses, HttpStates, BodyStates
  <1>4. Queue
    BY DEF Init, ConnInit, Connecting, Queue
  <1> QED
    BY <1>2, <1>3, <1>4, InitIInv DEF Typed

-----------------------------------------------------------------------------
(* The flags that are set are those of the calls on the stack, so the      *)
(* parser of HTTP has to be behind oi_llm_sse_parser_finish.                *)
FlagsFit ==
    /\ flags = Running
    /\ finishing \in BOOLEAN
    /\ finishing => at \in {"parsing", "emitting"} /\ req.http = "done"

LEMMA HandlerFlags ==
    ASSUME Typed, FlagsFit,
           \/ at = "loop" /\ \E place \in {"loop", "connected", "reading"} : GoesTo(place)
           \/ at \in {"connected", "reading"} /\ GoesTo("loop")
    PROVE  FlagsFit'
  BY DEF FlagsFit, Running, GoesTo

LEMMA ParsingFlags ==
    ASSUME Typed, FlagsFit, ParseToken \/ Emit \/ ChunkDone
    PROVE  FlagsFit'
  <1>1. req \in ReqType
    BY DEF Typed, Sound
  <1>2. ASSUME NEW how, Ends(how) PROVE FlagsFit'
    BY <1>2 DEF Ends, FlagsFit, Running
  <1>3. CASE ParseToken
    <2>1. /\ at = "parsing" /\ req.http # "done" /\ at' \in {"parsing", "emitting"}
          /\ finishing' = finishing
          /\ flags' = IF at' = "emitting" THEN flags \cup {"sse"} ELSE flags
      BY <1>3 DEF ParseToken
    <2> QED
      BY <2>1 DEF FlagsFit, Running
  <1>4. CASE Emit
    <2>1. CASE Ends("cancelled")
      BY <1>2, <2>1
    <2>2. CASE ~Ends("cancelled")
      <3>1. /\ at = "emitting" /\ finishing' = finishing /\ req'.http = req.http
            /\ at' = IF emits' = <<>> THEN "parsing" ELSE at
            /\ flags' = IF emits' # <<>> THEN flags
                        ELSE flags \ (IF finishing THEN {"req", "sse"} ELSE {"sse"})
        BY <1>1, <1>4, <2>2 DEF Emit, ReqType
      <3> QED
        BY <3>1 DEF FlagsFit, Running
    <2> QED
      BY <2>1, <2>2
  <1>5. CASE ChunkDone
    <2>1. CASE \E how \in {"PARSE", "HTTP", "OK"} : EndsAfterFeed(how)
      BY <1>2, <2>1 DEF EndsAfterFeed
    <2>2. CASE /\ at = "parsing" /\ at' = "reading" /\ flags' = AfterFeed
               /\ req.http # "done" /\ finishing' = finishing
      BY <2>2 DEF FlagsFit, Running, AfterFeed
    <2>3. CASE /\ at = "parsing" /\ req.http = "done"
               /\ req' = [SseEvent(req) EXCEPT !.line = "none"]
               /\ at' = IF emits' = <<>> THEN at ELSE "emitting"
               /\ flags' = IF emits' = <<>> THEN AfterFeed ELSE InFinish
               /\ finishing' = TRUE
      <3>1. req'.http = "done"
        BY <1>1, <2>3 DEF SseEvent, ReqType
      <3> QED
        BY <2>3, <3>1 DEF FlagsFit, Running, AfterFeed, InFinish
    <2> QED
      BY <1>5, <2>1, <2>2, <2>3 DEF ChunkDone
  <1> QED
    BY <1>3, <1>4, <1>5

LEMMA NextFlags ==
    ASSUME Typed, FlagsFit, [Next]_vars
    PROVE  FlagsFit'
  <1>1. req \in ReqType
    BY DEF Typed, Sound
  <1>2. ASSUME NEW how, Finish(how) PROVE FlagsFit'
    BY <1>2 DEF Finish, Ends, FlagsFit, Running
  <1>3. CASE Cancel \/ TimedOut \/ Fails
    BY <1>2, <1>3 DEF Cancel, TimedOut, Fails
  <1>4. CASE ResolverReady \/ TcpEvent \/ TlsEvent
    <2>1. at = "loop" /\ (GoesTo("connected") \/ GoesTo("loop"))
      BY <1>4 DEF ResolverReady, TcpEvent, TlsEvent, Proceeds, InState
    <2> QED
      BY <2>1, HandlerFlags
  <1>5. CASE OnConnected \/ ReadAll
    <2>1. \/ at \in {"connected", "reading"} /\ GoesTo("loop")
          \/ \E how \in {"INVAL", "CLOSED"} : Finish(how)
      BY <1>5 DEF OnConnected, ReadAll
    <2> QED
      BY <1>2, <2>1, HandlerFlags
  <1>6. CASE SocketEvent
    <2>1. at = "loop" /\ (GoesTo("reading") \/ GoesTo("loop"))
      BY <1>6 DEF SocketEvent, InState
    <2> QED
      BY <2>1, HandlerFlags
  <1>7. CASE ReadChunk
    BY <1>7 DEF ReadChunk, FlagsFit, Running
  <1>8. CASE ParseToken \/ Emit \/ ChunkDone
    BY <1>8, ParsingFlags
  <1>9. CASE Arrives \/ Expires \/ ResolverThread \/ UNCHANGED vars
    <2>1. UNCHANGED <<at, flags, finishing>> /\ req'.http = req.http
      BY <1>1, <1>9
         DEF Arrives, Expires, ResolverThread, vars, reqVars, callVars, ReqType
    <2> QED
      BY <2>1 DEF FlagsFit, Running
  <1> QED
    BY <1>3, <1>4, <1>5, <1>6, <1>7, <1>8, <1>9 DEF Next, Loop, Ended

LEMMA InitFlags == Init => FlagsFit
  BY DEF Init, FlagsFit, Running

(* Whatever the reply and however it is cut, what is left of a chunk or of  *)
(* the body is never counted below zero (oi_llm_http_parser_feed), and no   *)
(* more is queued for writing than the header and the body.                 *)
THEOREM RequestTyped == Spec => []TypeOK
  <1>1. Typed /\ FlagsFit => TypeOK
    <2> SUFFICES ASSUME Typed, FlagsFit PROVE TypeOK
      OBVIOUS
    <2>1. flags \subseteq {"conn", "req", "http", "sse"}
      BY DEF Typed, Places, FlagsFit, Running
    <2> QED
      BY <2>1 DEF Typed, IInv, Conn, States, Queue, Places, Sound, ReqType, TypeOK
  <1> QED
    BY <1>1, InitTyped, NextTyped, InitFlags, NextFlags, PTL DEF Spec

-----------------------------------------------------------------------------
(* What a request that ends well has been through.                          *)
Earned ==
    /\ req.http = "done" /\ req.ok
    /\ req.sawDone /\ ~req.failed /\ ValidTools(req)

OkIsEarned == req.state = "OK" => Earned

(* A request that is over is not in a handler; a fragment waits only to be  *)
(* handed on; and after [DONE] none does, for more data is a failure, so    *)
(* the tool calls are still those that were validated then.                 *)
Closing ==
    /\ at # "loop" => Live
    /\ at # "emitting" => emits = <<>>
    /\ req.sawDone /\ ~req.failed => ValidTools(req) /\ emits = <<>>
    /\ OkIsEarned

(* SseEvent, as far as [DONE] goes.                                         *)
LEMMA SseDone ==
    ASSUME NEW q, Sound(q), q.sawDone /\ ~q.failed => ValidTools(q),
           NEW r, r = [SseEvent(q) EXCEPT !.line = "none"], r.sawDone, ~r.failed
    PROVE  ValidTools(r) /\ Emitted(q) = <<>>
  <1>1. /\ SseEvent(q) \in ReqType /\ r.tools = SseEvent(q).tools
        /\ r.sawDone = SseEvent(q).sawDone /\ r.failed = SseEvent(q).failed
    BY SseIsSound DEF Sound, ReqType
  <1>2. CASE q.failed \/ q.line \in {"none", "note"}
    <2>1. SseEvent(q) = q
      BY <1>2 DEF SseEvent
    <2> QED
      BY <1>1, <1>2, <2>1 DEF Emitted, Fragments, ValidTools
  <1>3. CASE ~q.failed /\ q.line = "done"
    <2>1. CASE q.sawDone \/ ~ValidTools(q)
      BY <1>1, <1>3, <2>1 DEF SseEvent, Sound, ReqType
    <2>2. CASE ~q.sawDone /\ ValidTools(q)
      <3>1. SseEvent(q) = [q EXCEPT !.sawDone = TRUE]
        BY <1>3, <2>2 DEF SseEvent
      <3> QED
        BY <1>1, <1>3, <2>2, <3>1 DEF ValidTools, Emitted, Fragments, Sound, ReqType
    <2> QED
      BY <2>1, <2>2
  <1>4. CASE ~q.failed /\ q.line \notin {"none", "note", "done"}
    <2>1. SseEvent(q) = [q EXCEPT !.failed = q.sawDone \/ q.line = "junk"]
      BY <1>4 DEF SseEvent
    <2> QED
      BY <1>1, <2>1 DEF Sound, ReqType
  <1> QED
    BY <1>2, <1>3, <1>4

(* The parsers of HTTP and of a line do not bear on it.                     *)
SameSoFar(r, q) ==
    /\ r.sawDone = q.sawDone /\ r.failed = q.failed
    /\ r.tools = q.tools /\ r.state = q.state

LEMMA ParsersKeepDone ==
    ASSUME NEW q, Sound(q)
    PROVE  /\ \A t \in Token : q.http \notin BodyStates => SameSoFar(Line(q, t), q)
           /\ SameSoFar(Taken(q), q)
           /\ \A x \in BodyText : SameSoFar(BodyPiece(q, x), q)
           /\ [SseEvent(q) EXCEPT !.line = "none"].state = q.state
  <1> USE DEF Sound, ReqType
  <1>1. ASSUME NEW t \in Token, q.http \notin BodyStates
        PROVE  SameSoFar(Line(q, t), q)
    <2>1. CASE q.http = "header"
      BY <2>1 DEF Line, Header, HeadersDone, SameSoFar
    <2>2. CASE q.http # "header"
      BY <2>2 DEF Line, SameSoFar
    <2> QED
      BY <2>1, <2>2
  <1>2. SameSoFar(Taken(q), q)
    BY DEF Taken, SameSoFar
  <1>3. ASSUME NEW x \in BodyText
        PROVE  SameSoFar(BodyPiece(q, x), q)
    BY DEF BodyPiece, SameSoFar
  <1>4. [SseEvent(q) EXCEPT !.line = "none"].state = q.state
    <2>1. SseEvent(q) \in ReqType /\ SseEvent(q).state = q.state
      <3>1. SseEvent(q) \in ReqType
        BY SseIsSound
      <3> QED
        BY <3>1 DEF SseEvent
    <2> QED
      BY <2>1
  <1> QED
    BY <1>1, <1>2, <1>3, <1>4

(* A step is one of three: the request ends, the parsers go on, or neither. *)
LEMMA EndsClosing ==
    ASSUME Typed, Closing, NEW how \in Statuses, Ends(how), Live,
           how = "OK" => Earned
    PROVE  Closing'
  <1>1. /\ req' = [req EXCEPT !.state = how] /\ at' = "loop" /\ emits' = <<>>
        /\ req \in ReqType
    BY DEF Ends, Typed, Sound
  <1>2. req'.state = how /\ (Earned => Earned') /\ (ValidTools(req) => ValidTools(req'))
        /\ req'.sawDone = req.sawDone /\ req'.failed = req.failed
    BY <1>1 DEF Earned, ValidTools, ReqType
  <1> QED
    BY <1>1, <1>2 DEF Closing, OkIsEarned

LEMMA NeitherClosing ==
    ASSUME Typed, Closing, emits' = emits, at' # "emitting", at # "emitting",
           at' # "loop" => Live, req' = req \/ req' = [req EXCEPT !.due = TRUE]
    PROVE  Closing'
  <1>1. /\ req'.state = req.state /\ req'.sawDone = req.sawDone
        /\ req'.failed = req.failed /\ req'.tools = req.tools
        /\ req'.http = req.http /\ req'.ok = req.ok
    BY DEF Typed, Sound, ReqType
  <1> QED
    BY <1>1 DEF Closing, OkIsEarned, Earned, ValidTools, Live

LEMMA ParseClosing ==
    ASSUME Typed, Closing, ParseToken \/ ChunkDone \/ Emit
    PROVE  Closing'
  <1>1. Sound(req) /\ chunk \in Seq(Token) /\ emits \in Seq(Fragment) /\ Live
    <2>1. at # "loop"
      BY DEF ParseToken, ChunkDone, Emit
    <2> QED
      BY <2>1 DEF Typed, Places, Closing
  <1>2. ASSUME req'.state = "live", at' # "emitting" => emits' = <<>>,
               req'.sawDone /\ ~req'.failed => ValidTools(req') /\ emits' = <<>>
        PROVE  Closing'
    BY <1>2 DEF Closing, OkIsEarned, Live
  <1>3. CASE ParseToken
    <2> DEFINE t == Head(chunk)
               q == Taken(req)
    <2>1. /\ at = "parsing" /\ chunk # <<>> /\ emits = <<>> /\ t \in Token
      BY <1>1, <1>3 DEF ParseToken, Closing
    <2>2. ASSUME SameSoFar(req', req), UNCHANGED <<emits, at>>
          PROVE  Closing'
      BY <1>1, <1>2, <2>1, <2>2 DEF Closing, ValidTools, Live, SameSoFar
    <2>3. CASE req.http \notin BodyStates
      <3>1. req' = Line(req, t) /\ UNCHANGED <<emits, at>>
        BY <1>3, <2>3 DEF ParseToken
      <3> QED
        BY <1>1, <2>1, <2>2, <2>3, <3>1, ParsersKeepDone
    <2>4. CASE req.http \in BodyStates
      <3>1. Sound(q) /\ SameSoFar(q, req)
        BY <1>1, <2>4, TakenIsSound, ParsersKeepDone
      <3>2. CASE ~req.ok \/ req.failed
        <4>1. req' = q /\ UNCHANGED <<emits, at>>
          BY <1>3, <2>4, <3>2 DEF ParseToken
        <4> QED
          BY <2>2, <3>1, <4>1
      <3>3. CASE req.ok /\ ~req.failed /\ (t.k # "body" \/ t.x # "nl")
        <4> DEFINE x == IF t.k = "body" THEN t.x ELSE "junk"
        <4>1. req' = BodyPiece(q, x) /\ UNCHANGED <<emits, at>>
          BY <1>3, <2>4, <3>3 DEF ParseToken
        <4>2. x \in BodyText
          BY <2>1, TokenFields DEF BodyText
        <4> HIDE DEF x, q
        <4>3. SameSoFar(req', q)
          BY <3>1, <4>1, <4>2, ParsersKeepDone
        <4> QED
          BY <2>2, <3>1, <4>1, <4>3 DEF SameSoFar
      <3>4. CASE req.ok /\ ~req.failed /\ t.k = "body" /\ t.x = "nl"
        <4>1. /\ req' = [SseEvent(q) EXCEPT !.line = "none"] /\ emits' = Emitted(q)
              /\ at' = IF emits' = <<>> THEN at ELSE "emitting"
          BY <1>3, <2>4, <3>4 DEF ParseToken
        <4> HIDE DEF q
        <4>2. q.sawDone /\ ~q.failed => ValidTools(q)
          BY <3>1 DEF Closing, ValidTools, SameSoFar
        <4>3. req'.state = "live"
          BY <1>1, <3>1, <4>1, ParsersKeepDone DEF Live, SameSoFar
        <4>4. req'.sawDone /\ ~req'.failed => ValidTools(req') /\ emits' = <<>>
          BY <3>1, <4>1, <4>2, SseDone
        <4> QED
          BY <1>2, <4>1, <4>3, <4>4
      <3> QED
        BY <1>1, <3>2, <3>3, <3>4 DEF Sound, ReqType
    <2> QED
      BY <2>3, <2>4
  <1>4. CASE ChunkDone
    <2>1. at = "parsing" /\ emits = <<>>
      BY <1>4 DEF ChunkDone, Closing
    <2>2. CASE \E how \in {"PARSE", "HTTP"} : EndsAfterFeed(how)
      BY <1>1, <2>2, EndsClosing DEF EndsAfterFeed, Statuses
    <2>3. CASE /\ EndsAfterFeed("OK") /\ req.http = "done" /\ ~req.failed /\ req.ok /\ req.sawDone
      <3>1. Earned
        BY <2>3 DEF Closing, Earned
      <3> QED
        BY <1>1, <2>3, <3>1, EndsClosing DEF EndsAfterFeed, Statuses
    <2>4. CASE at' = "reading" /\ UNCHANGED <<connVars, reqVars>>
      <3>1. emits' = emits /\ req' = req
        BY <2>4 DEF reqVars
      <3> QED
        BY <1>1, <2>1, <2>4, <3>1, NeitherClosing
    <2>5. CASE /\ req' = [SseEvent(req) EXCEPT !.line = "none"]
               /\ emits' = Emitted(req)
               /\ at' = IF emits' = <<>> THEN at ELSE "emitting"
      <3>1. req'.state = "live"
        BY <1>1, <2>5, ParsersKeepDone DEF Live
      <3>2. req'.sawDone /\ ~req'.failed => ValidTools(req') /\ emits' = <<>>
        BY <1>1, <2>5, SseDone DEF Closing
      <3> QED
        BY <1>2, <2>5, <3>1, <3>2
    <2> QED
      BY <1>4, <2>2, <2>3, <2>4, <2>5 DEF ChunkDone
  <1>5. CASE Emit
    <2>1. CASE Ends("cancelled")
      BY <1>1, <2>1, EndsClosing DEF Statuses
    <2>2. CASE /\ req' = [req EXCEPT !.tools = @ \cup ({Head(emits)} \ {"text"})]
               /\ emits' = Tail(emits)
               /\ at' = IF emits' = <<>> THEN "parsing" ELSE at
      <3>1. at = "emitting" /\ emits # <<>>
        BY <1>5 DEF Emit, Typed, Places
      <3>2. req'.state = "live" /\ req'.sawDone = req.sawDone /\ req'.failed = req.failed
        BY <1>1, <2>2 DEF Sound, ReqType, Live
      <3>3. ~(req.sawDone /\ ~req.failed)
        BY <3>1 DEF Closing
      <3> QED
        BY <1>2, <2>2, <3>1, <3>2, <3>3
    <2> QED
      BY <1>5, <2>1, <2>2 DEF Emit
  <1> QED
    BY <1>3, <1>4, <1>5

LEMMA NextClosing == Typed /\ Closing /\ [Next]_vars => Closing'
  <1> SUFFICES ASSUME Typed, Closing, [Next]_vars PROVE Closing'
    OBVIOUS
  <1>1. CASE \E how \in Statuses \ {"OK"} : Live /\ Ends(how)
    BY <1>1, EndsClosing
  <1>2. at # "loop" => Live
    BY DEF Closing
  <1>3. CASE Cancel \/ TimedOut \/ Fails
    BY <1>1, <1>2, <1>3 DEF Cancel, TimedOut, Fails, Finish, Statuses, InState
  <1>4. CASE UNCHANGED req /\ UNCHANGED emits /\ at' # "emitting" /\ at # "emitting"
             /\ (at' # "loop" => Live)
    BY <1>4, NeitherClosing
  <1>5. CASE ResolverReady \/ TcpEvent \/ TlsEvent
    <2>1. UNCHANGED reqVars /\ InState(conn.state) /\ at' \in {"loop", "connected"}
      BY <1>5 DEF ResolverReady, TcpEvent, TlsEvent, Proceeds, GoesTo, InState
    <2> QED
      BY <1>4, <2>1 DEF reqVars, InState
  <1>6. CASE OnConnected
    <2>1. CASE Finish("INVAL")
      BY <1>1, <1>2, <1>6, <2>1 DEF OnConnected, Finish, Statuses
    <2>2. CASE at' = "loop" /\ UNCHANGED reqVars
      BY <1>4, <1>6, <2>2 DEF OnConnected, reqVars
    <2> QED
      BY <1>6, <2>1, <2>2 DEF OnConnected, GoesTo
  <1>7. CASE SocketEvent
    <2>1. InState("established") /\ UNCHANGED reqVars /\ at' \in {"loop", "reading"}
      BY <1>7 DEF SocketEvent, GoesTo
    <2> QED
      BY <1>4, <2>1 DEF reqVars, InState
  <1>8. CASE ReadChunk
    BY <1>4, <1>8 DEF ReadChunk
  <1>9. CASE ReadAll
    <2>1. CASE Finish("CLOSED")
      BY <1>1, <1>9, <2>1 DEF ReadAll, Finish, Statuses
    <2>2. CASE at' = "loop" /\ UNCHANGED reqVars
      BY <1>4, <1>9, <2>2 DEF ReadAll, reqVars
    <2> QED
      BY <1>9, <2>1, <2>2 DEF ReadAll, GoesTo
  <1>10. CASE ParseToken \/ Emit \/ ChunkDone
    BY <1>10, ParseClosing
  <1>11. CASE Arrives \/ ResolverThread \/ UNCHANGED vars
    <2>1. UNCHANGED <<req, emits, at>>
      BY <1>11 DEF Arrives, ResolverThread, vars, reqVars
    <2> QED
      BY <2>1 DEF Closing, OkIsEarned, Earned, ValidTools, Live
  <1>12. CASE Expires
    <2>1. UNCHANGED <<emits, at>> /\ req' = [req EXCEPT !.due = TRUE]
      BY <1>12 DEF Expires
    <2>2. /\ req'.state = req.state /\ req'.sawDone = req.sawDone
          /\ req'.failed = req.failed /\ req'.tools = req.tools
          /\ req'.http = req.http /\ req'.ok = req.ok
      BY <2>1 DEF Typed, Sound, ReqType
    <2> QED
      BY <2>1, <2>2 DEF Closing, OkIsEarned, Earned, ValidTools, Live
  <1> QED
    BY <1>3, <1>5, <1>6, <1>7, <1>8, <1>9, <1>10, <1>11, <1>12 DEF Next, Loop, Ended

(* Whatever the reply and however it is cut, the embedder is told OI_OK     *)
(* only after a status of success, the whole of the body, a [DONE] with     *)
(* nothing but comments behind it, and tool calls that were complete then   *)
(* and are the same now (req_on_data, handle_sse_event).                    *)
THEOREM SuccessIsEarned == Spec => []OkIsEarned
  <1>1. Init => Closing
    BY DEF Init, Closing, OkIsEarned, Live
  <1>2. Closing => OkIsEarned
    BY DEF Closing
  <1> QED
    BY <1>1, <1>2, InitTyped, NextTyped, NextClosing, PTL DEF Spec

-----------------------------------------------------------------------------
(* The reference: what a reply says, counted up to a token.                 *)
SaidUpTo(r, n) == {p \in Said(r) : p[1] <= n}

Told(told, r, n) ==
    ~OnDelta =>
        /\ Len(told) = Cardinality(SaidUpTo(r, n))
        /\ \A p \in SaidUpTo(r, n) :
              told[Cardinality(SaidBy(r, p))] = Fragments(r[p[1]].x)[p[2]]

LEMMA StreamIs ==
    ASSUME NEW r \in Seq(Token)
    PROVE  /\ StreamOf(r) \subseteq 1..Len(r)
           /\ \A i \in StreamOf(r) :
                i \in Nat /\ r[i] \in Token /\ r[i].k = "body" /\ r[i].x \in BodyText \ {"nl"}
  <1>1. ASSUME NEW i \in StreamOf(r)
        PROVE  i \in 1..Len(r) /\ r[i].k = "body" /\ r[i].x # "nl"
    BY DEF StreamOf
  <1>2. ASSUME NEW i \in StreamOf(r)
        PROVE  i \in Nat /\ r[i] \in Token
    BY <1>1
  <1> QED
    BY <1>1, <1>2, TokenFields

LEMMA FragmentsAre ==
    ASSUME NEW x \in BodyText
    PROVE  /\ Fragments(x) \in Seq(Fragment) /\ Len(Fragments(x)) \in {0, 1, 2}
           /\ x \in {"note", "done", "junk", "nl"} => Fragments(x) = <<>>
  <1>1. CASE x = "text"
    BY <1>1 DEF Fragments, Fragment
  <1>2. CASE x = "head"
    BY <1>2 DEF Fragments, Fragment
  <1>3. CASE x = "args"
    BY <1>3 DEF Fragments, Fragment
  <1>4. CASE x = "both"
    <2>1. Fragments(x) = <<"text", "head">>
      BY <1>4 DEF Fragments
    <2>2. "text" \in Fragment /\ "head" \in Fragment
      BY DEF Fragment
    <2>3. <<"text", "head">> \in Seq(Fragment) /\ Len(<<"text", "head">>) = 2
      BY <2>2
    <2> QED
      BY <1>4, <2>1, <2>3
  <1>5. CASE x \in {"note", "done", "junk", "nl"}
    <2>1. Fragments(x) = <<>>
      BY <1>5 DEF Fragments
    <2> QED
      BY <2>1
  <1> QED
    BY <1>1, <1>2, <1>3, <1>4, <1>5 DEF BodyText

LEMMA SaidIs ==
    ASSUME NEW r \in Seq(Token)
    PROVE  /\ IsFiniteSet(Said(r))
           /\ \A p \in Said(r) :
                /\ p[1] \in StreamOf(r) /\ p[1] \in Nat /\ p[2] \in {1, 2} /\ p = <<p[1], p[2]>>
                /\ p[2] <= Len(Fragments(r[p[1]].x))
                /\ \A j \in StreamOf(r) : j < p[1] => r[j].x \notin {"done", "junk"}
  <1>1. IsFiniteSet(StreamOf(r))
    <2>1. IsFiniteSet(1..Len(r))
      BY FS_Interval
    <2> QED
      BY <2>1, StreamIs, FS_Subset
  <1>2. IsFiniteSet(StreamOf(r) \X {1, 2})
    <2>1. IsFiniteSet({1, 2})
      <3>1. IsFiniteSet({1}) /\ {1, 2} = {1} \cup {2}
        BY FS_Singleton
      <3> QED
        BY <3>1, FS_AddElement
    <2> QED
      BY <1>1, <2>1, FS_Product
  <1>3. Said(r) \subseteq StreamOf(r) \X {1, 2}
    BY DEF Said
  <1>4. IsFiniteSet(Said(r))
    BY <1>2, <1>3, FS_Subset
  <1>5. ASSUME NEW p \in Said(r)
        PROVE  /\ p[1] \in StreamOf(r) /\ p[2] \in {1, 2} /\ p = <<p[1], p[2]>>
               /\ p[2] <= Len(Fragments(r[p[1]].x))
               /\ \A j \in StreamOf(r) : j < p[1] => r[j].x \notin {"done", "junk"}
    BY DEF Said
  <1> QED
    BY <1>4, <1>5, StreamIs

(* The count is finite, and a place's own number is within it.              *)
LEMMA CountIs ==
    ASSUME NEW r \in Seq(Token), NEW n \in Int
    PROVE  /\ IsFiniteSet(SaidUpTo(r, n)) /\ Cardinality(SaidUpTo(r, n)) \in Nat
           /\ Cardinality(SaidUpTo(r, n)) <= Cardinality(Said(r))
           /\ Cardinality(Said(r)) \in Nat
  <1>1. SaidUpTo(r, n) \in SUBSET Said(r)
    BY DEF SaidUpTo
  <1> QED
    BY <1>1, SaidIs, FS_Subset, FS_CardinalityType

LEMMA RankIs ==
    ASSUME NEW r \in Seq(Token), NEW n \in Int, NEW p \in Said(r)
    PROVE  /\ Cardinality(SaidBy(r, p)) \in Nat /\ Cardinality(SaidBy(r, p)) >= 1
           /\ p[1] <= n => Cardinality(SaidBy(r, p)) <= Cardinality(SaidUpTo(r, n))
           /\ ~(p[1] <= n) => Cardinality(SaidBy(r, p)) > Cardinality(SaidUpTo(r, n))
  <1> DEFINE S == SaidBy(r, p)
             U == SaidUpTo(r, n)
  <1>1. /\ S \in SUBSET Said(r) /\ p \in S /\ IsFiniteSet(S) /\ Cardinality(S) \in Nat
    <2>1. S \in SUBSET Said(r) /\ p \in S
      BY SaidIs DEF SaidBy
    <2> QED
      BY <2>1, SaidIs, FS_Subset, FS_CardinalityType
  <1>2. Cardinality(S) # 0
    BY <1>1, FS_EmptySet
  <1>3. ASSUME p[1] <= n
        PROVE  Cardinality(S) <= Cardinality(U)
    <2>1. S \in SUBSET U
      <3>1. \A q \in S : q \in Said(r) /\ q[1] <= p[1] /\ q[1] \in Nat
        BY SaidIs DEF SaidBy
      <3>2. p[1] \in Nat
        BY SaidIs
      <3> QED
        BY <1>3, <3>1, <3>2 DEF SaidUpTo
    <2> QED
      BY <2>1, CountIs, FS_Subset
  <1>4. ASSUME ~(p[1] <= n)
        PROVE  Cardinality(S) > Cardinality(U)
    <2>1. U \cup {p} \in SUBSET S
      <3>1. \A q \in U : q \in Said(r) /\ q[1] <= n /\ q[1] \in Nat
        BY SaidIs DEF SaidUpTo
      <3>2. p[1] \in Nat /\ \A q \in U : q[1] < p[1]
        BY <1>4, <3>1, SaidIs
      <3> QED
        BY <1>1, <3>1, <3>2 DEF SaidBy
    <2>2. p \notin U
      BY <1>4 DEF SaidUpTo
    <2>3. Cardinality(U \cup {p}) = Cardinality(U) + 1
      BY <2>2, CountIs, FS_AddElement
    <2>4. Cardinality(U \cup {p}) <= Cardinality(S)
      BY <1>1, <2>1, FS_Subset
    <2> QED
      BY <1>1, <2>3, <2>4, CountIs
  <1> QED
    BY <1>1, <1>2, <1>3, <1>4

(* What is told up to a token is in order, and so is all that comes first.  *)
LEMMA ToldIsInOrder ==
    ASSUME NEW r \in Seq(Token), NEW n \in Int, NEW told, Told(told, r, n), ~OnDelta
    PROVE  InOrder(told, r)
  <1>1. Len(told) = Cardinality(SaidUpTo(r, n))
    BY DEF Told
  <1>2. ASSUME NEW p \in Said(r), Cardinality(SaidBy(r, p)) <= Len(told)
        PROVE  told[Cardinality(SaidBy(r, p))] = Fragments(r[p[1]].x)[p[2]]
    <2>1. p[1] <= n
      <3>1. Cardinality(SaidUpTo(r, n)) \in Nat /\ Cardinality(SaidBy(r, p)) \in Nat
        BY Zenon, CountIs, RankIs
      <3>2. ~(p[1] <= n) => Cardinality(SaidBy(r, p)) > Cardinality(SaidUpTo(r, n))
        BY Zenon, RankIs
      <3> QED
        BY <1>1, <1>2, <3>1, <3>2
    <2>2. p \in SaidUpTo(r, n)
      BY <2>1 DEF SaidUpTo
    <2> QED
      BY <2>2 DEF Told
  <1> QED
    BY <1>1, <1>2, CountIs DEF InOrder

LEMMA FirstIsInOrder ==
    ASSUME NEW r \in Seq(Token), NEW S, NEW a \in Seq(S), NEW b \in Seq(S),
           InOrder(a \o b, r)
    PROVE  InOrder(a, r)
  <1>1. /\ Len(a) \in Nat /\ Len(b) \in Nat /\ Len(a \o b) = Len(a) + Len(b)
        /\ \A i \in 1..Len(a) : (a \o b)[i] = a[i]
    OBVIOUS
  <1>2. Len(a) <= Cardinality(Said(r))
    <2>1. Cardinality(Said(r)) \in Nat
      <3>1. 0 \in Int
        OBVIOUS
      <3> QED
        BY Zenon, <3>1, CountIs
    <2> QED
      BY <1>1, <2>1 DEF InOrder
  <1>3. ASSUME NEW p \in Said(r), Cardinality(SaidBy(r, p)) <= Len(a)
        PROVE  a[Cardinality(SaidBy(r, p))] = Fragments(r[p[1]].x)[p[2]]
    <2>1. /\ Cardinality(SaidBy(r, p)) \in 1..Len(a)
          /\ Cardinality(SaidBy(r, p)) <= Len(a \o b)
      <3>1. 0 \in Int
        OBVIOUS
      <3>2. Cardinality(SaidBy(r, p)) \in Nat /\ Cardinality(SaidBy(r, p)) >= 1
        BY Zenon, <3>1, RankIs
      <3> QED
        BY <1>1, <1>3, <3>2
    <2> QED
      BY <1>1, <2>1 DEF InOrder
  <1> QED
    BY <1>2, <1>3 DEF InOrder

(* Where no line of the event stream is, nothing is said.                   *)
Quiet(r, m, n) == \A j \in StreamOf(r) : j <= n => j <= m

LEMMA ToldSkips ==
    ASSUME NEW r \in Seq(Token), NEW m \in Int, NEW n \in Int, m <= n, Quiet(r, m, n),
           NEW told, Told(told, r, m)
    PROVE  Told(told, r, n)
  <1>1. ASSUME NEW p \in Said(r)
        PROVE  p[1] <= n <=> p[1] <= m
    <2>1. p[1] \in StreamOf(r) /\ p[1] \in Nat
      BY SaidIs
    <2> QED
      BY <2>1 DEF Quiet
  <1>2. SaidUpTo(r, m) = SaidUpTo(r, n)
    BY <1>1 DEF SaidUpTo
  <1> QED
    BY <1>2 DEF Told

(* The fragments of one more line are the next to be told.                  *)
Unended(r, i) == \A j \in StreamOf(r) : j < i => r[j].x \notin {"done", "junk"}

LEMMA LineIsSaid ==
    ASSUME NEW r \in Seq(Token), NEW i \in StreamOf(r), Unended(r, i)
    PROVE  /\ \A m \in {1, 2} : m <= Len(Fragments(r[i].x)) => <<i, m>> \in Said(r)
           /\ \A p \in Said(r) :
                p[1] = i => \/ p = <<i, 1>> /\ 1 <= Len(Fragments(r[i].x))
                            \/ p = <<i, 2>> /\ 2 <= Len(Fragments(r[i].x))
  <1>1. ASSUME NEW m \in {1, 2}, m <= Len(Fragments(r[i].x))
        PROVE  <<i, m>> \in Said(r)
    BY <1>1 DEF Said, Unended
  <1>2. ASSUME NEW p \in Said(r), p[1] = i
        PROVE  \/ p = <<i, 1>> /\ 1 <= Len(Fragments(r[i].x))
               \/ p = <<i, 2>> /\ 2 <= Len(Fragments(r[i].x))
    BY <1>2, SaidIs
  <1> QED
    BY <1>1, <1>2

LEMMA LineIsCounted ==
    ASSUME NEW r \in Seq(Token), NEW i \in StreamOf(r), Unended(r, i)
    PROVE  LET U == SaidUpTo(r, i - 1)
               k == Len(Fragments(r[i].x))
           IN  /\ k = 0 => SaidUpTo(r, i) = U
               /\ k = 1 => SaidUpTo(r, i) = U \cup {<<i, 1>>}
               /\ k = 2 => SaidUpTo(r, i) = (U \cup {<<i, 1>>}) \cup {<<i, 2>>}
               /\ k >= 1 => SaidBy(r, <<i, 1>>) = U \cup {<<i, 1>>}
               /\ k = 2 => SaidBy(r, <<i, 2>>) = (U \cup {<<i, 1>>}) \cup {<<i, 2>>}
               /\ <<i, 1>> \notin U /\ <<i, 2>> \notin U
  <1> DEFINE U == SaidUpTo(r, i - 1)
             k == Len(Fragments(r[i].x))
             a == <<i, 1>>
             b == <<i, 2>>
  <1>1. i \in Nat /\ k \in {0, 1, 2}
    <2>1. i \in Nat /\ r[i].x \in BodyText
      BY StreamIs
    <2> QED
      BY <2>1, FragmentsAre
  <1>2. /\ k >= 1 => a \in Said(r)
        /\ k = 2 => b \in Said(r)
        /\ \A p \in Said(r) : p[1] = i => (p = a /\ 1 <= k) \/ (p = b /\ 2 <= k)
    BY <1>1, LineIsSaid
  <1>3. \A p \in Said(r) : p[1] \in Nat /\ p[2] \in {1, 2}
    BY SaidIs
  <1>4. a[1] = i /\ a[2] = 1 /\ b[1] = i /\ b[2] = 2
    OBVIOUS
  <1> HIDE DEF a, b, k
  <1>5. \A p : p \in U <=> p \in Said(r) /\ p[1] < i
    BY <1>1, <1>3 DEF SaidUpTo
  <1> HIDE DEF U
  <1>6. a \notin U /\ b \notin U
    BY <1>1, <1>4, <1>5
  <1>7. \A p : p \in SaidUpTo(r, i) <=> p \in Said(r) /\ (p[1] < i \/ p[1] = i)
    BY <1>1, <1>3 DEF SaidUpTo
  <1>8. /\ \A p : p \in SaidBy(r, a) <=> p \in Said(r) /\ (p[1] < i \/ (p[1] = i /\ p[2] <= 1))
        /\ \A p : p \in SaidBy(r, b) <=> p \in Said(r) /\ (p[1] < i \/ (p[1] = i /\ p[2] <= 2))
    BY <1>1, <1>3, <1>4 DEF SaidBy
  <1>9. \A p : p \in SaidUpTo(r, i) <=> p \in U \/ (p = a /\ k >= 1) \/ (p = b /\ k = 2)
    BY <1>1, <1>2, <1>4, <1>5, <1>7
  <1>10. /\ k >= 1 => \A p : p \in SaidBy(r, a) <=> p \in U \/ p = a
         /\ k = 2 => \A p : p \in SaidBy(r, b) <=> p \in U \/ p = a \/ p = b
    BY <1>1, <1>2, <1>3, <1>4, <1>5, <1>8
  <1>11. /\ k = 0 => SaidUpTo(r, i) = U
         /\ k = 1 => SaidUpTo(r, i) = U \cup {a}
         /\ k = 2 => SaidUpTo(r, i) = (U \cup {a}) \cup {b}
    <2>1. CASE k = 0
      <3>1. SaidUpTo(r, i) \subseteq U /\ U \subseteq SaidUpTo(r, i)
        BY <1>9, <2>1
      <3>2. SaidUpTo(r, i) = U
        BY Zenon, <3>1
      <3> QED
        BY <2>1, <3>2
    <2>2. CASE k = 1
      BY <1>9, <2>2
    <2>3. CASE k = 2
      BY <1>9, <2>3
    <2> QED
      BY <1>1, <2>1, <2>2, <2>3
  <1>12. /\ k >= 1 => SaidBy(r, a) = U \cup {a}
         /\ k = 2 => SaidBy(r, b) = (U \cup {a}) \cup {b}
    BY <1>10
  <1> QED
    BY <1>6, <1>11, <1>12 DEF U, k, a, b

Joins(S, a, b, ab) ==
    /\ ab \in Seq(S) /\ Len(ab) = Len(a) + Len(b)
    /\ \A n \in 1..Len(a) : ab[n] = a[n]
    /\ \A n \in 1..Len(b) : ab[Len(a) + n] = b[n]

LEMMA JoinIs ==
    ASSUME NEW S, NEW a \in Seq(S), NEW b \in Seq(S)
    PROVE  Joins(S, a, b, a \o b)
  BY DEF Joins

LEMMA ToldGrows ==
    ASSUME NEW r \in Seq(Token), NEW i \in StreamOf(r), Unended(r, i),
           NEW told \in Seq(Fragment), Told(told, r, i - 1)
    PROVE  Told(told \o Fragments(r[i].x), r, i)
  <1> SUFFICES ASSUME ~OnDelta
               PROVE  Told(told \o Fragments(r[i].x), r, i)
    BY DEF Told
  <1> DEFINE U == SaidUpTo(r, i - 1)
             u == Cardinality(U)
             f == Fragments(r[i].x)
             all == told \o f
             a == <<i, 1>>
             b == <<i, 2>>
             rank(p) == Cardinality(SaidBy(r, p))
  <1>1. /\ i \in Nat /\ i - 1 \in Int /\ f \in Seq(Fragment) /\ Len(f) \in {0, 1, 2}
    <2>1. i \in Nat /\ r[i].x \in BodyText
      BY StreamIs
    <2> QED
      BY <2>1, FragmentsAre
  <1>2. u \in Nat /\ IsFiniteSet(U)
    BY <1>1, CountIs
  <1>3. Len(told) = u
    BY DEF Told
  <1>4. /\ all \in Seq(Fragment) /\ Len(all) = u + Len(f)
        /\ \A n \in 1..u : all[n] = told[n]
        /\ \A n \in 1..Len(f) : all[u + n] = f[n]
    <2> HIDE DEF f, U
    <2>1. /\ all \in Seq(Fragment) /\ Len(all) = Len(told) + Len(f)
          /\ \A n \in 1..Len(told) : all[n] = told[n]
          /\ \A n \in 1..Len(f) : all[Len(told) + n] = f[n]
      <3>1. Joins(Fragment, told, f, all)
        BY Zenon, <1>1, JoinIs
      <3> HIDE DEF all
      <3> QED
        BY Zenon, <3>1 DEF Joins
    <2> HIDE DEF all
    <2> QED
      BY <1>3, <2>1
  <1>5. /\ a \notin U /\ b \notin U
        /\ Len(f) = 0 => SaidUpTo(r, i) = U
        /\ Len(f) = 1 => SaidUpTo(r, i) = U \cup {a}
        /\ Len(f) = 2 => SaidUpTo(r, i) = (U \cup {a}) \cup {b}
        /\ Len(f) >= 1 => SaidBy(r, a) = U \cup {a}
        /\ Len(f) = 2 => SaidBy(r, b) = (U \cup {a}) \cup {b}
    BY LineIsCounted
  <1>6. /\ IsFiniteSet(U \cup {a}) /\ Cardinality(U \cup {a}) = u + 1
        /\ Cardinality((U \cup {a}) \cup {b}) = (u + 1) + 1
    <2>1. IsFiniteSet(U \cup {a}) /\ Cardinality(U \cup {a}) = u + 1
      BY <1>2, <1>5, FS_AddElement
    <2>2. b \notin U \cup {a}
      BY <1>5
    <2> QED
      BY <2>1, <2>2, FS_AddElement
  <1>7. Len(all) = Cardinality(SaidUpTo(r, i))
    <2> HIDE DEF f, U, all, a, b
    <2>1. CASE Len(f) = 0
      BY <1>2, <1>4, <1>5, <2>1
    <2>2. CASE Len(f) = 1
      <3>1. SaidUpTo(r, i) = U \cup {a}
        BY Zenon, <1>5, <2>2
      <3>2. Cardinality(SaidUpTo(r, i)) = u + 1
        BY Zenon, <1>6, <3>1
      <3> QED
        BY <1>2, <1>4, <2>2, <3>2
    <2>3. CASE Len(f) = 2
      <3>1. SaidUpTo(r, i) = (U \cup {a}) \cup {b}
        BY Zenon, <1>5, <2>3
      <3>2. Cardinality(SaidUpTo(r, i)) = (u + 1) + 1
        BY Zenon, <1>6, <3>1
      <3> QED
        BY <1>2, <1>4, <2>3, <3>2
    <2> QED
      BY <1>1, <2>1, <2>2, <2>3
  <1>8. ASSUME NEW p \in U
        PROVE  all[rank(p)] = Fragments(r[p[1]].x)[p[2]]
    <2>1. told[rank(p)] = Fragments(r[p[1]].x)[p[2]]
      BY <1>8 DEF Told
    <2>2. p \in Said(r) /\ p[1] <= i - 1
      BY <1>8 DEF SaidUpTo
    <2>3. rank(p) \in Nat /\ rank(p) >= 1 /\ rank(p) <= u
      BY Zenon, <1>1, <2>2, RankIs
    <2>4. rank(p) \in 1..u
      BY <1>2, <2>3
    <2> HIDE DEF all, u, rank
    <2> QED
      BY <1>4, <2>1, <2>4
  <1>9. Len(f) >= 1 => all[rank(a)] = f[1]
    <2> HIDE DEF f, U, all, a, b
    <2>1. Len(f) >= 1 => rank(a) = u + 1
      BY Zenon, <1>5, <1>6
    <2>2. Len(f) >= 1 => 1 \in 1..Len(f)
      BY <1>1
    <2> QED
      BY Zenon, <1>4, <2>1, <2>2
  <1>10. Len(f) = 2 => all[rank(b)] = f[2]
    <2> HIDE DEF f, U, all, a, b
    <2>1. Len(f) = 2 => rank(b) = (u + 1) + 1
      BY Zenon, <1>5, <1>6
    <2>2. Len(f) = 2 => 2 \in 1..Len(f) /\ (u + 1) + 1 = u + 2
      BY <1>1, <1>2
    <2> QED
      BY Zenon, <1>4, <2>1, <2>2
  <1>11. ASSUME NEW p \in SaidUpTo(r, i)
         PROVE  all[rank(p)] = Fragments(r[p[1]].x)[p[2]]
    <2>1. CASE p \in U
      BY <1>8, <2>1
    <2>2. CASE p = a /\ Len(f) >= 1
      BY <1>9, <2>2
    <2>3. CASE p = b /\ Len(f) = 2
      BY <1>10, <2>3
    <2>4. p \in U \/ (p = a /\ Len(f) >= 1) \/ (p = b /\ Len(f) = 2)
      <3> HIDE DEF U, a, b, f
      <3> QED
        BY <1>1, <1>5, <1>11
    <2> QED
      BY <2>1, <2>2, <2>3, <2>4
  <1> QED
    BY <1>7, <1>11 DEF Told

(* All of the reply is told when no line of it is left.                     *)
LEMMA AllIsTold ==
    ASSUME NEW r \in Seq(Token), NEW n \in Int, \A j \in StreamOf(r) : j <= n,
           NEW told, Told(told, r, n), ~OnDelta
    PROVE  Len(told) = Cardinality(Said(r))
  <1>1. SaidUpTo(r, n) = Said(r)
    BY SaidIs DEF SaidUpTo
  <1> QED
    BY <1>1 DEF Told

-----------------------------------------------------------------------------
(* The event stream: whether its [DONE] is behind, what is told of the      *)
(* lines that are complete, and which line is in hand.                      *)
Marked(done, r, n) ==
    IF done
    THEN \E i \in StreamOf(r) :
           /\ i <= n /\ r[i].x = "done"
           /\ \A j \in StreamOf(r) \ {i} : j <= n =>
                IF j < i THEN r[j].x \notin {"done", "junk"} ELSE r[j].x = "note"
    ELSE \A j \in StreamOf(r) : j <= n => r[j].x \notin {"done", "junk"}

Kept(line, done, told, r, n) ==
    IF line = "none" THEN Told(told, r, n) /\ Marked(done, r, n)
    ELSE \E i \in StreamOf(r) :
           /\ i <= n /\ r[i].x = line /\ Quiet(r, i, n)
           /\ Told(told, r, i - 1) /\ Marked(done, r, i - 1)

LEMMA MarkedSkips ==
    ASSUME NEW r \in Seq(Token), NEW m \in Int, NEW n \in Int, m <= n, Quiet(r, m, n),
           NEW done, Marked(done, r, m)
    PROVE  Marked(done, r, n)
  <1>1. \A j \in StreamOf(r) : j \in Nat /\ (j <= m <=> j <= n)
    <2>1. \A j \in StreamOf(r) : j \in Nat
      BY StreamIs
    <2> QED
      BY <2>1 DEF Quiet
  <1>2. CASE done
    <2>1. PICK i \in StreamOf(r) :
              /\ i <= m /\ r[i].x = "done"
              /\ \A j \in StreamOf(r) \ {i} : j <= m =>
                   IF j < i THEN r[j].x \notin {"done", "junk"} ELSE r[j].x = "note"
      BY <1>2 DEF Marked
    <2> QED
      BY <1>1, <1>2, <2>1 DEF Marked
  <1>3. CASE ~done
    BY <1>1, <1>3 DEF Marked
  <1> QED
    BY <1>2, <1>3

LEMMA KeptSkips ==
    ASSUME NEW r \in Seq(Token), NEW m \in Int, NEW n \in Int, m <= n, Quiet(r, m, n),
           NEW line, NEW done, NEW told, Kept(line, done, told, r, m)
    PROVE  Kept(line, done, told, r, n)
  <1>1. CASE line = "none"
    <2>1. Told(told, r, m) /\ Marked(done, r, m)
      BY <1>1 DEF Kept
    <2>2. Told(told, r, n)
      BY Zenon, <2>1, ToldSkips
    <2>3. Marked(done, r, n)
      BY Zenon, <2>1, MarkedSkips
    <2> QED
      BY <1>1, <2>2, <2>3 DEF Kept
  <1>2. CASE line # "none"
    <2>1. PICK i \in StreamOf(r) :
              /\ i <= m /\ r[i].x = line /\ Quiet(r, i, m)
              /\ Told(told, r, i - 1) /\ Marked(done, r, i - 1)
      BY <1>2 DEF Kept
    <2>2. i \in Nat /\ \A j \in StreamOf(r) : j \in Nat
      BY StreamIs
    <2>3. i <= n /\ Quiet(r, i, n)
      BY <2>1, <2>2 DEF Quiet
    <2> QED
      BY <1>2, <2>1, <2>3 DEF Kept
  <1> QED
    BY <1>1, <1>2

LEMMA NewLineKept ==
    ASSUME NEW r \in Seq(Token), NEW n \in Nat, n + 1 \in StreamOf(r),
           NEW done, NEW told, Kept("none", done, told, r, n)
    PROVE  Kept(r[n + 1].x, done, told, r, n + 1)
  <1>1. r[n + 1].x # "none"
    BY StreamIs DEF BodyText
  <1>2. Told(told, r, n) /\ Marked(done, r, n) /\ (n + 1) - 1 = n
    BY DEF Kept
  <1>3. Quiet(r, n + 1, n + 1)
    BY DEF Quiet
  <1> QED
    BY <1>1, <1>2, <1>3 DEF Kept

(* A line without fragments leaves what is told as it is.                   *)
LEMMA ToldStays ==
    ASSUME NEW r \in Seq(Token), NEW i \in StreamOf(r), Fragments(r[i].x) = <<>>,
           NEW told, Told(told, r, i - 1)
    PROVE  Told(told, r, i)
  <1>1. i \in Nat
    BY StreamIs
  <1>2. ASSUME NEW p \in Said(r)
        PROVE  p[1] <= i <=> p[1] <= i - 1
    <2>1. p[1] \in Nat /\ p[2] \in {1, 2} /\ p[2] <= Len(Fragments(r[p[1]].x))
      BY SaidIs
    <2>2. p[1] # i
      <3>1. SUFFICES ASSUME p[1] = i PROVE FALSE
        OBVIOUS
      <3>2. Len(Fragments(r[p[1]].x)) = 0
        BY <3>1
      <3> QED
        BY <2>1, <3>2
    <2> QED
      BY <1>1, <2>1, <2>2
  <1>3. SaidUpTo(r, i - 1) = SaidUpTo(r, i)
    BY <1>2 DEF SaidUpTo
  <1> QED
    BY <1>3 DEF Told

LEMMA LineEndsKept ==
    ASSUME NEW q, Sound(q), ~q.failed, q.line # "none", NEW r \in Seq(Token), NEW n \in Int,
           NEW told \in Seq(Fragment), Kept(q.line, q.sawDone, told, r, n),
           ~SseEvent(q).failed
    PROVE  Kept("none", SseEvent(q).sawDone, told \o Emitted(q), r, n)
  <1> DEFINE s == SseEvent(q)
             more == told \o Emitted(q)
  <1>1. PICK i \in StreamOf(r) :
            /\ i <= n /\ r[i].x = q.line /\ Quiet(r, i, n)
            /\ Told(told, r, i - 1) /\ Marked(q.sawDone, r, i - 1)
    BY DEF Kept
  <1>2. /\ i \in Nat /\ q.line \in BodyText \ {"nl"} /\ \A j \in StreamOf(r) : j \in Nat
        /\ Emitted(q) = Fragments(q.line) /\ told \o <<>> = told
    <2>1. Emitted(q) = Fragments(q.line)
      BY DEF Emitted
    <2> QED
      BY <1>1, <2>1, StreamIs
  <1>3. /\ Told(more, r, i) /\ Marked(s.sawDone, r, i)
    <2>1. CASE q.line = "note"
      <3>1. s = q /\ Emitted(q) = <<>>
        BY <1>2, <2>1, FragmentsAre DEF SseEvent
      <3>2. Told(told, r, i)
        <4>1. Fragments(r[i].x) = <<>>
          BY Zenon, <1>1, <1>2, <3>1
        <4> QED
          BY <1>1, <4>1, ToldStays
      <3>3. Marked(q.sawDone, r, i)
        <4>1. CASE q.sawDone
          <5>1. PICK k \in StreamOf(r) :
                    /\ k <= i - 1 /\ r[k].x = "done"
                    /\ \A j \in StreamOf(r) \ {k} : j <= i - 1 =>
                         IF j < k THEN r[j].x \notin {"done", "junk"} ELSE r[j].x = "note"
            BY <1>1, <4>1 DEF Marked
          <5>2. ASSUME NEW j \in StreamOf(r) \ {k}, j <= i
                PROVE  IF j < k THEN r[j].x \notin {"done", "junk"} ELSE r[j].x = "note"
            <6>1. CASE j <= i - 1
              BY <5>1, <6>1
            <6>2. CASE j = i
              BY <1>1, <1>2, <2>1, <5>1, <6>2
            <6> QED
              BY <1>2, <5>2, <6>1, <6>2
          <5>3. k <= i
            <6>1. k \in Nat /\ k <= i - 1
              BY <1>2, <5>1
            <6> QED
              BY <1>2, <6>1
          <5> QED
            BY <4>1, <5>1, <5>2, <5>3 DEF Marked
        <4>2. CASE ~q.sawDone
          <5>1. ASSUME NEW j \in StreamOf(r), j <= i
                PROVE  r[j].x \notin {"done", "junk"}
            <6>1. CASE j <= i - 1
              BY <1>1, <4>2, <6>1 DEF Marked
            <6>2. CASE j = i
              BY <1>1, <2>1, <6>2
            <6> QED
              BY <1>2, <5>1, <6>1, <6>2
          <5> QED
            BY <4>2, <5>1 DEF Marked
        <4> QED
          BY <4>1, <4>2
      <3> QED
        BY <1>2, <3>1, <3>2, <3>3
    <2>2. CASE q.line = "done"
      <3>1. Emitted(q) = <<>> /\ ~q.sawDone /\ s.sawDone
        <4>1. ~q.sawDone /\ ValidTools(q) /\ s = [q EXCEPT !.sawDone = TRUE]
          <5>1. CASE q.sawDone \/ ~ValidTools(q)
            <6>1. s = [q EXCEPT !.failed = TRUE]
              BY <2>2, <5>1 DEF SseEvent
            <6> QED
              BY <6>1 DEF Sound, ReqType
          <5>2. CASE ~(q.sawDone \/ ~ValidTools(q))
            BY <2>2, <5>2 DEF SseEvent
          <5> QED
            BY <5>1, <5>2
        <4> QED
          BY <1>2, <2>2, <4>1, FragmentsAre DEF Sound, ReqType
      <3>2. Told(told, r, i)
        <4>1. Fragments(r[i].x) = <<>>
          BY Zenon, <1>1, <1>2, <3>1
        <4> QED
          BY <1>1, <4>1, ToldStays
      <3>3. \A j \in StreamOf(r) : j <= i - 1 => r[j].x \notin {"done", "junk"}
        BY <1>1, <3>1 DEF Marked
      <3>4. \A j \in StreamOf(r) \ {i} : j <= i => j < i /\ j <= i - 1
        BY <1>2
      <3>5. Marked(TRUE, r, i)
        BY <1>1, <1>2, <2>2, <3>3, <3>4 DEF Marked
      <3> HIDE DEF s
      <3>6. Marked(s.sawDone, r, i)
        BY <3>1, <3>5 DEF Marked
      <3> QED
        BY <1>2, <3>1, <3>2, <3>6
    <2>3. CASE q.line \notin {"note", "done"}
      <3>1. s = [q EXCEPT !.failed = q.sawDone \/ q.line = "junk"]
        BY <2>3 DEF SseEvent
      <3>2. ~q.sawDone /\ q.line # "junk" /\ ~s.sawDone
        BY <3>1 DEF Sound, ReqType
      <3>3. \A j \in StreamOf(r) : j <= i - 1 => r[j].x \notin {"done", "junk"}
        BY <1>1, <3>2 DEF Marked
      <3>4. Unended(r, i)
        <4>1. \A j \in StreamOf(r) : j < i => j <= i - 1
          BY <1>2
        <4> QED
          BY Zenon, <3>3, <4>1 DEF Unended
      <3>5. Told(more, r, i)
        <4>1. Told(told \o Fragments(r[i].x), r, i)
          BY Zenon, <1>1, <3>4, ToldGrows
        <4> QED
          BY Zenon, <1>1, <1>2, <4>1
      <3>6. \A j \in StreamOf(r) : j <= i => r[j].x \notin {"done", "junk"}
        BY <1>1, <1>2, <2>3, <3>2, <3>3
      <3> HIDE DEF s
      <3>7. Marked(s.sawDone, r, i)
        BY <3>2, <3>6 DEF Marked
      <3> QED
        BY <3>5, <3>7
    <2> QED
      BY <2>1, <2>2, <2>3
  <1> HIDE DEF s, more
  <1>4. Kept("none", s.sawDone, more, r, i)
    BY <1>3 DEF Kept
  <1>5. Kept("none", s.sawDone, more, r, n)
    <2>1. i \in Int
      BY <1>2
    <2> QED
      BY Zenon, <1>1, <1>4, <2>1, KeptSkips
  <1> QED
    BY <1>5 DEF s, more

-----------------------------------------------------------------------------
(* The framing of HTTP: what its parser has read, against the reply.        *)
HeadersRead(q, r, n) ==
    /\ \A j \in 1..n : r[j].k # "blank"
    /\ q.chunked <=> \E j \in 1..n : r[j].k = "chunked"
    /\ \A j \in 1..n : r[j].k = "length" => q.length = r[j].n + 1
    /\ q.length # 0 => \E j \in 1..n : r[j].k = "length"

ContentRead(q, r, h, n) ==
    IF ~q.chunked
    THEN /\ q.http \in {"content", "done"}
         /\ n + q.remaining = h + (IF q.length > 0 THEN q.length - 1 ELSE 0)
         /\ q.http = "done" => q.remaining = 0
    ELSE /\ q.http # "content"
         /\ IF q.http \in {"final", "done"}
            THEN \E j \in h + 1 .. n : r[j] = LastChunk
            ELSE \A j \in h + 1 .. n : r[j].k = "size" => r[j] # LastChunk

Framed(q, r, n) ==
    IF q.http \in {"status", "header"}
    THEN HeadersRead(q, r, n) /\ (q.http = "status" => n = 0)
    ELSE \E h \in 1..n : /\ r[h].k = "blank" /\ HeadersRead(q, r, h - 1)
                         /\ ContentRead(q, r, h, n)

SameFraming(q, s) ==
    /\ s.http = q.http /\ s.chunked = q.chunked
    /\ s.length = q.length /\ s.remaining = q.remaining

LEMMA SameIsFramed ==
    ASSUME NEW q, NEW s, SameFraming(q, s), NEW r, NEW n, Framed(q, r, n)
    PROVE  Framed(s, r, n)
  <1>1. \A m : HeadersRead(s, r, m) <=> HeadersRead(q, r, m)
    BY DEF SameFraming, HeadersRead
  <1>2. \A h : ContentRead(s, r, h, n) <=> ContentRead(q, r, h, n)
    BY DEF SameFraming, ContentRead
  <1>3. s.http = q.http
    BY DEF SameFraming
  <1> QED
    BY <1>1, <1>2, <1>3 DEF Framed

(* A line of HTTP.                                                          *)
LEMMA HeadersGoOn ==
    ASSUME NEW q, Sound(q), NEW r \in Seq(Token), NEW n \in Nat, n + 1 \in 1..Len(r),
           NEW s, HeadersRead(q, r, n), r[n + 1].k # "blank",
           s.chunked = (q.chunked \/ r[n + 1].k = "chunked"),
           s.length = (IF r[n + 1].k = "length" THEN r[n + 1].n + 1 ELSE q.length),
           r[n + 1].k = "length" => q.length \in {0, r[n + 1].n + 1}
    PROVE  HeadersRead(s, r, n + 1)
  <1>1. \A j \in 1 .. n + 1 : j \in 1..n \/ j = n + 1
    OBVIOUS
  <1>2. n + 1 \in 1 .. n + 1 /\ \A j \in 1..n : j \in 1 .. n + 1
    OBVIOUS
  <1>3. r[n + 1] \in Token /\ q.length \in Nat /\ q.chunked \in BOOLEAN
    BY DEF Sound, ReqType
  <1>4. r[n + 1].k = "length" => r[n + 1].n \in Nat
    BY <1>3, TokenFields
  <1>5. \A j \in 1 .. n + 1 : r[j].k # "blank"
    BY <1>1 DEF HeadersRead
  <1>6. s.chunked <=> \E j \in 1 .. n + 1 : r[j].k = "chunked"
    BY <1>1, <1>2, <1>3 DEF HeadersRead
  <1>7. ASSUME NEW j \in 1 .. n + 1, r[j].k = "length"
        PROVE  s.length = r[j].n + 1
    <2>1. CASE j = n + 1
      BY <1>7, <2>1
    <2>2. CASE j \in 1..n
      <3>1. q.length = r[j].n + 1 /\ r[j].n \in Nat
        <4>1. r[j] \in Token
          BY <1>1
        <4> QED
          BY <1>7, <2>2, <4>1, TokenFields DEF HeadersRead
      <3> QED
        BY <1>3, <1>4, <3>1
    <2> QED
      BY <1>1, <2>1, <2>2
  <1>8. s.length # 0 => \E j \in 1 .. n + 1 : r[j].k = "length"
    BY <1>2 DEF HeadersRead
  <1> QED
    BY <1>5, <1>6, <1>7, <1>8 DEF HeadersRead

LEMMA OneFurther ==
    ASSUME NEW n \in Nat
    PROVE  /\ n \in Int /\ n + 1 \in Int /\ n <= n + 1
           /\ n + 1 \in Nat /\ (n + 1) - 1 = n /\ n + 1 \in 1 .. n + 1
           /\ \A h \in 1..n :
                /\ \A j \in h + 1 .. n + 1 : j \in h + 1 .. n \/ j = n + 1
                /\ \A j \in h + 1 .. n : j \in h + 1 .. n + 1
                /\ n + 1 \in h + 1 .. n + 1 /\ h \in 1 .. n + 1
  OBVIOUS

LEMMA ContentStarts ==
    ASSUME NEW s, NEW r, NEW h \in Nat, s.length \in Nat,
           \/ s.chunked /\ s.http = "size"
           \/ /\ ~s.chunked
              /\ s.remaining = (IF s.length > 0 THEN s.length - 1 ELSE 0)
              /\ s.http = (IF s.length > 1 THEN "content" ELSE "done")
    PROVE  ContentRead(s, r, h, h)
  <1>1. \A j \in h + 1 .. h : FALSE
    OBVIOUS
  <1>2. CASE s.chunked /\ s.http = "size"
    BY <1>1, <1>2 DEF ContentRead
  <1>3. CASE ~(s.chunked /\ s.http = "size")
    <2>1. s.remaining \in Nat
      BY <1>3
    <2> QED
      BY <1>3, <2>1 DEF ContentRead
  <1> QED
    BY <1>2, <1>3

LEMMA NotTheLast ==
    ASSUME NEW t, t.n # 0
    PROVE  t # LastChunk
  BY DEF LastChunk

LEMMA LineFramed ==
    ASSUME NEW q, Sound(q), NEW r \in Seq(Token), NEW n \in Nat, n + 1 \in 1..Len(r),
           q.http \in {"status", "header", "size", "data end", "final"}, Framed(q, r, n),
           NEW t \in Token, t = r[n + 1], NEW s, s = Line(q, t), s.http # "error"
    PROVE  Framed(s, r, n + 1) /\ n + 1 \notin StreamOf(r)
  <1>1. /\ q \in ReqType
        /\ q.length \in Nat /\ q.chunked \in BOOLEAN /\ q.remaining \in Nat
    BY DEF Sound, ReqType
  <1>2. CASE q.http = "status"
    <2>1. t.k = "status" /\ s = [q EXCEPT !.http = "header", !.ok = t.ok]
      BY <1>1, <1>2 DEF Line, ReqType
    <2>2. s.http = "header" /\ s.chunked = q.chunked /\ s.length = q.length
      BY <1>1, <2>1 DEF ReqType
    <2>3. HeadersRead(q, r, n)
      BY <1>2 DEF Framed
    <2>4. HeadersRead(s, r, n + 1)
      BY <1>1, <2>1, <2>2, <2>3, HeadersGoOn
    <2> QED
      BY <2>1, <2>2, <2>4 DEF Framed, StreamOf
  <1>3. CASE q.http = "header"
    <2>1. s = Header(q, t) /\ t.k \in {"chunked", "length", "blank"}
      BY <1>1, <1>3 DEF Line, Header, ReqType
    <2>2. HeadersRead(q, r, n)
      BY <1>3 DEF Framed
    <2>3. CASE t.k \in {"chunked", "length"}
      <3>1. /\ s.http = "header"
            /\ s.chunked = (q.chunked \/ t.k = "chunked")
            /\ s.length = (IF t.k = "length" THEN t.n + 1 ELSE q.length)
            /\ t.k = "length" => q.length \in {0, t.n + 1}
        <4>1. CASE t.k = "chunked"
          <5>1. s = [q EXCEPT !.chunked = TRUE]
            BY <2>1, <4>1 DEF Header
          <5> QED
            BY <1>1, <1>3, <4>1, <5>1 DEF ReqType
        <4>2. CASE t.k = "length"
          <5>1. CASE q.length \notin {0, t.n + 1}
            <6>1. s = [q EXCEPT !.http = "error"]
              BY <2>1, <4>2, <5>1 DEF Header
            <6> QED
              BY <1>1, <6>1 DEF ReqType
          <5>2. CASE q.length \in {0, t.n + 1}
            <6>1. s = [q EXCEPT !.length = t.n + 1]
              BY <2>1, <4>2, <5>2 DEF Header
            <6> QED
              BY <1>1, <1>3, <4>2, <5>2, <6>1 DEF ReqType
          <5> QED
            BY <5>1, <5>2
        <4> QED
          BY <2>3, <4>1, <4>2
      <3>2. HeadersRead(s, r, n + 1)
        BY <2>2, <2>3, <3>1, HeadersGoOn
      <3> QED
        BY <2>3, <3>1, <3>2 DEF Framed, StreamOf
    <2>4. CASE t.k = "blank"
      <3>1. s = HeadersDone(q)
        BY <2>1, <2>4 DEF Header
      <3>2. /\ s.chunked = q.chunked /\ s.length = q.length
            /\ s.remaining = (IF q.length > 0 THEN q.length - 1 ELSE 0)
            /\ s.http = (IF q.chunked THEN IF q.length > 0 THEN "error" ELSE "size"
                         ELSE IF q.length > 1 THEN "content" ELSE "done")
        BY <1>1, <3>1 DEF HeadersDone, ReqType
      <3>3. HeadersRead(s, r, (n + 1) - 1)
        <4>1. (n + 1) - 1 = n
          BY Zenon, OneFurther
        <4>2. HeadersRead(s, r, n)
          BY <2>2, <3>2 DEF HeadersRead
        <4> QED
          BY <4>1, <4>2
      <3>4. ContentRead(s, r, n + 1, n + 1)
        <4>1. n + 1 \in Nat /\ s.length \in Nat
          BY Zenon, <1>1, <3>2, OneFurther
        <4>2. \/ s.chunked /\ s.http = "size"
              \/ /\ ~s.chunked
                 /\ s.remaining = (IF s.length > 0 THEN s.length - 1 ELSE 0)
                 /\ s.http = (IF s.length > 1 THEN "content" ELSE "done")
          BY <1>1, <3>2
        <4> QED
          BY Zenon, <4>1, <4>2, ContentStarts
      <3>5. s.http \notin {"status", "header"} /\ n + 1 \in 1 .. n + 1
        <4>1. n + 1 \in 1 .. n + 1
          BY Zenon, OneFurther
        <4>2. s.http \in {"size", "content", "done"}
          BY Zenon, <3>2
        <4> QED
          BY Zenon, <4>1, <4>2
      <3>6. Framed(s, r, n + 1)
        BY <2>4, <3>3, <3>4, <3>5 DEF Framed
      <3> QED
        BY <2>4, <3>6 DEF StreamOf
    <2> QED
      BY <2>1, <2>3, <2>4
  <1>4. CASE q.http \in {"size", "data end", "final"}
    <2>1. /\ t.k \in {"size", "crlf"}
          /\ s.chunked = q.chunked /\ s.length = q.length
          /\ \/ /\ q.http = "size" /\ t.k = "size"
                /\ s.http = IF t.n = 0 THEN "final" ELSE "chunk data"
             \/ q.http = "data end" /\ t.k = "crlf" /\ s.http = "size"
             \/ q.http = "final" /\ t.k = "crlf" /\ s.http = "done"
      <3>1. CASE q.http = "size" /\ t.k = "size"
        <4>1. s = [q EXCEPT !.http = IF t.n = 0 THEN "final" ELSE "chunk data",
                            !.remaining = t.n]
          BY <3>1 DEF Line
        <4> QED
          BY <1>1, <3>1, <4>1 DEF ReqType
      <3>2. CASE q.http = "data end" /\ t.k = "crlf"
        <4>1. s = [q EXCEPT !.http = "size"]
          BY <3>2 DEF Line
        <4> QED
          BY <1>1, <3>2, <4>1 DEF ReqType
      <3>3. CASE q.http = "final" /\ t.k = "crlf"
        <4>1. s = [q EXCEPT !.http = "done"]
          BY <3>3 DEF Line
        <4> QED
          BY <1>1, <3>3, <4>1 DEF ReqType
      <3>4. CASE ~(q.http = "size" /\ t.k = "size") /\ ~(q.http = "data end" /\ t.k = "crlf")
                 /\ ~(q.http = "final" /\ t.k = "crlf")
        <4>1. s = [q EXCEPT !.http = "error"]
          BY <1>4, <3>4 DEF Line
        <4> QED
          BY <1>1, <4>1 DEF ReqType
      <3> QED
        BY <3>1, <3>2, <3>3, <3>4
    <2>2. PICK h \in 1..n : /\ r[h].k = "blank" /\ HeadersRead(q, r, h - 1)
                            /\ ContentRead(q, r, h, n)
      BY <1>4 DEF Framed
    <2>3. HeadersRead(s, r, h - 1)
      BY <2>1, <2>2 DEF HeadersRead
    <2>4. q.chunked
      BY <1>4, <2>2 DEF ContentRead
    <2>5. /\ \A j \in h + 1 .. n + 1 : j \in h + 1 .. n \/ j = n + 1
          /\ \A j \in h + 1 .. n : j \in h + 1 .. n + 1
          /\ n + 1 \in h + 1 .. n + 1 /\ h \in 1 .. n + 1
      BY Zenon, OneFurther
    <2>6. ContentRead(s, r, h, n + 1)
      <3>1. CASE q.http = "size" /\ t.k = "size" /\ t.n = 0
        <4>1. t = LastChunk
          BY <1>1, <3>1 DEF Token, LastChunk
        <4>2. s.http = "final" /\ s.chunked
          BY <2>1, <2>4, <3>1
        <4> QED
          BY <2>5, <4>1, <4>2 DEF ContentRead
      <3>2. CASE q.http \in {"size", "data end"} /\ ~(q.http = "size" /\ t.n = 0)
        <4>1. t.k = "size" => t # LastChunk
          <5>1. t.k = "size" => q.http = "size" /\ t.n # 0
            BY <2>1, <3>2
          <5> QED
            BY Zenon, <5>1, NotTheLast
        <4>2. \A j \in h + 1 .. n : r[j].k = "size" => r[j] # LastChunk
          BY <2>2, <2>4, <3>2 DEF ContentRead
        <4>3. s.http \in {"chunk data", "size"} /\ s.chunked
          BY <2>1, <2>4, <3>2
        <4> QED
          BY <2>5, <4>1, <4>2, <4>3 DEF ContentRead
      <3>3. CASE q.http = "final"
        <4>1. \E j \in h + 1 .. n : r[j] = LastChunk
          BY <2>2, <2>4, <3>3 DEF ContentRead
        <4>2. s.http = "done" /\ s.chunked
          BY <2>1, <2>4, <3>3
        <4> QED
          BY <2>5, <4>1, <4>2 DEF ContentRead
      <3> QED
        BY <1>4, <2>1, <3>1, <3>2, <3>3
    <2>7. s.http \notin {"status", "header"}
      BY <2>1
    <2>8. Framed(s, r, n + 1)
      BY <2>2, <2>3, <2>5, <2>6, <2>7 DEF Framed
    <2> QED
      BY <2>1, <2>8 DEF StreamOf
  <1> QED
    BY <1>2, <1>3, <1>4

(* A piece of a body belongs to it, and none does after the end.            *)
LEMMA HeaderEndIsOne ==
    ASSUME NEW r, NEW h \in Nat \ {0}, r[h].k = "blank", \A j \in 1 .. h - 1 : r[j].k # "blank",
           NEW g \in Nat \ {0}, HeaderEnds(r, g)
    PROVE  g = h
  <1>1. g < h => g \in 1 .. h - 1
    OBVIOUS
  <1>2. h < g => h \in 1 .. g - 1
    OBVIOUS
  <1>3. ~(g < h) /\ ~(h < g)
    BY <1>1, <1>2 DEF HeaderEnds
  <1> QED
    BY <1>3

LEMMA LengthIs ==
    ASSUME NEW q, NEW r \in Seq(Token), NEW h \in 1..Len(r), HeadersRead(q, r, h - 1),
           NEW j \in 1 .. h - 1, r[j].k = "length"
    PROVE  r[j].n \in Nat /\ q.length = r[j].n + 1
  <1>1. r[j] \in Token
    OBVIOUS
  <1>2. r[j].n \in Nat
    BY <1>1, TokenFields
  <1> QED
    BY <1>2 DEF HeadersRead

LEMMA ContentIs ==
    ASSUME NEW q, NEW r \in Seq(Token), NEW h \in 1..Len(r), HeadersRead(q, r, h - 1),
           NEW n \in Nat, NEW rest \in Nat \ {0}, q.length \in Nat,
           n + rest = h + (IF q.length > 0 THEN q.length - 1 ELSE 0), h <= n
    PROVE  \E j \in 1 .. h - 1 : r[j].k = "length" /\ n + 1 <= h + r[j].n
  <1>1. q.length > 0
    OBVIOUS
  <1>2. PICK j \in 1 .. h - 1 : r[j].k = "length"
    BY <1>1 DEF HeadersRead
  <1>3. r[j].n \in Nat /\ q.length = r[j].n + 1
    BY <1>2, LengthIs
  <1>4. n + 1 <= h + r[j].n
    BY <1>1, <1>3
  <1> QED
    BY <1>2, <1>4

LEMMA BodyFramed ==
    ASSUME NEW q, Sound(q), NEW r \in Seq(Token), NEW n \in Nat, n + 1 \in 1..Len(r),
           q.http \in BodyStates, Framed(q, r, n), r[n + 1].k = "body",
           NEW s, s = Taken(q)
    PROVE  /\ Framed(s, r, n + 1)
           /\ r[n + 1].x # "nl" => n + 1 \in StreamOf(r)
  <1>1. /\ q \in ReqType /\ q.length \in Nat /\ q.remaining \in Nat \ {0}
    BY DEF Sound, ReqType
  <1>2. /\ s.chunked = q.chunked /\ s.length = q.length /\ s.remaining = q.remaining - 1
        /\ s.http = (IF q.remaining > 1 THEN q.http
                     ELSE IF q.http = "chunk data" THEN "data end" ELSE "done")
    BY <1>1 DEF Taken, ReqType
  <1>3. PICK h \in 1..n : /\ r[h].k = "blank" /\ HeadersRead(q, r, h - 1)
                          /\ ContentRead(q, r, h, n)
    BY DEF Framed, BodyStates
  <1>4. h \in Nat \ {0} /\ h <= n /\ h \in 1..Len(r) /\ h \in 1 .. (n + 1) - 1
    <2>1. n <= Len(r) /\ (n + 1) - 1 = n
      OBVIOUS
    <2> QED
      BY <1>3, <2>1
  <1>5. HeaderEnds(r, h)
    BY <1>3 DEF HeaderEnds, HeadersRead
  <1>6. HeadersRead(s, r, h - 1)
    BY <1>2, <1>3 DEF HeadersRead
  <1>7. /\ \A j \in h + 1 .. n + 1 : j \in h + 1 .. n \/ j = n + 1
        /\ \A j \in h + 1 .. n : j \in h + 1 .. n + 1
        /\ h \in 1 .. n + 1 /\ (n + 1) - 1 = n
    BY Zenon, OneFurther
  <1>8. CASE q.chunked
    <2>1. q.http = "chunk data" /\ \A j \in h + 1 .. n : r[j].k = "size" => r[j] # LastChunk
      BY <1>3, <1>8 DEF ContentRead, BodyStates
    <2>2. s.http \in {"chunk data", "data end"}
      BY <1>2, <2>1
    <2>3. ContentRead(s, r, h, n + 1)
      <3>1. \A j \in h + 1 .. n + 1 : r[j].k = "size" => r[j] # LastChunk
        BY <1>7, <2>1
      <3> QED
        BY <1>2, <1>8, <2>2, <3>1 DEF ContentRead
    <2>4. InBody(r, h, n + 1)
      <3>1. \E j \in 1 .. h - 1 : r[j].k = "chunked"
        BY <1>3, <1>8 DEF HeadersRead
      <3> QED
        BY <1>7, <2>1, <3>1 DEF InBody
    <2>5. Framed(s, r, n + 1)
      BY <1>3, <1>6, <1>7, <2>2, <2>3 DEF Framed
    <2> QED
      BY <1>4, <1>5, <2>4, <2>5 DEF StreamOf
  <1>9. CASE ~q.chunked
    <2>1. /\ q.http = "content"
          /\ n + q.remaining = h + (IF q.length > 0 THEN q.length - 1 ELSE 0)
      BY <1>3, <1>9 DEF ContentRead, BodyStates
    <2>2. s.http \in {"content", "done"} /\ (s.http = "done" => s.remaining = 0)
      BY <1>1, <1>2, <2>1
    <2>3. ContentRead(s, r, h, n + 1)
      <3>1. (n + 1) + s.remaining = h + (IF s.length > 0 THEN s.length - 1 ELSE 0)
        BY <1>1, <1>2, <1>4, <2>1
      <3> QED
        BY <1>2, <1>9, <2>2, <3>1 DEF ContentRead
    <2>4. InBody(r, h, n + 1)
      <3>1. ~\E j \in 1 .. h - 1 : r[j].k = "chunked"
        BY <1>3, <1>9 DEF HeadersRead
      <3>2. \E j \in 1 .. h - 1 : r[j].k = "length" /\ n + 1 <= h + r[j].n
        BY Zenon, <1>1, <1>3, <1>4, <2>1, ContentIs
      <3> QED
        BY <3>1, <3>2 DEF InBody
    <2>5. Framed(s, r, n + 1)
      BY <1>3, <1>6, <1>7, <2>2, <2>3 DEF Framed
    <2> QED
      BY <1>4, <1>5, <2>4, <2>5 DEF StreamOf
  <1> QED
    BY <1>1, <1>8, <1>9 DEF ReqType

LEMMA DoneFramed ==
    ASSUME NEW q, Sound(q), NEW r \in Seq(Token), NEW n \in 0..Len(r),
           q.http = "done", Framed(q, r, n), NEW i \in StreamOf(r)
    PROVE  i <= n
  <1>1. q.length \in Nat /\ i \in Nat
    BY StreamIs DEF Sound, ReqType
  <1>2. PICK h \in 1..n : /\ r[h].k = "blank" /\ HeadersRead(q, r, h - 1)
                          /\ ContentRead(q, r, h, n)
    BY DEF Framed
  <1>3. PICK g \in 1 .. i - 1 : HeaderEnds(r, g) /\ InBody(r, g, i)
    BY DEF StreamOf
  <1>4. g = h
    <2>1. h \in Nat \ {0} /\ g \in Nat \ {0}
      BY <1>1, <1>2, <1>3
    <2>2. \A j \in 1 .. h - 1 : r[j].k # "blank"
      BY <1>2 DEF HeadersRead
    <2> QED
      BY Zenon, <1>2, <1>3, <2>1, <2>2, HeaderEndIsOne
  <1>5. h \in 1..Len(r) /\ h \in Nat /\ n \in Nat
    BY <1>2
  <1>6. CASE q.chunked
    <2>1. PICK z \in h + 1 .. n : r[z] = LastChunk
      BY <1>2, <1>6 DEF ContentRead
    <2>2. \A j \in h + 1 .. i - 1 : r[j].k = "size" => r[j] # LastChunk
      BY <1>2, <1>3, <1>4, <1>6 DEF InBody, HeadersRead
    <2>3. LastChunk.k = "size"
      BY DEF LastChunk
    <2>4. z \notin h + 1 .. i - 1
      BY <2>1, <2>2, <2>3
    <2> QED
      BY <1>1, <1>5, <2>1, <2>4
  <1>7. CASE ~q.chunked
    <2>1. n + q.remaining = h + (IF q.length > 0 THEN q.length - 1 ELSE 0) /\ q.remaining = 0
      BY <1>2, <1>7 DEF ContentRead
    <2>2. PICK j \in 1 .. h - 1 : r[j].k = "length" /\ i <= h + r[j].n
      BY <1>2, <1>3, <1>4, <1>7 DEF InBody, HeadersRead
    <2>3. r[j].n \in Nat /\ q.length = r[j].n + 1
      BY Zenon, <1>2, <1>5, <2>2, LengthIs
    <2> QED
      BY <1>1, <1>5, <2>1, <2>2, <2>3
  <1> QED
    BY <1>6, <1>7

-----------------------------------------------------------------------------
(* The parsers and the reply.  Clean is a request that may still end well:  *)
(* for it what is told is all that the lines read so far say.               *)
Parsed == wire.read - Len(chunk)

Cut ==
    /\ Len(chunk) <= wire.read /\ wire.read <= wire.arrived
    /\ \A i \in 1..Len(chunk) : chunk[i] = wire.reply[Parsed + i]
    /\ at \notin {"parsing", "emitting"} => chunk = <<>>

Clean(q) ==
    /\ ~q.failed /\ q.line # "junk"
    /\ q.http # "error" /\ (q.ok \/ q.http = "status")

Follows(q, told, n) ==
    /\ Clean(q) => /\ Framed(q, wire.reply, n)
                   /\ Kept(q.line, q.sawDone, told, wire.reply, n)
    /\ ~OnDelta => InOrder(told, wire.reply)

WellEnded(told, r) ==
    /\ ~OnDelta => Len(told) = Cardinality(Said(r))
    /\ \E i \in StreamOf(r) :
          /\ r[i].x = "done"
          /\ \A j \in StreamOf(r) \ {i} :
                IF j < i THEN r[j].x \notin {"done", "junk"} ELSE r[j].x = "note"

Reading ==
    /\ events \in Seq(Fragment)
    /\ Live => Cut /\ Follows(req, events \o emits, Parsed)
    /\ ~OnDelta => InOrder(events, wire.reply)
    /\ req.state = "OK" => WellEnded(events, wire.reply)

LEMMA SseGoesOn ==
    ASSUME NEW q, Sound(q), NEW r \in Seq(Token), NEW n \in Int, NEW told \in Seq(Fragment),
           ~q.failed /\ q.line # "junk" => Kept(q.line, q.sawDone, told, r, n),
           ~OnDelta => InOrder(told, r),
           NEW s, s = [SseEvent(q) EXCEPT !.line = "none"]
    PROVE  /\ ~s.failed => ~q.failed /\ q.line # "junk"
           /\ ~s.failed => Kept("none", s.sawDone, told \o Emitted(q), r, n)
           /\ ~OnDelta => InOrder(told \o Emitted(q), r)
           /\ s.line = "none" /\ s.ok = q.ok /\ s.state = q.state /\ SameFraming(q, s)
  <1> DEFINE e == SseEvent(q)
  <1>1. /\ q \in ReqType /\ e \in ReqType
        /\ e.ok = q.ok /\ e.state = q.state /\ SameFraming(q, e)
    <2>1. q \in ReqType /\ e \in ReqType
      BY SseIsSound DEF Sound
    <2> QED
      BY <2>1 DEF SseEvent, ReqType, SameFraming
  <1>2. /\ s.failed = e.failed /\ s.sawDone = e.sawDone /\ s.line = "none"
        /\ s.ok = e.ok /\ s.state = e.state /\ SameFraming(e, s)
    <2> HIDE DEF e
    <2> QED
      BY <1>1 DEF ReqType, SameFraming, e
  <1>3. ~e.failed => ~q.failed /\ q.line # "junk"
    BY <1>1 DEF SseEvent, ReqType
  <1>4. told \o <<>> = told
    OBVIOUS
  <1>5. ASSUME ~e.failed
        PROVE  Kept("none", e.sawDone, told \o Emitted(q), r, n)
    <2>1. CASE q.line = "none"
      <3>1. e = q /\ Emitted(q) = <<>>
        BY <2>1 DEF SseEvent, Emitted
      <3>2. Kept("none", q.sawDone, told, r, n)
        BY <1>3, <1>5, <2>1
      <3> QED
        BY <1>4, <3>1, <3>2
    <2>2. CASE q.line # "none"
      <3>1. Kept(q.line, q.sawDone, told, r, n) /\ ~q.failed
        BY <1>3, <1>5
      <3> QED
        BY Zenon, <1>5, <2>2, <3>1, LineEndsKept
    <2> QED
      BY <2>1, <2>2
  <1>6. ASSUME ~OnDelta
        PROVE  InOrder(told \o Emitted(q), r)
    <2>1. CASE e.failed
      <3>1. Emitted(q) = <<>>
        BY <2>1 DEF Emitted
      <3> QED
        BY <1>4, <1>6, <3>1
    <2>2. CASE ~e.failed
      <3>1. Told(told \o Emitted(q), r, n)
        BY <1>5, <2>2 DEF Kept
      <3> QED
        BY Zenon, <1>6, <3>1, ToldIsInOrder
    <2> QED
      BY <2>1, <2>2
  <1>7. SameFraming(q, s)
    BY <1>1, <1>2 DEF SameFraming
  <1> HIDE DEF e
  <1> QED
    BY <1>1, <1>2, <1>3, <1>5, <1>6, <1>7

(* Steps that leave the parsers alone, and the end of a request.            *)
LEMMA QuietReading ==
    ASSUME Typed, Reading, UNCHANGED <<events, emits, chunk>>,
           wire'.reply = wire.reply, wire'.read = wire.read,
           wire'.arrived \in Nat, wire'.arrived >= wire.arrived,
           req' = req \/ req' = [req EXCEPT !.due = TRUE],
           Live /\ at' \notin {"parsing", "emitting"} => chunk = <<>>
    PROVE  Reading'
  <1>1. /\ wire.arrived \in Nat /\ wire.read \in Nat
    BY DEF Typed, Places
  <1>2. /\ req'.state = req.state /\ req'.failed = req.failed /\ req'.line = req.line
        /\ req'.http = req.http /\ req'.ok = req.ok /\ req'.sawDone = req.sawDone
        /\ SameFraming(req, req')
    BY DEF Typed, Sound, ReqType, SameFraming
  <1>3. Parsed' = Parsed /\ (Live' <=> Live) /\ (events \o emits)' = events \o emits
    BY <1>2 DEF Parsed, Live
  <1>4. Live => Cut'
    <2>1. Live => Cut
      BY DEF Reading
    <2> QED
      BY <1>1, <1>3, <2>1 DEF Cut
  <1>5. Clean(req) <=> Clean(req')
    BY <1>2 DEF Clean
  <1>6. Framed(req, wire.reply, Parsed) => Framed(req', wire.reply, Parsed)
    BY Zenon, <1>2, SameIsFramed
  <1>7. Live => Follows(req, events \o emits, Parsed)
    BY DEF Reading
  <1>8. Live' => Follows(req, events \o emits, Parsed)'
    BY <1>2, <1>3, <1>5, <1>6, <1>7 DEF Follows
  <1> QED
    BY <1>2, <1>3, <1>4, <1>8 DEF Reading

LEMMA EndsReading ==
    ASSUME Typed, Reading, NEW how \in Statuses \ {"live"}, Ends(how),
           events' \in Seq(Fragment), ~OnDelta => InOrder(events', wire.reply),
           how = "OK" => WellEnded(events', wire.reply)
    PROVE  Reading'
  <1>1. req' = [req EXCEPT !.state = how] /\ wire' = wire
    BY DEF Ends
  <1>2. req'.state = how
    BY <1>1 DEF Typed, Sound, ReqType
  <1> QED
    BY <1>1, <1>2 DEF Reading, Live

LEMMA InsideReading ==
    ASSUME Reading, Live, UNCHANGED wire, UNCHANGED events,
           req'.state = "live", Cut', Follows(req', events \o emits', Parsed')
    PROVE  Reading'
  <1>1. Follows(req, events \o emits, Parsed)'
    BY Zenon DEF Follows
  <1> QED
    BY <1>1 DEF Reading, Live

LEMMA ChunkRead ==
    ASSUME Typed, Closing, Reading, ReadChunk
    PROVE  Reading'
  <1>1. /\ Live /\ chunk = <<>> /\ emits' = emits /\ events' = events /\ req' = req
    BY DEF ReadChunk, Reading, Cut
  <1>2. /\ wire.reply \in Seq(Token) /\ wire.arrived \in Nat /\ wire.arrived <= Len(wire.reply)
        /\ wire.read \in Nat /\ DOMAIN wire = {"reply", "arrived", "read", "eof"}
    BY DEF Typed, Places
  <1>3. PICK n \in wire.read + 1 .. wire.arrived :
            /\ chunk' = SubSeq(wire.reply, wire.read + 1, n)
            /\ wire' = [wire EXCEPT !.read = n]
    BY DEF ReadChunk
  <1>4. /\ wire'.reply = wire.reply /\ wire'.read = n /\ wire'.arrived = wire.arrived
        /\ n \in Nat /\ n <= Len(wire.reply) /\ n >= wire.read + 1
    BY <1>2, <1>3
  <1>5. /\ Len(chunk') = n - wire.read
        /\ \A i \in 1..Len(chunk') : chunk'[i] = wire.reply[wire.read + i]
    <2> DEFINE r == wire.reply
               m == wire.read
    <2>1. r \in Seq(Token) /\ m \in Nat /\ n \in Nat /\ m + 1 <= n /\ n <= Len(r)
      BY <1>2, <1>4
    <2> HIDE DEF r, m
    <2>2. /\ Len(SubSeq(r, m + 1, n)) = n - m
          /\ \A i \in 1 .. n - m : SubSeq(r, m + 1, n)[i] = r[m + i]
      BY <2>1
    <2> QED
      BY <1>3, <2>2 DEF r, m
  <1>6. Parsed = wire.read /\ Parsed' = wire.read
    BY <1>1, <1>2, <1>4, <1>5 DEF Parsed
  <1>7. Cut'
    <2>1. Len(chunk') <= wire'.read /\ wire'.read <= wire'.arrived
      BY <1>2, <1>3, <1>4, <1>5
    <2>2. \A i \in 1..Len(chunk') : chunk'[i] = wire'.reply[Parsed' + i]
      BY <1>4, <1>5, <1>6
    <2>3. at' = "parsing"
      BY DEF ReadChunk
    <2> QED
      BY <2>1, <2>2, <2>3 DEF Cut
  <1>8. Follows(req, events \o emits, Parsed)'
    <2>1. Follows(req, events \o emits, Parsed)
      BY <1>1 DEF Reading
    <2>2. (events \o emits)' = events \o emits /\ Parsed' = Parsed
      BY <1>1, <1>6
    <2> QED
      BY Zenon, <1>1, <1>4, <2>1, <2>2 DEF Follows
  <1> QED
    BY <1>1, <1>4, <1>7, <1>8 DEF Reading, Live

(* A token goes from the chunk to the parsers.                              *)
LEMMA TokenTaken ==
    ASSUME Typed, Reading, Live, chunk # <<>>, chunk' = Tail(chunk), UNCHANGED wire,
           at' \in {"parsing", "emitting"}
    PROVE  /\ Cut' /\ Parsed \in Nat /\ Parsed' = Parsed + 1
           /\ Parsed + 1 \in 1..Len(wire.reply) /\ Head(chunk) = wire.reply[Parsed + 1]
           /\ Head(chunk) \in Token
  <1>1. /\ chunk \in Seq(Token) /\ wire.arrived <= Len(wire.reply) /\ wire.read \in Nat
        /\ wire.arrived \in Nat /\ wire.reply \in Seq(Token)
    BY DEF Typed, Places
  <1>2. /\ Len(chunk) <= wire.read /\ wire.read <= wire.arrived
        /\ \A i \in 1..Len(chunk) : chunk[i] = wire.reply[Parsed + i]
    BY DEF Reading, Cut
  <1>3. /\ Len(chunk) \in Nat \ {0} /\ Len(chunk') = Len(chunk) - 1
        /\ Head(chunk) = chunk[1] /\ Head(chunk) \in Token
        /\ \A i \in 1 .. Len(chunk) - 1 : chunk'[i] = chunk[i + 1]
    BY <1>1
  <1>4. Parsed \in Nat /\ Parsed' = Parsed + 1 /\ Parsed + 1 \in 1..Len(wire.reply)
    BY <1>1, <1>2, <1>3 DEF Parsed
  <1>5. Head(chunk) = wire.reply[Parsed + 1]
    BY <1>2, <1>3
  <1>6. Len(chunk') <= wire'.read /\ wire'.read <= wire'.arrived
    BY <1>1, <1>2, <1>3
  <1>7. ASSUME NEW i \in 1..Len(chunk')
        PROVE  chunk'[i] = wire'.reply[Parsed' + i]
    <2>1. i \in 1 .. Len(chunk) - 1 /\ i + 1 \in 1..Len(chunk)
      BY <1>3
    <2>2. Parsed' + i = Parsed + (i + 1)
      BY <1>4, <2>1
    <2> QED
      BY <1>2, <1>3, <2>1, <2>2
  <1>8. Cut'
    BY <1>6, <1>7 DEF Cut
  <1> QED
    BY <1>3, <1>4, <1>5, <1>8

LEMMA QuietOne ==
    ASSUME NEW r \in Seq(Token), NEW n \in Nat, n + 1 \notin StreamOf(r)
    PROVE  Quiet(r, n, n + 1)
  <1>1. ASSUME NEW j \in StreamOf(r), j <= n + 1
        PROVE  j <= n
    <2>1. j \in Nat /\ j # n + 1
      BY StreamIs
    <2> QED
      BY <1>1, <2>1
  <1> QED
    BY <1>1 DEF Quiet

LEMMA LineFollows ==
    ASSUME NEW q, Sound(q), NEW n \in Nat, NEW told, Follows(q, told, n),
           wire.reply \in Seq(Token), n + 1 \in 1..Len(wire.reply),
           q.http \in {"status", "header", "size", "data end", "final"},
           NEW t \in Token, t = wire.reply[n + 1], NEW s, s = Line(q, t)
    PROVE  Follows(s, told, n + 1)
  <1> DEFINE r == wire.reply
  <1>1. q \in ReqType
    BY Zenon DEF Sound
  <1>2. /\ s.sawDone = q.sawDone /\ s.failed = q.failed /\ s.line = q.line
        /\ q.http # "status" => s.ok = q.ok
        /\ s.http # "status"
    <2>1. CASE q.http = "header"
      <3>1. s = Header(q, t)
        BY <2>1 DEF Line
      <3> QED
        BY <1>1, <2>1, <3>1 DEF Header, HeadersDone, ReqType
    <2>2. CASE q.http # "header"
      BY <1>1, <2>2 DEF Line, ReqType
    <2> QED
      BY <2>1, <2>2
  <1>3. ASSUME Clean(s)
        PROVE  Framed(s, r, n + 1) /\ Kept(s.line, s.sawDone, told, r, n + 1)
    <2>1. Clean(q) /\ s.http # "error"
      <3>1. q.http # "error"
        BY Zenon
      <3> QED
        BY Zenon, <1>2, <1>3, <3>1 DEF Clean
    <2>2. Framed(q, r, n) /\ Kept(q.line, q.sawDone, told, r, n)
      BY Zenon, <2>1 DEF Follows
    <2>3. Framed(s, r, n + 1) /\ n + 1 \notin StreamOf(r)
      BY Zenon, <1>1, <2>1, <2>2, LineFramed
    <2>4. Quiet(r, n, n + 1)
      BY Zenon, <2>3, QuietOne
    <2>5. n \in Int /\ n + 1 \in Int /\ n <= n + 1
      BY Zenon, OneFurther
    <2>6. Kept(q.line, q.sawDone, told, r, n + 1)
      BY Zenon, <2>2, <2>4, <2>5, KeptSkips
    <2> QED
      BY <1>2, <2>3, <2>6
  <1> QED
    BY <1>3 DEF Follows

LEMMA TakenKeeps ==
    ASSUME NEW q, Sound(q)
    PROVE  /\ Taken(q).line = q.line /\ Taken(q).ok = q.ok /\ Taken(q).failed = q.failed
           /\ Taken(q).sawDone = q.sawDone /\ Taken(q).state = q.state
           /\ q.http \in BodyStates =>
                Taken(q).http \in {"content", "chunk data", "data end", "done"}
  BY DEF Taken, Sound, ReqType, BodyStates

LEMMA PieceFollows ==
    ASSUME NEW q, Sound(q), NEW n \in Nat, NEW told \in Seq(Fragment), Follows(q, told, n),
           wire.reply \in Seq(Token), n + 1 \in 1..Len(wire.reply), q.http \in BodyStates,
           NEW t, t = wire.reply[n + 1], t.k # "body" \/ t.x # "nl",
           NEW s, s = BodyPiece(Taken(q), IF t.k = "body" THEN t.x ELSE "junk")
    PROVE  Follows(s, told, n + 1)
  <1> DEFINE r == wire.reply
             p == Taken(q)
  <1>1. t \in Token /\ q \in ReqType /\ p \in ReqType
    BY TakenIsSound DEF Sound, ReqType
  <1>2. /\ p.line = q.line /\ p.ok = q.ok /\ p.failed = q.failed /\ p.sawDone = q.sawDone
        /\ p.http # "status"
    BY TakenKeeps
  <1>3. /\ s.ok = p.ok /\ s.failed = p.failed /\ s.sawDone = p.sawDone /\ SameFraming(p, s)
        /\ s.line = (IF p.line = "none" THEN (IF t.k = "body" THEN t.x ELSE "junk") ELSE "junk")
    <2> HIDE DEF p
    <2> QED
      BY <1>1 DEF BodyPiece, ReqType, SameFraming, p
  <1>4. ASSUME Clean(s)
        PROVE  Framed(s, r, n + 1) /\ Kept(s.line, s.sawDone, told, r, n + 1)
    <2>1. t.k = "body" /\ t.x # "nl" /\ q.line = "none" /\ s.line = t.x
      BY <1>2, <1>3, <1>4 DEF Clean
    <2>2. Clean(q)
      <3>1. q.ok /\ ~q.failed
        BY <1>2, <1>3, <1>4 DEF Clean, SameFraming
      <3> QED
        BY <2>1, <3>1 DEF Clean, BodyStates
    <2>3. Framed(q, r, n) /\ Kept("none", q.sawDone, told, r, n)
      BY <2>1, <2>2 DEF Follows
    <2>4. Framed(p, r, n + 1) /\ n + 1 \in StreamOf(r)
      <3>1. r[n + 1].k = "body" /\ r[n + 1].x # "nl"
        BY Zenon, <2>1
      <3> QED
        BY Zenon, <2>3, <3>1, BodyFramed
    <2>5. Framed(s, r, n + 1)
      BY Zenon, <1>3, <2>4, SameIsFramed
    <2>6. Kept(r[n + 1].x, q.sawDone, told, r, n + 1)
      BY Zenon, <2>3, <2>4, NewLineKept
    <2> QED
      BY <1>2, <1>3, <2>1, <2>5, <2>6
  <1> QED
    BY <1>4 DEF Follows

LEMMA NewlineFollows ==
    ASSUME NEW q, Sound(q), NEW n \in Nat, NEW told \in Seq(Fragment), Follows(q, told, n),
           wire.reply \in Seq(Token), n + 1 \in 1..Len(wire.reply), q.http \in BodyStates,
           q.ok, NEW t, t = wire.reply[n + 1], t.k = "body", t.x = "nl",
           NEW s, s = [SseEvent(Taken(q)) EXCEPT !.line = "none"]
    PROVE  Follows(s, told \o Emitted(Taken(q)), n + 1) /\ s.state = q.state
  <1> DEFINE r == wire.reply
             p == Taken(q)
             more == told \o Emitted(p)
  <1>1. Sound(p)
    BY TakenIsSound
  <1>2. /\ p.line = q.line /\ p.ok = q.ok /\ p.failed = q.failed /\ p.sawDone = q.sawDone
        /\ p.state = q.state
    BY TakenKeeps
  <1> HIDE DEF p
  <1>3. ~q.failed /\ q.line # "junk" => Clean(q)
    BY DEF Clean, BodyStates
  <1>4. n \in Int /\ n + 1 \in Int /\ n <= n + 1
    OBVIOUS
  <1>5. /\ ~s.failed => ~p.failed /\ p.line # "junk"
        /\ ~s.failed => Kept("none", s.sawDone, more, r, n)
        /\ ~OnDelta => InOrder(more, r)
        /\ s.line = "none" /\ s.ok = p.ok /\ s.state = p.state /\ SameFraming(p, s)
    <2>1. ~p.failed /\ p.line # "junk" => Kept(p.line, p.sawDone, told, r, n)
      BY <1>2, <1>3 DEF Follows
    <2>2. ~OnDelta => InOrder(told, r)
      BY DEF Follows
    <2>3. s = [SseEvent(p) EXCEPT !.line = "none"]
      BY DEF p
    <2> HIDE DEF r
    <2>4. r \in Seq(Token)
      BY DEF r
    <2> QED
      BY Zenon, <1>1, <1>4, <2>1, <2>2, <2>3, <2>4, SseGoesOn
  <1>6. ASSUME Clean(s)
        PROVE  Framed(s, r, n + 1) /\ Kept(s.line, s.sawDone, more, r, n + 1)
    <2>1. Clean(q) /\ ~s.failed
      BY <1>2, <1>3, <1>5, <1>6 DEF Clean
    <2>2. Framed(q, r, n)
      BY <2>1 DEF Follows
    <2>3. r[n + 1].k = "body" /\ n + 1 \notin StreamOf(r)
      BY DEF StreamOf
    <2>4. Framed(p, r, n + 1)
      BY Zenon, <2>2, <2>3, BodyFramed DEF p
    <2>5. Framed(s, r, n + 1)
      <3>1. SameFraming(p, s)
        BY <1>5
      <3> QED
        BY Zenon, <2>4, <3>1, SameIsFramed
    <2>6. Quiet(r, n, n + 1)
      BY Zenon, <2>3, QuietOne
    <2>7. Kept("none", s.sawDone, more, r, n + 1)
      BY Zenon, <1>4, <1>5, <2>1, <2>6, KeptSkips
    <2> QED
      BY <1>5, <2>5, <2>7
  <1> HIDE DEF more
  <1>7. Follows(s, more, n + 1)
    BY <1>5, <1>6 DEF Follows
  <1> QED
    BY <1>2, <1>5, <1>7 DEF more, p

(* The handlers.                                                            *)
LEMMA ParseReading ==
    ASSUME Typed, Closing, Reading, ParseToken
    PROVE  Reading'
  <1> DEFINE n == Parsed
             t == Head(chunk)
             told == events \o emits
  <1>1. /\ at = "parsing" /\ chunk # <<>> /\ chunk' = Tail(chunk) /\ UNCHANGED wire
        /\ UNCHANGED events /\ req.http \notin {"error", "done"}
    BY DEF ParseToken
  <1>2. Live /\ emits = <<>> /\ Sound(req) /\ wire.reply \in Seq(Token) /\ req.state = "live"
    BY <1>1 DEF Closing, Typed, Places, Live
  <1>3. at' \in {"parsing", "emitting"}
    <2>1. at' = at \/ at' = IF emits' = <<>> THEN at ELSE "emitting"
      BY DEF ParseToken
    <2> QED
      BY <1>1, <2>1
  <1>4. /\ Cut' /\ n \in Nat /\ Parsed' = n + 1 /\ n + 1 \in 1..Len(wire.reply)
        /\ t = wire.reply[n + 1] /\ t \in Token
    BY Zenon, <1>1, <1>2, <1>3, TokenTaken
  <1>5. events \in Seq(Fragment) /\ told = events /\ Follows(req, told, n)
    <2>1. events \in Seq(Fragment)
      BY DEF Reading
    <2> QED
      BY <1>2, <2>1 DEF Reading
  <1> HIDE DEF n, t, told
  <1>6. ASSUME req'.state = "live", Follows(req', told \o emits', n + 1)
        PROVE  Reading'
    <2>1. Follows(req', events \o emits', Parsed')
      BY Zenon, <1>4, <1>5, <1>6
    <2> QED
      BY Zenon, <1>1, <1>2, <1>4, <1>6, <2>1, InsideReading
  <1>7. told \o <<>> = told /\ told \in Seq(Fragment)
    BY <1>5
  <1>8. CASE req.http \notin BodyStates
    <2>1. req' = Line(req, t) /\ emits' = emits
      BY <1>8 DEF ParseToken, t
    <2>2. req.http \in {"status", "header", "size", "data end", "final"}
      BY <1>1, <1>2, <1>8 DEF Sound, ReqType, HttpStates, BodyStates
    <2>3. Follows(req', told, n + 1)
      BY Zenon, <1>2, <1>4, <1>5, <2>1, <2>2, LineFollows
    <2>4. SameSoFar(req', req)
      BY Zenon, <1>2, <1>4, <1>8, <2>1, ParsersKeepDone
    <2>5. req'.state = "live"
      BY Zenon, <1>2, <2>4 DEF SameSoFar
    <2>6. told \o emits' = told
      BY Zenon, <1>2, <1>7, <2>1
    <2> QED
      BY Zenon, <1>6, <2>3, <2>5, <2>6
  <1>9. CASE req.http \in BodyStates
    <2>1. CASE ~req.ok \/ req.failed
      <3>1. req' = Taken(req) /\ emits' = emits
        BY <1>9, <2>1 DEF ParseToken
      <3>2. /\ req'.state = "live" /\ req'.ok = req.ok /\ req'.failed = req.failed
            /\ req'.http \in {"content", "chunk data", "data end", "done"}
        BY Zenon, <1>2, <1>9, <3>1, TakenKeeps
      <3>3. ~Clean(req')
        BY <2>1, <3>2 DEF Clean
      <3>4. Follows(req', told, n + 1)
        BY Zenon, <1>5, <3>3 DEF Follows
      <3>5. told \o emits' = told
        BY Zenon, <1>2, <1>7, <3>1
      <3> QED
        BY Zenon, <1>6, <3>2, <3>4, <3>5
    <2>2. CASE req.ok /\ ~req.failed /\ (t.k # "body" \/ t.x # "nl")
      <3>1. /\ req' = BodyPiece(Taken(req), IF t.k = "body" THEN t.x ELSE "junk")
            /\ emits' = emits
        BY <1>9, <2>2 DEF ParseToken, t
      <3>2. Follows(req', told, n + 1)
        BY Zenon, <1>2, <1>4, <1>5, <1>7, <1>9, <2>2, <3>1, PieceFollows
      <3>3. req'.state = "live"
        <4> DEFINE x == IF t.k = "body" THEN t.x ELSE "junk"
                   q == Taken(req)
        <4>1. x \in BodyText
          BY <1>4, TokenFields DEF BodyText
        <4>2. Sound(q) /\ q.state = "live"
          BY <1>2, <1>9, TakenIsSound, TakenKeeps
        <4>3. req' = BodyPiece(q, x)
          BY <3>1
        <4> HIDE DEF x, q
        <4>4. SameSoFar(req', q)
          BY <4>1, <4>2, <4>3, ParsersKeepDone
        <4> QED
          BY <4>2, <4>4 DEF SameSoFar
      <3>4. told \o emits' = told
        BY Zenon, <1>2, <1>7, <3>1
      <3> QED
        BY Zenon, <1>6, <3>2, <3>3, <3>4
    <2>3. CASE req.ok /\ ~req.failed /\ t.k = "body" /\ t.x = "nl"
      <3>1. /\ req' = [SseEvent(Taken(req)) EXCEPT !.line = "none"]
            /\ emits' = Emitted(Taken(req))
        BY <1>9, <2>3 DEF ParseToken, t
      <3>2. Follows(req', told \o Emitted(Taken(req)), n + 1) /\ req'.state = req.state
        BY Zenon, <1>2, <1>4, <1>5, <1>7, <1>9, <2>3, <3>1, NewlineFollows
      <3> QED
        BY Zenon, <1>2, <1>6, <3>1, <3>2
    <2> QED
      BY <1>2, <2>1, <2>2, <2>3 DEF Sound, ReqType
  <1> QED
    BY <1>8, <1>9

LEMMA AppendFirst ==
    ASSUME NEW S, NEW a \in Seq(S), NEW b \in Seq(S), b # <<>>
    PROVE  /\ Append(a, Head(b)) \in Seq(S) /\ Tail(b) \in Seq(S)
           /\ Append(a, Head(b)) \o Tail(b) = a \o b
  OBVIOUS

LEMMA EmitReading ==
    ASSUME Typed, Closing, Reading, Emit
    PROVE  Reading'
  <1>1. /\ at = "emitting" /\ emits # <<>> /\ emits \in Seq(Fragment)
        /\ events \in Seq(Fragment) /\ Live /\ wire.reply \in Seq(Token)
        /\ req \in ReqType /\ req.state = "live"
    BY DEF Emit, Typed, Places, Closing, Reading, Sound, Live
  <1>2. /\ Append(events, Head(emits)) \in Seq(Fragment) /\ Tail(emits) \in Seq(Fragment)
        /\ Append(events, Head(emits)) \o Tail(emits) = events \o emits
    BY Zenon, <1>1, AppendFirst
  <1>3. /\ events' \in Seq(Fragment)
        /\ ~OnDelta => events' = Append(events, Head(emits))
    BY <1>1, <1>2 DEF Emit
  <1>4. Cut /\ Follows(req, events \o emits, Parsed)
    BY <1>1 DEF Reading
  <1>5. ~OnDelta => InOrder(events', wire.reply)
    <2>1. SUFFICES ASSUME ~OnDelta PROVE InOrder(events', wire.reply)
      OBVIOUS
    <2>2. InOrder(Append(events, Head(emits)) \o Tail(emits), wire.reply)
      BY Zenon, <1>2, <1>4, <2>1 DEF Follows
    <2>3. InOrder(Append(events, Head(emits)), wire.reply)
      BY Zenon, <1>1, <1>2, <2>2, FirstIsInOrder
    <2> QED
      BY Zenon, <1>3, <2>1, <2>3
  <1>6. CASE Ends("cancelled")
    <2>1. "cancelled" \in Statuses \ {"live"} /\ "cancelled" # "OK"
      BY DEF Statuses
    <2> QED
      BY Zenon, <1>3, <1>5, <1>6, <2>1, EndsReading
  <1>7. CASE /\ req' = [req EXCEPT !.tools = @ \cup ({Head(emits)} \ {"text"})]
             /\ emits' = Tail(emits)
             /\ at' = IF emits' = <<>> THEN "parsing" ELSE at
             /\ UNCHANGED <<connVars, chunk, wire, touched>>
    <2>1. /\ req'.state = "live" /\ req'.failed = req.failed /\ req'.line = req.line
          /\ req'.http = req.http /\ req'.ok = req.ok /\ req'.sawDone = req.sawDone
          /\ SameFraming(req, req')
      BY <1>1, <1>7 DEF ReqType, SameFraming
    <2>2. Live' /\ Parsed' = Parsed /\ wire' = wire /\ chunk' = chunk
      BY <1>7, <2>1 DEF Parsed, Live
    <2>3. at' \in {"parsing", "emitting"}
      BY <1>1, <1>7
    <2>4. Cut'
      BY <1>4, <2>2, <2>3 DEF Cut
    <2>5. OnDelta \/ events' \o emits' = events \o emits
      BY Zenon, <1>2, <1>3, <1>7
    <2>6. ASSUME Clean(req')
          PROVE  /\ Framed(req', wire.reply, Parsed)
                 /\ Kept(req'.line, req'.sawDone, events' \o emits', wire.reply, Parsed)
      <3>1. Clean(req)
        BY <2>1, <2>6 DEF Clean
      <3>2. /\ Framed(req, wire.reply, Parsed)
            /\ Kept(req.line, req.sawDone, events \o emits, wire.reply, Parsed)
        BY Zenon, <1>4, <3>1 DEF Follows
      <3>3. Framed(req', wire.reply, Parsed)
        BY Zenon, <2>1, <3>2, SameIsFramed
      <3>4. Kept(req.line, req.sawDone, events' \o emits', wire.reply, Parsed)
        <4>1. CASE events' \o emits' = events \o emits
          BY Zenon, <3>2, <4>1
        <4>2. CASE OnDelta
          BY Zenon, <3>2, <4>2 DEF Kept, Told
        <4> QED
          BY <2>5, <4>1, <4>2
      <3> QED
        BY Zenon, <2>1, <3>3, <3>4
    <2>7. ~OnDelta => InOrder(events' \o emits', wire.reply)
      BY Zenon, <1>4, <2>5 DEF Follows
    <2>8. Follows(req', events' \o emits', Parsed)
      BY Zenon, <2>6, <2>7 DEF Follows
    <2>9. Follows(req, events \o emits, Parsed)'
      BY Zenon, <2>2, <2>8 DEF Follows
    <2>10. req'.state # "OK" /\ (~OnDelta => InOrder(events', wire'.reply))
      BY <1>5, <2>1, <2>2
    <2> QED
      BY Zenon, <1>3, <2>2, <2>4, <2>9, <2>10 DEF Reading
  <1> QED
    BY <1>6, <1>7 DEF Emit

LEMMA DoneReading ==
    ASSUME Typed, Closing, Reading, ChunkDone
    PROVE  Reading'
  <1>1. /\ at = "parsing" /\ emits = <<>> /\ events \in Seq(Fragment) /\ Live
        /\ wire.reply \in Seq(Token) /\ Sound(req) /\ req.state = "live"
    BY DEF ChunkDone, Typed, Places, Closing, Reading, Live
  <1>2. events \o <<>> = events
    BY <1>1
  <1>3. Cut /\ Follows(req, events, Parsed) /\ (~OnDelta => InOrder(events, wire.reply))
    BY <1>1, <1>2 DEF Reading
  <1>4. Parsed \in 0..Len(wire.reply) /\ Parsed \in Int /\ Len(chunk) \in Nat
    BY <1>3 DEF Cut, Parsed, Typed, Places
  <1>5. CASE \E how \in {"PARSE", "HTTP"} : EndsAfterFeed(how)
    <2>1. PICK how \in {"PARSE", "HTTP"} : EndsAfterFeed(how)
      BY <1>5
    <2>2. how \in Statuses \ {"live"} /\ how # "OK" /\ Ends(how) /\ events' = events
      BY <2>1 DEF EndsAfterFeed, Statuses
    <2> QED
      BY Zenon, <1>1, <1>3, <2>2, EndsReading
  <1>6. CASE at' = "reading" /\ UNCHANGED <<connVars, reqVars>> /\ chunk = <<>>
    <2>1. wire.arrived \in Nat /\ wire'.arrived >= wire.arrived /\ wire'.arrived \in Nat
      BY <1>6 DEF Typed, Places, reqVars
    <2> QED
      BY <1>6, <2>1, QuietReading DEF reqVars
  <1>7. CASE /\ req' = [SseEvent(req) EXCEPT !.line = "none"] /\ emits' = Emitted(req)
             /\ at' = IF emits' = <<>> THEN at ELSE "emitting"
             /\ UNCHANGED <<connVars, chunk, wire, events, touched>>
             /\ req.http = "done" /\ req.ok
    <2>1. ~req.failed /\ req.line # "junk" =>
              Kept(req.line, req.sawDone, events, wire.reply, Parsed)
      BY <1>3, <1>7 DEF Follows, Clean
    <2>2. /\ ~req'.failed => ~req.failed /\ req.line # "junk"
          /\ ~req'.failed => Kept("none", req'.sawDone, events \o emits', wire.reply, Parsed)
          /\ ~OnDelta => InOrder(events \o emits', wire.reply)
          /\ req'.line = "none" /\ req'.ok = req.ok /\ req'.state = req.state
          /\ SameFraming(req, req')
      BY ZenonT(40), <1>1, <1>3, <1>4, <1>7, <2>1, SseGoesOn
    <2>3. Parsed' = Parsed
      BY <1>7 DEF Parsed
    <2>4. ASSUME Clean(req')
          PROVE  /\ Framed(req', wire.reply, Parsed)
                 /\ Kept(req'.line, req'.sawDone, events \o emits', wire.reply, Parsed)
      <3>1. ~req'.failed /\ Clean(req)
        BY <1>7, <2>2, <2>4 DEF Clean
      <3>2. Framed(req, wire.reply, Parsed)
        BY Zenon, <1>3, <3>1 DEF Follows
      <3>3. Framed(req', wire.reply, Parsed)
        BY Zenon, <2>2, <3>2, SameIsFramed
      <3> QED
        BY Zenon, <2>2, <3>1, <3>3
    <2>5. Follows(req', events \o emits', Parsed')
      BY Zenon, <2>2, <2>3, <2>4 DEF Follows
    <2>6. Cut'
      BY <1>1, <1>3, <1>7, <2>3 DEF Cut
    <2>7. UNCHANGED wire /\ UNCHANGED events /\ req'.state = "live"
      BY <1>1, <1>7, <2>2
    <2> QED
      BY Zenon, <1>1, <2>5, <2>6, <2>7, InsideReading
  <1>8. CASE /\ EndsAfterFeed("OK") /\ req.http = "done" /\ ~req.failed /\ req.ok
             /\ req.line = "none" /\ req.sawDone
    <2>1. Clean(req)
      BY <1>8 DEF Clean
    <2>2. Framed(req, wire.reply, Parsed) /\ Kept("none", TRUE, events, wire.reply, Parsed)
      BY <1>1, <1>3, <1>8, <2>1 DEF Follows, Sound, ReqType
    <2>3. \A i \in StreamOf(wire.reply) : i <= Parsed
      BY Zenon, <1>1, <1>4, <1>8, <2>2, DoneFramed
    <2>4. Told(events, wire.reply, Parsed) /\ Marked(TRUE, wire.reply, Parsed)
      BY Zenon, <2>2 DEF Kept
    <2>5. ~OnDelta => Len(events) = Cardinality(Said(wire.reply))
      BY Zenon, <1>1, <1>4, <2>3, <2>4, AllIsTold
    <2>6. WellEnded(events, wire.reply)
      BY <2>3, <2>4, <2>5 DEF WellEnded, Marked
    <2>7. "OK" \in Statuses \ {"live"} /\ Ends("OK") /\ events' = events
      BY <1>8 DEF EndsAfterFeed, Statuses
    <2> QED
      BY Zenon, <1>1, <1>3, <2>6, <2>7, EndsReading
  <1> QED
    <2>1. CASE req.http = "error" \/ req.failed
      BY <1>5, <2>1 DEF ChunkDone
    <2>2. CASE ~(req.http = "error" \/ req.failed) /\ req.http # "done"
      BY <1>6, <2>2 DEF ChunkDone
    <2>3. CASE ~(req.http = "error" \/ req.failed) /\ req.http = "done" /\ ~req.ok
      BY <1>5, <2>3 DEF ChunkDone
    <2>4. CASE /\ ~(req.http = "error" \/ req.failed) /\ req.http = "done" /\ req.ok
               /\ req.line # "none"
      BY <1>7, <2>4 DEF ChunkDone
    <2>5. CASE /\ ~(req.http = "error" \/ req.failed) /\ req.http = "done" /\ req.ok
               /\ req.line = "none"
      BY <1>5, <1>8, <2>5 DEF ChunkDone
    <2> QED
      BY <1>1, <2>1, <2>2, <2>3, <2>4, <2>5 DEF Sound, ReqType

LEMMA NextReading == Typed /\ Closing /\ Reading /\ [Next]_vars => Reading'
  <1> SUFFICES ASSUME Typed, Closing, Reading, [Next]_vars PROVE Reading'
    OBVIOUS
  <1>1. /\ events \in Seq(Fragment) /\ (~OnDelta => InOrder(events, wire.reply))
        /\ (at # "loop" => Live) /\ wire.arrived \in Nat
    BY DEF Reading, Closing, Typed, Places
  <1>2. ASSUME NEW how \in Statuses \ {"live", "OK"}, Finish(how)
        PROVE  Reading'
    <2>1. how \in Statuses \ {"live"} /\ how # "OK" /\ Ends(how) /\ events' = events
      BY <1>2 DEF Finish
    <2> QED
      BY Zenon, <1>1, <2>1, EndsReading
  <1>3. ASSUME UNCHANGED reqVars, at \notin {"parsing", "emitting"} \/ at' = at
        PROVE  Reading'
    <2>1. /\ UNCHANGED <<events, emits, chunk>> /\ wire' = wire /\ req' = req
          /\ Live /\ at' \notin {"parsing", "emitting"} => chunk = <<>>
      BY <1>3 DEF reqVars, Reading, Cut
    <2>2. wire'.arrived \in Nat /\ wire'.arrived >= wire.arrived
      BY <1>1, <2>1
    <2> QED
      BY <2>1, <2>2, QuietReading
  <1>4. CASE Cancel \/ TimedOut \/ Fails
    BY <1>2, <1>4 DEF Cancel, TimedOut, Fails, Statuses
  <1>5. CASE ResolverReady \/ TcpEvent \/ TlsEvent
    BY <1>3, <1>5 DEF ResolverReady, TcpEvent, TlsEvent, Proceeds, InState
  <1>6. CASE OnConnected
    BY <1>2, <1>3, <1>6 DEF OnConnected, Statuses
  <1>7. CASE SocketEvent
    BY <1>3, <1>7 DEF SocketEvent, InState
  <1>8. CASE ReadChunk
    BY <1>8, ChunkRead
  <1>9. CASE ReadAll
    BY <1>2, <1>3, <1>9 DEF ReadAll, Statuses
  <1>10. CASE ParseToken
    BY <1>10, ParseReading
  <1>11. CASE Emit
    BY <1>11, EmitReading
  <1>12. CASE ChunkDone
    BY <1>12, DoneReading
  <1>13. CASE ResolverThread \/ UNCHANGED vars
    BY <1>3, <1>13 DEF ResolverThread, vars
  <1>14. CASE Arrives
    <2>1. /\ UNCHANGED <<events, emits, chunk, req, at>>
          /\ \/ wire' = [wire EXCEPT !.arrived = @ + 1]
             \/ wire' = [wire EXCEPT !.eof = TRUE]
      BY <1>14 DEF Arrives
    <2>2. /\ wire'.reply = wire.reply /\ wire'.read = wire.read
          /\ wire'.arrived \in Nat /\ wire'.arrived >= wire.arrived
      BY <1>1, <2>1 DEF Typed, Places
    <2>3. Live /\ at' \notin {"parsing", "emitting"} => chunk = <<>>
      BY <2>1 DEF Reading, Cut
    <2> QED
      BY <2>1, <2>2, <2>3, QuietReading
  <1>15. CASE Expires
    <2>1. UNCHANGED <<events, emits, chunk, wire, at>> /\ req' = [req EXCEPT !.due = TRUE]
      BY <1>15 DEF Expires
    <2>2. Live /\ at' \notin {"parsing", "emitting"} => chunk = <<>>
      BY <2>1 DEF Reading, Cut
    <2>3. wire'.arrived \in Nat /\ wire'.arrived >= wire.arrived
      BY <1>1, <2>1
    <2> QED
      BY <2>1, <2>2, <2>3, QuietReading
  <1> QED
    BY <1>4, <1>5, <1>6, <1>7, <1>8, <1>9, <1>10, <1>11, <1>12, <1>13, <1>14, <1>15
       DEF Next, Loop, Ended

LEMMA InitReading == Init => Reading
  <1> SUFFICES ASSUME Init PROVE Reading
    OBVIOUS
  <1>1. /\ req.state = "live" /\ req.http = "status" /\ ~req.chunked /\ req.length = 0
        /\ req.line = "none" /\ ~req.sawDone
        /\ at = "loop" /\ chunk = <<>> /\ emits = <<>> /\ events = <<>>
        /\ wire.arrived = 0 /\ wire.read = 0 /\ wire.reply \in Seq(Token)
    BY LlmRequestAssumption DEF Init
  <1>2. Parsed = 0 /\ events \in Seq(Fragment) /\ events \o emits = <<>> /\ Cut
    <2>1. /\ Len(chunk) = 0 /\ events \in Seq(Fragment)
          /\ <<>> \o <<>> = <<>>
      BY <1>1
    <2>2. Parsed = 0 /\ \A i \in 1..Len(chunk) : FALSE
      <3>1. wire.read = 0 /\ Len(chunk) = 0 /\ 0 - 0 = 0 /\ \A i \in 1..0 : FALSE
        BY <1>1, <2>1
      <3> QED
        BY Zenon, <3>1 DEF Parsed
    <2> QED
      BY <1>1, <2>1, <2>2 DEF Cut
  <1>3. \A j \in 1..0 : FALSE
    OBVIOUS
  <1>4. Framed(req, wire.reply, 0)
    BY <1>1, <1>3 DEF Framed, HeadersRead
  <1>5. \A j \in StreamOf(wire.reply) : ~(j <= 0)
    BY <1>1, StreamIs
  <1>6. Marked(FALSE, wire.reply, 0)
    BY <1>5 DEF Marked
  <1>7. Told(<<>>, wire.reply, 0)
    <2>1. SaidUpTo(wire.reply, 0) = {}
      BY <1>1, <1>5, SaidIs DEF SaidUpTo
    <2>2. Len(<<>>) = Cardinality(SaidUpTo(wire.reply, 0))
      BY <2>1, FS_EmptySet
    <2> QED
      BY <2>1, <2>2 DEF Told
  <1>8. ~OnDelta => InOrder(<<>>, wire.reply)
    <2>1. 0 \in Int
      OBVIOUS
    <2> QED
      BY Zenon, <1>1, <1>7, <2>1, ToldIsInOrder
  <1>9. Kept("none", req.sawDone, <<>>, wire.reply, 0)
    BY <1>1, <1>6, <1>7 DEF Kept, Marked
  <1>10. Follows(req, events \o emits, Parsed)
    BY <1>1, <1>2, <1>4, <1>8, <1>9 DEF Follows
  <1> QED
    BY <1>1, <1>2, <1>8, <1>10 DEF Reading

(* However a reply is cut into pieces, whatever it is: the embedder sees    *)
(* what it says, in its order and once, and is told OI_OK only with all of  *)
(* what lies within the bounds its headers set, after a [DONE] with nothing *)
(* but comments behind it, and with tool calls that are complete            *)
(* (oi_llm_http_parser_feed, oi_llm_sse_parser_feed, handle_sse_event).     *)
THEOREM RepliesAreWhole == Spec => []ReplyIsWhole
  <1>1. Init => Closing
    BY DEF Init, Closing, OkIsEarned, Live
  <1>2. Closing /\ Reading => ReplyIsWhole
    BY DEF Closing, OkIsEarned, Earned, ValidTools, Reading, WellEnded, ReplyIsWhole
  <1> QED
    BY <1>1, <1>2, InitTyped, NextTyped, NextClosing, InitReading, NextReading, PTL DEF Spec

-----------------------------------------------------------------------------
(* A request that is over stays over: no call of the embedder follows its  *)
(* on_done or its cancel, no second outcome, and the descriptor is not     *)
(* read again; only the resolver's thread may still have its job to free   *)
(* (the checks of destroyed_flag, request_teardown).  The conversation,    *)
(* which forgets a request when it ends, relies on this.                   *)
EndIsFinal == [][~Live => UNCHANGED <<conn, at, reqVars>>]_vars

(* So a request ends once, and its end is its last callback.                *)
THEOREM NothingFollowsTheEnd == Spec => EndIsFinal
  <1>1. ASSUME Closing, [Next]_vars, ~Live
        PROVE  UNCHANGED <<conn, at, reqVars>>
    <2>1. at = "loop"
      BY <1>1 DEF Closing
    <2>2. CASE \/ Cancel \/ TimedOut \/ Fails \/ ResolverReady \/ TcpEvent
               \/ TlsEvent \/ SocketEvent \/ Arrives \/ Expires
      BY <1>1, <2>1, <2>2 DEF Cancel, TimedOut, Fails, ResolverReady, TcpEvent,
                              TlsEvent, SocketEvent, Arrives, Expires, InState
    <2>3. CASE \/ OnConnected \/ ReadChunk \/ ReadAll \/ ParseToken \/ Emit
               \/ ChunkDone
      BY <2>1, <2>3 DEF OnConnected, ReadChunk, ReadAll, ParseToken, Emit, ChunkDone
    <2>4. CASE ResolverThread \/ UNCHANGED vars
      BY <2>4 DEF ResolverThread, Resolve, ThreadEnds, vars, connVars
    <2> QED
      BY <1>1, <2>2, <2>3, <2>4 DEF Next, Loop, Ended
  <1>2. Closing /\ [Next]_vars => [~Live => UNCHANGED <<conn, at, reqVars>>]_vars
    BY <1>1
  <1>3. Init => Closing
    BY DEF Init, Closing, OkIsEarned, Live
  <1> QED
    BY <1>2, <1>3, InitTyped, NextTyped, NextClosing, PTL DEF Spec, EndIsFinal

-----------------------------------------------------------------------------
(* A request is used after it was freed only by oi_llm_request_start, and  *)
(* only when an event has both text and a tool call.                       *)
NeverBoth(r) == \A i \in DOMAIN r : r[i].k = "body" => r[i].x # "both"

(* Then no event has two fragments, so none is left when one is told.      *)
OneAtATime ==
    /\ NeverBoth(wire.reply) /\ NeverBoth(chunk)
    /\ req.line # "both" /\ Len(emits) <= 1

LEMMA OneFragment ==
    ASSUME NEW q, q.line # "both"
    PROVE  Len(Emitted(q)) <= 1
  <1>1. Len(Fragments(q.line)) <= 1
    BY DEF Fragments
  <1> QED
    BY <1>1 DEF Emitted

LEMMA EmptySaysNothing == NeverBoth(<<>>) /\ Len(<<>>) <= 1
  BY DEF NeverBoth

LEMMA PartSaysNoMore ==
    ASSUME NEW r \in Seq(Token), NeverBoth(r), NEW n \in Nat, NEW m \in 0 .. Len(r)
    PROVE  NeverBoth(SubSeq(r, n + 1, m))
  <1>1. \A i \in DOMAIN SubSeq(r, n + 1, m) :
           n + i \in DOMAIN r /\ SubSeq(r, n + 1, m)[i] = r[n + i]
    BY DEF Seq
  <1> QED
    BY <1>1 DEF NeverBoth

LEMMA LineStays ==
    ASSUME NEW q \in ReqType, NEW t
    PROVE  Line(q, t).line = q.line /\ Taken(q).line = q.line
  <1>1. Taken(q).line = q.line
    BY DEF Taken, ReqType
  <1>2. Line(q, t).line = q.line
    BY DEF Line, Header, HeadersDone, ReqType
  <1> QED
    BY <1>1, <1>2

LEMMA ParseOne ==
    ASSUME Typed, OneAtATime, ParseToken
    PROVE  OneAtATime'
  <1> DEFINE t == Head(chunk)
             q == Taken(req)
  <1>1. /\ chunk \in Seq(Token) /\ chunk # <<>> /\ req \in ReqType /\ Sound(req)
        /\ wire' = wire /\ chunk' = Tail(chunk)
    BY DEF ParseToken, Typed, Places, Sound
  <1>2. t = chunk[1] /\ 1 \in DOMAIN chunk
    BY <1>1
  <1>3. \A i \in DOMAIN Tail(chunk) :
           i + 1 \in DOMAIN chunk /\ Tail(chunk)[i] = chunk[i + 1]
    BY <1>1
  <1>4. NeverBoth(chunk') /\ NeverBoth(wire'.reply)
    BY <1>1, <1>3 DEF OneAtATime, NeverBoth
  <1>5. t.k = "body" => t.x # "both"
    BY <1>2 DEF OneAtATime, NeverBoth
  <1>6. q.line = req.line /\ Line(req, t).line = req.line /\ req.line # "both"
    BY <1>1, LineStays DEF OneAtATime
  <1>7. CASE /\ req'.line = req.line
             /\ emits' = emits
    BY <1>4, <1>6, <1>7 DEF OneAtATime
  <1>8. CASE /\ req.http \in BodyStates /\ req.ok /\ ~req.failed
             /\ t.k # "body" \/ t.x # "nl"
    <2>1. /\ req' = BodyPiece(q, IF t.k = "body" THEN t.x ELSE "junk")
          /\ emits' = emits
      BY <1>8 DEF ParseToken
    <2>2. q \in ReqType
      BY <1>1, <1>8, TakenIsSound DEF Sound
    <2>3. req'.line # "both"
      BY <1>5, <2>1, <2>2 DEF BodyPiece, ReqType
    <2> QED
      BY <1>4, <2>1, <2>3 DEF OneAtATime
  <1>9. CASE /\ req.http \in BodyStates /\ req.ok /\ ~req.failed
             /\ t.k = "body" /\ t.x = "nl"
    <2>1. /\ req' = [SseEvent(q) EXCEPT !.line = "none"] /\ emits' = Emitted(q)
      BY <1>9 DEF ParseToken
    <2>2. q \in ReqType
      BY <1>1, <1>9, TakenIsSound DEF Sound
    <2>3. req'.line = "none"
      BY <2>1, <2>2 DEF SseEvent, ReqType
    <2> QED
      BY <1>4, <1>6, <2>1, <2>3, OneFragment DEF OneAtATime
  <1>10. CASE req.http \notin BodyStates \/ ~req.ok \/ req.failed
    BY <1>6, <1>7, <1>10 DEF ParseToken
  <1> QED
    BY <1>8, <1>9, <1>10

LEMMA NextOne == Typed /\ OneAtATime /\ [Next]_vars => OneAtATime'
  <1> SUFFICES ASSUME Typed, OneAtATime, [Next]_vars PROVE OneAtATime'
    OBVIOUS
  <1>1. /\ chunk \in Seq(Token) /\ emits \in Seq(Fragment) /\ req \in ReqType
        /\ wire.reply \in Seq(Token) /\ wire.read \in Nat
        /\ wire.arrived \in 0 .. Len(wire.reply)
        /\ DOMAIN wire = {"reply", "arrived", "read", "eof"}
    BY DEF Typed, Places, Sound
  <1>2. CASE \E how : Ends(how)
    <2>1. chunk' = <<>> /\ emits' = <<>> /\ wire' = wire /\ req'.line = req.line
      BY <1>1, <1>2 DEF Ends, ReqType
    <2> QED
      BY <2>1, EmptySaysNothing DEF OneAtATime
  <1>3. CASE UNCHANGED <<wire, chunk, req, emits>>
    BY <1>3 DEF OneAtATime
  <1>4. CASE ReadChunk
    <2>1. PICK n \in wire.read + 1 .. wire.arrived :
             /\ chunk' = SubSeq(wire.reply, wire.read + 1, n)
             /\ wire' = [wire EXCEPT !.read = n]
      BY <1>4 DEF ReadChunk
    <2>2. n \in 0 .. Len(wire.reply) /\ wire'.reply = wire.reply
      BY <1>1, <2>1
    <2>3. NeverBoth(chunk')
      BY <1>1, <2>1, <2>2, PartSaysNoMore DEF OneAtATime
    <2> QED
      BY <1>4, <2>2, <2>3 DEF ReadChunk, OneAtATime
  <1>5. CASE ParseToken
    BY <1>5, ParseOne
  <1>6. CASE Emit
    <2>1. CASE /\ req' = [req EXCEPT !.tools = @ \cup ({Head(emits)} \ {"text"})]
               /\ emits' = Tail(emits) /\ emits # <<>>
               /\ UNCHANGED <<chunk, wire>>
      <3>1. req'.line = req.line /\ Len(emits') <= Len(emits) - 1
        BY <1>1, <2>1 DEF ReqType
      <3> QED
        BY <1>1, <2>1, <3>1 DEF OneAtATime
    <2>2. emits # <<>>
      BY <1>6 DEF Emit, Typed, Places
    <2> QED
      BY <1>2, <1>6, <2>1, <2>2 DEF Emit
  <1>7. CASE ChunkDone
    <2>1. CASE /\ req' = [SseEvent(req) EXCEPT !.line = "none"]
               /\ emits' = Emitted(req) /\ UNCHANGED <<chunk, wire>>
      <3>1. req'.line = "none"
        BY <1>1, <2>1 DEF SseEvent, ReqType
      <3> QED
        BY <2>1, <3>1, OneFragment DEF OneAtATime
    <2> QED
      BY <1>2, <1>3, <1>7, <2>1 DEF ChunkDone, EndsAfterFeed, reqVars
  <1>8. CASE Arrives
    <2>1. UNCHANGED <<req, chunk, emits>> /\ wire'.reply = wire.reply
      BY <1>1, <1>8 DEF Arrives
    <2> QED
      BY <2>1 DEF OneAtATime
  <1>9. CASE Expires
    <2>1. UNCHANGED <<chunk, emits, wire>> /\ req'.line = req.line
      BY <1>1, <1>9 DEF Expires, ReqType
    <2> QED
      BY <2>1 DEF OneAtATime
  <1>10. CASE Cancel \/ TimedOut \/ Fails \/ OnConnected \/ ReadAll
    BY <1>2, <1>3, <1>10 DEF Cancel, TimedOut, Fails, OnConnected, ReadAll, Finish,
                             reqVars
  <1>11. CASE \/ ResolverReady \/ TcpEvent \/ TlsEvent \/ SocketEvent
              \/ ResolverThread \/ UNCHANGED vars
    BY <1>3, <1>11 DEF ResolverReady, TcpEvent, TlsEvent, Proceeds, SocketEvent,
                       ResolverThread, vars, reqVars
  <1> QED
    BY <1>4, <1>5, <1>6, <1>7, <1>8, <1>9, <1>10, <1>11 DEF Next, Loop, Ended

LEMMA NextTouches ==
    ASSUME CancelledIsNotTouched, Typed, FlagsFit, [Next]_vars,
           ~OnDelta \/ Len(emits) <= 1
    PROVE  CancelledIsNotTouched'
  <1>1. ~TouchesFreed /\ flags = Running
    BY DEF TouchesFreed, FlagsFit, Typed, Places
  <1>2. at = "parsing" => AfterFeed = {"conn"}
    BY DEF FlagsFit, Running, AfterFeed
  <1>3. CASE Cancel \/ TimedOut \/ Fails \/ OnConnected \/ ReadAll
    <2>1. touched' = touched \/ touched' = (flags # Running)
      BY <1>3 DEF Cancel, TimedOut, Fails, OnConnected, ReadAll, Finish, reqVars
    <2> QED
      BY <1>1, <2>1 DEF CancelledIsNotTouched
  <1>4. CASE Emit
    BY <1>1, <1>4 DEF Emit, CancelledIsNotTouched
  <1>5. CASE ChunkDone
    <2>1. touched' = touched \/ touched' = (AfterFeed # {"conn"})
      BY <1>5 DEF ChunkDone, EndsAfterFeed, reqVars
    <2> QED
      BY <1>2, <1>5, <2>1 DEF ChunkDone, CancelledIsNotTouched
  <1>6. CASE \/ ResolverReady \/ TcpEvent \/ TlsEvent \/ SocketEvent \/ ReadChunk
             \/ ParseToken \/ Arrives \/ Expires \/ ResolverThread
             \/ UNCHANGED vars
    <2>1. touched' = touched
      BY <1>6 DEF ResolverReady, TcpEvent, TlsEvent, SocketEvent, ReadChunk,
                  ParseToken, Arrives, Expires, ResolverThread, Proceeds, reqVars, vars
    <2> QED
      BY <2>1 DEF CancelledIsNotTouched
  <1> QED
    BY <1>3, <1>4, <1>5, <1>6 DEF Next, Loop, Ended

(* However a request ends, every call on the stack that is still to use it  *)
(* or its parsers is told, and no flag is written whose call has returned:  *)
(* always when it was started with oi_llm_request_start_events, and when it *)
(* was started with oi_llm_request_start at least as long as no event of a  *)
(* reply carries text and a tool call at once.                              *)
THEOREM CancelledIsLeftAlone ==
    ASSUME ~OnDelta \/ \A r \in Replies : NeverBoth(r)
    PROVE  Spec => []CancelledIsNotTouched
  <1> DEFINE Single == ~OnDelta \/ OneAtATime
  <1>1. Init => Single /\ CancelledIsNotTouched
    <2> SUFFICES ASSUME Init PROVE Single /\ CancelledIsNotTouched
      OBVIOUS
    <2>1. /\ wire.reply \in Replies /\ chunk = <<>> /\ emits = <<>> /\ ~touched
          /\ req.line = "none"
      BY DEF Init
    <2> QED
      BY <2>1, EmptySaysNothing DEF OneAtATime, CancelledIsNotTouched
  <1>2. Typed /\ Single /\ [Next]_vars => Single'
    BY NextOne
  <1>3. Typed /\ FlagsFit /\ Single /\ CancelledIsNotTouched /\ [Next]_vars
           => CancelledIsNotTouched'
    BY NextTouches DEF OneAtATime
  <1> HIDE DEF Single
  <1> QED
    BY <1>1, <1>2, <1>3, InitTyped, NextTyped, InitFlags, NextFlags, PTL DEF Spec
=============================================================================
