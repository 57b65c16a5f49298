----------------------------- MODULE LlmRequest -----------------------------
(***************************************************************************)
(* A request to the model, llm.c over llm_http.c, llm_sse.c and the        *)
(* connection: the request is written, the reply comes in pieces cut       *)
(* anywhere, is taken apart as HTTP and then as server-sent events, and    *)
(* each event calls the embedder back, who may cancel the request from     *)
(* within.                                                                 *)
(*                                                                         *)
(* A reply is a sequence of tokens: a line of HTTP, a piece of a body that *)
(* is the text of one line of the event stream, or the end of such a line. *)
(***************************************************************************)
EXTENDS LlmConn, Sequences, SequencesExt

CONSTANTS Replies,   \* the replies a server may send, whole or in part
          OnDelta    \* oi_llm_request_start, else oi_llm_request_start_events

BodyText == {"text", "head", "args", "both", "note", "done", "junk", "nl"}
Token == [k: {"status"}, ok: BOOLEAN] \cup [k: {"length", "size"}, n: Nat]
         \cup [k: {"chunked", "blank", "crlf"}] \cup [k: {"body"}, x: BodyText]

ASSUME LlmRequestAssumption == Replies \subseteq Seq(Token) /\ OnDelta \in BOOLEAN

VARIABLES
    req,      \* struct oi_llm_request and its parsers
    at,       \* "loop", "connected", "reading", "parsing", "emitting": where
              \* the thread of the reactor is, inside on_fd_event but for loop
    chunk,    \* what oi_llm_http_parser_feed has not yet parsed
    emits,    \* what handle_sse_event has yet to emit of one event
    wire,     \* the reply, how much has arrived and been read, its end
    flags,    \* "conn", "req", "http", "sse": whose destroyed_flag is set
    finishing,  \* oi_llm_sse_parser_finish has been called
    (* History variables: nothing in the code reads them. *)
    events,   \* what was handed to on_event or on_delta
    touched   \* a call went on with what was freed, or a flag was written
              \* whose call had returned

reqVars == <<req, chunk, emits, wire, events, touched>>
callVars == <<flags, finishing>>
vars == <<connVars, at, reqVars, callVars>>

Init ==   \* request_start
    /\ ConnInit
    /\ req = [state |-> "live",          \* or the status given to on_done
              due |-> FALSE,             \* the timer
              http |-> "status", ok |-> FALSE, chunked |-> FALSE,
              length |-> 0, remaining |-> 0,  \* length - 1 is content_length
              line |-> "none",           \* line_buf of the event parser
              tools |-> {}, sawDone |-> FALSE, failed |-> FALSE]
    /\ at = "loop" /\ chunk = <<>> /\ emits = <<>>
    /\ \E r \in Replies : wire = [reply |-> r, arrived |-> 0, read |-> 0, eof |-> FALSE]
    /\ events = <<>> /\ touched = FALSE
    /\ flags = {} /\ finishing = FALSE

Live == req.state = "live"

-----------------------------------------------------------------------------
(* What is freed tells the calls on the stack that are still to use it,    *)
(* each through a local whose address it keeps in its destroyed_flag:      *)
(* on_fd_event, req_on_data and the feed or finish of the two parsers.     *)
(* Running is whose calls look at their local at each place.               *)

Running ==
    CASE at = "loop" -> {}
      [] at \in {"connected", "reading"} -> {"conn"}
      [] at = "parsing" ->
             IF finishing THEN {"conn"} ELSE {"conn", "req", "http"}
      [] at = "emitting" ->
             {"conn", "req", "sse"} \cup (IF finishing THEN {} ELSE {"http"})

(* on_fd_event sets the flag of the connection for as long as it runs.     *)
GoesTo(place) ==
    /\ at' = place
    /\ flags' = IF place = "loop" THEN flags \ {"conn"} ELSE flags \cup {"conn"}
    /\ UNCHANGED finishing

(* The flags when req_on_data has the parser of HTTP behind it, and when   *)
(* it is in oi_llm_sse_parser_finish, for which it sets its own again.     *)
(* (Mutant: it does not.)                                                  *)
AfterFeed == flags \ {"req", "http"}
InFinishUntold == AfterFeed \cup {"sse"}
InFinish == AfterFeed \cup {"req", "sse"}

-----------------------------------------------------------------------------
(* finish and oi_llm_request_cancel: on_done unless cancelled, then        *)
(* request_teardown.                                                       *)
Ends(how) ==
    /\ MayClose
    /\ job' = JobAfterClose
    /\ conn' = [conn EXCEPT !.state = "closed"]
    /\ req' = [req EXCEPT !.state = how]
    /\ at' = "loop" /\ chunk' = <<>> /\ emits' = <<>>
    /\ flags' = {} /\ finishing' = FALSE
    /\ UNCHANGED <<thread, wire>>

Finish(how) ==
    /\ Ends(how)
    /\ touched' = (flags # Running)
    /\ UNCHANGED events

Cancel == Live /\ at = "loop" /\ Finish("cancelled")

TimedOut == Live /\ at = "loop" /\ req.due /\ Finish("TIMEOUT")

-----------------------------------------------------------------------------
(* on_fd_event.  fail_conn is req_on_error.                                *)

InState(s) == Live /\ at = "loop" /\ conn.state = s

Fails == /\ \/ InState("resolving") /\ job.byte
            \/ InState("connecting") \/ InState("handshake")
            \/ InState("established") \/ at = "reading"
         /\ Finish("IO")

Proceeds(to) ==
    /\ conn' \in to
    /\ GoesTo(IF conn'.state = "established" THEN "connected" ELSE "loop")
    /\ UNCHANGED <<thread, reqVars>>

ResolverReady == /\ InState("resolving") /\ job.byte /\ thread = "gone"
                 /\ Proceeds(AfterResolving)
                 /\ job' = [job EXCEPT !.freed = @ + 1]
TcpEvent      == InState("connecting") /\ Proceeds(AfterConnecting) /\ UNCHANGED job
TlsEvent      == InState("handshake") /\ Proceeds(AfterHandshake) /\ UNCHANGED job

(* req_on_connected: the header and the body are queued; a header that is  *)
(* too long ends the request.                                              *)
OnConnected ==
    /\ at = "connected"
    /\ \/ /\ conn' = Write(Write(conn, 1), 1)
          /\ GoesTo("loop")
          /\ UNCHANGED <<job, thread, reqVars>>
       \/ Finish("INVAL")

SocketEvent ==
    /\ InState("established")
    /\ \E ev \in SUBSET conn.interest \ {{}} :
        /\ conn' \in AfterFlush(conn, ev)
        /\ GoesTo(IF ReadsAfter(conn, ev) THEN "reading" ELSE "loop")
    /\ UNCHANGED <<job, thread, reqVars>>

(* read_available: a piece of the reply, nothing for now, or its end.      *)
ReadChunk ==
    /\ at = "reading" /\ Live
    /\ \E n \in wire.read + 1 .. wire.arrived :
        /\ chunk' = SubSeq(wire.reply, wire.read + 1, n)
        /\ wire' = [wire EXCEPT !.read = n]
    /\ conn' = [conn EXCEPT !.readNeedsWrite = FALSE]
    /\ at' = "parsing"
    /\ flags' = flags \cup {"req", "http"}
    /\ UNCHANGED <<job, thread, req, emits, events, touched, finishing>>

ReadAll ==
    /\ at = "reading" /\ Live /\ wire.read = wire.arrived
    /\ IF wire.eof THEN Finish("CLOSED")
       ELSE /\ conn' \in Drained(conn) /\ GoesTo("loop")
            /\ UNCHANGED <<job, thread, reqVars>>

-----------------------------------------------------------------------------
(* oi_llm_http_parser_feed: what a token of HTTP makes of the request.     *)

BodyStates == {"chunk data", "content"}

(* finish_headers, req_on_headers_done.                                    *)
HeadersDone(q) ==
    [q EXCEPT
        !.http = IF q.chunked THEN IF q.length > 0 THEN "error" ELSE "size"
                 ELSE IF q.length > 1 THEN "content" ELSE "done",
        !.remaining = IF q.length > 0 THEN q.length - 1 ELSE 0]

Header(q, t) ==
    CASE t.k = "chunked" -> [q EXCEPT !.chunked = TRUE]
      [] t.k = "length"  -> IF q.length \notin {0, t.n + 1}
                            THEN [q EXCEPT !.http = "error"]
                            ELSE [q EXCEPT !.length = t.n + 1]
      [] t.k = "blank"   -> HeadersDone(q)
      [] OTHER           -> [q EXCEPT !.http = "error"]

Line(q, t) ==
    CASE q.http = "status" /\ t.k = "status" ->
             [q EXCEPT !.http = "header", !.ok = t.ok]
      [] q.http = "header" -> Header(q, t)
      [] q.http = "size" /\ t.k = "size" ->
             [q EXCEPT !.http = IF t.n = 0 THEN "final" ELSE "chunk data",
                       !.remaining = t.n]
      [] q.http = "data end" /\ t.k = "crlf" -> [q EXCEPT !.http = "size"]
      [] q.http = "final" /\ t.k = "crlf"    -> [q EXCEPT !.http = "done"]
      [] OTHER -> [q EXCEPT !.http = "error"]

(* One piece less of the chunk or of the body.  (Mutant: the last piece is *)
(* counted one late.)                                                      *)
TakenLate(q) ==
    [q EXCEPT !.remaining = @ - 1,
              !.http = IF q.remaining > 0 THEN @
                       ELSE IF @ = "chunk data" THEN "data end" ELSE "done"]

Taken(q) ==
    [q EXCEPT !.remaining = @ - 1,
              !.http = IF q.remaining > 1 THEN @
                       ELSE IF @ = "chunk data" THEN "data end" ELSE "done"]

(* oi_llm_sse_parser_feed, handle_sse_event.                               *)
Fragments(x) ==
    CASE x = "text" -> <<"text">>
      [] x = "head" -> <<"head">>          \* id and name of a tool call
      [] x = "args" -> <<"args">>          \* its arguments
      [] x = "both" -> <<"text", "head">>  \* text and a tool call in one event
      [] OTHER      -> <<>>

ValidTools(q) == q.tools \in {{}, {"head", "args"}}   \* validate_tool_calls

(* The line of the event stream is complete; "note" is not a data line.    *)
(* (Mutant: what follows [DONE] is let pass.)                              *)
SseEventAfterDone(q) ==
    IF q.failed \/ q.line \in {"none", "note"} THEN q
    ELSE IF q.line = "done"
    THEN IF q.sawDone \/ ~ValidTools(q) THEN [q EXCEPT !.failed = TRUE]
         ELSE [q EXCEPT !.sawDone = TRUE]
    ELSE [q EXCEPT !.failed = q.line = "junk"]

SseEvent(q) ==
    IF q.failed \/ q.line \in {"none", "note"} THEN q
    ELSE IF q.line = "done"
    THEN IF q.sawDone \/ ~ValidTools(q) THEN [q EXCEPT !.failed = TRUE]
         ELSE [q EXCEPT !.sawDone = TRUE]
    ELSE [q EXCEPT !.failed = q.sawDone \/ q.line = "junk"]

Emitted(q) ==
    IF SseEvent(q).failed \/ q.line = "none" THEN <<>> ELSE Fragments(q.line)

BodyPiece(q, x) == [q EXCEPT !.line = IF @ = "none" THEN x ELSE "junk"]

(* req_on_data runs the parsers over the chunk, token by token.  A failure *)
(* within the body is noted, and ends the request after the chunk.         *)
ParseToken ==
    /\ at = "parsing" /\ chunk # <<>> /\ req.http \notin {"error", "done"}
    /\ chunk' = Tail(chunk)
    /\ LET t == Head(chunk)
           q == Taken(req)
       IN  IF req.http \notin BodyStates
           THEN req' = Line(req, t) /\ UNCHANGED <<emits, at>>
           ELSE IF ~req.ok \/ req.failed
           THEN req' = q /\ UNCHANGED <<emits, at>>
           ELSE IF t.k # "body" \/ t.x # "nl"
           THEN /\ req' = BodyPiece(q, IF t.k = "body" THEN t.x ELSE "junk")
                /\ UNCHANGED <<emits, at>>
           ELSE /\ req' = [SseEvent(q) EXCEPT !.line = "none"]
                /\ emits' = Emitted(q)
                /\ at' = IF emits' = <<>> THEN at ELSE "emitting"
    /\ flags' = IF at' = "emitting" THEN flags \cup {"sse"} ELSE flags
    /\ UNCHANGED <<connVars, wire, events, touched, finishing>>

(* on_event or on_delta is called with the next fragment; it may cancel.   *)
(* After on_event the code looks at the flag of the request.  After        *)
(* on_delta it goes on to the tool calls of the same event.                *)
TouchesFreed ==
    \/ flags # Running
    \/ OnDelta /\ Head(emits) = "text" /\ Len(emits) > 1

Emit ==
    /\ at = "emitting"
    /\ events' = IF OnDelta /\ Head(emits) # "text" THEN events
                 ELSE Append(events, Head(emits))
    /\ \/ /\ req' = [req EXCEPT !.tools = @ \cup ({Head(emits)} \ {"text"})]
          /\ emits' = Tail(emits)
          /\ at' = IF emits' = <<>> THEN "parsing" ELSE at
          /\ flags' = IF emits' # <<>> THEN flags
                      ELSE flags \ (IF finishing THEN {"req", "sse"} ELSE {"sse"})
          /\ UNCHANGED <<connVars, chunk, wire, touched, finishing>>
       \/ /\ ~(OnDelta /\ Head(emits) # "text")
          /\ touched' = TouchesFreed
          /\ Ends("cancelled")

(* The end of req_on_data, the parser of HTTP having returned.             *)
EndsAfterFeed(how) ==
    /\ Ends(how)
    /\ touched' = (AfterFeed # {"conn"})
    /\ UNCHANGED events

ChunkDone ==
    /\ at = "parsing"
    /\ chunk = <<>> \/ req.http \in {"error", "done"}
    /\ IF req.http = "error" \/ req.failed THEN EndsAfterFeed("PARSE")
       ELSE IF req.http # "done"
       THEN /\ at' = "reading" /\ flags' = AfterFeed
            /\ UNCHANGED <<connVars, reqVars, finishing>>
       ELSE IF ~req.ok THEN EndsAfterFeed("HTTP")
       ELSE IF req.line # "none"     \* oi_llm_sse_parser_finish
       THEN /\ req' = [SseEvent(req) EXCEPT !.line = "none"]
            /\ emits' = Emitted(req)
            /\ at' = IF emits' = <<>> THEN at ELSE "emitting"
            /\ flags' = IF emits' = <<>> THEN AfterFeed ELSE InFinish
            /\ finishing' = TRUE
            /\ UNCHANGED <<connVars, chunk, wire, events, touched>>
       ELSE EndsAfterFeed(IF req.sawDone THEN "OK" ELSE "PARSE")

-----------------------------------------------------------------------------
(* The server and the clock.                                               *)

Arrives ==
    /\ ~wire.eof /\ Live
    /\ \/ /\ conn.state = "established" /\ wire.arrived < Len(wire.reply)
          /\ wire' = [wire EXCEPT !.arrived = @ + 1]
       \/ conn.state = "established" /\ wire' = [wire EXCEPT !.eof = TRUE]
    /\ UNCHANGED <<connVars, at, req, chunk, emits, events, touched, callVars>>

Expires ==
    /\ Live /\ ~req.due
    /\ req' = [req EXCEPT !.due = TRUE]
    /\ UNCHANGED <<connVars, at, chunk, emits, wire, events, touched, callVars>>

ResolverThread ==
    (Resolve \/ ThreadEnds) /\ UNCHANGED <<at, reqVars, callVars>>

Ended == ~Live /\ thread = "gone" /\ UNCHANGED vars

Loop == \/ TimedOut \/ Fails \/ ResolverReady \/ TcpEvent \/ TlsEvent
        \/ OnConnected \/ SocketEvent \/ ReadChunk \/ ReadAll
        \/ ParseToken \/ Emit \/ ChunkDone

Next == Loop \/ Cancel \/ Arrives \/ Expires \/ ResolverThread \/ Ended

(* The handlers run to their end, the timer fires, a timer that is due is  *)
(* in every batch of the reactor and so is handled in the end, and a       *)
(* thread that has its answer goes on; nothing is asked of the network.    *)
Spec == /\ Init /\ [][Next]_vars
        /\ WF_vars(at # "loop" /\ Loop) /\ WF_vars(Expires) /\ SF_vars(TimedOut)
        /\ WF_vars(ThreadEnds /\ UNCHANGED <<at, reqVars, callVars>>)

-----------------------------------------------------------------------------
(* Properties                                                              *)

TypeOK ==
    /\ conn.state \in {"resolving", "connecting", "handshake", "established",
                       "closed"}
    /\ conn.interest \subseteq {"read", "write"} /\ conn.queued \in 0..2
    /\ thread \in {"resolving", "notifying", "freeing", "gone"}
    /\ req.remaining \in Nat /\ req.tools \subseteq {"head", "args"}
    /\ at \in {"loop", "connected", "reading", "parsing", "emitting"}
    /\ flags \subseteq {"conn", "req", "http", "sse"}

(* The job shared with the resolver thread is freed once, by whichever     *)
(* side is second to give it up, and never while the thread may still use  *)
(* it or the descriptor it notifies; when both are through it is freed     *)
(* (oi_llm_conn_close, resolver_main, handle_resolver_ready).              *)
ResolverJobIsFreedOnce ==
    /\ job.freed <= 1
    /\ job.freed = 1 => thread = "gone"
    /\ conn.state # "resolving" /\ thread = "gone" => job.freed = 1

(* Whatever is queued is either waited for with the descriptor registered  *)
(* for writing, or stalled until something can be read; and the other way  *)
(* round for a read (update_interest, at the end of every handler).        *)
NoLostWakeup ==
    InState("established") =>
        /\ "read" \in conn.interest
        /\ "write" \in conn.interest <=>
              \/ conn.readNeedsWrite
              \/ conn.queued > 0 /\ ~conn.writeNeedsRead

(* Reference: the reply as a whole.  Its body begins after the first blank *)
(* line and ends where the headers say; a line of the event stream is a    *)
(* place in it, and a fragment <<i, n>> the n-th of line i.                *)
HeaderEnds(r, h) == r[h].k = "blank" /\ \A j \in 1 .. h - 1 : r[j].k # "blank"

LastChunk == [k |-> "size", n |-> 0]

InBody(r, h, i) ==
    IF \E j \in 1 .. h - 1 : r[j].k = "chunked"
    THEN \A j \in h + 1 .. i - 1 : r[j].k = "size" => r[j] # LastChunk
    ELSE \E j \in 1 .. h - 1 : r[j].k = "length" /\ i <= h + r[j].n

StreamOf(r) ==
    {i \in DOMAIN r : /\ r[i].k = "body" /\ r[i].x # "nl"
                      /\ \E h \in 1 .. i - 1 : HeaderEnds(r, h) /\ InBody(r, h, i)}

Said(r) ==
    {p \in StreamOf(r) \X {1, 2} :
        /\ p[2] <= Len(Fragments(r[p[1]].x))
        /\ \A j \in StreamOf(r) : j < p[1] => r[j].x \notin {"done", "junk"}}

SaidBy(r, p) == {q \in Said(r) : q[1] < p[1] \/ (q[1] = p[1] /\ q[2] <= p[2])}

(* The n-th thing told is the n-th that the reply says.                    *)
InOrder(told, r) ==
    /\ Len(told) <= Cardinality(Said(r))
    /\ \A p \in Said(r) :
          Cardinality(SaidBy(r, p)) <= Len(told) =>
              told[Cardinality(SaidBy(r, p))] = Fragments(r[p[1]].x)[p[2]]

(* However the reply is cut into pieces, the embedder sees its fragments   *)
(* in order and once, and is told OI_OK only with all of them, a [DONE]    *)
(* with nothing but comments after it, and tool calls that are complete.   *)
ReplyIsWhole ==
    LET r == wire.reply IN
    /\ ~OnDelta => InOrder(events, r)
    /\ req.state = "OK" =>
        /\ ~OnDelta => Len(events) = Cardinality(Said(r))
        /\ \E i \in StreamOf(r) :
              /\ r[i].x = "done"
              /\ \A j \in StreamOf(r) \ {i} :
                    IF j < i THEN r[j].x \notin {"done", "junk"} ELSE r[j].x = "note"
        /\ req.tools \in {{}, {"head", "args"}}

(* Wherever a request ends, from within a callback three calls deep, in a  *)
(* chunk or in the line left over at its end, by an error or by its timer, *)
(* every call on the stack that is still to use what is freed is told, and *)
(* no flag is written whose call has returned (destroyed_flag).            *)
CancelledIsNotTouched == ~touched

(* A request with a timeout ends: closing it never waits for the resolver. *)
RequestEnds == Live ~> ~Live
=============================================================================
