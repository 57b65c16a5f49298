------------------------------- MODULE LlmConn -------------------------------
(***************************************************************************)
(* The connection to the model, llm_conn.c: a resolver thread, TCP, TLS    *)
(* and a queue of bytes to write.                                          *)
(*                                                                         *)
(* The thread and the connection share a job under a mutex.  Whichever of  *)
(* the two is second to give the job up frees it: the connection, if the   *)
(* thread had finished, else the thread, which finds job->conn NULL.       *)
(***************************************************************************)
EXTENDS Naturals, FiniteSets

CONSTANTS Tls,           \* use_tls
          MaxAddresses   \* bound of the model: addresses of the host

ASSUME LlmConnAssumption == Tls \in BOOLEAN /\ MaxAddresses \in Nat

VARIABLES
    conn,    \* struct oi_llm_conn
    job,     \* struct resolver_job
    thread   \* resolver_main: "none", "resolving", "notifying" (finished is
             \* set), "freeing" (it found the job abandoned), "gone"

connVars == <<conn, job, thread>>

(* state is enum conn_state, or "closed" once freed; queued counts the     *)
(* writes between out_off and out_len.                                     *)
Connecting ==
    [state |-> "resolving", interest |-> {"read"}, addresses |-> 0,
     queued |-> 0, readNeedsWrite |-> FALSE, writeNeedsRead |-> FALSE]

NewJob == [abandoned |-> FALSE,   \* conn = NULL
           finished |-> FALSE, found |-> 0, byte |-> FALSE,
           freed |-> 0]           \* times it was freed

ConnInit ==   \* oi_llm_conn_connect
    /\ conn = Connecting /\ job = NewJob /\ thread = "resolving"

-----------------------------------------------------------------------------
(* oi_llm_conn_close, as a guard and its effect on the job.  It joins the  *)
(* thread if that has finished, and so may wait for its last write.        *)
HasJob == conn.state = "resolving"

(* (Mutant: the thread is joined, never left behind.) *)
MayCloseJoining == HasJob => thread = "gone"
MayClose == HasJob /\ job.finished => thread = "gone"

(* (Mutant: the connection frees the job in either case.) *)
JobFreedAtClose ==
    IF ~HasJob THEN job ELSE [job EXCEPT !.freed = @ + 1, !.abandoned = TRUE]

JobAfterClose ==
    IF ~HasJob THEN job
    ELSE IF job.finished THEN [job EXCEPT !.freed = @ + 1]
    ELSE [job EXCEPT !.abandoned = TRUE]

-----------------------------------------------------------------------------
(* resolver_main                                                           *)

Resolve ==
    /\ thread = "resolving"
    /\ IF job.abandoned THEN thread' = "freeing" /\ UNCHANGED job
       ELSE /\ thread' = "notifying"
            /\ \E n \in 0..MaxAddresses :   \* 0: gai_error
                  job' = [job EXCEPT !.finished = TRUE, !.found = n]
    /\ UNCHANGED conn

ThreadEnds ==
    /\ \/ thread = "notifying" /\ job' = [job EXCEPT !.byte = TRUE]
       \/ thread = "freeing"   /\ job' = [job EXCEPT !.freed = @ + 1]
    /\ thread' = "gone"
    /\ UNCHANGED conn

-----------------------------------------------------------------------------
(* The handlers of on_fd_event.  Each is the set of connections it may     *)
(* lead to, other than by fail_conn.                                       *)

(* begin_tcp_connect: the first of the addresses left that can be tried.   *)
TcpConnects(c) ==
    {[c EXCEPT !.state = "connecting", !.interest = {"write"}, !.addresses = n] :
        n \in {k \in 0..MaxAddresses : k < c.addresses}}

(* handle_resolver_ready *)
AfterResolving == TcpConnects([conn EXCEPT !.addresses = job.found])

(* start_tls_handshake and drive_tls_handshake, or the plain connection.   *)
Established(c) ==
    [c EXCEPT !.state = "established", !.interest = {"read"}, !.addresses = 0]
Handshakes(c) ==
    {[c EXCEPT !.state = "handshake", !.interest = {i}, !.addresses = 0] :
        i \in {"read", "write"}}

(* handle_tcp_connecting: SO_ERROR and the next address, or connected.     *)
AfterConnecting ==
    TcpConnects(conn) \cup
    IF Tls THEN Handshakes(conn) \cup {Established(conn)} ELSE {Established(conn)}

AfterHandshake == Handshakes(conn) \cup {Established(conn)}

(* update_interest.  (Mutant: a write that waits to read is forgotten.) *)
WithInterestRead(c) == [c EXCEPT !.interest = {"read"}]
WithInterest(c) ==
    [c EXCEPT !.interest =
        IF c.readNeedsWrite \/ (c.queued > 0 /\ ~c.writeNeedsRead)
        THEN {"read", "write"} ELSE {"read"}]

(* oi_llm_conn_write *)
Write(c, n) == WithInterest([c EXCEPT !.queued = @ + n])

(* flush_write_queue: all of it, or until the socket would block with n     *)
(* left and, under TLS, perhaps something to be read first.                *)
FlushedTo(c, n, w) == WithInterest([c EXCEPT !.queued = n, !.writeNeedsRead = w])
Flushed(c) ==
    {FlushedTo(c, 0, c.writeNeedsRead /\ c.queued = 0)} \cup
    {FlushedTo(c, n, FALSE) : n \in 1..c.queued} \cup
    {FlushedTo(c, n, TRUE) : n \in {k \in 1..c.queued : Tls}}

(* handle_established up to read_available.                                *)
AfterFlush(c, events) ==
    LET first == IF "read" \in events /\ c.writeNeedsRead /\ c.queued > 0
                 THEN Flushed(c) ELSE {c} IN
    IF "write" \in events /\ ~c.readNeedsWrite
    THEN UNION {Flushed(d) : d \in first} ELSE first

ReadsAfter(c, events) == "read" \in events \/ c.readNeedsWrite

(* read_available has read all there was.                                  *)
Drained(c) ==
    {WithInterest([c EXCEPT !.readNeedsWrite = w]) :
        w \in IF Tls THEN BOOLEAN ELSE {FALSE}}
=============================================================================
