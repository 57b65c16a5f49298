------------------------------ MODULE ToolExec ------------------------------
(***************************************************************************)
(* Execution of tool calls, tool_exec.c, by the handlers it registers with *)
(* the reactor.                                                            *)
(*                                                                         *)
(* A call has up to five registrations: the child's stdin, stdout and exec *)
(* notice, its exit and a timer.  Their events come in any order, several  *)
(* in one batch, and the callbacks out of the handlers may start the next  *)
(* call, which is given the descriptors just closed, or cancel this one.   *)
(***************************************************************************)
EXTENDS Reactor

CONSTANTS MaxCalls,  \* bound of the model: calls, each allocated once
          Fed,       \* bound of the model: calls whose stdin is written to
          MaxOutput  \* bound of the model: chunks a child writes

ASSUME ToolExecAssumption == MaxCalls \in Nat /\ MaxOutput \in Nat

Calls == 1..MaxCalls    \* struct oi_tool_call, numbered as they are started
Ends  == {"stdin", "stdout", "err"}

VARIABLES
    call,    \* struct oi_tool_call
    child,   \* the process of each call and its ends of the pipes
    at,      \* where the one thread of the program is
    got      \* got[c]: chunks read and handed to on_output

vars == <<reactor, call, child, at, got>>

End(c, e) == [call |-> c, end |-> e]
Own(c)    == [call |-> c, end |-> "none"]

ASSUME NobodyAssumption == Nobody \notin [call : Calls, end : Ends]

NoCall ==
    [state |-> "none",      \* enum call_state; "gone" once freed
     fd |-> [e \in Ends |-> 0],
     queued |-> FALSE, closePending |-> FALSE,  \* out_off < out_len
     timeout |-> FALSE,     \* timeout_ms > 0
     exited |-> FALSE, timedOut |-> FALSE, eof |-> FALSE, execFailed |-> FALSE]

(* What the kernel knows of a child.  life: "none", "forked" (before exec),*)
(* "running", "zombie", "reaped"; notice: what read(err_fd) finds, "wait", *)
(* "errno" or "eof"; holder: another process has the output pipe open.     *)
NoChild ==
    [life |-> "none", notice |-> "wait", holder |-> FALSE,
     wrote |-> 0, due |-> FALSE]

Go(phase, c) == at' = [phase |-> phase, call |-> c]

Init ==
    /\ reactor = NewReactor(GenMax)   \* after long use: generations wrap
    /\ call = [c \in Calls |-> NoCall]
    /\ child = [c \in Calls |-> NoChild]
    /\ at = [phase |-> "loop", call |-> Nobody]
    /\ got = [c \in Calls |-> 0]

-----------------------------------------------------------------------------
(* spawn                                                                   *)

(* Six descriptors are opened, lowest first, in three pairs; of each the   *)
(* parent keeps one end.                                                   *)
Closed == {f \in Fds : reactor.file[f] = Nobody}
Lowest(k) == {f \in Closed : Cardinality({g \in Closed : g < f}) = k - 1}
Kept ==
    IF Lowest(6) = {} THEN {}
    ELSE {[stdin |-> i, stdout |-> o, err |-> e] :
             i \in Lowest(2), o \in Lowest(3), e \in Lowest(5)}

(* The registrations of spawn, one after the other.                        *)
Opened(c, kept) ==
    [reactor EXCEPT !.file = [f \in Fds |->
        IF \E e \in Ends : kept[e] = f
        THEN End(c, CHOOSE e \in Ends : kept[e] = f) ELSE @[f]]]
WithStdout(c, kept)  == Add(Opened(c, kept), kept["stdout"], End(c, "stdout"))
WithErr(c, kept)     == Add(WithStdout(c, kept), kept["err"], End(c, "err"))
WithProcess(c, kept) == Watch(WithErr(c, kept), "process", Own(c))
Spawned(c, kept)     ==
    IF call[c].timeout THEN Watch(WithProcess(c, kept), "timer", Own(c))
    ELSE WithProcess(c, kept)

(* What is left when the next registration fails: the child is killed and  *)
(* reaped, and everything done so far is undone but for the generations    *)
(* and ids used up.                                                        *)
Undone(c, kept, r) ==
    RemoveClose(RemoveClose(RemoveClose(Unwatch(r, "process", Own(c)),
        kept["stdout"]), kept["err"]), kept["stdin"])

SpawnFails(c) ==
    /\ \/ UNCHANGED reactor
       \/ \E kept \in Kept :
             \E r \in {Opened(c, kept), WithStdout(c, kept), WithErr(c, kept),
                       WithProcess(c, kept)} :
                reactor' = Undone(c, kept, r)
    /\ call' = [call EXCEPT ![c].state = "gone"]
    /\ UNCHANGED child

Spawn(c) ==
    \E kept \in Kept :
        /\ reactor' = Spawned(c, kept)
        /\ call' = [call EXCEPT ![c].state = "running", ![c].fd = kept]
        /\ child' = [child EXCEPT ![c].life = "forked"]

-----------------------------------------------------------------------------
(* free_call, maybe_finish                                                 *)

CloseIo(r, cl) ==
    RemoveClose(RemoveClose(RemoveClose(r,
        cl.fd["stdin"]), cl.fd["stdout"]), cl.fd["err"])
IoClosed(cl) ==
    [cl EXCEPT !.fd = [e \in Ends |-> 0], !.queued = FALSE]

Released(r, c) ==
    Unwatch(Unwatch(CloseIo(r, call[c]), "timer", Own(c)), "process", Own(c))

(* Of a freed call, and of what its child may still do, nothing is kept.   *)
Freed(cl) == [NoCall EXCEPT !.state = "gone"]
Reaped    == [NoChild EXCEPT !.life = "reaped"]

(* A handler ends with maybe_finish.  (Mutants: the end of the output is   *)
(* not waited for, or waited for after a timeout too.)                     *)
FinishedOnExit(cl) == cl.exited
FinishedOnEof(cl)  == cl.exited /\ cl.eof
Finished(cl) == cl.exited /\ (cl.timedOut \/ cl.eof)

Settle(c, cl, r) ==
    /\ call' = [call EXCEPT ![c] = cl]
    /\ reactor' = r
    /\ IF Finished(cl)
       THEN Go("done", c) ELSE Go("loop", Nobody)

(* on_done has returned.                                                   *)
FreeDone ==
    /\ at.phase = "done"
    /\ reactor' = Released(reactor, at.call)
    /\ call' = [call EXCEPT ![at.call] = Freed(@)]
    /\ child' = [child EXCEPT ![at.call] =
          IF @.life = "reaped" THEN Reaped ELSE @]
    /\ got' = [got EXCEPT ![at.call] = 0]
    /\ Go("loop", Nobody)

(* SIGKILL to the group: the child is a zombie unless it was one; what     *)
(* else holds the pipe may have left the group and stay.                   *)
Killed(k, holder) ==
    [k EXCEPT !.life = IF @ \in {"forked", "running"} THEN "zombie" ELSE @,
              !.notice = IF @ = "wait" THEN "eof" ELSE @,
              !.holder = holder]

-----------------------------------------------------------------------------
(* The embedder: at top level, as the handler of another descriptor, or    *)
(* called back by on_output or on_done.                                    *)
Embedding(c) == at.phase # "reading" /\ at # [phase |-> "done", call |-> c]

Quiet == UNCHANGED <<at, got>>

(* The conversation has one call at a time and may start the next from     *)
(* within on_done, before the last is freed.                               *)
IsNext(c) ==
    \A d \in Calls \ {c} :
        IF d < c THEN \/ call[d].state = "gone"
                      \/ at = [phase |-> "done", call |-> d]
        ELSE call[d].state = "none"

(* oi_tool_call_start: refused (no such tool, or the policy denies it),    *)
(* staged for a question, or spawned.                                      *)
Start(c) ==
    /\ call[c].state = "none" /\ Embedding(c) /\ IsNext(c)
    /\ \/ \E s \in {"gone", "pending"} :
              call' = [call EXCEPT ![c].state = s] /\ UNCHANGED <<reactor, child>>
       \/ Spawn(c)
       \/ SpawnFails(c)
    /\ Quiet

(* oi_tool_call_resolve                                                    *)
Resolve(c) ==
    /\ call[c].state = "pending" /\ Embedding(c)
    /\ \/ call' = [call EXCEPT ![c].state = "gone"] /\ UNCHANGED <<reactor, child>>
       \/ Spawn(c)
       \/ SpawnFails(c)
    /\ Quiet

(* oi_tool_call_set_timeout, once.                                         *)
SetTimeout(c) ==
    /\ call[c].state \in {"pending", "running"} /\ ~call[c].timeout /\ Embedding(c)
    /\ call' = [call EXCEPT ![c].timeout = TRUE]
    /\ reactor' = IF call[c].state = "running"
                  THEN Watch(reactor, "timer", Own(c)) ELSE reactor
    /\ UNCHANGED child /\ Quiet

(* oi_tool_call_write_stdin: the first bytes queued register the end.      *)
WriteStdin(c) ==
    /\ call[c].state = "running" /\ call[c].fd["stdin"] # 0 /\ Embedding(c)
    /\ c \in Fed /\ ~call[c].queued
    /\ call' = [call EXCEPT ![c].queued = TRUE]
    /\ reactor' = Add(reactor, call[c].fd["stdin"], End(c, "stdin"))
    /\ UNCHANGED child /\ Quiet

(* oi_tool_call_close_stdin: put off while bytes are queued.               *)
CloseStdin(c) ==
    /\ call[c].state = "running" /\ call[c].fd["stdin"] # 0 /\ Embedding(c)
    /\ IF call[c].queued
       THEN /\ call' = [call EXCEPT ![c].closePending = TRUE]
            /\ UNCHANGED reactor
       ELSE /\ call' = [call EXCEPT ![c].fd["stdin"] = 0]
            /\ reactor' = Close(reactor, call[c].fd["stdin"])
    /\ UNCHANGED child /\ Quiet

(* oi_tool_call_cancel.  From within this call's on_output the reading     *)
(* loop learns by destroyed_flag that the call is gone.                    *)
Cancel(c) ==
    /\ call[c].state \in {"pending", "running"} /\ Embedding(c)
    /\ call' = [call EXCEPT ![c] = Freed(@)]
    /\ IF call[c].state = "pending" THEN UNCHANGED <<reactor, child>>
       ELSE /\ reactor' = Released(reactor, c)
            /\ child' = [child EXCEPT ![c] = Reaped]
    /\ IF at = [phase |-> "output", call |-> c] THEN Go("loop", Nobody)
       ELSE UNCHANGED at
    /\ got' = [got EXCEPT ![c] = 0]

-----------------------------------------------------------------------------
(* Handlers                                                                *)

Event(t, kind, to) ==
    /\ at.phase = "loop" /\ t \in reactor.batch /\ t.kind = kind
    /\ Delivers(reactor, t) /\ Receiver(reactor, t) = to

(* on_stdout_event reads until nothing is left, calling on_output between. *)
OnStdout(c) ==
    \E t \in reactor.batch :
        /\ Event(t, "fd", End(c, "stdout"))
        /\ reactor' = Handled(t)
        /\ Go("reading", c)
        /\ UNCHANGED <<call, child, got>>

Writers(c) == child[c].life \in {"forked", "running"} \/ child[c].holder

ReadSome(c) ==
    /\ at = [phase |-> "reading", call |-> c]
    /\ \E n \in got[c] + 1 .. child[c].wrote : got' = [got EXCEPT ![c] = n]
    /\ Go("output", c)
    /\ UNCHANGED <<reactor, call, child>>

OutputReturns(c) ==
    /\ at = [phase |-> "output", call |-> c]
    /\ Go("reading", c)
    /\ UNCHANGED <<reactor, call, child, got>>

ReadNothing(c) ==
    /\ at = [phase |-> "reading", call |-> c] /\ got[c] = child[c].wrote
    /\ IF Writers(c) THEN Go("loop", Nobody) /\ UNCHANGED <<reactor, call>>
       ELSE Settle(c, [call[c] EXCEPT !.fd["stdout"] = 0, !.eof = TRUE],
                   RemoveClose(reactor, call[c].fd["stdout"]))
    /\ UNCHANGED <<child, got>>

(* on_err_event: the errno of a failed exec, or its absence.               *)
OnErr(c) ==
    \E t \in reactor.batch :
        /\ Event(t, "fd", End(c, "err"))
        /\ Settle(c, [call[c] EXCEPT !.fd["err"] = 0,
                          !.execFailed = @ \/ child[c].notice = "errno"],
                  RemoveClose(Handled(t), call[c].fd["err"]))
        /\ UNCHANGED <<child, got>>

(* on_stdin_event: everything sent, nothing sent, or nobody reads any more.*)
OnStdin(c) ==
    \E t \in reactor.batch :
        /\ Event(t, "fd", End(c, "stdin"))
        /\ \/ /\ reactor' = Remove(Handled(t), call[c].fd["stdin"])
              /\ ~call[c].closePending
              /\ call' = [call EXCEPT ![c].queued = FALSE]
           \/ /\ reactor' = RemoveClose(Handled(t), call[c].fd["stdin"])
              /\ call' = [call EXCEPT ![c].queued = FALSE, ![c].fd["stdin"] = 0,
                                      ![c].closePending = FALSE]
           \/ reactor' = Handled(t) /\ UNCHANGED call
        /\ UNCHANGED <<child, at, got>>

(* on_process_event                                                        *)
OnProcess(c) ==
    \E t \in reactor.batch :
        /\ Event(t, "process", Own(c))
        /\ child' = [child EXCEPT ![c].life = "reaped"]
        /\ Settle(c, [call[c] EXCEPT !.exited = TRUE],
                  Unwatch(Handled(t), "process", Own(c)))
        /\ UNCHANGED got

(* on_call_timeout                                                         *)
OnTimeout(c) ==
    \E t \in reactor.batch, holder \in {FALSE, child[c].holder} :
        /\ Event(t, "timer", Own(c))
        /\ child' = [child EXCEPT ![c] = Killed(@, holder)]
        /\ Settle(c, [IoClosed(call[c]) EXCEPT !.timedOut = TRUE],
                  CloseIo(Unwatch(Handled(t), "timer", Own(c)), call[c]))
        /\ UNCHANGED got

(* oi_reactor_step.  A queue for stdin is taken to be writable always: a   *)
(* full one is a handler that sends nothing.                               *)
Ready ==
    {FdToken(reactor, f) : f \in {g \in Fds :
        /\ reactor.epoll[g] # 0
        /\ LET c == reactor.file[g].call IN
           CASE reactor.file[g].end = "stdin"  -> TRUE
             [] reactor.file[g].end = "stdout" ->
                    got[c] < child[c].wrote \/ ~Writers(c)
             [] reactor.file[g].end = "err"    -> child[c].notice # "wait"}}
    \cup
    {WatchToken(w) : w \in {x \in reactor.watches :
        IF x.kind = "timer" THEN child[x.for.call].due
        ELSE child[x.for.call].life = "zombie"}}

Step ==
    /\ at.phase = "loop"
    /\ Poll(Ready) \/ PassOver
    /\ UNCHANGED <<call, child, at, got>>

(* oi_reactor_run returns when nothing is registered.                      *)
RunReturns ==
    /\ at.phase = "loop" /\ reactor.batch = {} /\ reactor.count = 0
    /\ UNCHANGED vars

-----------------------------------------------------------------------------
(* The child and the clock                                                 *)

Exec(c) ==
    /\ child[c].life = "forked" /\ child[c].notice = "wait"
    /\ \/ child' = [child EXCEPT ![c].life = "running", ![c].notice = "eof"]
       \/ child' = [child EXCEPT ![c].notice = "errno"]

Writes(c) ==
    /\ child[c].life = "running" \/ child[c].holder
    /\ child[c].wrote < MaxOutput
    /\ child' = [child EXCEPT ![c].wrote = @ + 1]

Exits(c) ==
    \/ /\ child[c].life = "running"
       /\ \E holder \in BOOLEAN :
             child' = [child EXCEPT ![c].life = "zombie", ![c].holder = holder]
    \/ /\ child[c].life = "forked" /\ child[c].notice = "errno"
       /\ child' = [child EXCEPT ![c].life = "zombie"]

HolderCloses(c) ==
    child[c].holder /\ child' = [child EXCEPT ![c].holder = FALSE]

Expires(c) ==
    /\ ~child[c].due
    /\ \E w \in reactor.watches : w.kind = "timer" /\ w.for = Own(c)
    /\ child' = [child EXCEPT ![c].due = TRUE]

-----------------------------------------------------------------------------
Embedder(c) == \/ Start(c) \/ Resolve(c) \/ SetTimeout(c)
               \/ WriteStdin(c) \/ CloseStdin(c) \/ Cancel(c)

Handler(c) == \/ OnStdout(c) \/ ReadSome(c) \/ OutputReturns(c)
              \/ ReadNothing(c) \/ OnErr(c) \/ OnStdin(c)
              \/ OnProcess(c) \/ OnTimeout(c)

World(c) == /\ \/ Exec(c) \/ Writes(c) \/ Exits(c) \/ HolderCloses(c)
               \/ Expires(c)
            /\ UNCHANGED <<reactor, call, at, got>>

ClockTicks == /\ \E c \in Calls : Expires(c)
              /\ UNCHANGED <<reactor, call, at, got>>

Loop == Step \/ FreeDone \/ \E c \in Calls : Handler(c)

Next == Loop \/ RunReturns \/ \E c \in Calls : Embedder(c) \/ World(c)

(* The loop of the program runs and clocks tick; nothing is asked of the   *)
(* children nor of the embedder.                                           *)
Spec == /\ Init /\ [][Next]_vars
        /\ WF_vars(Loop)
        /\ WF_vars(ClockTicks)

-----------------------------------------------------------------------------
(* Properties                                                              *)

TypeOK ==
    /\ \A c \in Calls :
        /\ call[c].state \in {"none", "pending", "running", "gone"}
        /\ call[c].fd \in [Ends -> Fds \cup {0}]
        /\ child[c].life \in {"none", "forked", "running", "zombie", "reaped"}
        /\ got[c] \in 0 .. child[c].wrote
    /\ reactor.count \in Nat /\ reactor.nextId \in Nat
    /\ at.phase \in {"loop", "reading", "output", "done"}

(* An event that is delivered runs a handler of the descriptor, the timer  *)
(* or the child it came from, whatever earlier handlers of the batch       *)
(* closed, and opened again under the same number (reactor.c, the          *)
(* generation check of oi_reactor_step).                                   *)
StaleEventsAreDropped ==
    \A t \in reactor.batch :
        Delivers(reactor, t) => Receiver(reactor, t) = t.for

(* What the reactor would call back belongs to a call that is still        *)
(* allocated and names it, every open descriptor too, no child is left     *)
(* unreaped by a freed call, and registered_count, which decides when      *)
(* oi_reactor_run returns, counts exactly the registrations (free_call,    *)
(* close_call_io, the failure paths of spawn).                             *)
NothingOutlivesItsCall ==
    /\ \A f \in Fds : LET what == reactor.file[f] IN
        /\ what # Nobody => /\ call[what.call].state = "running"
                            /\ call[what.call].fd[what.end] = f
        /\ reactor.entries[f].to \in {Nobody, what}
        /\ reactor.entries[f].to # Nobody <=> reactor.epoll[f] # 0
    /\ \A w \in reactor.watches : call[w.for.call].state = "running"
    /\ \A c \in Calls :
        call[c].state = "gone" => child[c].life \in {"none", "reaped"}
    /\ reactor.count = Cardinality(reactor.watches)
                       + Cardinality({f \in Fds : reactor.epoll[f] # 0})

(* A call that is reported finished, other than by its timeout, has        *)
(* handed every chunk its child and the child's heirs wrote to on_output   *)
(* first, whether the exit or the output is noticed first (maybe_finish).  *)
OutputIsWhole ==
    at.phase = "done" =>
        \/ call[at.call].timedOut
        \/ got[at.call] = child[at.call].wrote /\ ~Writers(at.call)

(* A running call with a timeout ends, by on_done or by cancel, even when  *)
(* its child never exits and somebody else keeps its output open.          *)
CallEnds ==
    \A c \in Calls :
        (call[c].state = "running" /\ call[c].timeout) ~> (call[c].state = "gone")
=============================================================================
