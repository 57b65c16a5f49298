------------------------------- MODULE Reactor -------------------------------
(***************************************************************************)
(* The event loop, reactor.c over reactor_epoll.c, and the kernel's part   *)
(* of it: the descriptor table and the epoll set.                          *)
(*                                                                         *)
(* The whole of it is one record that the handlers of other modules pass   *)
(* from operation to operation.  A wait takes the tokens of everything     *)
(* that is ready; the handlers then run one after the other, and           *)
(* each may close, replace and add descriptors that later tokens of the    *)
(* same batch speak of.  The generation in a token is what tells them      *)
(* apart.  The order of a batch is the kernel's: the batch is a set, and   *)
(* any of it comes next.                                                   *)
(***************************************************************************)
EXTENDS Naturals, FiniteSets

CONSTANTS Fds,        \* descriptor numbers the kernel may hand out
          GenMax,     \* the 30-bit mask of a generation
          Nobody      \* an entry or a descriptor not in use

ASSUME ReactorAssumption ==
    /\ Fds \subseteq Nat \ {0} /\ IsFiniteSet(Fds)
    /\ GenMax \in Nat \ {0}

VARIABLE reactor

(* struct fd_entry, struct oi_reactor and, in epoll and file, the kernel.  *)
(* The timers and child processes watched are one list, told apart by the  *)
(* kind of their token.  "for" is whose event it is, which the code cannot *)
(* see.                                                                    *)
NewReactor(gen) ==
    [entries |-> [f \in Fds |-> [to |-> Nobody, gen |-> gen]],
     count   |-> 0,            \* registered_count
     nextId  |-> 1,            \* next_native_id
     watches |-> {},           \* timers, processes
     batch   |-> {},           \* tokens of oi_reactor_step still to handle
     epoll   |-> [f \in Fds |-> 0],       \* 0, or the generation of the token
     file    |-> [f \in Fds |-> Nobody]]  \* what the descriptor refers to

FdToken(r, f) ==
    [kind |-> "fd", n |-> f, gen |-> r.epoll[f], for |-> r.file[f]]
WatchToken(w) ==
    [kind |-> w.kind, n |-> w.id, gen |-> 0, for |-> w.for]

NextGen(gen) == IF gen = GenMax THEN 1 ELSE gen + 1

(* oi_reactor_add: refused while the descriptor is in the epoll set.       *)
Add(r, f, to) ==
    IF r.epoll[f] # 0 THEN r
    ELSE LET gen == NextGen(r.entries[f].gen) IN
         [r EXCEPT !.epoll[f] = gen,
                   !.entries[f] = [to |-> to, gen |-> gen],
                   !.count = @ + 1]

(* oi_reactor_remove: an error, and no change, when it is not in the set.  *)
(* (Mutant: the error is ignored.) *)
RemoveAlways(r, f) ==
    [r EXCEPT !.epoll[f] = 0, !.entries[f].to = Nobody, !.count = @ - 1]

Remove(r, f) ==
    IF r.epoll[f] = 0 THEN r
    ELSE [r EXCEPT !.epoll[f] = 0, !.entries[f].to = Nobody, !.count = @ - 1]

(* open and close; closing takes the descriptor out of the epoll set, of   *)
(* which the reactor knows nothing.                                        *)
Open(r, f, what)  == [r EXCEPT !.file[f] = what]
Close(r, f)       == [r EXCEPT !.file[f] = Nobody, !.epoll[f] = 0]

(* (Mutant: the descriptor is closed and not removed.) *)
CloseOnly(r, f)   == IF f = 0 THEN r ELSE Close(r, f)

RemoveClose(r, f) == IF f = 0 THEN r ELSE Close(Remove(r, f), f)

(* oi_reactor_timer_start, oi_reactor_process_start.                       *)
Watch(r, kind, for) ==
    [r EXCEPT !.watches = @ \cup {[kind |-> kind, id |-> r.nextId, for |-> for]},
              !.nextId = @ + 1,
              !.count = @ + 1]

(* oi_reactor_timer_cancel, oi_reactor_process_cancel; also the unlinking  *)
(* that oi_reactor_step does before it calls the handler.                  *)
Unwatch(r, kind, for) ==
    LET w == {x \in r.watches : x.kind = kind /\ x.for = for} IN
    [r EXCEPT !.watches = @ \ w, !.count = @ - Cardinality(w)]

(* The token is handled, and not passed over because what it speaks of was *)
(* removed or replaced earlier in the batch.  (Mutant: a descriptor in use *)
(* is good enough.)                                                        *)
DeliversInUse(r, t) ==
    IF t.kind = "fd" THEN r.entries[t.n].to # Nobody
    ELSE \E w \in r.watches : w.kind = t.kind /\ w.id = t.n

Delivers(r, t) ==
    IF t.kind = "fd"
    THEN r.entries[t.n].to # Nobody /\ r.entries[t.n].gen = t.gen
    ELSE \E w \in r.watches : w.kind = t.kind /\ w.id = t.n

(* Whose handler a delivered token runs.                                   *)
Receiver(r, t) ==
    IF t.kind = "fd" THEN r.entries[t.n].to
    ELSE (CHOOSE w \in r.watches : w.kind = t.kind /\ w.id = t.n).for

(* oi_reactor_step: take everything ready, then handle it token by token.  *)
(* A batch of OI_REACTOR_MAX_EVENTS is never full with the few             *)
(* registrations of the model.                                             *)
Poll(ready) ==
    /\ reactor.batch = {} /\ ready # {}
    /\ reactor' = [reactor EXCEPT !.batch = ready]

Handled(t) == [reactor EXCEPT !.batch = @ \ {t}]

PassOver ==
    \E t \in reactor.batch :
        /\ ~Delivers(reactor, t)
        /\ reactor' = Handled(t)
=============================================================================
