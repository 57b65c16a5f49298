---------------------------- MODULE ToolExecProofs ----------------------------
(***************************************************************************)
(* What holds of any number of calls on any number of descriptors: the     *)
(* types, that nothing of a call outlives it, and that a call is reported  *)
(* finished only with all of its output.                                   *)
(***************************************************************************)
EXTENDS ToolExec, FiniteSetTheorems, TLAPS

Whose == [call : Calls, end : Ends]
Owner == [call : Calls, end : {"none"}]

Call == [state : {"none", "pending", "running", "gone"},
         fd : [Ends -> Fds \cup {0}],
         queued : BOOLEAN, closePending : BOOLEAN, timeout : BOOLEAN,
         exited : BOOLEAN, timedOut : BOOLEAN, eof : BOOLEAN,
         execFailed : BOOLEAN]

Child == [life : {"none", "forked", "running", "zombie", "reaped"},
          notice : {"wait", "errno", "eof"}, holder : BOOLEAN,
          wrote : Nat, due : BOOLEAN]

Place == [phase : {"loop", "reading", "output", "done"}, call : Calls \cup {Nobody}]

Entry == [to : Whose \cup {Nobody}, gen : 1..GenMax]
Watched == [kind : {"timer", "process"}, id : Nat, for : Owner]
Token == [kind : {"fd", "timer", "process"}, n : Nat, gen : Nat,
          for : Whose \cup Owner \cup {Nobody}]

Record == [entries : [Fds -> Entry], count : Int, nextId : Nat,
           watches : SUBSET Watched, batch : SUBSET Token,
           epoll : [Fds -> 0..GenMax], file : [Fds -> Whose \cup {Nobody}]]

Registered(r) == {f \in Fds : r.epoll[f] # 0}

(* The two halves of a reactor, the program's and the kernel's, agree.      *)
Agree(r) ==
    /\ \A f \in Fds :
        r.entries[f].to = IF r.epoll[f] = 0 THEN Nobody ELSE r.file[f]
    /\ \A f \in Fds : r.epoll[f] # 0 => r.file[f] # Nobody

Counted(r) ==
    /\ IsFiniteSet(r.watches)
    /\ \A w \in r.watches : w.id < r.nextId
    /\ r.count = Cardinality(r.watches) + Cardinality(Registered(r))

Tokens(r) == \A t \in r.batch : t.kind = "fd" => t.n \in Fds

Whole(r) == r \in Record /\ Agree(r) /\ Counted(r) /\ Tokens(r)

(* Only descriptors differ.                                                 *)
Beside(s, r) ==
    /\ s.watches = r.watches /\ s.nextId = r.nextId /\ s.batch = r.batch

-----------------------------------------------------------------------------
(* Operations of the reactor                                                *)

LEMMA NextGenInRange ==
    ASSUME NEW g \in 1..GenMax
    PROVE  NextGen(g) \in 1..GenMax
  BY ReactorAssumption DEF NextGen

LEMMA RegisteredIsFinite ==
    ASSUME NEW r
    PROVE  IsFiniteSet(Registered(r)) /\ Cardinality(Registered(r)) \in Nat
  <1>1. IsFiniteSet(Registered(r))
    BY ReactorAssumption, FS_Subset DEF Registered
  <1> QED
    BY <1>1, FS_CardinalityType

LEMMA AddKeeps ==
    ASSUME NEW r, Whole(r), NEW f \in Fds, r.file[f] # Nobody
    PROVE  /\ Whole(Add(r, f, r.file[f]))
           /\ Beside(Add(r, f, r.file[f]), r)
           /\ Add(r, f, r.file[f]).file = r.file
           /\ \A g \in Fds : Add(r, f, r.file[f]).epoll[g] = 0
                             <=> r.epoll[g] = 0 /\ g # f
  <1>1. CASE r.epoll[f] # 0
    BY <1>1 DEF Add, Beside
  <1>2. CASE r.epoll[f] = 0
    <2> DEFINE gen == NextGen(r.entries[f].gen)
               s == [r EXCEPT !.epoll[f] = gen,
                              !.entries[f] = [to |-> r.file[f], gen |-> gen],
                              !.count = @ + 1]
    <2>1. Add(r, f, r.file[f]) = s
      BY <1>2 DEF Add
    <2>2. gen \in 1..GenMax /\ gen # 0
      BY NextGenInRange, ReactorAssumption DEF Whole, Record, Entry
    <2> HIDE DEF gen
    <2>3. /\ s \in Record /\ Beside(s, r) /\ s.file = r.file
          /\ s.epoll = [r.epoll EXCEPT ![f] = gen]
          /\ s.entries = [r.entries EXCEPT ![f] = [to |-> r.file[f], gen |-> gen]]
          /\ s.count = r.count + 1
      <3> DEFINE entries == [r.entries EXCEPT ![f] = [to |-> r.file[f], gen |-> gen]]
                 epoll == [r.epoll EXCEPT ![f] = gen]
      <3>1. entries \in [Fds -> Entry]
        BY <2>2 DEF Whole, Record, Entry
      <3>2. epoll \in [Fds -> 0..GenMax]
        BY <2>2 DEF Whole, Record
      <3>3. s = [r EXCEPT !.epoll = epoll, !.entries = entries, !.count = r.count + 1]
        BY DEF Whole, Record
      <3> HIDE DEF entries, epoll, s
      <3>4. r.count + 1 \in Int
        BY DEF Whole, Record
      <3>5. /\ s.watches = r.watches /\ s.nextId = r.nextId
            /\ s.batch = r.batch /\ s.file = r.file
            /\ s.epoll = epoll /\ s.entries = entries /\ s.count = r.count + 1
        BY <3>3 DEF Whole, Record
      <3>6. s \in Record
        BY <3>1, <3>2, <3>3, <3>4 DEF Whole, Record
      <3>7. Beside(s, r)
        BY <3>5 DEF Beside
      <3> QED
        BY <3>5, <3>6, <3>7 DEF entries, epoll
    <2> HIDE DEF s
    <2>4. \A g \in Fds : s.epoll[g] = 0 <=> r.epoll[g] = 0 /\ g # f
      BY <2>2, <2>3 DEF Whole, Record
    <2>5. Agree(s)
      BY <2>2, <2>3 DEF Whole, Record, Entry, Agree
    <2>6. Registered(s) = Registered(r) \cup {f}
      BY <2>4 DEF Registered
    <2>7. Cardinality(Registered(s)) = Cardinality(Registered(r)) + 1
      <3>1. f \notin Registered(r) /\ IsFiniteSet(Registered(r))
        BY <1>2, RegisteredIsFinite DEF Registered
      <3>2. Cardinality(Registered(r) \cup {f}) = Cardinality(Registered(r)) + 1
        BY <3>1, FS_AddElement
      <3> QED
        BY <2>6, <3>2
    <2>8. Counted(s)
      BY <2>3, <2>7, RegisteredIsFinite, FS_CardinalityType
         DEF Whole, Record, Counted, Beside
    <2> QED
      BY <2>1, <2>3, <2>4, <2>5, <2>8 DEF Whole, Tokens, Beside
  <1> QED
    BY <1>1, <1>2

LEMMA RemoveKeeps ==
    ASSUME NEW r, Whole(r), NEW f \in Fds
    PROVE  /\ Whole(Remove(r, f))
           /\ Beside(Remove(r, f), r)
           /\ Remove(r, f).file = r.file
           /\ Remove(r, f).epoll = [r.epoll EXCEPT ![f] = 0]
  <1>1. CASE r.epoll[f] = 0
    <2>1. Remove(r, f) = r
      BY <1>1 DEF Remove
    <2>2. r.epoll = [r.epoll EXCEPT ![f] = 0]
      BY <1>1 DEF Whole, Record
    <2> QED
      BY <2>1, <2>2 DEF Beside
  <1>2. CASE r.epoll[f] # 0
    <2> DEFINE s == [r EXCEPT !.epoll[f] = 0, !.entries[f].to = Nobody,
                              !.count = @ - 1]
    <2>1. Remove(r, f) = s
      BY <1>2 DEF Remove
    <2>2. /\ s \in Record /\ Beside(s, r) /\ s.file = r.file
          /\ s.epoll = [r.epoll EXCEPT ![f] = 0]
          /\ s.entries = [r.entries EXCEPT ![f].to = Nobody]
          /\ s.count = r.count - 1
      <3> DEFINE entries == [r.entries EXCEPT ![f].to = Nobody]
                 epoll == [r.epoll EXCEPT ![f] = 0]
      <3>1. entries \in [Fds -> Entry]
        BY DEF Whole, Record, Entry
      <3>2. epoll \in [Fds -> 0..GenMax]
        BY ReactorAssumption DEF Whole, Record
      <3>3. s = [r EXCEPT !.epoll = epoll, !.entries = entries, !.count = r.count - 1]
        BY DEF Whole, Record
      <3> HIDE DEF entries, epoll, s
      <3>4. r.count - 1 \in Int
        BY DEF Whole, Record
      <3>5. /\ s.watches = r.watches /\ s.nextId = r.nextId
            /\ s.batch = r.batch /\ s.file = r.file
            /\ s.epoll = epoll /\ s.entries = entries /\ s.count = r.count - 1
        BY <3>3 DEF Whole, Record
      <3>6. s \in Record
        BY <3>1, <3>2, <3>3, <3>4 DEF Whole, Record
      <3>7. Beside(s, r)
        BY <3>5 DEF Beside
      <3> QED
        BY <3>5, <3>6, <3>7 DEF entries, epoll
    <2> HIDE DEF s
    <2>3. Agree(s)
      BY <2>2 DEF Whole, Record, Entry, Agree
    <2>4. Registered(s) = Registered(r) \ {f}
      BY <2>2 DEF Registered, Whole, Record
    <2>5. Cardinality(Registered(s)) = Cardinality(Registered(r)) - 1
      <3>1. f \in Registered(r)
        BY <1>2 DEF Registered
      <3>2. Cardinality(Registered(r) \ {f}) = Cardinality(Registered(r)) - 1
        BY <3>1, RegisteredIsFinite, FS_RemoveElement
      <3> QED
        BY <2>4, <3>2
    <2>6. Counted(s)
      BY <2>2, <2>5, RegisteredIsFinite, FS_CardinalityType
         DEF Whole, Record, Counted, Beside
    <2> QED
      BY <2>1, <2>2, <2>3, <2>6 DEF Whole, Tokens, Beside
  <1> QED
    BY <1>1, <1>2

LEMMA CloseKeeps ==
    ASSUME NEW r, Whole(r), NEW f \in Fds, r.epoll[f] = 0
    PROVE  /\ Whole(Close(r, f))
           /\ Beside(Close(r, f), r)
           /\ Close(r, f).file = [r.file EXCEPT ![f] = Nobody]
           /\ Close(r, f).epoll = r.epoll
  <1> DEFINE s == [r EXCEPT !.file[f] = Nobody, !.epoll[f] = 0]
  <1>1. Close(r, f) = s
    BY DEF Close
  <1>2. /\ s \in Record /\ Beside(s, r)
        /\ s.file = [r.file EXCEPT ![f] = Nobody]
        /\ s.epoll = r.epoll /\ s.entries = r.entries /\ s.count = r.count
    BY ReactorAssumption DEF Whole, Record, Beside
  <1> HIDE DEF s
  <1>3. Agree(s)
    BY <1>2 DEF Whole, Record, Agree
  <1>4. Counted(s)
    BY <1>2 DEF Whole, Counted, Registered, Beside
  <1> QED
    BY <1>1, <1>2, <1>3, <1>4 DEF Whole, Tokens, Beside

LEMMA RemoveCloseKeeps ==
    ASSUME NEW r, Whole(r), NEW f \in Fds \cup {0}
    PROVE  /\ Whole(RemoveClose(r, f))
           /\ Beside(RemoveClose(r, f), r)
           /\ f = 0 => RemoveClose(r, f) = r
           /\ RemoveClose(r, f).file = [g \in Fds |-> IF g = f THEN Nobody ELSE r.file[g]]
           /\ RemoveClose(r, f).epoll = [g \in Fds |-> IF g = f THEN 0 ELSE r.epoll[g]]
  <1>1. 0 \notin Fds
    BY ReactorAssumption
  <1>2. CASE f = 0
    <2>1. RemoveClose(r, f) = r
      BY <1>2 DEF RemoveClose
    <2>2. /\ r.file = [g \in Fds |-> IF g = f THEN Nobody ELSE r.file[g]]
          /\ r.epoll = [g \in Fds |-> IF g = f THEN 0 ELSE r.epoll[g]]
      BY <1>1, <1>2 DEF Whole, Record
    <2> QED
      BY <2>1, <2>2 DEF Beside
  <1>3. CASE f \in Fds
    <2> DEFINE s == Remove(r, f)
    <2>1. /\ Whole(s) /\ Beside(s, r) /\ s.file = r.file
          /\ s.epoll = [r.epoll EXCEPT ![f] = 0]
      BY <1>3, RemoveKeeps
    <2>2. RemoveClose(r, f) = Close(s, f)
      BY <1>1, <1>3 DEF RemoveClose
    <2> HIDE DEF s
    <2>3. s.epoll[f] = 0
      BY <1>3, <2>1 DEF Whole, Record
    <2>4. /\ Whole(Close(s, f)) /\ Beside(Close(s, f), s)
          /\ Close(s, f).file = [s.file EXCEPT ![f] = Nobody]
          /\ Close(s, f).epoll = s.epoll
      BY <1>3, <2>1, <2>3, CloseKeeps
    <2>5. /\ [r.file EXCEPT ![f] = Nobody]
             = [g \in Fds |-> IF g = f THEN Nobody ELSE r.file[g]]
          /\ [r.epoll EXCEPT ![f] = 0]
             = [g \in Fds |-> IF g = f THEN 0 ELSE r.epoll[g]]
      BY DEF Whole, Record
    <2> QED
      BY <1>1, <1>3, <2>1, <2>2, <2>4, <2>5 DEF Beside
  <1> QED
    BY <1>2, <1>3

LEMMA WatchKeeps ==
    ASSUME NEW r, Whole(r), NEW kind \in {"timer", "process"}, NEW who \in Owner
    PROVE  LET s == Watch(r, kind, who) IN
           /\ Whole(s)
           /\ s.file = r.file /\ s.epoll = r.epoll /\ s.batch = r.batch
           /\ \A w \in s.watches : w \in r.watches \/ (w.for = who /\ w.kind = kind)
           /\ r.watches \subseteq s.watches
  <1> DEFINE new == [kind |-> kind, id |-> r.nextId, for |-> who]
             s == [r EXCEPT !.watches = @ \cup {new}, !.nextId = @ + 1,
                            !.count = @ + 1]
  <1>1. Watch(r, kind, who) = s
    BY DEF Watch
  <1>2. /\ new \in Watched /\ new.for = who /\ new.kind = kind /\ new.id = r.nextId
    BY DEF Watched, Whole, Record
  <1> HIDE DEF new
  <1>3. /\ s \in Record /\ s.watches = r.watches \cup {new}
        /\ s.nextId = r.nextId + 1 /\ s.count = r.count + 1
        /\ s.file = r.file /\ s.epoll = r.epoll /\ s.entries = r.entries
        /\ s.batch = r.batch
    <2> DEFINE watches == r.watches \cup {new}
    <2>1. watches \in SUBSET Watched /\ r.nextId + 1 \in Nat /\ r.count + 1 \in Int
      BY <1>2 DEF Whole, Record
    <2>2. s = [r EXCEPT !.watches = watches, !.nextId = r.nextId + 1,
                        !.count = r.count + 1]
      BY DEF Whole, Record
    <2> HIDE DEF watches, s
    <2>3. /\ s \in Record /\ s.watches = watches
          /\ s.nextId = r.nextId + 1 /\ s.count = r.count + 1
          /\ s.file = r.file /\ s.epoll = r.epoll /\ s.entries = r.entries
          /\ s.batch = r.batch
      BY <2>1, <2>2 DEF Whole, Record
    <2> QED
      BY <2>3 DEF watches
  <1> HIDE DEF s
  <1>4. new \notin r.watches
    BY <1>2 DEF Whole, Counted, Record, Watched
  <1>5. /\ IsFiniteSet(s.watches)
        /\ Cardinality(s.watches) = Cardinality(r.watches) + 1
    <2>1. IsFiniteSet(r.watches)
      BY DEF Whole, Counted
    <2> HIDE DEF s
    <2>2. /\ IsFiniteSet(r.watches \cup {new})
          /\ Cardinality(r.watches \cup {new}) = Cardinality(r.watches) + 1
      BY <1>4, <2>1, FS_AddElement
    <2> QED
      BY <1>3, <2>2
  <1>6. \A w \in s.watches : w.id < s.nextId
    BY <1>2, <1>3 DEF Whole, Counted, Record, Watched
  <1>7. Registered(s) = Registered(r)
    BY <1>3 DEF Registered
  <1>8. Counted(s)
    BY <1>3, <1>5, <1>6, <1>7, RegisteredIsFinite, FS_CardinalityType
       DEF Counted, Whole, Record
  <1> QED
    BY <1>1, <1>2, <1>3, <1>8 DEF Whole, Agree, Tokens

LEMMA UnwatchKeeps ==
    ASSUME NEW r, Whole(r), NEW kind, NEW who
    PROVE  LET s == Unwatch(r, kind, who) IN
           /\ Whole(s)
           /\ s.file = r.file /\ s.epoll = r.epoll /\ s.batch = r.batch
           /\ s.watches = {w \in r.watches : ~(w.kind = kind /\ w.for = who)}
  <1> DEFINE gone == {x \in r.watches : x.kind = kind /\ x.for = who}
             s == [r EXCEPT !.watches = @ \ gone,
                            !.count = @ - Cardinality(gone)]
  <1>1. Unwatch(r, kind, who) = s
    BY DEF Unwatch
  <1>2. IsFiniteSet(gone) /\ Cardinality(gone) \in Nat
    BY FS_Subset, FS_CardinalityType DEF Whole, Counted
  <1>3. gone \subseteq r.watches
        /\ r.watches \ gone = {w \in r.watches : ~(w.kind = kind /\ w.for = who)}
    OBVIOUS
  <1> HIDE DEF gone
  <1>4. /\ s \in Record /\ s.watches = r.watches \ gone
        /\ s.nextId = r.nextId /\ s.count = r.count - Cardinality(gone)
        /\ s.file = r.file /\ s.epoll = r.epoll /\ s.entries = r.entries
        /\ s.batch = r.batch
    <2> DEFINE watches == r.watches \ gone
               count == r.count - Cardinality(gone)
    <2>1. watches \in SUBSET Watched /\ count \in Int
      BY <1>2 DEF Whole, Record
    <2>2. s = [r EXCEPT !.watches = watches, !.count = count]
      BY DEF Whole, Record
    <2> HIDE DEF watches, count, s
    <2>3. /\ s \in Record /\ s.watches = watches
          /\ s.nextId = r.nextId /\ s.count = count
          /\ s.file = r.file /\ s.epoll = r.epoll /\ s.entries = r.entries
          /\ s.batch = r.batch
      BY <2>1, <2>2 DEF Whole, Record
    <2> QED
      BY <2>3 DEF watches, count
  <1> HIDE DEF s
  <1>5. /\ IsFiniteSet(s.watches)
        /\ Cardinality(s.watches) = Cardinality(r.watches) - Cardinality(gone)
    <2>1. r.watches \cap gone = gone
      BY <1>3
    <2>2. IsFiniteSet(r.watches)
      BY DEF Whole, Counted
    <2>3. /\ IsFiniteSet(r.watches \ gone)
          /\ Cardinality(r.watches \ gone)
             = Cardinality(r.watches) - Cardinality(r.watches \cap gone)
      BY <2>2, FS_Difference
    <2> QED
      BY <1>4, <2>1, <2>3
  <1>6. Registered(s) = Registered(r)
    BY <1>4 DEF Registered
  <1>7. Counted(s)
    BY <1>2, <1>4, <1>5, <1>6, RegisteredIsFinite, FS_CardinalityType
       DEF Counted, Whole, Record
  <1> QED
    BY <1>1, <1>3, <1>4, <1>7 DEF Whole, Agree, Tokens

-----------------------------------------------------------------------------
(* Who owns what                                                            *)

(* A descriptor refers to an end of a call exactly when the call names it;  *)
(* only running calls have descriptors, timers and processes watched; the   *)
(* child's stdin is registered exactly while something is queued for it.    *)
Owned(r, cl) ==
    /\ \A f \in Fds, c \in Calls, e \in Ends :
        r.file[f] = End(c, e) <=> cl[c].fd[e] = f
    /\ \A c \in Calls, e \in Ends : cl[c].fd[e] # 0 => cl[c].state = "running"
    /\ \A w \in r.watches : cl[w.for.call].state = "running"
    /\ \A c \in Calls :
        cl[c].queued <=> /\ cl[c].fd["stdin"] # 0
                         /\ r.epoll[cl[c].fd["stdin"]] # 0

(* What one call, c, becomes together with its share of the reactor.        *)
Becomes(r, s, c, k) ==
    /\ \A f \in Fds, e \in Ends : s.file[f] = End(c, e) <=> k.fd[e] = f
    /\ \A f \in Fds, d \in Calls \ {c}, e \in Ends :
        s.file[f] = End(d, e) <=> r.file[f] = End(d, e)
    /\ \A f \in Fds, d \in Calls \ {c}, e \in Ends :
        r.file[f] = End(d, e) => (s.epoll[f] = 0 <=> r.epoll[f] = 0)
    /\ \A e \in Ends : k.fd[e] # 0 => k.state = "running"
    /\ \A w \in s.watches :
        IF w.for.call = c THEN k.state = "running" ELSE w \in r.watches
    /\ k.queued <=> k.fd["stdin"] # 0 /\ s.epoll[k.fd["stdin"]] # 0

LEMMA OwnersChange ==
    ASSUME NEW r, NEW s, NEW cl \in [Calls -> Call], NEW c \in Calls,
           NEW k \in Call, r \in Record, s \in Record,
           Owned(r, cl), Becomes(r, s, c, k)
    PROVE  Owned(s, [cl EXCEPT ![c] = k])
  <1> DEFINE new == [cl EXCEPT ![c] = k]
  <1>1. \A d \in Calls : new[d] = IF d = c THEN k ELSE cl[d]
    OBVIOUS
  <1> HIDE DEF new
  <1>2. \A f \in Fds, d \in Calls, e \in Ends :
            s.file[f] = End(d, e) <=> new[d].fd[e] = f
    BY <1>1 DEF Owned, Becomes
  <1>3. \A d \in Calls, e \in Ends : new[d].fd[e] # 0 => new[d].state = "running"
    BY <1>1 DEF Owned, Becomes
  <1>4. \A w \in s.watches : new[w.for.call].state = "running"
    <2>1. \A w \in s.watches : w.for.call \in Calls
      BY DEF Record, Watched, Owner
    <2> QED
      BY <1>1, <2>1 DEF Owned, Becomes
  <1>5. ASSUME NEW d \in Calls
        PROVE  new[d].queued <=> /\ new[d].fd["stdin"] # 0
                                 /\ s.epoll[new[d].fd["stdin"]] # 0
    <2>1. CASE d = c
      BY <1>1, <2>1 DEF Becomes
    <2>2. CASE d # c
      <3>1. cl[d].fd["stdin"] \in Fds \cup {0}
        BY DEF Call, Ends
      <3>2. cl[d].fd["stdin"] # 0 =>
                r.file[cl[d].fd["stdin"]] = End(d, "stdin")
        BY <3>1 DEF Owned, Ends
      <3>3. cl[d].fd["stdin"] # 0 =>
                (s.epoll[cl[d].fd["stdin"]] = 0 <=> r.epoll[cl[d].fd["stdin"]] = 0)
        BY <2>2, <3>1, <3>2 DEF Becomes, Ends
      <3> QED
        BY <1>1, <2>2, <3>3 DEF Owned
    <2> QED
      BY <2>1, <2>2
  <1> QED
    BY <1>2, <1>3, <1>4, <1>5 DEF Owned, new

(* A change of what the owners do not depend on.                            *)
LEMMA OwnersStay ==
    ASSUME NEW r, NEW s, NEW cl \in [Calls -> Call], NEW c \in Calls,
           NEW k \in Call, r \in Record, s \in Record, Owned(r, cl),
           s.file = r.file, s.watches \subseteq r.watches,
           \A f \in Fds : s.epoll[f] = 0 <=> r.epoll[f] = 0,
           k.state = cl[c].state, k.fd = cl[c].fd, k.queued = cl[c].queued
    PROVE  Owned(s, [cl EXCEPT ![c] = k])
  <1>1. cl[c].fd["stdin"] # 0 => cl[c].fd["stdin"] \in Fds
    BY DEF Call, Ends
  <1>2. Becomes(r, s, c, k)
    BY <1>1 DEF Becomes, Owned
  <1> QED
    BY <1>2, OwnersChange

LEMMA OwnersUntouched ==
    ASSUME NEW r, NEW s, NEW cl \in [Calls -> Call],
           r \in Record, s \in Record, Owned(r, cl),
           s.file = r.file, s.watches \subseteq r.watches, s.epoll = r.epoll
    PROVE  Owned(s, cl)
  BY DEF Owned

LEMMA EndsDiffer ==
    /\ \A c, d \in Calls, e, g \in Ends : End(c, e) = End(d, g) => c = d /\ e = g
    /\ \A c \in Calls, e \in Ends : End(c, e) \in Whose /\ End(c, e) # Nobody
    /\ \A w \in Whose : End(w.call, w.end) = w
    /\ \A c \in Calls : Own(c) \in Owner
    /\ \A w \in Owner : Own(w.call) = w
    /\ 0 \notin Fds
  BY NobodyAssumption, ReactorAssumption DEF End, Whose, Own, Owner

-----------------------------------------------------------------------------
(* spawn                                                                    *)

Ready3(c, kept) ==
    /\ kept \in [Ends -> Fds]
    /\ \A e \in Ends : reactor.file[kept[e]] = Nobody
    /\ \A e, g \in Ends : kept[e] = kept[g] => e = g

LEMMA KeptIsReady ==
    ASSUME NEW c, NEW kept \in Kept
    PROVE  Ready3(c, kept)
  <1>1. PICK i \in Lowest(2), o \in Lowest(3), x \in Lowest(5) :
            kept = [stdin |-> i, stdout |-> o, err |-> x]
    BY DEF Kept
  <1>2. i # o /\ i # x /\ o # x
    BY DEF Lowest
  <1>3. i \in Closed /\ o \in Closed /\ x \in Closed
    BY DEF Lowest
  <1>4. kept \in [Ends -> Fds]
    BY <1>1, <1>3 DEF Ends, Closed
  <1> QED
    BY <1>1, <1>2, <1>3, <1>4 DEF Ready3, Ends, Closed

LEMMA OpenedKeeps ==
    ASSUME Whole(reactor), NEW c \in Calls, NEW kept, Ready3(c, kept)
    PROVE  /\ Whole(Opened(c, kept))
           /\ Beside(Opened(c, kept), reactor)
           /\ Opened(c, kept).epoll = reactor.epoll
           /\ \A e \in Ends : Opened(c, kept).file[kept[e]] = End(c, e)
           /\ \A f \in Fds : (\A e \in Ends : kept[e] # f) =>
                  Opened(c, kept).file[f] = reactor.file[f]
  <1> DEFINE file == [f \in Fds |->
                 IF \E e \in Ends : kept[e] = f
                 THEN End(c, CHOOSE e \in Ends : kept[e] = f) ELSE reactor.file[f]]
             s == [reactor EXCEPT !.file = file]
  <1>1. Opened(c, kept) = s
    BY DEF Opened
  <1>2. \A e \in Ends : file[kept[e]] = End(c, e)
    <2> TAKE e \in Ends
    <2>1. \A g \in Ends : kept[g] = kept[e] <=> g = e
      BY DEF Ready3
    <2>2. (CHOOSE g \in Ends : kept[g] = kept[e]) = e
      BY <2>1
    <2> QED
      BY <2>2 DEF Ready3
  <1>3. \A f \in Fds : (\A e \in Ends : kept[e] # f) => file[f] = reactor.file[f]
    OBVIOUS
  <1>4. ASSUME NEW f \in Fds
        PROVE  file[f] \in Whose \cup {Nobody}
    <2>1. CASE \E e \in Ends : kept[e] = f
      BY <1>2, <2>1, EndsDiffer
    <2>2. CASE \A e \in Ends : kept[e] # f
      BY <1>3, <2>2 DEF Whole, Record
    <2> QED
      BY <2>1, <2>2
  <1>5. file \in [Fds -> Whose \cup {Nobody}]
    <2>1. file = [f \in Fds |-> file[f]]
      OBVIOUS
    <2> HIDE DEF file
    <2> QED
      BY <1>4, <2>1
  <1> HIDE DEF file
  <1>6. /\ s \in Record /\ Beside(s, reactor) /\ s.file = file
        /\ s.epoll = reactor.epoll /\ s.entries = reactor.entries
        /\ s.count = reactor.count
    BY <1>5 DEF Whole, Record, Beside
  <1> HIDE DEF s
  <1>7. Agree(s)
    <2>1. \A f \in Fds : reactor.epoll[f] # 0 => s.file[f] = reactor.file[f]
      BY <1>3, <1>6 DEF Ready3, Whole, Agree
    <2> QED
      BY <1>6, <2>1 DEF Whole, Agree
  <1>8. Counted(s)
    BY <1>6 DEF Whole, Counted, Registered, Beside
  <1> QED
    BY <1>1, <1>2, <1>3, <1>6, <1>7, <1>8 DEF Whole, Tokens, Beside

(* How far a spawn has come: some ends registered, some things watched.     *)
Spawning(c, kept, kinds, s) ==
    /\ Whole(s) /\ s.batch = reactor.batch
    /\ \A e \in Ends : s.file[kept[e]] = End(c, e)
    /\ s.epoll[kept["stdin"]] = 0
    /\ \A f \in Fds : (\A e \in Ends : kept[e] # f) =>
           /\ s.file[f] = reactor.file[f]
           /\ s.epoll[f] = 0 <=> reactor.epoll[f] = 0
    /\ \A w \in s.watches :
        w \in reactor.watches \/ (w.for = Own(c) /\ w.kind \in kinds)

LEMMA SpawningAdd ==
    ASSUME NEW c \in Calls, NEW kept, Ready3(c, kept), NEW kinds, NEW s,
           Spawning(c, kept, kinds, s), NEW e \in {"stdout", "err"}
    PROVE  Spawning(c, kept, kinds, Add(s, kept[e], End(c, e)))
  <1>1. kept[e] \in Fds /\ s.file[kept[e]] = End(c, e) /\ End(c, e) # Nobody
    BY EndsDiffer DEF Ready3, Spawning, Ends
  <1> DEFINE t == Add(s, kept[e], End(c, e))
  <1>2. /\ Whole(t) /\ Beside(t, s) /\ t.file = s.file
        /\ \A g \in Fds : t.epoll[g] = 0 <=> s.epoll[g] = 0 /\ g # kept[e]
    BY <1>1, AddKeeps DEF Spawning
  <1>3. kept["stdin"] # kept[e] /\ kept["stdin"] \in Fds /\ e \in Ends
    BY DEF Ready3, Ends
  <1> HIDE DEF t
  <1> QED
    BY <1>2, <1>3 DEF Spawning, Beside, t

LEMMA SpawningWatch ==
    ASSUME NEW c \in Calls, NEW kept, NEW kinds, NEW s,
           Spawning(c, kept, kinds, s), NEW kind \in {"timer", "process"}
    PROVE  Spawning(c, kept, kinds \cup {kind}, Watch(s, kind, Own(c)))
  <1>1. Own(c) \in Owner
    BY EndsDiffer
  <1> QED
    BY <1>1, WatchKeeps DEF Spawning

LEMMA SpawnStages ==
    ASSUME Whole(reactor), NEW c \in Calls, NEW kept, Ready3(c, kept)
    PROVE  /\ Spawning(c, kept, {}, Opened(c, kept))
           /\ Spawning(c, kept, {}, WithStdout(c, kept))
           /\ Spawning(c, kept, {}, WithErr(c, kept))
           /\ Spawning(c, kept, {"process"}, WithProcess(c, kept))
           /\ Spawning(c, kept, {"process", "timer"}, Spawned(c, kept))
  <1>1. Spawning(c, kept, {}, Opened(c, kept))
    <2>1. reactor.epoll[kept["stdin"]] = 0
      BY DEF Ready3, Ends, Whole, Agree
    <2> QED
      BY <2>1, OpenedKeeps DEF Spawning, Beside
  <1>2. Spawning(c, kept, {}, WithStdout(c, kept))
    BY <1>1, SpawningAdd DEF WithStdout
  <1>3. Spawning(c, kept, {}, WithErr(c, kept))
    BY <1>2, SpawningAdd DEF WithErr
  <1>4. Spawning(c, kept, {"process"}, WithProcess(c, kept))
    <2>1. {"process"} = {} \cup {"process"}
      OBVIOUS
    <2> QED
      BY <1>3, <2>1, SpawningWatch DEF WithProcess
  <1>5. Spawning(c, kept, {"process", "timer"}, Spawned(c, kept))
    <2>1. CASE call[c].timeout
      <3>1. {"process", "timer"} = {"process"} \cup {"timer"}
        OBVIOUS
      <3> QED
        BY <1>4, <2>1, <3>1, SpawningWatch DEF Spawned
    <2>2. CASE ~call[c].timeout
      <3>1. Spawned(c, kept) = WithProcess(c, kept)
        BY <2>2 DEF Spawned
      <3>2. Spawning(c, kept, {"process", "timer"}, WithProcess(c, kept))
        BY <1>4 DEF Spawning
      <3> QED
        BY <3>1, <3>2
    <2> QED
      BY <2>1, <2>2
  <1> QED
    BY <1>1, <1>2, <1>3, <1>4, <1>5

LEMMA UndoneKeeps ==
    ASSUME Whole(reactor), NEW c \in Calls, NEW kept, Ready3(c, kept),
           NEW r, Spawning(c, kept, {"process"}, r)
    PROVE  LET s == Undone(c, kept, r) IN
           /\ Whole(s) /\ s.batch = reactor.batch /\ s.file = reactor.file
           /\ \A f \in Fds : s.epoll[f] = 0 <=> reactor.epoll[f] = 0
           /\ s.watches \subseteq reactor.watches
  <1> DEFINE s1 == Unwatch(r, "process", Own(c))
             s2 == RemoveClose(s1, kept["stdout"])
             s3 == RemoveClose(s2, kept["err"])
             s4 == RemoveClose(s3, kept["stdin"])
  <1>1. kept["stdin"] \in Fds /\ kept["stdout"] \in Fds /\ kept["err"] \in Fds
    BY DEF Ready3, Ends
  <1>2. /\ Whole(s1) /\ s1.batch = reactor.batch
        /\ s1.file = r.file /\ s1.epoll = r.epoll
        /\ s1.watches = {w \in r.watches : ~(w.kind = "process" /\ w.for = Own(c))}
    BY UnwatchKeeps DEF Spawning
  <1> HIDE DEF s1
  <1>3. /\ Whole(s2) /\ Beside(s2, s1)
        /\ s2.file = [g \in Fds |-> IF g = kept["stdout"] THEN Nobody ELSE s1.file[g]]
        /\ s2.epoll = [g \in Fds |-> IF g = kept["stdout"] THEN 0 ELSE s1.epoll[g]]
    BY <1>1, <1>2, RemoveCloseKeeps
  <1> HIDE DEF s2
  <1>4. /\ Whole(s3) /\ Beside(s3, s2)
        /\ s3.file = [g \in Fds |-> IF g = kept["err"] THEN Nobody ELSE s2.file[g]]
        /\ s3.epoll = [g \in Fds |-> IF g = kept["err"] THEN 0 ELSE s2.epoll[g]]
    BY <1>1, <1>3, RemoveCloseKeeps
  <1> HIDE DEF s3
  <1>5. /\ Whole(s4) /\ Beside(s4, s3)
        /\ s4.file = [g \in Fds |-> IF g = kept["stdin"] THEN Nobody ELSE s3.file[g]]
        /\ s4.epoll = [g \in Fds |-> IF g = kept["stdin"] THEN 0 ELSE s3.epoll[g]]
    BY <1>1, <1>4, RemoveCloseKeeps
  <1>6. Undone(c, kept, r) = s4
    BY DEF Undone, s1, s2, s3
  <1> HIDE DEF s4
  <1>7. \A f \in Fds : reactor.file[f] = Nobody => reactor.epoll[f] = 0
    BY DEF Whole, Agree
  <1>8. \A f \in Fds : /\ s4.file[f] = reactor.file[f]
                       /\ s4.epoll[f] = 0 <=> reactor.epoll[f] = 0
    <2> TAKE f \in Fds
    <2>1. CASE \E e \in Ends : kept[e] = f
      <3>1. reactor.file[f] = Nobody /\ reactor.epoll[f] = 0
        BY <1>7, <2>1 DEF Ready3
      <3>2. s4.file[f] = Nobody /\ s4.epoll[f] = 0
        BY <1>3, <1>4, <1>5, <2>1 DEF Ends
      <3> QED
        BY <3>1, <3>2
    <2>2. CASE \A e \in Ends : kept[e] # f
      <3>1. f # kept["stdin"] /\ f # kept["stdout"] /\ f # kept["err"]
        BY <2>2 DEF Ends
      <3>2. s4.file[f] = r.file[f] /\ s4.epoll[f] = r.epoll[f]
        BY <1>2, <1>3, <1>4, <1>5, <3>1
      <3> QED
        BY <2>2, <3>2 DEF Spawning
    <2> QED
      BY <2>1, <2>2
  <1>9. s4.file = reactor.file
    BY <1>5, <1>8 DEF Whole, Record
  <1>10. s4.watches = s1.watches /\ s4.batch = s1.batch
    BY <1>3, <1>4, <1>5 DEF Beside
  <1>11. s1.watches \subseteq reactor.watches
    BY <1>2 DEF Spawning
  <1> QED
    BY <1>2, <1>5, <1>6, <1>8, <1>9, <1>10, <1>11

-----------------------------------------------------------------------------
(* Closing what a call has                                                  *)

LEMMA EndCloses ==
    ASSUME NEW r, Whole(r), NEW cl \in [Calls -> Call], Owned(r, cl),
           NEW c \in Calls, NEW e \in Ends, NEW k \in Call,
           k.state = cl[c].state, k.fd = [cl[c].fd EXCEPT ![e] = 0],
           k.queued <=> e # "stdin" /\ cl[c].queued
    PROVE  LET s == RemoveClose(r, cl[c].fd[e]) IN
           Whole(s) /\ Beside(s, r) /\ Owned(s, [cl EXCEPT ![c] = k])
  <1> DEFINE f == cl[c].fd[e]
             s == RemoveClose(r, f)
  <1>1. /\ cl[c].fd \in [Ends -> Fds \cup {0}] /\ f \in Fds \cup {0} /\ 0 \notin Fds
        /\ "stdin" \in Ends
    BY EndsDiffer DEF Call, Ends
  <1>2. /\ Whole(s) /\ Beside(s, r)
        /\ s.file = [g \in Fds |-> IF g = f THEN Nobody ELSE r.file[g]]
        /\ s.epoll = [g \in Fds |-> IF g = f THEN 0 ELSE r.epoll[g]]
    BY <1>1, RemoveCloseKeeps
  <1>3. f # 0 => r.file[f] = End(c, e)
    BY <1>1 DEF Owned
  <1> HIDE DEF s, f
  <1>4. \A g \in Fds, x \in Ends : s.file[g] = End(c, x) <=> k.fd[x] = g
    <2> TAKE g \in Fds, x \in Ends
    <2>1. r.file[g] = End(c, x) <=> cl[c].fd[x] = g
      BY DEF Owned
    <2>2. End(c, x) # Nobody /\ (End(c, x) = End(c, e) => x = e)
      BY EndsDiffer
    <2>3. k.fd[x] = IF x = e THEN 0 ELSE cl[c].fd[x]
      BY <1>1
    <2> QED
      BY <1>1, <1>2, <1>3, <2>1, <2>2, <2>3 DEF f
  <1>5. \A g \in Fds, d \in Calls \ {c}, x \in Ends :
            s.file[g] = End(d, x) <=> r.file[g] = End(d, x)
    BY <1>2, <1>3, EndsDiffer
  <1>6. \A g \in Fds, d \in Calls \ {c}, x \in Ends :
            r.file[g] = End(d, x) => (s.epoll[g] = 0 <=> r.epoll[g] = 0)
    BY <1>2, <1>3, EndsDiffer
  <1>7. \A x \in Ends : k.fd[x] # 0 => k.state = "running"
    BY <1>1 DEF Owned
  <1>8. \A w \in s.watches :
            IF w.for.call = c THEN k.state = "running" ELSE w \in r.watches
    BY <1>2 DEF Owned, Beside
  <1>9. k.queued <=> k.fd["stdin"] # 0 /\ s.epoll[k.fd["stdin"]] # 0
    <2>1. CASE e = "stdin"
      BY <1>1, <2>1
    <2>2. CASE e # "stdin"
      <3>1. k.fd["stdin"] = cl[c].fd["stdin"] /\ (k.queued <=> cl[c].queued)
        BY <1>1, <2>2
      <3>2. cl[c].fd["stdin"] # 0 => cl[c].fd["stdin"] \in Fds
        BY <1>1
      <3>3. cl[c].fd["stdin"] # 0 => r.file[cl[c].fd["stdin"]] = End(c, "stdin")
        BY <1>1, <3>2 DEF Owned
      <3>4. cl[c].fd["stdin"] # 0 => cl[c].fd["stdin"] # f
        BY <1>1, <1>3, <2>2, <3>3, EndsDiffer
      <3> QED
        BY <1>2, <3>1, <3>2, <3>4 DEF Owned
    <2> QED
      BY <2>1, <2>2
  <1>10. Becomes(r, s, c, k)
    BY <1>4, <1>5, <1>6, <1>7, <1>8, <1>9 DEF Becomes
  <1> QED
    BY <1>2, <1>10, OwnersChange DEF Whole, s, f

LEMMA IoCloses ==
    ASSUME NEW r, Whole(r), NEW cl \in [Calls -> Call], Owned(r, cl),
           NEW c \in Calls, NEW k \in Call,
           k.state = cl[c].state, k.fd = [e \in Ends |-> 0], k.queued = FALSE
    PROVE  LET s == CloseIo(r, cl[c]) IN
           Whole(s) /\ Beside(s, r) /\ Owned(s, [cl EXCEPT ![c] = k])
  <1> DEFINE k1 == [cl[c] EXCEPT !.fd = [@ EXCEPT !["stdin"] = 0], !.queued = FALSE]
             k2 == [k1 EXCEPT !.fd = [@ EXCEPT !["stdout"] = 0]]
             c1 == [cl EXCEPT ![c] = k1]
             c2 == [c1 EXCEPT ![c] = k2]
             c3 == [c2 EXCEPT ![c] = k]
             s1 == RemoveClose(r, cl[c].fd["stdin"])
             s2 == RemoveClose(s1, cl[c].fd["stdout"])
             s3 == RemoveClose(s2, cl[c].fd["err"])
  <1>1. "stdin" \in Ends /\ "stdout" \in Ends /\ "err" \in Ends
    BY DEF Ends
  <1>2. cl[c] \in Call
    OBVIOUS
  <1>3. /\ k1 \in Call /\ k1.state = cl[c].state /\ k1.queued = FALSE
        /\ k1.fd = [cl[c].fd EXCEPT !["stdin"] = 0]
    BY <1>1, <1>2 DEF Call
  <1>4. /\ k2 \in Call /\ k2.state = cl[c].state /\ k2.queued = FALSE
        /\ k2.fd = [k1.fd EXCEPT !["stdout"] = 0]
    <2> HIDE DEF k1
    <2> QED
      BY <1>1, <1>3 DEF Call
  <1>5. /\ k.fd = [k2.fd EXCEPT !["err"] = 0]
        /\ k1.fd["stdout"] = cl[c].fd["stdout"] /\ k2.fd["err"] = cl[c].fd["err"]
    <2>1. cl[c].fd \in [Ends -> Fds \cup {0}]
      BY <1>2 DEF Call
    <2> HIDE DEF k1, k2
    <2> QED
      BY <1>3, <1>4, <2>1 DEF Ends
  <1> HIDE DEF k1, k2
  <1>6. /\ c1 \in [Calls -> Call] /\ c1[c] = k1
        /\ c2 \in [Calls -> Call] /\ c2[c] = k2 /\ c3 = [cl EXCEPT ![c] = k]
    BY <1>3, <1>4
  <1>7. Whole(s1) /\ Beside(s1, r) /\ Owned(s1, c1)
    BY <1>1, <1>3, EndCloses
  <1> HIDE DEF c1, s1
  <1>8. Whole(s2) /\ Beside(s2, s1) /\ Owned(s2, c2)
    <2>1. Whole(s1) /\ Owned(s1, c1) /\ c1[c].fd["stdout"] = cl[c].fd["stdout"]
      BY <1>5, <1>6, <1>7
    <2>2. /\ k2.state = c1[c].state /\ k2.fd = [c1[c].fd EXCEPT !["stdout"] = 0]
          /\ (k2.queued <=> "stdout" # "stdin" /\ c1[c].queued)
      BY <1>3, <1>4, <1>6
    <2> QED
      <3>1. LET s == RemoveClose(s1, c1[c].fd["stdout"]) IN
            Whole(s) /\ Beside(s, s1) /\ Owned(s, [c1 EXCEPT ![c] = k2])
        BY <1>1, <1>4, <1>6, <2>1, <2>2, EndCloses
      <3> QED
        BY <2>1, <3>1
  <1> HIDE DEF c2, s2
  <1>9. Whole(s3) /\ Beside(s3, s2) /\ Owned(s3, c3)
    <2>1. Whole(s2) /\ Owned(s2, c2) /\ c2[c].fd["err"] = cl[c].fd["err"]
      BY <1>5, <1>6, <1>8
    <2>2. /\ k.state = c2[c].state /\ k.fd = [c2[c].fd EXCEPT !["err"] = 0]
          /\ (k.queued <=> "err" # "stdin" /\ c2[c].queued)
      BY <1>4, <1>5, <1>6
    <2> QED
      <3>1. LET s == RemoveClose(s2, c2[c].fd["err"]) IN
            Whole(s) /\ Beside(s, s2) /\ Owned(s, [c2 EXCEPT ![c] = k])
        BY <1>1, <1>6, <2>1, <2>2, EndCloses
      <3>2. c3 = [c2 EXCEPT ![c] = k]
        BY <1>6
      <3> QED
        BY <2>1, <3>1, <3>2
  <1>10. CloseIo(r, cl[c]) = s3
    BY DEF CloseIo, s1, s2
  <1> QED
    BY <1>6, <1>7, <1>8, <1>9, <1>10 DEF Beside

(* With its watches gone too a call may be freed.                           *)
LEMMA Releases ==
    ASSUME Whole(reactor), call \in [Calls -> Call], Owned(reactor, call),
           NEW c \in Calls
    PROVE  /\ Whole(Released(reactor, c))
           /\ Owned(Released(reactor, c), [call EXCEPT ![c] = Freed(@)])
           /\ Freed(call[c]) \in Call
  <1> DEFINE k == IoClosed(call[c])
             s1 == CloseIo(reactor, call[c])
             s2 == Unwatch(s1, "timer", Own(c))
             s3 == Unwatch(s2, "process", Own(c))
             mid == [call EXCEPT ![c] = k]
             new == Freed(call[c])
  <1>1. /\ k \in Call /\ k.state = call[c].state /\ k.fd = [e \in Ends |-> 0]
        /\ k.queued = FALSE
    <2>1. call[c] \in Call
      OBVIOUS
    <2> QED
      BY <2>1 DEF IoClosed, Call
  <1>2. /\ new \in Call /\ new.state = "gone" /\ new.fd = [e \in Ends |-> 0]
        /\ new.queued = FALSE
    BY DEF Freed, NoCall, Call
  <1> HIDE DEF k, new
  <1>3. Whole(s1) /\ Owned(s1, mid) /\ mid \in [Calls -> Call]
    BY <1>1, IoCloses
  <1> HIDE DEF s1, mid
  <1>4. /\ Whole(s2) /\ s2.file = s1.file /\ s2.epoll = s1.epoll
        /\ s2.watches = {w \in s1.watches : ~(w.kind = "timer" /\ w.for = Own(c))}
    BY <1>3, UnwatchKeeps
  <1> HIDE DEF s2
  <1>5. /\ Whole(s3) /\ s3.file = s2.file /\ s3.epoll = s2.epoll
        /\ s3.watches = {w \in s2.watches : ~(w.kind = "process" /\ w.for = Own(c))}
    BY <1>4, UnwatchKeeps
  <1>6. Released(reactor, c) = s3
    BY DEF Released, s1, s2
  <1> HIDE DEF s3
  <1>7. \A w \in s3.watches : w \in s1.watches /\ w.for.call # c
    <2> TAKE w \in s3.watches
    <2>1. w \in s1.watches /\ w \in Watched /\ w.for # Own(c)
      BY <1>4, <1>5 DEF Whole, Record, Watched
    <2>2. w.for = Own(w.for.call)
      BY <2>1, EndsDiffer DEF Watched
    <2> QED
      BY <2>1, <2>2
  <1>8. Becomes(s1, s3, c, new)
    <2>1. /\ \A f \in Fds, e \in Ends : s3.file[f] = End(c, e) <=> k.fd[e] = f
          /\ mid[c] = k
      BY <1>3, <1>4, <1>5 DEF Owned, mid
    <2>2. s3.file = s1.file /\ s3.epoll = s1.epoll
      BY <1>4, <1>5
    <2> QED
      BY <1>1, <1>2, <1>7, <2>1, <2>2 DEF Becomes, Ends
  <1>9. Owned(s3, [mid EXCEPT ![c] = new])
    BY <1>2, <1>3, <1>5, <1>8, OwnersChange DEF Whole
  <1>10. [mid EXCEPT ![c] = new] = [call EXCEPT ![c] = Freed(@)]
    BY DEF mid, new
  <1> QED
    BY <1>2, <1>5, <1>6, <1>9, <1>10 DEF new

-----------------------------------------------------------------------------
(* The invariant                                                            *)

(* How far the call, k, its child, h, and the chunks read, n, have come.    *)
Fits(k, h, n) ==
    /\ n <= h.wrote
    /\ k.exited \/ k.eof => k.state = "running"
    /\ k.state \in {"none", "pending"} => h.life = "none"
    /\ k.state = "gone" => h.life \in {"none", "reaped"}
    /\ k.exited => h.life = "reaped"
    /\ k.eof => /\ n = h.wrote
                /\ h.life \notin {"forked", "running"} /\ ~h.holder

(* Inside a callback the call it is about is running.                       *)
Stands ==
    at.phase # "loop" =>
        /\ at.call \in Calls
        /\ call[at.call].state = "running"
        /\ at.phase = "done" => Finished(call[at.call])

Types ==
    /\ call \in [Calls -> Call]
    /\ child \in [Calls -> Child]
    /\ got \in [Calls -> Nat]
    /\ at \in Place

IInv ==
    /\ Types
    /\ Whole(reactor)
    /\ Owned(reactor, call)
    /\ \A c \in Calls : Fits(call[c], child[c], got[c])
    /\ Stands

LEMMA InitIInv == Init => IInv
  <1> SUFFICES ASSUME Init PROVE IInv
    OBVIOUS
  <1>1. Types
    BY DEF Init, Types, NoCall, NoChild, Call, Child, Place
  <1>2. Whole(reactor)
    <2>1. /\ reactor \in Record /\ reactor.watches = {} /\ reactor.count = 0
          /\ reactor.batch = {} /\ reactor.epoll = [f \in Fds |-> 0]
          /\ reactor.entries = [f \in Fds |-> [to |-> Nobody, gen |-> GenMax]]
      BY ReactorAssumption DEF Init, NewReactor, Record, Entry
    <2>2. Registered(reactor) = {}
      BY <2>1 DEF Registered
    <2>3. Counted(reactor)
      BY <2>1, <2>2, FS_EmptySet DEF Counted
    <2> QED
      BY <2>1, <2>3 DEF Whole, Agree, Tokens
  <1>3. Owned(reactor, call)
    <2>1. /\ reactor.watches = {} /\ reactor.file = [f \in Fds |-> Nobody]
          /\ call = [c \in Calls |-> NoCall]
      BY DEF Init, NewReactor
    <2> QED
      BY <2>1, EndsDiffer DEF Owned, NoCall, Ends
  <1>4. \A c \in Calls : Fits(call[c], child[c], got[c])
    BY DEF Init, Fits, NoCall, NoChild
  <1>5. Stands
    BY DEF Init, Stands
  <1> QED
    BY <1>1, <1>2, <1>3, <1>4, <1>5 DEF IInv

(* What every action comes to: one call changes, with its child and its     *)
(* share of the reactor, and the thread goes somewhere.                     *)
LEMMA CallStep ==
    ASSUME IInv, NEW c \in Calls, NEW k \in Call, NEW h \in Child, NEW n \in Nat,
           Whole(reactor'), Owned(reactor', [call EXCEPT ![c] = k]), Fits(k, h, n),
           call' = [call EXCEPT ![c] = k],
           child' = [child EXCEPT ![c] = h],
           got' = [got EXCEPT ![c] = n],
           at' \in Place, Stands'
    PROVE  IInv'
  <1>1. Types'
    BY DEF IInv, Types
  <1>2. \A d \in Calls : Fits(call'[d], child'[d], got'[d])
    BY DEF IInv, Types
  <1> QED
    BY <1>1, <1>2 DEF IInv

LEMMA StaysAt ==
    ASSUME IInv, NEW c \in Calls, NEW k \in Call,
           call' = [call EXCEPT ![c] = k], UNCHANGED at,
           at.phase # "loop" /\ at.call = c =>
               k.state = "running" /\ (at.phase = "done" => Finished(k))
    PROVE  Stands' /\ at' \in Place
  BY DEF IInv, Types, Stands

LEMMA GoesToLoop ==
    ASSUME Go("loop", Nobody)
    PROVE  Stands' /\ at' \in Place
  BY DEF Go, Stands, Place

(* An event is delivered to a running call that has what it is about.       *)
LEMMA EventOwner ==
    ASSUME IInv, NEW t \in reactor.batch, NEW c \in Calls
    PROVE  /\ Whole(Handled(t))
           /\ Handled(t).file = reactor.file
           /\ Handled(t).epoll = reactor.epoll
           /\ Handled(t).watches = reactor.watches
           /\ Owned(Handled(t), call)
           /\ \A e \in Ends :
                  Event(t, "fd", End(c, e)) =>
                      call[c].state = "running" /\ call[c].fd[e] \in Fds
           /\ \A kind \in {"timer", "process"} :
                  Event(t, kind, Own(c)) => call[c].state = "running"
  <1>1. /\ Handled(t) \in Record /\ Handled(t).batch \subseteq reactor.batch
        /\ Handled(t).file = reactor.file /\ Handled(t).epoll = reactor.epoll
        /\ Handled(t).watches = reactor.watches
        /\ Handled(t).entries = reactor.entries
        /\ Handled(t).count = reactor.count /\ Handled(t).nextId = reactor.nextId
    BY DEF Handled, IInv, Whole, Record
  <1>2. Whole(Handled(t))
    BY <1>1 DEF IInv, Whole, Agree, Counted, Registered, Tokens
  <1>3. Owned(Handled(t), call)
    BY <1>1, OwnersUntouched DEF IInv, Types, Whole
  <1>4. ASSUME NEW e \in Ends, Event(t, "fd", End(c, e))
        PROVE  call[c].state = "running" /\ call[c].fd[e] \in Fds
    <2>1. t.n \in Fds /\ reactor.entries[t.n].to = End(c, e)
      BY <1>4 DEF Event, Receiver, IInv, Whole, Tokens
    <2>2. reactor.file[t.n] = End(c, e)
      BY <2>1, EndsDiffer DEF IInv, Whole, Agree
    <2>3. call[c].fd[e] = t.n
      BY <2>1, <2>2 DEF IInv, Owned
    <2> QED
      BY <2>1, <2>3, EndsDiffer DEF IInv, Owned
  <1>5. ASSUME NEW kind \in {"timer", "process"}, Event(t, kind, Own(c))
        PROVE  call[c].state = "running"
    <2> DEFINE w == CHOOSE x \in reactor.watches : x.kind = t.kind /\ x.id = t.n
    <2>1. t.kind = kind /\ kind # "fd"
      BY <1>5 DEF Event
    <2>2. \E x \in reactor.watches : x.kind = t.kind /\ x.id = t.n
      BY <1>5, <2>1 DEF Event, Delivers
    <2>3. w \in reactor.watches
      BY <2>2
    <2>4. w.for = Own(c)
      BY <1>5, <2>1 DEF Event, Receiver
    <2> HIDE DEF w
    <2> QED
      BY <2>3, <2>4 DEF IInv, Owned, Own
  <1> QED
    BY <1>1, <1>2, <1>3, <1>4, <1>5

-----------------------------------------------------------------------------
(* The embedder                                                             *)

LEMMA Unmoved ==
    ASSUME IInv, NEW c \in Calls
    PROVE  /\ call = [call EXCEPT ![c] = call[c]]
           /\ child = [child EXCEPT ![c] = child[c]]
           /\ got = [got EXCEPT ![c] = got[c]]
           /\ call[c] \in Call /\ child[c] \in Child /\ got[c] \in Nat
           /\ Fits(call[c], child[c], got[c])
  BY DEF IInv, Types

(* A step of the embedder on a call that the thread is not inside of, or    *)
(* that it leaves running.                                                  *)
LEMMA EmbedderStep ==
    ASSUME IInv, NEW c \in Calls, NEW k \in Call, NEW h \in Child,
           Whole(reactor'), Owned(reactor', [call EXCEPT ![c] = k]),
           Fits(k, h, got[c]),
           call' = [call EXCEPT ![c] = k], child' = [child EXCEPT ![c] = h], Quiet,
           Embedding(c), call[c].state = "running" => k.state = "running"
    PROVE  IInv'
  <1>1. got' = [got EXCEPT ![c] = got[c]] /\ got[c] \in Nat
    BY Unmoved DEF Quiet
  <1>2. at.phase # "loop" /\ at.call = c =>
            k.state = "running" /\ (at.phase = "done" => Finished(k))
    <2>1. at.phase = "done" /\ at.call = c => at = [phase |-> "done", call |-> c]
      BY DEF IInv, Types, Place
    <2> QED
      BY <2>1 DEF Embedding, IInv, Stands
  <1>3. Stands' /\ at' \in Place
    BY <1>2, StaysAt DEF Quiet
  <1> QED
    BY <1>1, <1>3, CallStep

LEMMA SpawnStep ==
    ASSUME IInv, NEW c \in Calls, call[c].state \in {"none", "pending"},
           Embedding(c), Spawn(c), Quiet
    PROVE  IInv'
  <1>1. PICK kept \in Kept :
            /\ reactor' = Spawned(c, kept)
            /\ call' = [call EXCEPT ![c].state = "running", ![c].fd = kept]
            /\ child' = [child EXCEPT ![c].life = "forked"]
    BY DEF Spawn
  <1> DEFINE k == [call[c] EXCEPT !.state = "running", !.fd = kept]
             h == [child[c] EXCEPT !.life = "forked"]
  <1>2. Ready3(c, kept) /\ Whole(reactor)
    BY KeptIsReady DEF IInv
  <1>3. Spawning(c, kept, {"process", "timer"}, reactor')
    BY <1>1, <1>2, SpawnStages
  <1>4. kept \in [Ends -> Fds] /\ 0 \notin Fds
    BY <1>2, EndsDiffer DEF Ready3
  <1>5. /\ k \in Call /\ k.state = "running" /\ k.fd = kept
        /\ k.queued = call[c].queued /\ k.exited = call[c].exited
        /\ k.eof = call[c].eof
    <2>1. call[c] \in Call
      BY Unmoved
    <2> QED
      BY <1>4, <2>1 DEF Call
  <1>6. h \in Child /\ h.wrote = child[c].wrote
    BY Unmoved DEF Child
  <1>7. /\ call' = [call EXCEPT ![c] = k] /\ child' = [child EXCEPT ![c] = h]
    BY <1>1 DEF IInv, Types
  <1> HIDE DEF k, h
  <1>8. /\ \A e \in Ends : call[c].fd[e] = 0
        /\ ~call[c].queued /\ ~call[c].exited /\ ~call[c].eof
    BY Unmoved DEF IInv, Owned, Fits, Ends
  <1>9. Becomes(reactor, reactor', c, k)
    <2>1. ASSUME NEW f \in Fds, NEW e \in Ends
          PROVE  reactor'.file[f] = End(c, e) <=> k.fd[e] = f
      <3>1. CASE \E g \in Ends : kept[g] = f
        BY <1>2, <1>3, <1>5, <3>1, EndsDiffer DEF Spawning, Ready3
      <3>2. CASE \A g \in Ends : kept[g] # f
        <4>1. reactor'.file[f] = reactor.file[f]
          BY <1>3, <3>2 DEF Spawning
        <4>2. reactor.file[f] # End(c, e)
          BY <1>4, <1>8 DEF IInv, Owned
        <4> QED
          BY <1>5, <3>2, <4>1, <4>2
      <3> QED
        BY <3>1, <3>2
    <2>2. ASSUME NEW f \in Fds, NEW d \in Calls \ {c}, NEW e \in Ends
          PROVE  /\ reactor'.file[f] = End(d, e) <=> reactor.file[f] = End(d, e)
                 /\ reactor.file[f] = End(d, e) =>
                        (reactor'.epoll[f] = 0 <=> reactor.epoll[f] = 0)
      <3>1. CASE \E g \in Ends : kept[g] = f
        <4>1. reactor.file[f] = Nobody /\ \E g \in Ends : reactor'.file[f] = End(c, g)
          BY <1>2, <1>3, <3>1 DEF Ready3, Spawning
        <4> QED
          BY <4>1, EndsDiffer
      <3>2. CASE \A g \in Ends : kept[g] # f
        BY <1>3, <3>2 DEF Spawning
      <3> QED
        BY <3>1, <3>2
    <2>3. \A w \in reactor'.watches :
              IF w.for.call = c THEN k.state = "running" ELSE w \in reactor.watches
      BY <1>3, <1>5 DEF Spawning, Own
    <2>4. ~k.queued /\ reactor'.epoll[k.fd["stdin"]] = 0
      BY <1>3, <1>5, <1>8 DEF Spawning
    <2> QED
      BY <1>5, <2>1, <2>2, <2>3, <2>4 DEF Becomes
  <1>10. Whole(reactor') /\ Owned(reactor', [call EXCEPT ![c] = k])
    BY <1>3, <1>5, <1>9, OwnersChange DEF Spawning, IInv, Types, Whole
  <1>11. Fits(k, h, got[c])
    BY <1>5, <1>6, <1>8, Unmoved DEF Fits
  <1> QED
    BY <1>5, <1>6, <1>7, <1>10, <1>11, EmbedderStep

LEMMA SpawnFailsStep ==
    ASSUME IInv, NEW c \in Calls, call[c].state \in {"none", "pending"},
           Embedding(c), SpawnFails(c), Quiet
    PROVE  IInv'
  <1> DEFINE k == [call[c] EXCEPT !.state = "gone"]
  <1>1. /\ k \in Call /\ k.state = "gone" /\ k.fd = call[c].fd
        /\ k.queued = call[c].queued /\ k.exited = call[c].exited
        /\ k.eof = call[c].eof
    BY Unmoved DEF Call
  <1>2. call' = [call EXCEPT ![c] = k] /\ child' = [child EXCEPT ![c] = child[c]]
    BY Unmoved DEF SpawnFails, IInv, Types
  <1> HIDE DEF k
  <1>3. /\ Whole(reactor') /\ reactor'.file = reactor.file
        /\ reactor'.watches \subseteq reactor.watches
        /\ \A f \in Fds : reactor'.epoll[f] = 0 <=> reactor.epoll[f] = 0
    <2>1. CASE UNCHANGED reactor
      BY <2>1 DEF IInv
    <2>2. CASE \E kept \in Kept :
                 \E r \in {Opened(c, kept), WithStdout(c, kept), WithErr(c, kept),
                           WithProcess(c, kept)} :
                    reactor' = Undone(c, kept, r)
      <3>1. PICK kept \in Kept :
                 \E r \in {Opened(c, kept), WithStdout(c, kept), WithErr(c, kept),
                           WithProcess(c, kept)} :
                    reactor' = Undone(c, kept, r)
        BY <2>2
      <3>2. PICK r \in {Opened(c, kept), WithStdout(c, kept), WithErr(c, kept),
                        WithProcess(c, kept)} :
                    reactor' = Undone(c, kept, r)
        BY <3>1
      <3>3. Ready3(c, kept) /\ Whole(reactor)
        BY KeptIsReady DEF IInv
      <3>4. Spawning(c, kept, {"process"}, r)
        BY <3>2, <3>3, SpawnStages DEF Spawning
      <3> QED
        BY <3>2, <3>3, <3>4, UndoneKeeps
    <2> QED
      BY <2>1, <2>2 DEF SpawnFails
  <1>4. /\ \A e \in Ends : call[c].fd[e] = 0
        /\ ~call[c].queued /\ ~call[c].exited /\ ~call[c].eof
        /\ child[c].life = "none" /\ got[c] <= child[c].wrote
    BY Unmoved DEF IInv, Owned, Fits, Ends
  <1>5. Becomes(reactor, reactor', c, k)
    <2>1. \A w \in reactor.watches : w.for.call # c
      BY DEF IInv, Owned
    <2>2. \A f \in Fds, e \in Ends : reactor.file[f] = End(c, e) <=> k.fd[e] = f
      BY <1>1 DEF IInv, Owned
    <2> QED
      BY <1>1, <1>3, <1>4, <2>1, <2>2 DEF Becomes, Ends
  <1>6. Owned(reactor', [call EXCEPT ![c] = k])
    BY <1>1, <1>3, <1>5, OwnersChange DEF IInv, Types, Whole
  <1>7. Fits(k, child[c], got[c])
    BY <1>1, <1>4 DEF Fits
  <1> QED
    BY <1>1, <1>2, <1>3, <1>6, <1>7, Unmoved, EmbedderStep

(* A call that has not run changes alone.                                   *)
LEMMA StagedStep ==
    ASSUME IInv, NEW c \in Calls, call[c].state \in {"none", "pending"},
           NEW st \in {"gone", "pending"}, Embedding(c),
           call' = [call EXCEPT ![c].state = st], UNCHANGED <<reactor, child>>, Quiet
    PROVE  IInv'
  <1> DEFINE k == [call[c] EXCEPT !.state = st]
  <1>1. /\ k \in Call /\ k.state = st /\ k.fd = call[c].fd
        /\ k.queued = call[c].queued /\ k.exited = call[c].exited
        /\ k.eof = call[c].eof
    BY Unmoved DEF Call
  <1>2. call' = [call EXCEPT ![c] = k] /\ child' = [child EXCEPT ![c] = child[c]]
    BY Unmoved DEF IInv, Types
  <1> HIDE DEF k
  <1>3. /\ \A e \in Ends : call[c].fd[e] = 0
        /\ ~call[c].queued /\ ~call[c].exited /\ ~call[c].eof
        /\ child[c].life = "none" /\ got[c] <= child[c].wrote
    BY Unmoved DEF IInv, Owned, Fits, Ends
  <1>4. Becomes(reactor, reactor', c, k)
    <2>1. \A w \in reactor.watches : w.for.call # c
      BY DEF IInv, Owned
    <2>2. \A f \in Fds, e \in Ends : reactor.file[f] = End(c, e) <=> k.fd[e] = f
      BY <1>1 DEF IInv, Owned
    <2> QED
      BY <1>1, <1>3, <2>1, <2>2 DEF Becomes, Ends
  <1>5. Whole(reactor') /\ Owned(reactor', [call EXCEPT ![c] = k])
    BY <1>1, <1>4, OwnersChange DEF IInv, Types, Whole
  <1>6. Fits(k, child[c], got[c])
    BY <1>1, <1>3 DEF Fits
  <1> QED
    BY <1>1, <1>2, <1>5, <1>6, Unmoved, EmbedderStep

LEMMA StartStep ==
    ASSUME IInv, NEW c \in Calls, Start(c) \/ Resolve(c)
    PROVE  IInv'
  <1>1. /\ call[c].state \in {"none", "pending"} /\ Embedding(c) /\ Quiet
        /\ \/ \E st \in {"gone", "pending"} :
                  call' = [call EXCEPT ![c].state = st] /\ UNCHANGED <<reactor, child>>
           \/ Spawn(c)
           \/ SpawnFails(c)
    BY DEF Start, Resolve
  <1> QED
    BY <1>1, StagedStep, SpawnStep, SpawnFailsStep

LEMMA SetTimeoutStep ==
    ASSUME IInv, NEW c \in Calls, SetTimeout(c)
    PROVE  IInv'
  <1> DEFINE k == [call[c] EXCEPT !.timeout = TRUE]
  <1>1. /\ k \in Call /\ k.state = call[c].state /\ k.fd = call[c].fd
        /\ k.queued = call[c].queued /\ k.exited = call[c].exited
        /\ k.eof = call[c].eof
    BY Unmoved DEF Call
  <1>2. call' = [call EXCEPT ![c] = k] /\ child' = [child EXCEPT ![c] = child[c]]
    BY Unmoved DEF SetTimeout, IInv, Types
  <1> HIDE DEF k
  <1>3. /\ Whole(reactor') /\ reactor'.file = reactor.file
        /\ reactor'.epoll = reactor.epoll
        /\ \A w \in reactor'.watches :
               \/ w \in reactor.watches
               \/ w.for = Own(c) /\ call[c].state = "running"
    <2>1. Whole(reactor) /\ Own(c) \in Owner
      BY EndsDiffer DEF IInv
    <2> QED
      BY <2>1, WatchKeeps DEF SetTimeout
  <1>4. Becomes(reactor, reactor', c, k)
    BY <1>1, <1>3 DEF Becomes, IInv, Owned, Own
  <1>5. Owned(reactor', [call EXCEPT ![c] = k])
    BY <1>1, <1>3, <1>4, OwnersChange DEF IInv, Types, Whole
  <1>6. Fits(k, child[c], got[c])
    BY <1>1, Unmoved DEF Fits
  <1>7. Embedding(c) /\ Quiet /\ Whole(reactor') /\ child[c] \in Child
    BY <1>3, Unmoved DEF SetTimeout
  <1> QED
    BY <1>1, <1>2, <1>5, <1>6, <1>7, EmbedderStep

LEMMA WriteStdinStep ==
    ASSUME IInv, NEW c \in Calls, WriteStdin(c)
    PROVE  IInv'
  <1> DEFINE k == [call[c] EXCEPT !.queued = TRUE]
             f == call[c].fd["stdin"]
  <1>1. /\ k \in Call /\ k.state = "running" /\ k.fd = call[c].fd
        /\ k.queued = TRUE /\ k.exited = call[c].exited
        /\ k.eof = call[c].eof
    <2>1. call[c] \in Call /\ call[c].state = "running"
      BY Unmoved DEF WriteStdin
    <2> QED
      BY <2>1 DEF Call
  <1>2. call' = [call EXCEPT ![c] = k] /\ child' = [child EXCEPT ![c] = child[c]]
    BY Unmoved DEF WriteStdin, IInv, Types
  <1>3. f \in Fds /\ "stdin" \in Ends /\ call[c].state = "running"
    BY Unmoved DEF Call, Ends, WriteStdin
  <1>4. reactor.file[f] = End(c, "stdin") /\ reactor.file[f] # Nobody
    BY <1>3, EndsDiffer DEF IInv, Owned
  <1>5. reactor' = Add(reactor, f, reactor.file[f])
    BY <1>4 DEF WriteStdin
  <1> HIDE DEF k, f
  <1>6. /\ Whole(reactor') /\ Beside(reactor', reactor)
        /\ reactor'.file = reactor.file
        /\ \A g \in Fds : reactor'.epoll[g] = 0 <=> reactor.epoll[g] = 0 /\ g # f
    BY <1>3, <1>4, <1>5, AddKeeps DEF IInv
  <1>7. Becomes(reactor, reactor', c, k)
    <2>1. \A g \in Fds, d \in Calls \ {c}, e \in Ends :
              reactor.file[g] = End(d, e) => g # f
      BY <1>3, <1>4, EndsDiffer
    <2>2. k.fd["stdin"] # 0 /\ reactor'.epoll[k.fd["stdin"]] # 0
      BY <1>1, <1>3, <1>6, EndsDiffer DEF f
    <2>3. \A g \in Fds, e \in Ends : reactor.file[g] = End(c, e) <=> k.fd[e] = g
      BY <1>1 DEF IInv, Owned
    <2> QED
      BY <1>1, <1>6, <2>1, <2>2, <2>3 DEF Becomes, Beside
  <1>8. Owned(reactor', [call EXCEPT ![c] = k])
    BY <1>1, <1>6, <1>7, OwnersChange DEF IInv, Types, Whole
  <1>9. Fits(k, child[c], got[c])
    BY <1>1, <1>3, Unmoved DEF Fits
  <1>10. Embedding(c) /\ Quiet /\ Whole(reactor') /\ child[c] \in Child
    BY <1>6, Unmoved DEF WriteStdin
  <1> QED
    BY <1>1, <1>2, <1>8, <1>9, <1>10, EmbedderStep

LEMMA CloseStdinStep ==
    ASSUME IInv, NEW c \in Calls, CloseStdin(c)
    PROVE  IInv'
  <1>1. /\ call[c].state = "running" /\ Embedding(c) /\ Quiet
        /\ child' = [child EXCEPT ![c] = child[c]] /\ "stdin" \in Ends
    BY Unmoved DEF CloseStdin, Ends
  <1>2. CASE call[c].queued
    <2> DEFINE k == [call[c] EXCEPT !.closePending = TRUE]
    <2>1. /\ k \in Call /\ k.state = call[c].state /\ k.fd = call[c].fd
          /\ k.queued = call[c].queued /\ k.exited = call[c].exited
          /\ k.eof = call[c].eof
      <3>1. call[c] \in Call
        BY Unmoved
      <3> QED
        BY <3>1 DEF Call
    <2>2. call' = [call EXCEPT ![c] = k] /\ reactor' = reactor
      BY <1>2 DEF CloseStdin, IInv, Types
    <2> HIDE DEF k
    <2>3. Whole(reactor') /\ Owned(reactor', [call EXCEPT ![c] = k])
      BY <2>1, <2>2, OwnersStay DEF IInv, Types, Whole
    <2>4. Fits(k, child[c], got[c])
      BY <2>1, Unmoved DEF Fits
    <2> QED
      BY <1>1, <2>1, <2>2, <2>3, <2>4, Unmoved, EmbedderStep
  <1>3. CASE ~call[c].queued
    <2> DEFINE k == [call[c] EXCEPT !.fd = [@ EXCEPT !["stdin"] = 0]]
               f == call[c].fd["stdin"]
    <2>1. /\ k \in Call /\ k.state = call[c].state
          /\ k.fd = [call[c].fd EXCEPT !["stdin"] = 0]
          /\ k.queued = call[c].queued /\ k.exited = call[c].exited
          /\ k.eof = call[c].eof
      BY <1>1, Unmoved DEF Call
    <2>2. call' = [call EXCEPT ![c] = k] /\ reactor' = Close(reactor, f)
      BY <1>3 DEF CloseStdin, IInv, Types
    <2>3. f \in Fds /\ f # 0
      BY <1>1, Unmoved DEF CloseStdin, Call, Ends
    <2>4. reactor.epoll[f] = 0
      BY <1>3, <2>3 DEF IInv, Owned
    <2>5. RemoveClose(reactor, f) = Close(reactor, f)
      BY <2>3, <2>4 DEF RemoveClose, Remove
    <2> HIDE DEF k
    <2>6. Whole(reactor') /\ Owned(reactor', [call EXCEPT ![c] = k])
      <3>1. k.queued <=> "stdin" # "stdin" /\ call[c].queued
        BY <1>3, <2>1
      <3>2. LET s == RemoveClose(reactor, call[c].fd["stdin"]) IN
            Whole(s) /\ Beside(s, reactor) /\ Owned(s, [call EXCEPT ![c] = k])
        BY <1>1, <2>1, <3>1, EndCloses DEF IInv, Types
      <3> QED
        BY <2>2, <2>5, <3>2
    <2>7. Fits(k, child[c], got[c])
      BY <2>1, Unmoved DEF Fits
    <2> QED
      BY <1>1, <2>1, <2>2, <2>6, <2>7, Unmoved, EmbedderStep
  <1> QED
    BY <1>2, <1>3

(* oi_tool_call_cancel, also from within on_output.                         *)
LEMMA CancelStep ==
    ASSUME IInv, NEW c \in Calls, Cancel(c)
    PROVE  IInv'
  <1> DEFINE k == Freed(call[c])
             h == IF call[c].state = "pending" THEN child[c] ELSE Reaped
  <1>1. /\ k \in Call /\ k.state = "gone" /\ ~k.exited /\ ~k.eof
        /\ k.fd = [e \in Ends |-> 0] /\ ~k.queued
    BY DEF Freed, NoCall, Call
  <1>2. /\ h \in Child /\ h.life \in {"none", "reaped"} /\ 0 <= h.wrote
    <2>1. /\ Reaped \in Child /\ Reaped.life = "reaped" /\ Reaped.wrote = 0
      BY DEF Reaped, NoChild, Child
    <2>2. /\ child[c] \in Child /\ child[c].wrote \in Nat
          /\ call[c].state = "pending" => child[c].life = "none"
      BY Unmoved DEF Child, Fits
    <2> QED
      BY <2>1, <2>2
  <1>3. /\ call' = [call EXCEPT ![c] = k] /\ child' = [child EXCEPT ![c] = h]
        /\ got' = [got EXCEPT ![c] = 0]
    BY Unmoved DEF Cancel, IInv, Types
  <1>4. Whole(reactor') /\ Owned(reactor', [call EXCEPT ![c] = k])
    <2>1. CASE call[c].state = "pending"
      <3> HIDE DEF k
      <3>1. reactor' = reactor
        BY <2>1 DEF Cancel
      <3>2. Becomes(reactor, reactor, c, k)
        <4>1. \A w \in reactor.watches : w.for.call # c
          BY <2>1 DEF IInv, Owned
        <4>2. \A e \in Ends : call[c].fd[e] = 0
          BY <2>1 DEF IInv, Owned
        <4>3. \A f \in Fds, e \in Ends : reactor.file[f] # End(c, e)
          BY <4>2, EndsDiffer DEF IInv, Owned
        <4> QED
          BY <1>1, <4>1, <4>3, EndsDiffer DEF Becomes, Ends
      <3> QED
        BY <1>1, <3>1, <3>2, OwnersChange DEF IInv, Types, Whole
    <2>2. CASE call[c].state # "pending"
      <3>1. reactor' = Released(reactor, c)
        BY <2>2 DEF Cancel
      <3>2. [call EXCEPT ![c] = Freed(@)] = [call EXCEPT ![c] = k]
        OBVIOUS
      <3> QED
        BY <3>1, <3>2, Releases DEF IInv, Types
    <2> QED
      BY <2>1, <2>2
  <1> HIDE DEF k, h
  <1>5. Fits(k, h, 0)
    BY <1>1, <1>2 DEF Fits
  <1>6. Stands' /\ at' \in Place
    <2>1. CASE at = [phase |-> "output", call |-> c]
      BY <2>1, GoesToLoop DEF Cancel
    <2>2. CASE at # [phase |-> "output", call |-> c]
      <3>1. UNCHANGED at /\ Embedding(c)
        BY <2>2 DEF Cancel
      <3>2. at.phase # "loop" => at.call # c
        BY <2>2, <3>1 DEF Embedding, IInv, Types, Place
      <3> QED
        BY <1>1, <1>3, <3>1, <3>2, StaysAt
    <2> QED
      BY <2>1, <2>2
  <1> QED
    BY <1>1, <1>2, <1>3, <1>4, <1>5, <1>6, CallStep

-----------------------------------------------------------------------------
(* Handlers                                                                 *)

(* A handler that ends with maybe_finish.                                   *)
LEMMA SettleStep ==
    ASSUME IInv, NEW c \in Calls, NEW k \in Call, NEW h \in Child, NEW r,
           Settle(c, k, r), k.state = "running",
           Whole(r), Owned(r, [call EXCEPT ![c] = k]),
           Fits(k, h, got[c]), child' = [child EXCEPT ![c] = h], UNCHANGED got
    PROVE  IInv'
  <1>1. /\ call' = [call EXCEPT ![c] = k] /\ reactor' = r
        /\ got' = [got EXCEPT ![c] = got[c]] /\ got[c] \in Nat
    BY Unmoved DEF Settle
  <1>2. Stands' /\ at' \in Place
    <2>1. CASE Finished(k)
      <3>1. at' = [phase |-> "done", call |-> c]
        BY <2>1 DEF Settle, Go
      <3>2. call'[c] = k
        BY <1>1 DEF IInv, Types
      <3> QED
        BY <2>1, <3>1, <3>2 DEF Stands, Place
    <2>2. CASE ~Finished(k)
      BY <2>2, GoesToLoop DEF Settle
    <2> QED
      BY <2>1, <2>2
  <1> QED
    BY <1>1, <1>2, CallStep

LEMMA FreeDoneStep ==
    ASSUME IInv, FreeDone
    PROVE  IInv'
  <1>1. PICK c \in Calls : c = at.call /\ call[c].exited
    BY DEF FreeDone, IInv, Stands, Finished
  <1> DEFINE k == Freed(call[c])
             h == IF child[c].life = "reaped" THEN Reaped ELSE child[c]
  <1>2. /\ k \in Call /\ k.state = "gone" /\ ~k.exited /\ ~k.eof
    BY DEF Freed, NoCall, Call
  <1>3. child[c].life = "reaped"
    BY <1>1 DEF IInv, Fits
  <1>4. h \in Child /\ h.life = "reaped" /\ h.wrote = 0
    BY <1>3 DEF Reaped, NoChild, Child
  <1>5. /\ call' = [call EXCEPT ![c] = k] /\ child' = [child EXCEPT ![c] = h]
        /\ got' = [got EXCEPT ![c] = 0] /\ reactor' = Released(reactor, c)
    BY <1>1 DEF FreeDone, IInv, Types
  <1>6. Whole(reactor') /\ Owned(reactor', [call EXCEPT ![c] = k])
    <2>1. [call EXCEPT ![c] = Freed(@)] = [call EXCEPT ![c] = k]
      OBVIOUS
    <2> QED
      BY <1>1, <1>5, <2>1, Releases DEF IInv, Types
  <1> HIDE DEF k, h
  <1>7. Fits(k, h, 0)
    BY <1>2, <1>4 DEF Fits
  <1>8. Stands' /\ at' \in Place
    BY GoesToLoop DEF FreeDone
  <1> QED
    <2>1. /\ c \in Calls /\ k \in Call /\ h \in Child /\ 0 \in Nat
          /\ call' = [call EXCEPT ![c] = k] /\ child' = [child EXCEPT ![c] = h]
          /\ got' = [got EXCEPT ![c] = 0]
      BY <1>1, <1>2, <1>4, <1>5
    <2> QED
      BY <1>6, <1>7, <1>8, <2>1, CallStep

LEMMA OnStdoutStep ==
    ASSUME IInv, NEW c \in Calls, OnStdout(c)
    PROVE  IInv'
  <1>1. PICK t \in reactor.batch :
            /\ Event(t, "fd", End(c, "stdout"))
            /\ reactor' = Handled(t)
            /\ Go("reading", c)
            /\ UNCHANGED <<call, child, got>>
    BY DEF OnStdout
  <1>2. Whole(reactor') /\ Owned(reactor', call) /\ call[c].state = "running"
    BY <1>1, EventOwner DEF Ends
  <1>3. Stands' /\ at' \in Place
    BY <1>1, <1>2 DEF Go, Stands, Place
  <1> QED
    BY <1>1, <1>2, <1>3, Unmoved, CallStep

LEMMA ReadingStep ==
    ASSUME IInv, NEW c \in Calls, ReadSome(c) \/ OutputReturns(c)
    PROVE  IInv'
  <1>1. /\ at.phase \in {"reading", "output"} /\ at.call = c
        /\ \/ Go("output", c)
           \/ Go("reading", c)
        /\ UNCHANGED <<reactor, call, child>>
    BY DEF ReadSome, OutputReturns
  <1>2. call[c].state = "running"
    BY <1>1 DEF IInv, Stands
  <1>3. Stands' /\ at' \in Place
    BY <1>1, <1>2 DEF Go, Stands, Place
  <1>4. PICK n \in Nat : got' = [got EXCEPT ![c] = n] /\ Fits(call[c], child[c], n)
    <2>1. CASE ReadSome(c)
      <3>1. PICK n \in got[c] + 1 .. child[c].wrote : got' = [got EXCEPT ![c] = n]
        BY <2>1 DEF ReadSome
      <3>2. got[c] \in Nat /\ child[c].wrote \in Nat
        BY Unmoved DEF Child
      <3>3. n \in Nat /\ n <= child[c].wrote /\ got[c] < child[c].wrote
        BY <3>1, <3>2
      <3>4. Fits(call[c], child[c], n)
        BY <3>2, <3>3, Unmoved DEF Fits
      <3> QED
        BY <3>1, <3>3, <3>4
    <2>2. CASE OutputReturns(c)
      BY <2>2, Unmoved DEF OutputReturns
    <2> QED
      BY <2>1, <2>2
  <1>5. /\ call' = [call EXCEPT ![c] = call[c]]
        /\ child' = [child EXCEPT ![c] = child[c]]
        /\ Whole(reactor') /\ Owned(reactor', [call EXCEPT ![c] = call[c]])
        /\ call[c] \in Call /\ child[c] \in Child
    BY <1>1, Unmoved DEF IInv
  <1> QED
    BY <1>3, <1>4, <1>5, CallStep

LEMMA ReadNothingStep ==
    ASSUME IInv, NEW c \in Calls, ReadNothing(c)
    PROVE  IInv'
  <1>1. /\ at.phase = "reading" /\ at.call = c /\ got[c] = child[c].wrote
        /\ child' = [child EXCEPT ![c] = child[c]] /\ UNCHANGED got
        /\ got' = [got EXCEPT ![c] = got[c]]
    BY Unmoved DEF ReadNothing
  <1>2. call[c].state = "running"
    BY <1>1 DEF IInv, Stands
  <1>3. CASE Writers(c)
    <2>1. Go("loop", Nobody) /\ UNCHANGED <<reactor, call>>
      BY <1>3 DEF ReadNothing
    <2>2. Stands' /\ at' \in Place
      BY <2>1, GoesToLoop
    <2>3. /\ call' = [call EXCEPT ![c] = call[c]]
          /\ Whole(reactor') /\ Owned(reactor', [call EXCEPT ![c] = call[c]])
      BY <2>1, Unmoved DEF IInv
    <2> QED
      BY <1>1, <2>2, <2>3, Unmoved, CallStep
  <1>4. CASE ~Writers(c)
    <2> DEFINE k == [call[c] EXCEPT !.fd["stdout"] = 0, !.eof = TRUE]
               r == RemoveClose(reactor, call[c].fd["stdout"])
    <2>1. Settle(c, k, r)
      BY <1>4 DEF ReadNothing
    <2>2. /\ k \in Call /\ k.state = "running" /\ k.eof = TRUE
          /\ k.fd = [call[c].fd EXCEPT !["stdout"] = 0]
          /\ k.queued = call[c].queued /\ k.exited = call[c].exited
      <3>1. call[c] \in Call
        BY Unmoved
      <3> QED
        BY <1>2, <3>1 DEF Call
    <2> HIDE DEF k
    <2>3. Whole(r) /\ Owned(r, [call EXCEPT ![c] = k])
      <3>1. /\ k.state = call[c].state /\ "stdout" \in Ends
            /\ (k.queued <=> "stdout" # "stdin" /\ call[c].queued)
        BY <1>2, <2>2 DEF Ends
      <3> QED
        BY <2>2, <3>1, EndCloses DEF IInv, Types
    <2>4. Fits(k, child[c], got[c])
      BY <1>1, <1>4, <2>2, Unmoved DEF Fits, Writers
    <2> HIDE DEF r
    <2> QED
      BY <1>1, <2>1, <2>2, <2>3, <2>4, Unmoved, SettleStep
  <1> QED
    BY <1>3, <1>4

LEMMA OnErrStep ==
    ASSUME IInv, NEW c \in Calls, OnErr(c)
    PROVE  IInv'
  <1> DEFINE k == [call[c] EXCEPT !.fd["err"] = 0,
                          !.execFailed = @ \/ child[c].notice = "errno"]
             r(t) == RemoveClose(Handled(t), call[c].fd["err"])
  <1>1. PICK t \in reactor.batch :
            Event(t, "fd", End(c, "err")) /\ Settle(c, k, r(t))
    BY DEF OnErr
  <1>2. /\ child' = [child EXCEPT ![c] = child[c]] /\ UNCHANGED got /\ "err" \in Ends
    BY Unmoved DEF OnErr, Ends
  <1>3. /\ Whole(Handled(t)) /\ Owned(Handled(t), call)
        /\ call[c].state = "running"
    BY <1>1, <1>2, EventOwner
  <1>4. /\ k \in Call /\ k.state = "running" /\ k.eof = call[c].eof
        /\ k.fd = [call[c].fd EXCEPT !["err"] = 0]
        /\ k.queued = call[c].queued /\ k.exited = call[c].exited
    <2>1. call[c] \in Call
      BY Unmoved
    <2> QED
      BY <1>3, <2>1 DEF Call
  <1> HIDE DEF k
  <1>5. Whole(r(t)) /\ Owned(r(t), [call EXCEPT ![c] = k])
    <2>1. /\ k.state = call[c].state
          /\ (k.queued <=> "err" # "stdin" /\ call[c].queued)
      BY <1>3, <1>4
    <2> QED
      BY <1>2, <1>3, <1>4, <2>1, EndCloses DEF IInv, Types
  <1>6. Fits(k, child[c], got[c])
    BY <1>3, <1>4, Unmoved DEF Fits
  <1> HIDE DEF r
  <1> QED
    BY <1>1, <1>2, <1>4, <1>5, <1>6, Unmoved, SettleStep

LEMMA OnStdinStep ==
    ASSUME IInv, NEW c \in Calls, OnStdin(c)
    PROVE  IInv'
  <1> DEFINE f == call[c].fd["stdin"]
             sent == [call[c] EXCEPT !.queued = FALSE]
             shut == [call[c] EXCEPT !.queued = FALSE, !.fd["stdin"] = 0,
                                     !.closePending = FALSE]
  <1>1. PICK t \in reactor.batch :
            /\ Event(t, "fd", End(c, "stdin"))
            /\ \/ /\ reactor' = Remove(Handled(t), f)
                  /\ call' = [call EXCEPT ![c].queued = FALSE]
               \/ /\ reactor' = RemoveClose(Handled(t), f)
                  /\ call' = [call EXCEPT ![c].queued = FALSE, ![c].fd["stdin"] = 0,
                                          ![c].closePending = FALSE]
               \/ reactor' = Handled(t) /\ UNCHANGED call
    BY DEF OnStdin
  <1>2. /\ child' = [child EXCEPT ![c] = child[c]] /\ UNCHANGED <<at, got>>
        /\ got' = [got EXCEPT ![c] = got[c]] /\ "stdin" \in Ends
        /\ child[c] \in Child /\ got[c] \in Nat
    BY Unmoved DEF OnStdin, Ends
  <1>3. /\ Whole(Handled(t)) /\ Owned(Handled(t), call)
        /\ call[c].state = "running" /\ f \in Fds
    BY <1>1, <1>2, EventOwner
  <1>4. ASSUME NEW k \in Call, k.state = "running", k.exited = call[c].exited,
               k.eof = call[c].eof, k.timedOut = call[c].timedOut,
               call' = [call EXCEPT ![c] = k],
               Whole(reactor'), Owned(reactor', [call EXCEPT ![c] = k])
        PROVE  IInv'
    <2>1. Fits(k, child[c], got[c])
      BY <1>3, <1>4, Unmoved DEF Fits
    <2>2. at.phase = "loop"
      BY <1>1 DEF Event
    <2>3. Stands' /\ at' \in Place
      BY <1>2, <1>4, <2>2, StaysAt
    <2> QED
      BY <1>2, <1>4, <2>1, <2>3, CallStep
  <1>5. CASE reactor' = Remove(Handled(t), f) /\ call' = [call EXCEPT ![c].queued = FALSE]
    <2> DEFINE r == Handled(t)
    <2>1. /\ sent \in Call /\ sent.state = "running" /\ sent.queued = FALSE
          /\ sent.exited = call[c].exited /\ sent.eof = call[c].eof
          /\ sent.timedOut = call[c].timedOut /\ sent.fd = call[c].fd
      BY <1>3, Unmoved DEF Call
    <2>2. call' = [call EXCEPT ![c] = sent]
      BY <1>5 DEF IInv, Types
    <2> HIDE DEF sent
    <2>3. /\ Whole(reactor') /\ Beside(reactor', r) /\ reactor'.file = r.file
          /\ reactor'.epoll = [r.epoll EXCEPT ![f] = 0]
      BY <1>3, <1>5, RemoveKeeps
    <2>4. Becomes(r, reactor', c, sent)
      <3>1. reactor'.epoll[f] = 0 /\ sent.fd["stdin"] = f
        BY <1>3, <2>1, <2>3 DEF Whole, Record
      <3>2. r.file[f] = End(c, "stdin")
        BY <1>2, <1>3 DEF Owned
      <3>3. \A g \in Fds, d \in Calls \ {c}, e \in Ends :
                r.file[g] = End(d, e) => g # f
        BY <1>2, <3>2, EndsDiffer
      <3>4. \A g \in Fds : g # f => reactor'.epoll[g] = r.epoll[g]
        BY <1>3, <2>3 DEF Whole, Record
      <3>5. \A g \in Fds, e \in Ends : r.file[g] = End(c, e) <=> sent.fd[e] = g
        BY <1>3, <2>1 DEF Owned
      <3> HIDE DEF r, f
      <3> QED
        BY <2>1, <2>3, <3>1, <3>3, <3>4, <3>5 DEF Becomes, Beside
    <2>5. Owned(reactor', [call EXCEPT ![c] = sent])
      BY <1>3, <2>1, <2>3, <2>4, OwnersChange DEF IInv, Types, Whole
    <2> QED
      BY <1>4, <2>1, <2>2, <2>3, <2>5
  <1>6. CASE /\ reactor' = RemoveClose(Handled(t), f)
             /\ call' = [call EXCEPT ![c].queued = FALSE, ![c].fd["stdin"] = 0,
                                     ![c].closePending = FALSE]
    <2>1. /\ shut \in Call /\ shut.state = "running" /\ shut.queued = FALSE
          /\ shut.exited = call[c].exited /\ shut.eof = call[c].eof
          /\ shut.timedOut = call[c].timedOut
          /\ shut.fd = [call[c].fd EXCEPT !["stdin"] = 0]
      <3>1. call[c] \in Call
        BY Unmoved
      <3> QED
        BY <1>3, <3>1 DEF Call
    <2>2. call' = [call EXCEPT ![c] = shut]
      BY <1>6 DEF IInv, Types
    <2> HIDE DEF shut
    <2>3. Whole(reactor') /\ Owned(reactor', [call EXCEPT ![c] = shut])
      <3>1. /\ shut.state = call[c].state
            /\ (shut.queued <=> "stdin" # "stdin" /\ call[c].queued)
        BY <1>3, <2>1
      <3>2. LET s == RemoveClose(Handled(t), call[c].fd["stdin"]) IN
            Whole(s) /\ Beside(s, Handled(t)) /\ Owned(s, [call EXCEPT ![c] = shut])
        BY <1>2, <1>3, <2>1, <3>1, EndCloses DEF IInv, Types
      <3> QED
        BY <1>6, <3>2
    <2> QED
      BY <1>4, <2>1, <2>2, <2>3
  <1>7. CASE reactor' = Handled(t) /\ UNCHANGED call
    <2>1. /\ call' = [call EXCEPT ![c] = call[c]] /\ call[c] \in Call
          /\ Whole(reactor') /\ Owned(reactor', [call EXCEPT ![c] = call[c]])
      BY <1>3, <1>7, Unmoved
    <2> QED
      BY <1>3, <1>4, <2>1
  <1> QED
    BY <1>1, <1>5, <1>6, <1>7

LEMMA OnProcessStep ==
    ASSUME IInv, NEW c \in Calls, OnProcess(c)
    PROVE  IInv'
  <1> DEFINE k == [call[c] EXCEPT !.exited = TRUE]
             h == [child[c] EXCEPT !.life = "reaped"]
             r(t) == Unwatch(Handled(t), "process", Own(c))
  <1>1. PICK t \in reactor.batch :
            Event(t, "process", Own(c)) /\ Settle(c, k, r(t))
    BY DEF OnProcess
  <1>2. child' = [child EXCEPT ![c] = h] /\ UNCHANGED got
    BY Unmoved DEF OnProcess, IInv, Types
  <1>3. /\ Whole(Handled(t)) /\ Owned(Handled(t), call)
        /\ call[c].state = "running"
    BY <1>1, EventOwner
  <1>4. /\ k \in Call /\ k.state = "running" /\ k.eof = call[c].eof
        /\ k.fd = call[c].fd /\ k.queued = call[c].queued
    <2>1. call[c] \in Call
      BY Unmoved
    <2> QED
      BY <1>3, <2>1 DEF Call
  <1>5. /\ h \in Child /\ h.life = "reaped" /\ h.wrote = child[c].wrote
        /\ h.holder = child[c].holder
    BY Unmoved DEF Child
  <1> HIDE DEF k, h
  <1>6. /\ Whole(r(t)) /\ r(t).file = Handled(t).file /\ r(t).epoll = Handled(t).epoll
        /\ r(t).watches \subseteq Handled(t).watches
    BY <1>3, UnwatchKeeps
  <1> HIDE DEF r
  <1>7. Owned(r(t), [call EXCEPT ![c] = k])
    BY <1>3, <1>4, <1>6, OwnersStay DEF IInv, Types, Whole
  <1>8. Fits(k, h, got[c])
    BY <1>4, <1>5, Unmoved DEF Fits
  <1> QED
    BY <1>1, <1>2, <1>4, <1>5, <1>6, <1>7, <1>8, SettleStep

LEMMA OnTimeoutStep ==
    ASSUME IInv, NEW c \in Calls, OnTimeout(c)
    PROVE  IInv'
  <1> DEFINE k == [IoClosed(call[c]) EXCEPT !.timedOut = TRUE]
             h(holder) == Killed(child[c], holder)
             u(t) == Unwatch(Handled(t), "timer", Own(c))
             r(t) == CloseIo(u(t), call[c])
  <1>1. PICK t \in reactor.batch, holder \in {FALSE, child[c].holder} :
            /\ Event(t, "timer", Own(c)) /\ Settle(c, k, r(t))
            /\ child' = [child EXCEPT ![c] = h(holder)]
    BY Unmoved DEF OnTimeout, IInv, Types
  <1>2. UNCHANGED got
    BY DEF OnTimeout
  <1>3. /\ Whole(Handled(t)) /\ Owned(Handled(t), call)
        /\ call[c].state = "running"
    BY <1>1, EventOwner
  <1>4. /\ k \in Call /\ k.state = "running" /\ k.eof = call[c].eof
        /\ k.fd = [e \in Ends |-> 0] /\ k.queued = FALSE
        /\ k.exited = call[c].exited
    <2>1. call[c] \in Call
      BY Unmoved
    <2> QED
      BY <1>3, <2>1 DEF Call, IoClosed
  <1>5. /\ h(holder) \in Child /\ h(holder).wrote = child[c].wrote
        /\ h(holder).holder = holder
        /\ h(holder).life = IF child[c].life \in {"forked", "running"} THEN "zombie"
                            ELSE child[c].life
    <2>1. child[c] \in Child
      BY Unmoved
    <2> QED
      BY <2>1 DEF Child, Killed
  <1> HIDE DEF k, h
  <1>6. /\ Whole(u(t)) /\ u(t).file = Handled(t).file /\ u(t).epoll = Handled(t).epoll
        /\ u(t).watches \subseteq Handled(t).watches
    BY <1>3, UnwatchKeeps
  <1> HIDE DEF u
  <1>7. Owned(u(t), call) /\ call \in [Calls -> Call]
    BY <1>3, <1>6, OwnersUntouched DEF IInv, Types, Whole
  <1>8. Whole(r(t)) /\ Owned(r(t), [call EXCEPT ![c] = k])
    BY <1>3, <1>4, <1>6, <1>7, IoCloses
  <1> HIDE DEF r
  <1>9. Fits(k, h(holder), got[c])
    <2>1. Fits(call[c], child[c], got[c])
      BY Unmoved
    <2> QED
      BY <1>1, <1>3, <1>4, <1>5, <2>1 DEF Fits
  <1> QED
    BY <1>1, <1>2, <1>4, <1>5, <1>8, <1>9, SettleStep

-----------------------------------------------------------------------------
(* The loop and the world                                                   *)

LEMMA StepStep ==
    ASSUME IInv, Step
    PROVE  IInv'
  <1>1. UNCHANGED <<call, child, at, got>>
    BY DEF Step
  <1>2. /\ Whole(reactor') /\ reactor'.file = reactor.file
        /\ reactor'.epoll = reactor.epoll /\ reactor'.watches = reactor.watches
    <2>1. CASE PassOver
      <3>1. PICK t \in reactor.batch : reactor' = Handled(t)
        BY <2>1 DEF PassOver
      <3>2. /\ reactor' \in Record /\ reactor'.batch \subseteq reactor.batch
            /\ reactor'.file = reactor.file /\ reactor'.epoll = reactor.epoll
            /\ reactor'.watches = reactor.watches
            /\ reactor'.entries = reactor.entries
            /\ reactor'.count = reactor.count /\ reactor'.nextId = reactor.nextId
        BY <3>1 DEF Handled, IInv, Whole, Record
      <3> QED
        BY <3>2 DEF IInv, Whole, Agree, Counted, Registered, Tokens
    <2>2. CASE Poll(Ready)
      <3>1. ASSUME NEW f \in Fds
            PROVE  FdToken(reactor, f) \in Token
        <4>1. /\ f \in Nat /\ reactor.epoll[f] \in Nat
              /\ reactor.file[f] \in Whose \cup {Nobody}
          BY ReactorAssumption DEF IInv, Whole, Record
        <4> QED
          BY <4>1 DEF FdToken, Token
      <3>2. \A w \in reactor.watches :
                WatchToken(w) \in Token /\ WatchToken(w).kind # "fd"
        BY DEF WatchToken, Token, IInv, Whole, Record, Watched
      <3>3. \A f \in Fds : FdToken(reactor, f).n \in Fds
        BY DEF FdToken
      <3>4. ASSUME NEW t \in Ready
            PROVE  t \in Token /\ (t.kind = "fd" => t.n \in Fds)
        <4>1. \/ \E f \in Fds : t = FdToken(reactor, f)
              \/ \E w \in reactor.watches : t = WatchToken(w)
          BY DEF Ready
        <4> QED
          BY <3>1, <3>2, <3>3, <4>1
      <3>5. Ready \in SUBSET Token
        BY <3>4
      <3>6. reactor' = [reactor EXCEPT !.batch = Ready]
        BY <2>2 DEF Poll
      <3>7. /\ reactor' \in Record /\ reactor'.batch = Ready
            /\ reactor'.file = reactor.file /\ reactor'.epoll = reactor.epoll
            /\ reactor'.watches = reactor.watches
            /\ reactor'.entries = reactor.entries
            /\ reactor'.count = reactor.count /\ reactor'.nextId = reactor.nextId
        BY <3>5, <3>6 DEF IInv, Whole, Record
      <3> QED
        BY <3>4, <3>7 DEF IInv, Whole, Agree, Counted, Registered, Tokens
    <2> QED
      BY <2>1, <2>2 DEF Step
  <1>3. Owned(reactor', call)
    BY <1>2, OwnersUntouched DEF IInv, Types, Whole
  <1> QED
    BY <1>1, <1>2, <1>3 DEF IInv, Types, Stands

LEMMA WorldStep ==
    ASSUME IInv, NEW c \in Calls, World(c)
    PROVE  IInv'
  <1>1. UNCHANGED <<reactor, call, at, got>>
    BY DEF World
  <1>2. PICK h \in Child :
            child' = [child EXCEPT ![c] = h] /\ Fits(call[c], h, got[c])
    <2>1. child[c] \in Child /\ got[c] \in Nat /\ Fits(call[c], child[c], got[c])
      BY Unmoved
    <2>2. CASE Exec(c)
      <3> DEFINE h == [child[c] EXCEPT !.life = "running", !.notice = "eof"]
                 x == [child[c] EXCEPT !.notice = "errno"]
      <3>1. /\ h \in Child /\ h.life = "running" /\ h.wrote = child[c].wrote
            /\ x \in Child /\ x.life = child[c].life /\ x.wrote = child[c].wrote
            /\ x.holder = child[c].holder
        BY <2>1 DEF Child
      <3>2. child' = [child EXCEPT ![c] = h] \/ child' = [child EXCEPT ![c] = x]
        BY <2>2 DEF Exec, IInv, Types
      <3>3. child[c].life = "forked"
        BY <2>2 DEF Exec
      <3> HIDE DEF h, x
      <3>4. Fits(call[c], h, got[c]) /\ Fits(call[c], x, got[c])
        BY <2>1, <3>1, <3>3 DEF Fits
      <3> QED
        BY <3>1, <3>2, <3>4
    <2>3. CASE Writes(c)
      <3> DEFINE h == [child[c] EXCEPT !.wrote = @ + 1]
      <3>1. /\ h \in Child /\ h.wrote = child[c].wrote + 1
            /\ h.life = child[c].life /\ h.holder = child[c].holder
            /\ child[c].wrote \in Nat
        BY <2>1 DEF Child
      <3>2. child' = [child EXCEPT ![c] = h]
        BY <2>3 DEF Writes, IInv, Types
      <3>3. child[c].life = "running" \/ child[c].holder
        BY <2>3 DEF Writes
      <3> HIDE DEF h
      <3>4. Fits(call[c], h, got[c])
        BY <2>1, <3>1, <3>3 DEF Fits
      <3> QED
        BY <3>1, <3>2, <3>4
    <2>4. CASE Exits(c)
      <3> DEFINE h(b) == [child[c] EXCEPT !.life = "zombie", !.holder = b]
                 x == [child[c] EXCEPT !.life = "zombie"]
      <3>1. /\ \A b \in BOOLEAN : /\ h(b) \in Child /\ h(b).life = "zombie"
                                  /\ h(b).wrote = child[c].wrote
            /\ x \in Child /\ x.life = "zombie" /\ x.wrote = child[c].wrote
        BY <2>1 DEF Child
      <3>2. \/ \E b \in BOOLEAN : child' = [child EXCEPT ![c] = h(b)]
            \/ child' = [child EXCEPT ![c] = x]
        BY <2>4 DEF Exits, IInv, Types
      <3>3. child[c].life \in {"forked", "running"}
        BY <2>4 DEF Exits
      <3> HIDE DEF h, x
      <3>4. /\ \A b \in BOOLEAN : Fits(call[c], h(b), got[c])
            /\ Fits(call[c], x, got[c])
        BY <2>1, <3>1, <3>3 DEF Fits
      <3> QED
        BY <3>1, <3>2, <3>4
    <2>5. CASE HolderCloses(c) \/ Expires(c)
      <3> DEFINE h == [child[c] EXCEPT !.holder = FALSE]
                 x == [child[c] EXCEPT !.due = TRUE]
      <3>1. /\ h \in Child /\ h.life = child[c].life /\ h.wrote = child[c].wrote
            /\ h.holder = FALSE
            /\ x \in Child /\ x.life = child[c].life /\ x.wrote = child[c].wrote
            /\ x.holder = child[c].holder
        BY <2>1 DEF Child
      <3>2. child' = [child EXCEPT ![c] = h] \/ child' = [child EXCEPT ![c] = x]
        BY <2>5 DEF HolderCloses, Expires, IInv, Types
      <3> HIDE DEF h, x
      <3>3. Fits(call[c], h, got[c]) /\ Fits(call[c], x, got[c])
        BY <2>1, <3>1 DEF Fits
      <3> QED
        BY <3>1, <3>2, <3>3
    <2> QED
      BY <2>2, <2>3, <2>4, <2>5 DEF World
  <1>3. Stands' /\ at' \in Place
    BY <1>1 DEF IInv, Types, Stands
  <1>4. /\ call' = [call EXCEPT ![c] = call[c]] /\ got' = [got EXCEPT ![c] = got[c]]
        /\ call[c] \in Call /\ got[c] \in Nat
        /\ Whole(reactor') /\ Owned(reactor', [call EXCEPT ![c] = call[c]])
    BY <1>1, Unmoved DEF IInv
  <1> QED
    BY <1>2, <1>3, <1>4, CallStep

LEMMA NextIInv == IInv /\ [Next]_vars => IInv'
  <1> SUFFICES ASSUME IInv, [Next]_vars PROVE IInv'
    OBVIOUS
  <1>1. CASE Step
    BY <1>1, StepStep
  <1>2. CASE FreeDone
    BY <1>2, FreeDoneStep
  <1>3. ASSUME NEW c \in Calls, Handler(c) PROVE IInv'
    BY <1>3, OnStdoutStep, ReadingStep, ReadNothingStep, OnErrStep, OnStdinStep,
       OnProcessStep, OnTimeoutStep DEF Handler
  <1>4. ASSUME NEW c \in Calls, Embedder(c) PROVE IInv'
    BY <1>4, StartStep, SetTimeoutStep, WriteStdinStep, CloseStdinStep, CancelStep
       DEF Embedder
  <1>5. ASSUME NEW c \in Calls, World(c) PROVE IInv'
    BY <1>5, WorldStep
  <1>6. CASE UNCHANGED vars
    BY <1>6 DEF vars, IInv, Types, Whole, Agree, Counted, Registered, Tokens, Owned,
       Stands
  <1> QED
    BY <1>1, <1>2, <1>3, <1>4, <1>5, <1>6 DEF Next, Loop, RunReturns

-----------------------------------------------------------------------------
LEMMA IInvTypeOK == IInv => TypeOK
  <1> SUFFICES ASSUME IInv PROVE TypeOK
    OBVIOUS
  <1>1. \A c \in Calls : got[c] \in 0 .. child[c].wrote
    BY DEF IInv, Types, Fits, Child
  <1>2. reactor.count \in Nat
    BY RegisteredIsFinite, FS_CardinalityType DEF IInv, Whole, Counted
  <1> QED
    BY <1>1, <1>2 DEF TypeOK, IInv, Types, Call, Child, Place, Whole, Record

LEMMA IInvNothingOutlives == IInv => NothingOutlivesItsCall
  <1> SUFFICES ASSUME IInv PROVE NothingOutlivesItsCall
    OBVIOUS
  <1>1. ASSUME NEW f \in Fds, reactor.file[f] # Nobody
        PROVE  /\ call[reactor.file[f].call].state = "running"
               /\ call[reactor.file[f].call].fd[reactor.file[f].end] = f
    <2>1. reactor.file[f] \in Whose
      BY <1>1 DEF IInv, Whole, Record
    <2>2. PICK c \in Calls, e \in Ends : reactor.file[f] = End(c, e)
      BY <2>1, EndsDiffer DEF Whose
    <2>3. call[c].fd[e] = f
      BY <2>2 DEF IInv, Owned
    <2>4. call[c].state = "running"
      BY <2>3, EndsDiffer DEF IInv, Owned
    <2> QED
      BY <2>2, <2>3, <2>4 DEF End
  <1>2. \A f \in Fds : /\ reactor.entries[f].to \in {Nobody, reactor.file[f]}
                       /\ reactor.entries[f].to # Nobody <=> reactor.epoll[f] # 0
    BY DEF IInv, Whole, Agree
  <1>3. \A w \in reactor.watches : call[w.for.call].state = "running"
    BY DEF IInv, Owned
  <1>4. \A c \in Calls : call[c].state = "gone" => child[c].life \in {"none", "reaped"}
    BY DEF IInv, Fits
  <1>5. reactor.count = Cardinality(reactor.watches)
                        + Cardinality({f \in Fds : reactor.epoll[f] # 0})
    BY DEF IInv, Whole, Counted, Registered
  <1> QED
    BY <1>1, <1>2, <1>3, <1>4, <1>5 DEF NothingOutlivesItsCall

LEMMA IInvOutput == IInv => OutputIsWhole
  BY DEF IInv, Stands, Finished, Fits, OutputIsWhole, Writers

(* Every state has its types: the count of registrations is never below     *)
(* zero, and no more is read than was written.                              *)
THEOREM ToolsTyped == Spec => []TypeOK
  BY InitIInv, NextIInv, IInvTypeOK, PTL DEF Spec

(* Whatever fails in a spawn, and in whichever order a call is closed,      *)
(* cancelled, timed out and freed, the reactor and the kernel keep nothing  *)
(* of it, and the reactor's count is exact (tool_exec.c, reactor.c).        *)
THEOREM NothingOutlives == Spec => []NothingOutlivesItsCall
  BY InitIInv, NextIInv, IInvNothingOutlives, PTL DEF Spec

(* A call is reported finished, but for a timeout, only with everything its *)
(* child and the child's heirs wrote handed on (maybe_finish).              *)
THEOREM OutputArrives == Spec => []OutputIsWhole
  BY InitIInv, NextIInv, IInvOutput, PTL DEF Spec

-----------------------------------------------------------------------------
(* Tokens and generations                                                   *)

(* How many registrations of a descriptor lie between two generations, if   *)
(* fewer than would wrap around.                                            *)
Gap(old, new) == IF old <= new THEN new - old ELSE new + GenMax - old

(* The calls are started one after the other, and the n-th was the last.    *)
InLine(n) ==
    /\ n \in 0 .. MaxCalls
    /\ \A d \in Calls :
        /\ d > n => call[d].state = "none"
        /\ d <= n => call[d].state # "none"
        /\ d < n => call[d].state = "gone" \/ at = [phase |-> "done", call |-> d]

(* The call may still register the descriptor: it has not been spawned, or  *)
(* the descriptor is its child's stdin, for which nothing is queued.        *)
May(f, n) ==
    IF n \in Calls /\ \/ call[n].state = "pending"
                      \/ /\ call[n].state = "running" /\ ~call[n].queued
                         /\ call[n].fd["stdin"] = f
    THEN 1 ELSE 0

(* Since a token was taken, only calls started after the one it is for have *)
(* registered its descriptor, each at most once.                            *)
Dated(t, n) ==
    /\ t.kind = "fd" =>
        /\ t.n \in Fds /\ t.for \in Whose /\ t.gen \in 1 .. GenMax
        /\ Gap(t.gen, reactor.entries[t.n].gen) + May(t.n, n) <= n - t.for.call
        /\ t.gen = reactor.entries[t.n].gen =>
               reactor.entries[t.n].to \in {Nobody, t.for}
    /\ t.kind # "fd" =>
        /\ t.n < reactor.nextId
        /\ \A w \in reactor.watches : w.kind = t.kind /\ w.id = t.n => w.for = t.for

OneEach(b) == \A t, u \in b : t.kind = "fd" /\ u.kind = "fd" /\ t.n = u.n => t = u

Ids(r) == \A v, w \in r.watches : v.id = w.id => v = w

Stamped(r) == \A f \in Fds : r.epoll[f] \in {0, r.entries[f].gen}

Dates ==
    /\ Ids(reactor) /\ Stamped(reactor) /\ OneEach(reactor.batch)
    /\ \E n \in 0 .. MaxCalls : InLine(n) /\ \A t \in reactor.batch : Dated(t, n)

(* From one reactor to a later one: a descriptor is as it was or released,  *)
(* or it has been registered anew, once.                                    *)
AsWas(r, s, f) ==
    /\ s.entries[f].gen = r.entries[f].gen
    /\ s.entries[f].to \in {Nobody, r.entries[f].to}
    /\ s.epoll[f] \in {0, r.epoll[f]}

Renewed(r, s, f) ==
    /\ s.entries[f].gen = NextGen(r.entries[f].gen)
    /\ s.epoll[f] \in {0, s.entries[f].gen}

Later(r, s, fs) ==
    /\ \A f \in Fds : AsWas(r, s, f) \/ (f \in fs /\ Renewed(r, s, f))
    /\ s.batch \subseteq r.batch
    /\ r.nextId <= s.nextId
    /\ \A w \in s.watches : w \in r.watches \/ w.id >= r.nextId
    /\ Ids(r) => Ids(s)

LEMMA LaterTwice ==
    ASSUME NEW r, NEW s, NEW u, r \in Record, s \in Record, u \in Record,
           NEW fs, NEW gs, Later(r, s, fs), Later(s, u, gs),
           \A f \in fs : f \notin gs
    PROVE  Later(r, u, fs \cup gs)
  <1>1. ASSUME NEW f \in Fds
        PROVE  AsWas(r, u, f) \/ (f \in fs \cup gs /\ Renewed(r, u, f))
    BY DEF Later, AsWas, Renewed
  <1>2. /\ u.batch \subseteq r.batch /\ r.nextId <= u.nextId
        /\ \A w \in u.watches : w \in r.watches \/ w.id >= r.nextId
    BY DEF Later, Record, Watched
  <1>3. Ids(r) => Ids(u)
    BY DEF Later
  <1> QED
    BY <1>1, <1>2, <1>3 DEF Later

LEMMA SameLater ==
    ASSUME NEW r, NEW s, r \in Record, NEW fs,
           s.entries = r.entries, s.epoll = r.epoll, s.batch \subseteq r.batch,
           s.nextId = r.nextId, s.watches \subseteq r.watches
    PROVE  Later(r, s, fs)
  BY DEF Later, AsWas, Ids, Record

LEMMA LaterMore ==
    ASSUME NEW r, NEW s, NEW fs, NEW gs, Later(r, s, fs), fs \subseteq gs
    PROVE  Later(r, s, gs)
  BY DEF Later

LEMMA AddLater ==
    ASSUME NEW r, r \in Record, NEW f \in Fds, NEW to
    PROVE  Later(r, Add(r, f, to), {f})
  <1>1. CASE r.epoll[f] # 0
    <2>1. Add(r, f, to) = r
      BY <1>1 DEF Add
    <2> QED
      BY <2>1, SameLater
  <1>2. CASE r.epoll[f] = 0
    <2> DEFINE gen == NextGen(r.entries[f].gen)
               s == [r EXCEPT !.epoll[f] = gen,
                              !.entries[f] = [to |-> to, gen |-> gen],
                              !.count = @ + 1]
    <2>1. Add(r, f, to) = s
      BY <1>2 DEF Add
    <2>2. /\ s.entries = [r.entries EXCEPT ![f] = [to |-> to, gen |-> gen]]
          /\ s.epoll = [r.epoll EXCEPT ![f] = gen]
          /\ s.batch = r.batch /\ s.nextId = r.nextId /\ s.watches = r.watches
      BY DEF Record
    <2>3. s.entries[f].gen = gen /\ s.epoll[f] = gen
      BY <2>2 DEF Record
    <2>4. \A g \in Fds : g # f => s.entries[g] = r.entries[g] /\ s.epoll[g] = r.epoll[g]
      BY <2>2 DEF Record
    <2> HIDE DEF s
    <2>5. \A g \in Fds : AsWas(r, s, g) \/ (g \in {f} /\ Renewed(r, s, g))
      BY <2>3, <2>4 DEF AsWas, Renewed
    <2>6. r.nextId \in Nat
      BY DEF Record
    <2> QED
      BY <2>1, <2>2, <2>5, <2>6 DEF Later, Ids
  <1> QED
    BY <1>1, <1>2

LEMMA RemoveLater ==
    ASSUME NEW r, r \in Record, NEW f \in Fds
    PROVE  Later(r, Remove(r, f), {})
  <1>1. CASE r.epoll[f] = 0
    <2>1. Remove(r, f) = r
      BY <1>1 DEF Remove
    <2> QED
      BY <2>1, SameLater
  <1>2. CASE r.epoll[f] # 0
    <2> DEFINE s == [r EXCEPT !.epoll[f] = 0, !.entries[f].to = Nobody, !.count = @ - 1]
    <2>1. Remove(r, f) = s
      BY <1>2 DEF Remove
    <2>2. /\ s.entries = [r.entries EXCEPT ![f].to = Nobody]
          /\ s.epoll = [r.epoll EXCEPT ![f] = 0]
          /\ s.batch = r.batch /\ s.nextId = r.nextId /\ s.watches = r.watches
      BY DEF Record
    <2>3. /\ s.entries[f].gen = r.entries[f].gen /\ s.entries[f].to = Nobody
          /\ s.epoll[f] = 0
      BY <2>2 DEF Record, Entry
    <2>4. \A g \in Fds : g # f => s.entries[g] = r.entries[g] /\ s.epoll[g] = r.epoll[g]
      BY <2>2 DEF Record
    <2> HIDE DEF s
    <2>5. \A g \in Fds : AsWas(r, s, g)
      BY <2>3, <2>4 DEF AsWas
    <2>6. r.nextId \in Nat
      BY DEF Record
    <2> QED
      BY <2>1, <2>2, <2>5, <2>6 DEF Later, Ids
  <1> QED
    BY <1>1, <1>2

LEMMA CloseLater ==
    ASSUME NEW r, r \in Record, NEW f \in Fds
    PROVE  Later(r, Close(r, f), {})
  <1> DEFINE s == [r EXCEPT !.file[f] = Nobody, !.epoll[f] = 0]
  <1>1. /\ s.entries = r.entries /\ s.epoll = [r.epoll EXCEPT ![f] = 0]
        /\ s.batch = r.batch /\ s.nextId = r.nextId /\ s.watches = r.watches
    BY DEF Record
  <1>2. Close(r, f) = s
    BY DEF Close
  <1> HIDE DEF s
  <1>3. \A g \in Fds : AsWas(r, s, g)
    BY <1>1 DEF AsWas, Record
  <1>4. r.nextId \in Nat
    BY DEF Record
  <1> QED
    BY <1>1, <1>2, <1>3, <1>4 DEF Later, Ids

LEMMA RemoveCloseLater ==
    ASSUME NEW r, Whole(r), NEW f \in Fds \cup {0}
    PROVE  Later(r, RemoveClose(r, f), {})
  <1>1. CASE f = 0
    <2>1. RemoveClose(r, f) = r
      BY <1>1 DEF RemoveClose
    <2> QED
      BY <2>1, SameLater DEF Whole
  <1>2. CASE f # 0
    <2>1. RemoveClose(r, f) = Close(Remove(r, f), f) /\ f \in Fds
      BY <1>2 DEF RemoveClose
    <2>2. r \in Record /\ Remove(r, f) \in Record /\ RemoveClose(r, f) \in Record
      BY <2>1, RemoveKeeps, RemoveCloseKeeps DEF Whole
    <2>3. Later(r, Remove(r, f), {}) /\ Later(Remove(r, f), RemoveClose(r, f), {})
      BY <2>1, <2>2, RemoveLater, CloseLater
    <2>4. Later(r, RemoveClose(r, f), {} \cup {})
      BY <2>2, <2>3, LaterTwice
    <2> QED
      BY <2>4, LaterMore
  <1> QED
    BY <1>1, <1>2

LEMMA WatchLater ==
    ASSUME NEW r, Whole(r), NEW kind, NEW who
    PROVE  Later(r, Watch(r, kind, who), {})
  <1> DEFINE new == [kind |-> kind, id |-> r.nextId, for |-> who]
             s == [r EXCEPT !.watches = @ \cup {new}, !.nextId = @ + 1,
                            !.count = @ + 1]
  <1>1. Watch(r, kind, who) = s
    BY DEF Watch
  <1>2. /\ s.entries = r.entries /\ s.epoll = r.epoll /\ s.batch = r.batch
        /\ s.nextId = r.nextId + 1 /\ s.watches = r.watches \cup {new}
        /\ new.id = r.nextId
    BY DEF Whole, Record
  <1> HIDE DEF s, new
  <1>3. r.nextId \in Nat /\ \A w \in r.watches : w.id \in Nat /\ w.id < r.nextId
    BY DEF Whole, Counted, Record, Watched
  <1>4. Ids(r) => Ids(s)
    BY <1>2, <1>3 DEF Ids
  <1>5. \A f \in Fds : AsWas(r, s, f)
    BY <1>2 DEF AsWas
  <1>6. r.nextId <= s.nextId /\ \A w \in s.watches : w \in r.watches \/ w.id >= r.nextId
    BY <1>2, <1>3
  <1> QED
    BY <1>1, <1>2, <1>4, <1>5, <1>6 DEF Later

LEMMA UnwatchLater ==
    ASSUME NEW r, Whole(r), NEW kind, NEW who
    PROVE  Later(r, Unwatch(r, kind, who), {})
  <1>1. LET s == Unwatch(r, kind, who) IN
           /\ s.entries = r.entries /\ s.epoll = r.epoll /\ s.batch = r.batch
           /\ s.nextId = r.nextId /\ s.watches \subseteq r.watches
    BY DEF Unwatch, Whole, Record
  <1> QED
    BY <1>1, SameLater DEF Whole

(* Two operations that register nothing.                                    *)
LEMMA LaterStill ==
    ASSUME NEW r, NEW s, NEW u, Whole(r), Whole(s), Whole(u), NEW fs,
           Later(r, s, fs), Later(s, u, {})
    PROVE  Later(r, u, fs)
  <1>1. Later(r, u, fs \cup {})
    BY LaterTwice DEF Whole
  <1> QED
    BY <1>1, LaterMore

LEMMA CloseIoLater ==
    ASSUME NEW r, Whole(r), NEW k \in Call
    PROVE  Whole(CloseIo(r, k)) /\ Later(r, CloseIo(r, k), {})
  <1> DEFINE s1 == RemoveClose(r, k.fd["stdin"])
             s2 == RemoveClose(s1, k.fd["stdout"])
             s3 == RemoveClose(s2, k.fd["err"])
  <1>1. /\ k.fd["stdin"] \in Fds \cup {0} /\ k.fd["stdout"] \in Fds \cup {0}
        /\ k.fd["err"] \in Fds \cup {0}
    BY DEF Call, Ends
  <1>2. Whole(s1) /\ Later(r, s1, {})
    BY <1>1, RemoveCloseKeeps, RemoveCloseLater
  <1> HIDE DEF s1
  <1>3. Whole(s2) /\ Later(s1, s2, {})
    BY <1>1, <1>2, RemoveCloseKeeps, RemoveCloseLater
  <1> HIDE DEF s2
  <1>4. Whole(s3) /\ Later(s2, s3, {})
    BY <1>1, <1>3, RemoveCloseKeeps, RemoveCloseLater
  <1> HIDE DEF s3
  <1>5. Later(r, s3, {})
    BY <1>2, <1>3, <1>4, LaterStill
  <1>6. CloseIo(r, k) = s3
    BY DEF CloseIo, s1, s2, s3
  <1> QED
    BY <1>4, <1>5, <1>6

LEMMA ReleasedLater ==
    ASSUME IInv, NEW c \in Calls
    PROVE  Later(reactor, Released(reactor, c), {})
  <1> DEFINE s1 == CloseIo(reactor, call[c])
             s2 == Unwatch(s1, "timer", Own(c))
             s3 == Unwatch(s2, "process", Own(c))
  <1>1. Whole(reactor) /\ Whole(s1) /\ Later(reactor, s1, {})
    BY Unmoved, CloseIoLater DEF IInv
  <1> HIDE DEF s1
  <1>2. Whole(s2) /\ Later(s1, s2, {})
    BY <1>1, UnwatchKeeps, UnwatchLater
  <1> HIDE DEF s2
  <1>3. Whole(s3) /\ Later(s2, s3, {})
    BY <1>2, UnwatchKeeps, UnwatchLater
  <1> HIDE DEF s3
  <1>4. Released(reactor, c) = s3
    BY DEF Released, s1, s2, s3
  <1>5. Later(reactor, s3, {})
    BY <1>1, <1>2, <1>3, LaterStill
  <1> QED
    BY <1>4, <1>5

LEMMA SpawnLater ==
    ASSUME Whole(reactor), NEW c \in Calls, NEW kept, Ready3(c, kept)
    PROVE  /\ Later(reactor, Opened(c, kept), {kept["stdout"], kept["err"]})
           /\ Later(reactor, WithStdout(c, kept), {kept["stdout"], kept["err"]})
           /\ Later(reactor, WithErr(c, kept), {kept["stdout"], kept["err"]})
           /\ Later(reactor, WithProcess(c, kept), {kept["stdout"], kept["err"]})
           /\ Later(reactor, Spawned(c, kept), {kept["stdout"], kept["err"]})
  <1> DEFINE r1 == Opened(c, kept)
             r2 == WithStdout(c, kept)
             r3 == WithErr(c, kept)
             r4 == WithProcess(c, kept)
             r5 == Spawned(c, kept)
             fs == {kept["stdout"], kept["err"]}
  <1>1. /\ kept["stdout"] \in Fds /\ kept["err"] \in Fds
        /\ kept["stdout"] # kept["err"]
    BY DEF Ready3, Ends
  <1>2. Whole(r1) /\ Whole(r2) /\ Whole(r3) /\ Whole(r4) /\ Whole(r5)
    BY SpawnStages DEF Spawning
  <1>3. Later(reactor, r1, {})
    <2>1. /\ r1.entries = reactor.entries /\ r1.epoll = reactor.epoll
          /\ r1.batch = reactor.batch /\ r1.nextId = reactor.nextId
          /\ r1.watches = reactor.watches
      BY DEF Opened, Whole, Record
    <2> QED
      BY <2>1, SameLater DEF Whole
  <1>4. Later(r1, r2, {kept["stdout"]})
    BY <1>1, <1>2, AddLater DEF WithStdout, Whole
  <1>5. Later(r2, r3, {kept["err"]})
    BY <1>1, <1>2, AddLater DEF WithErr, Whole
  <1>6. Later(r3, r4, {})
    BY <1>2, WatchLater DEF WithProcess
  <1>7. Later(r4, r5, {})
    <2>1. CASE call[c].timeout
      BY <1>2, <2>1, WatchLater DEF Spawned
    <2>2. CASE ~call[c].timeout
      <3>1. r5 = r4
        BY <2>2 DEF Spawned
      <3> QED
        BY <1>2, <3>1, SameLater DEF Whole
    <2> QED
      BY <2>1, <2>2
  <1> HIDE DEF r1, r2, r3, r4, r5
  <1>8. Later(reactor, r2, {} \cup {kept["stdout"]})
    BY <1>2, <1>3, <1>4, LaterTwice DEF Whole
  <1>9. Later(reactor, r2, {kept["stdout"]})
    BY <1>8, LaterMore
  <1>10. Later(reactor, r3, {kept["stdout"]} \cup {kept["err"]})
    BY <1>1, <1>2, <1>5, <1>9, LaterTwice DEF Whole
  <1>11. Later(reactor, r3, fs)
    BY <1>10, LaterMore
  <1>12. Later(reactor, r4, fs) /\ Later(reactor, r5, fs)
    BY <1>2, <1>6, <1>7, <1>11, LaterStill
  <1>13. Later(reactor, r1, fs) /\ Later(reactor, r2, fs)
    BY <1>3, <1>9, LaterMore
  <1> QED
    BY <1>11, <1>12, <1>13 DEF r1, r2, r3, r4, r5

LEMMA UndoneLater ==
    ASSUME Whole(reactor), NEW c \in Calls, NEW kept, Ready3(c, kept),
           NEW r, Whole(r), NEW fs, Later(reactor, r, fs)
    PROVE  Later(reactor, Undone(c, kept, r), fs)
  <1> DEFINE s1 == Unwatch(r, "process", Own(c))
             s2 == RemoveClose(s1, kept["stdout"])
             s3 == RemoveClose(s2, kept["err"])
             s4 == RemoveClose(s3, kept["stdin"])
  <1>1. kept["stdin"] \in Fds /\ kept["stdout"] \in Fds /\ kept["err"] \in Fds
    BY DEF Ready3, Ends
  <1>2. Whole(s1) /\ Later(r, s1, {})
    BY UnwatchKeeps, UnwatchLater
  <1>3. Undone(c, kept, r) = s4
    BY DEF Undone
  <1> HIDE DEF s1
  <1>4. Whole(s2) /\ Later(s1, s2, {})
    BY <1>1, <1>2, RemoveCloseKeeps, RemoveCloseLater
  <1> HIDE DEF s2
  <1>5. Whole(s3) /\ Later(s2, s3, {})
    BY <1>1, <1>4, RemoveCloseKeeps, RemoveCloseLater
  <1> HIDE DEF s3
  <1>6. Whole(s4) /\ Later(s3, s4, {})
    BY <1>1, <1>5, RemoveCloseKeeps, RemoveCloseLater
  <1> HIDE DEF s4
  <1>7. Later(reactor, s1, fs)
    BY <1>2, LaterStill
  <1>8. Later(reactor, s2, fs)
    BY <1>2, <1>4, <1>7, LaterStill
  <1>9. Later(reactor, s3, fs)
    BY <1>4, <1>5, <1>8, LaterStill
  <1>10. Later(reactor, s4, fs)
    BY <1>5, <1>6, <1>9, LaterStill
  <1> QED
    BY <1>3, <1>10

-----------------------------------------------------------------------------
(* Counting generations                                                     *)

LEMMA GapNext ==
    ASSUME NEW g \in 1 .. GenMax, NEW h \in 1 .. GenMax
    PROVE  /\ Gap(g, h) \in Nat
           /\ Gap(g, h) = 0 <=> g = h
           /\ Gap(g, h) + 1 < GenMax => Gap(g, NextGen(h)) = Gap(g, h) + 1
  BY ReactorAssumption DEF Gap, NextGen

LEMMA MayIsOne == \A f, n : May(f, n) \in {0, 1}
  BY DEF May

(* A step from the n-th to the m-th call keeps the tokens dated, if it      *)
(* registers a descriptor only where the call might.                        *)
LEMMA DatesStep ==
    ASSUME MaxCalls <= GenMax, IInv, IInv', Dates,
           NEW n, InLine(n), \A t \in reactor.batch : Dated(t, n),
           NEW m, m \in {n, n + 1}, InLine(m)',
           NEW fs, Later(reactor, reactor', fs),
           \A t \in reactor'.batch : t.kind = "fd" =>
               May(t.n, m)' + (IF t.n \in fs THEN 1 ELSE 0) <= May(t.n, n) + (m - n)
    PROVE  Dates'
  <1>1. /\ reactor \in Record /\ reactor' \in Record
        /\ Ids(reactor) /\ Stamped(reactor) /\ OneEach(reactor.batch)
    BY DEF IInv, Whole, Dates
  <1>2. Ids(reactor')
    BY <1>1 DEF Later
  <1>3. Stamped(reactor')
    <2> SUFFICES ASSUME NEW f \in Fds
                 PROVE  reactor'.epoll[f] \in {0, reactor'.entries[f].gen}
      BY DEF Stamped
    <2>1. AsWas(reactor, reactor', f) \/ Renewed(reactor, reactor', f)
      BY DEF Later
    <2> QED
      BY <1>1, <2>1 DEF AsWas, Renewed, Stamped
  <1>4. OneEach(reactor'.batch)
    BY <1>1 DEF Later, OneEach
  <1>5. ASSUME NEW t \in reactor'.batch, t.kind = "fd"
        PROVE  /\ t.n \in Fds /\ t.for \in Whose /\ t.gen \in 1 .. GenMax
               /\ Gap(t.gen, reactor'.entries[t.n].gen) + May(t.n, m)' <= m - t.for.call
               /\ t.gen = reactor'.entries[t.n].gen =>
                      reactor'.entries[t.n].to \in {Nobody, t.for}
    <2> DEFINE g == reactor.entries[t.n].gen
               h == reactor'.entries[t.n].gen
    <2>1. /\ t \in reactor.batch
          /\ t.n \in Fds /\ t.for \in Whose /\ t.gen \in 1 .. GenMax
          /\ Gap(t.gen, g) + May(t.n, n) <= n - t.for.call
          /\ t.gen = g => reactor.entries[t.n].to \in {Nobody, t.for}
      BY <1>5 DEF Later, Dated
    <2>2. /\ g \in 1 .. GenMax /\ h \in 1 .. GenMax
          /\ t.for.call \in 1 .. MaxCalls /\ n \in Nat /\ m \in Nat
          /\ m <= MaxCalls /\ MaxCalls \in Nat /\ GenMax \in Nat
      <3>1. reactor.entries[t.n] \in Entry /\ reactor'.entries[t.n] \in Entry
        BY <1>1, <2>1 DEF Record
      <3>2. t.for.call \in 1 .. MaxCalls
        BY <2>1 DEF Whose, Calls
      <3>3. n \in 0 .. MaxCalls /\ m \in 0 .. MaxCalls
        BY DEF InLine
      <3> QED
        BY <3>1, <3>2, <3>3, ReactorAssumption, ToolExecAssumption DEF Entry
    <2>3. May(t.n, n) \in {0, 1} /\ May(t.n, m)' \in {0, 1}
      BY DEF May
    <2>4. May(t.n, m)' + (IF t.n \in fs THEN 1 ELSE 0) <= May(t.n, n) + (m - n)
      BY <1>5
    <2>5. Gap(t.gen, g) \in Nat /\ (Gap(t.gen, h) = 0 <=> t.gen = h)
      BY <2>1, <2>2, GapNext
    <2>6. CASE AsWas(reactor, reactor', t.n)
      <3>1. h = g /\ reactor'.entries[t.n].to \in {Nobody, reactor.entries[t.n].to}
        BY <2>6 DEF AsWas
      <3>2. Gap(t.gen, h) + May(t.n, m)' <= m - t.for.call
        <4> HIDE DEF g, h
        <4> QED
          BY <2>1, <2>2, <2>3, <2>4, <2>5, <3>1
      <3> QED
        BY <2>1, <3>1, <3>2
    <2>7. CASE t.n \in fs /\ Renewed(reactor, reactor', t.n)
      <3>1. h = NextGen(g)
        BY <2>7 DEF Renewed
      <3> HIDE DEF g, h
      <3>2. Gap(t.gen, g) + 1 + May(t.n, m)' <= m - t.for.call
        BY <2>1, <2>2, <2>3, <2>4, <2>5, <2>7
      <3>3. Gap(t.gen, g) + 1 < GenMax
        BY <2>2, <2>3, <2>5, <3>2
      <3>4. Gap(t.gen, h) = Gap(t.gen, g) + 1
        BY <2>1, <2>2, <3>1, <3>3, GapNext
      <3>5. t.gen # h
        BY <2>5, <3>4
      <3> QED
        BY <2>1, <3>2, <3>4, <3>5 DEF h
    <2> QED
      BY <2>1, <2>6, <2>7 DEF Later
  <1>6. ASSUME NEW t \in reactor'.batch, t.kind # "fd"
        PROVE  /\ t.n < reactor'.nextId
               /\ \A w \in reactor'.watches : w.kind = t.kind /\ w.id = t.n => w.for = t.for
    <2>1. /\ t \in reactor.batch /\ t.n < reactor.nextId
          /\ \A w \in reactor.watches : w.kind = t.kind /\ w.id = t.n => w.for = t.for
      BY <1>6 DEF Later, Dated
    <2>2. t.n \in Nat /\ reactor.nextId \in Nat /\ reactor'.nextId \in Nat
      BY <1>1, <2>1 DEF Record, Token
    <2> QED
      BY <2>1, <2>2 DEF Later
  <1>7. \A t \in reactor'.batch : Dated(t, m)'
    BY <1>5, <1>6 DEF Dated
  <1>8. m \in 0 .. MaxCalls
    BY DEF InLine
  <1> QED
    BY <1>2, <1>3, <1>4, <1>7, <1>8 DEF Dates

-----------------------------------------------------------------------------
(* The actions                                                              *)

(* What is done to a call that nobody is done with is done to the last one. *)
LEMMA ActingIsLast ==
    ASSUME IInv, NEW n, InLine(n), NEW c \in Calls,
           call[c].state \in {"pending", "running"}, at # [phase |-> "done", call |-> c]
    PROVE  c = n
  BY DEF InLine, Calls

(* A step of the last call that registers nothing.                          *)
Keeps(k, c, f) ==
    /\ k.state = "pending" => call[c].state = "pending"
    /\ k.state = "running" /\ ~k.queued /\ k.fd["stdin"] = f =>
           call[c].state = "running" /\ ~call[c].queued /\ call[c].fd["stdin"] = f

LEMMA DatesCalm ==
    ASSUME MaxCalls <= GenMax, IInv, IInv', Dates, NEW c \in Calls, NEW k \in Call,
           call[c].state \in {"pending", "running"}, at # [phase |-> "done", call |-> c],
           k.state # "none", call' = [call EXCEPT ![c] = k],
           at' = at \/ at.phase # "done",
           Later(reactor, reactor', {}),
           \A t \in reactor'.batch : t.kind = "fd" => Keeps(k, c, t.n)
    PROVE  Dates'
  <1>1. PICK n \in 0 .. MaxCalls : InLine(n) /\ \A t \in reactor.batch : Dated(t, n)
    BY DEF Dates
  <1>2. c = n
    BY <1>1, ActingIsLast
  <1>3. \A d \in Calls : call'[d] = IF d = c THEN k ELSE call[d]
    BY DEF IInv, Types
  <1>4. InLine(n)'
    <2> SUFFICES ASSUME NEW d \in Calls
                 PROVE  /\ d > n => call'[d].state = "none"
                        /\ d <= n => call'[d].state # "none"
                        /\ d < n => \/ call'[d].state = "gone"
                                    \/ at' = [phase |-> "done", call |-> d]
      BY <1>1 DEF InLine
    <2>1. CASE d = c
      BY <1>2, <1>3, <2>1 DEF Calls
    <2>2. CASE d # c
      BY <1>1, <1>3, <2>2 DEF InLine
    <2> QED
      BY <2>1, <2>2
  <1>5. ASSUME NEW t \in reactor'.batch, t.kind = "fd"
        PROVE  May(t.n, n)' <= May(t.n, n)
    BY <1>2, <1>3, <1>5 DEF May, Keeps
  <1>6. \A t \in reactor'.batch : t.kind = "fd" =>
            May(t.n, n)' + (IF t.n \in {} THEN 1 ELSE 0) <= May(t.n, n) + (n - n)
    <2> SUFFICES ASSUME NEW t \in reactor'.batch, t.kind = "fd"
                 PROVE  May(t.n, n)' + 0 <= May(t.n, n) + (n - n)
      OBVIOUS
    <2>1. May(t.n, n)' \in {0, 1} /\ May(t.n, n) \in {0, 1} /\ n \in Nat
      BY <1>1 DEF May
    <2> QED
      BY <1>5, <2>1
  <1> QED
    BY <1>1, <1>4, <1>6, DatesStep

LEMMA HandledLater ==
    ASSUME IInv, NEW t \in reactor.batch
    PROVE  Whole(Handled(t)) /\ Later(reactor, Handled(t), {})
  <1>1. /\ Handled(t).entries = reactor.entries /\ Handled(t).epoll = reactor.epoll
        /\ Handled(t).batch = reactor.batch \ {t} /\ Handled(t).nextId = reactor.nextId
        /\ Handled(t).watches = reactor.watches
        /\ Handled(t).file = reactor.file /\ Handled(t).count = reactor.count
        /\ Handled(t) \in Record
    BY DEF Handled, IInv, Whole, Record
  <1>2. Whole(Handled(t))
    BY <1>1 DEF IInv, Whole, Agree, Counted, Registered, Tokens
  <1> QED
    BY <1>1, <1>2, SameLater DEF IInv, Whole

LEMMA SetTimeoutDates ==
    ASSUME MaxCalls <= GenMax, IInv, IInv', Dates, NEW c \in Calls, SetTimeout(c)
    PROVE  Dates'
  <1> DEFINE k == [call[c] EXCEPT !.timeout = TRUE]
  <1>1. /\ k \in Call /\ k.state = call[c].state /\ k.fd = call[c].fd
        /\ k.queued = call[c].queued
    BY Unmoved DEF Call
  <1>2. call' = [call EXCEPT ![c] = k]
    BY DEF SetTimeout, IInv, Types
  <1>3. Whole(reactor)
    BY DEF IInv
  <1>4. Later(reactor, reactor', {})
    BY <1>3, WatchLater, SameLater DEF SetTimeout, Whole
  <1> HIDE DEF k
  <1>5. /\ call[c].state \in {"pending", "running"} /\ Embedding(c) /\ at' = at
    BY DEF SetTimeout, Quiet
  <1> QED
    BY <1>1, <1>2, <1>4, <1>5, DatesCalm DEF Keeps, Embedding

LEMMA WriteStdinDates ==
    ASSUME MaxCalls <= GenMax, IInv, IInv', Dates, NEW c \in Calls, WriteStdin(c)
    PROVE  Dates'
  <1> DEFINE k == [call[c] EXCEPT !.queued = TRUE]
             f == call[c].fd["stdin"]
  <1>1. PICK n \in 0 .. MaxCalls : InLine(n) /\ \A t \in reactor.batch : Dated(t, n)
    BY DEF Dates
  <1>2. /\ call[c] \in Call /\ call[c].state = "running" /\ ~call[c].queued
        /\ Embedding(c) /\ UNCHANGED at
        /\ call' = [call EXCEPT ![c] = k]
        /\ reactor' = Add(reactor, f, End(c, "stdin"))
    BY Unmoved DEF WriteStdin, IInv, Types, Quiet
  <1>3. k.state = "running" /\ k.queued
    BY <1>2 DEF Call
  <1>4. f \in Fds
    BY <1>2 DEF WriteStdin, Call, Ends
  <1> HIDE DEF k, f
  <1>5. c = n
    BY <1>1, <1>2, ActingIsLast DEF Embedding
  <1>6. \A d \in Calls : call'[d] = IF d = c THEN k ELSE call[d]
    BY <1>2 DEF IInv, Types
  <1>7. InLine(n)'
    BY <1>1, <1>2, <1>3, <1>5, <1>6 DEF InLine
  <1>8. Later(reactor, reactor', {f})
    BY <1>2, <1>4, AddLater DEF IInv, Whole
  <1>9. ASSUME NEW t \in reactor'.batch, t.kind = "fd"
        PROVE  May(t.n, n)' + (IF t.n \in {f} THEN 1 ELSE 0) <= May(t.n, n) + (n - n)
    <2>1. May(t.n, n)' = 0
      BY <1>3, <1>5, <1>6 DEF May
    <2>2. t.n = f => May(t.n, n) = 1
      BY <1>2, <1>5 DEF May, f
    <2>3. May(t.n, n) \in {0, 1} /\ n \in Nat
      BY MayIsOne
    <2> QED
      BY <2>1, <2>2, <2>3
  <1> QED
    BY <1>1, <1>7, <1>8, <1>9, DatesStep

LEMMA CloseStdinDates ==
    ASSUME MaxCalls <= GenMax, IInv, IInv', Dates, NEW c \in Calls, CloseStdin(c)
    PROVE  Dates'
  <1>1. /\ call[c] \in Call /\ call[c].state = "running" /\ Embedding(c) /\ UNCHANGED at
        /\ call[c].fd["stdin"] \in Fds /\ Whole(reactor)
    BY Unmoved DEF CloseStdin, Quiet, Call, Ends, IInv
  <1>2. CASE call[c].queued
    <2> DEFINE k == [call[c] EXCEPT !.closePending = TRUE]
    <2>1. /\ k \in Call /\ k.state = call[c].state /\ k.fd = call[c].fd
          /\ k.queued = call[c].queued
      BY <1>1 DEF Call
    <2>2. call' = [call EXCEPT ![c] = k] /\ reactor' = reactor
      BY <1>2 DEF CloseStdin, IInv, Types
    <2> HIDE DEF k
    <2>3. Later(reactor, reactor', {})
      BY <1>1, <2>2, SameLater DEF Whole
    <2> QED
      BY <1>1, <2>1, <2>2, <2>3, DatesCalm DEF Keeps, Embedding
  <1>3. CASE ~call[c].queued
    <2> DEFINE k == [call[c] EXCEPT !.fd["stdin"] = 0]
    <2>1. /\ k \in Call /\ k.state = "running" /\ k.fd["stdin"] = 0
      BY <1>1 DEF Call, Ends
    <2>2. /\ call' = [call EXCEPT ![c] = k]
          /\ reactor' = Close(reactor, call[c].fd["stdin"])
      BY <1>3 DEF CloseStdin, IInv, Types
    <2> HIDE DEF k
    <2>3. Later(reactor, reactor', {})
      BY <1>1, <2>2, CloseLater DEF Whole
    <2>4. \A t \in reactor'.batch : t.kind = "fd" => t.n # 0
      BY EndsDiffer DEF IInv, Whole, Tokens
    <2> QED
      BY <1>1, <2>1, <2>2, <2>3, <2>4, DatesCalm DEF Keeps, Embedding
  <1> QED
    BY <1>2, <1>3

LEMMA CancelDates ==
    ASSUME MaxCalls <= GenMax, IInv, IInv', Dates, NEW c \in Calls, Cancel(c)
    PROVE  Dates'
  <1> DEFINE k == Freed(call[c])
  <1>1. /\ k \in Call /\ k.state = "gone"
    BY DEF Freed, NoCall, Call
  <1>2. /\ call[c].state \in {"pending", "running"} /\ Embedding(c)
        /\ call' = [call EXCEPT ![c] = k]
        /\ reactor' = reactor \/ reactor' = Released(reactor, c)
        /\ at' = at \/ at.phase = "output"
    BY DEF Cancel, IInv, Types, Go
  <1> HIDE DEF k
  <1>3. Later(reactor, reactor', {})
    BY <1>2, ReleasedLater, SameLater DEF IInv, Whole
  <1> QED
    BY <1>1, <1>2, <1>3, DatesCalm DEF Keeps, Embedding

LEMMA FreeDoneDates ==
    ASSUME MaxCalls <= GenMax, IInv, IInv', Dates, FreeDone
    PROVE  Dates'
  <1>1. PICK n \in 0 .. MaxCalls : InLine(n) /\ \A t \in reactor.batch : Dated(t, n)
    BY DEF Dates
  <1>2. PICK c \in Calls : c = at.call
    BY DEF FreeDone, IInv, Stands
  <1> DEFINE k == Freed(call[c])
  <1>3. k.state = "gone"
    BY DEF Freed, NoCall
  <1>4. /\ at.phase = "done" /\ call[c].state = "running" /\ at = [phase |-> "done", call |-> c]
        /\ call' = [call EXCEPT ![c] = k] /\ reactor' = Released(reactor, c)
    BY <1>2 DEF FreeDone, IInv, Types, Stands, Place
  <1> HIDE DEF k
  <1>5. \A d \in Calls : call'[d] = IF d = c THEN k ELSE call[d]
    BY <1>4 DEF IInv, Types
  <1>6. c <= n
    BY <1>1, <1>4 DEF InLine, Calls
  <1>7. InLine(n)'
    <2> SUFFICES ASSUME NEW d \in Calls
                 PROVE  /\ d > n => call'[d].state = "none"
                        /\ d <= n => call'[d].state # "none"
                        /\ d < n => call'[d].state = "gone"
      BY <1>1 DEF InLine
    <2>1. CASE d = c
      BY <1>3, <1>5, <1>6, <2>1 DEF Calls
    <2>2. CASE d # c
      BY <1>1, <1>4, <1>5, <2>2 DEF InLine
    <2> QED
      BY <2>1, <2>2
  <1>8. Later(reactor, reactor', {})
    BY <1>4, ReleasedLater
  <1>9. ASSUME NEW t \in reactor'.batch, t.kind = "fd"
        PROVE  May(t.n, n)' + (IF t.n \in {} THEN 1 ELSE 0) <= May(t.n, n) + (n - n)
    <2>1. May(t.n, n)' = 0 \/ May(t.n, n)' = May(t.n, n)
      BY <1>3, <1>5 DEF May
    <2>2. May(t.n, n) \in {0, 1} /\ n \in Nat
      BY MayIsOne
    <2> QED
      BY <2>1, <2>2
  <1> QED
    BY <1>1, <1>7, <1>8, <1>9, DatesStep

(* The next call is refused, staged or spawned, or a staged one is.         *)
LEMMA StartDates ==
    ASSUME MaxCalls <= GenMax, IInv, IInv', Dates, NEW c \in Calls,
           Start(c) \/ Resolve(c)
    PROVE  Dates'
  <1>1. PICK n \in 0 .. MaxCalls : InLine(n) /\ \A t \in reactor.batch : Dated(t, n)
    BY DEF Dates
  <1>2. /\ at' = at /\ Whole(reactor) /\ call[c] \in Call /\ call \in [Calls -> Call]
        /\ Embedding(c)
    BY Unmoved DEF Start, Resolve, Quiet, IInv, Types
  <1>3. \/ /\ call[c].state = "none"
           /\ n = c - 1
           /\ \A d \in Calls : d > c => call[d].state = "none"
           /\ \A d \in Calls : d < c =>
                 call[d].state = "gone" \/ at = [phase |-> "done", call |-> d]
        \/ call[c].state = "pending" /\ n = c
    <2>1. CASE Start(c)
      <3>1. /\ call[c].state = "none" /\ c > n
            /\ \A d \in Calls : d > c => call[d].state = "none"
            /\ \A d \in Calls : d < c =>
                  call[d].state = "gone" \/ at = [phase |-> "done", call |-> d]
        BY <1>1, <2>1 DEF Start, IsNext, InLine, Calls
      <3>2. \A d \in Calls : at = [phase |-> "done", call |-> d] =>
                call[d].state = "running"
        BY DEF IInv, Stands
      <3>3. n < c - 1 => FALSE
        <4>1. SUFFICES ASSUME n < c - 1 PROVE FALSE
          OBVIOUS
        <4>2. n + 1 \in Calls /\ n + 1 < c /\ n + 1 > n
          BY <4>1, ToolExecAssumption DEF Calls
        <4>3. call[n + 1].state = "none"
          BY <1>1, <4>2 DEF InLine
        <4> QED
          BY <3>1, <3>2, <4>2, <4>3
      <3> QED
        BY <3>1, <3>3 DEF Calls
    <2>2. CASE Resolve(c)
      BY <1>1, <1>2, <2>2, ActingIsLast DEF Resolve, Embedding
    <2> QED
      BY <2>1, <2>2
  <1>4. c \in {n, n + 1} /\ n \in Nat /\ c \in Nat
    BY <1>3 DEF Calls
  <1>5. \A f : May(f, n) + (c - n) >= 1
    <2>1. CASE n = c - 1
      BY <1>4, <2>1, MayIsOne
    <2>2. CASE n = c /\ call[c].state = "pending"
      BY <1>4, <2>2 DEF May
    <2> QED
      BY <1>3, <2>1, <2>2
  <1>6. ASSUME NEW k \in Call, k.state # "none", call' = [call EXCEPT ![c] = k]
        PROVE  InLine(c)' /\ call'[c] = k
    <2>1. \A d \in Calls : call'[d] = IF d = c THEN k ELSE call[d]
      BY <1>2, <1>6
    <2>2. CASE n = c /\ call[c].state = "pending"
      BY <1>1, <1>2, <1>6, <2>1, <2>2 DEF InLine
    <2>3. CASE n = c - 1
      <3> SUFFICES ASSUME NEW d \in Calls
                   PROVE  /\ d > c => call'[d].state = "none"
                          /\ d <= c => call'[d].state # "none"
                          /\ d < c => \/ call'[d].state = "gone"
                                      \/ at = [phase |-> "done", call |-> d]
        BY <1>2, <1>6, <2>1 DEF InLine, Calls
      <3>1. d < c => d <= n
        BY <1>4, <2>3 DEF Calls
      <3>2. d <= n => call[d].state # "none"
        BY <1>1 DEF InLine
      <3>3. d \in Nat /\ c \in Nat
        BY DEF Calls
      <3> QED
        BY <1>3, <1>4, <1>6, <2>1, <2>3, <3>1, <3>2, <3>3
    <2> QED
      BY <1>3, <2>1, <2>2, <2>3
  <1>7. ASSUME NEW st \in {"gone", "pending"},
               call' = [call EXCEPT ![c].state = st], UNCHANGED reactor
        PROVE  Dates'
    <2> DEFINE k == [call[c] EXCEPT !.state = st]
    <2>1. k \in Call /\ k.state # "none" /\ call' = [call EXCEPT ![c] = k]
      BY <1>2, <1>7 DEF Call
    <2>2. InLine(c)'
      BY <1>6, <2>1
    <2>3. Later(reactor, reactor', {})
      BY <1>2, <1>7, SameLater DEF Whole
    <2>4. ASSUME NEW t \in reactor'.batch, t.kind = "fd"
          PROVE  May(t.n, c)' + (IF t.n \in {} THEN 1 ELSE 0) <= May(t.n, n) + (c - n)
      <3>1. May(t.n, c)' \in {0, 1}
        BY DEF May
      <3>2. May(t.n, n) \in {0, 1}
        BY MayIsOne
      <3> QED
        BY <1>4, <1>5, <3>1, <3>2
    <2> QED
      BY <1>1, <1>4, <2>2, <2>3, <2>4, DatesStep
  <1>8. CASE Spawn(c)
    <2>1. PICK kept \in Kept :
              /\ reactor' = Spawned(c, kept)
              /\ call' = [call EXCEPT ![c].state = "running", ![c].fd = kept]
      BY <1>8 DEF Spawn
    <2> DEFINE k == [call[c] EXCEPT !.state = "running", !.fd = kept]
               fs == {kept["stdout"], kept["err"]}
    <2>2. Ready3(c, kept)
      BY KeptIsReady
    <2>3. /\ k \in Call /\ k.state = "running" /\ k.fd = kept
          /\ call' = [call EXCEPT ![c] = k]
      <3>1. kept \in [Ends -> Fds \cup {0}]
        BY <2>2 DEF Ready3
      <3> QED
        BY <1>2, <2>1, <3>1 DEF Call
    <2> HIDE DEF k
    <2>4. InLine(c)' /\ call'[c] = k
      BY <1>6, <2>3
    <2>5. Later(reactor, reactor', fs)
      BY <1>2, <2>1, <2>2, SpawnLater
    <2>6. kept["stdin"] \notin fs
      BY <2>2 DEF Ready3, Ends
    <2>7. ASSUME NEW t \in reactor'.batch, t.kind = "fd"
          PROVE  May(t.n, c)' + (IF t.n \in fs THEN 1 ELSE 0) <= May(t.n, n) + (c - n)
      <3>1. May(t.n, c)' \in {0, 1} /\ (t.n \in fs => May(t.n, c)' = 0)
        BY <2>3, <2>4, <2>6 DEF May
      <3>2. May(t.n, n) \in {0, 1}
        BY MayIsOne
      <3> QED
        BY <1>4, <1>5, <3>1, <3>2
    <2> QED
      BY <1>1, <1>4, <2>4, <2>5, <2>7, DatesStep
  <1>9. CASE SpawnFails(c)
    <2> DEFINE k == [call[c] EXCEPT !.state = "gone"]
    <2>1. k \in Call /\ k.state = "gone" /\ call' = [call EXCEPT ![c] = k]
      BY <1>2, <1>9 DEF SpawnFails, Call
    <2> HIDE DEF k
    <2>2. InLine(c)' /\ call'[c] = k
      BY <1>6, <2>1
    <2>3. \E fs : Later(reactor, reactor', fs)
      <3>1. CASE UNCHANGED reactor
        BY <1>2, <3>1, SameLater DEF Whole
      <3>2. CASE ~UNCHANGED reactor
        <4>1. PICK kept \in Kept :
                \E r \in {Opened(c, kept), WithStdout(c, kept), WithErr(c, kept),
                          WithProcess(c, kept)} :
                    reactor' = Undone(c, kept, r)
          BY <1>9, <3>2 DEF SpawnFails
        <4>2. PICK r \in {Opened(c, kept), WithStdout(c, kept), WithErr(c, kept),
                          WithProcess(c, kept)} :
                  reactor' = Undone(c, kept, r)
          BY <4>1
        <4>3. Ready3(c, kept)
          BY KeptIsReady
        <4>4. Whole(r)
          BY <1>2, <4>2, <4>3, SpawnStages DEF Spawning
        <4>5. Later(reactor, r, {kept["stdout"], kept["err"]})
          BY <1>2, <4>2, <4>3, SpawnLater
        <4> QED
          BY <1>2, <4>2, <4>3, <4>4, <4>5, UndoneLater
      <3> QED
        BY <3>1, <3>2
    <2>4. PICK fs : Later(reactor, reactor', fs)
      BY <2>3
    <2>5. ASSUME NEW t \in reactor'.batch, t.kind = "fd"
          PROVE  May(t.n, c)' + (IF t.n \in fs THEN 1 ELSE 0) <= May(t.n, n) + (c - n)
      <3>1. May(t.n, c)' = 0
        BY <2>1, <2>2 DEF May
      <3>2. May(t.n, n) \in {0, 1}
        BY MayIsOne
      <3> QED
        BY <1>4, <1>5, <3>1, <3>2
    <2> QED
      BY <1>1, <1>4, <2>2, <2>4, <2>5, DatesStep
  <1> QED
    BY <1>7, <1>8, <1>9 DEF Start, Resolve

(* The handlers.  A token that is handled leaves the batch, and with it the *)
(* only one there is of its descriptor.                                     *)
LEMMA DatesHandled ==
    ASSUME MaxCalls <= GenMax, IInv, IInv', Dates, NEW c \in Calls, NEW k \in Call,
           call[c].state = "running", at.phase # "done", k.state = "running",
           call' = [call EXCEPT ![c] = k], Later(reactor, reactor', {}),
           \A t \in reactor'.batch :
               t.kind = "fd" /\ ~k.queued /\ k.fd["stdin"] = t.n =>
                   ~call[c].queued /\ call[c].fd["stdin"] = t.n
    PROVE  Dates'
  <1>1. at # [phase |-> "done", call |-> c]
    OBVIOUS
  <1>2. \A t \in reactor'.batch : t.kind = "fd" => Keeps(k, c, t.n)
    BY DEF Keeps
  <1> QED
    BY <1>1, <1>2, DatesCalm

LEMMA ReadNothingDates ==
    ASSUME MaxCalls <= GenMax, IInv, IInv', Dates, NEW c \in Calls, ReadNothing(c)
    PROVE  Dates'
  <1> DEFINE k == [call[c] EXCEPT !.fd["stdout"] = 0, !.eof = TRUE]
  <1>1. /\ at = [phase |-> "reading", call |-> c] /\ call[c].state = "running"
        /\ call[c] \in Call /\ Whole(reactor) /\ call \in [Calls -> Call]
    BY Unmoved DEF ReadNothing, IInv, Stands, Types
  <1>2. CASE UNCHANGED <<reactor, call>>
    <2>1. call' = [call EXCEPT ![c] = call[c]]
      BY <1>1, <1>2
    <2>2. Later(reactor, reactor', {})
      BY <1>1, <1>2, SameLater DEF Whole
    <2> QED
      BY <1>1, <2>1, <2>2, DatesHandled
  <1>3. CASE ~UNCHANGED <<reactor, call>>
    <2>1. /\ call' = [call EXCEPT ![c] = k]
          /\ reactor' = RemoveClose(reactor, call[c].fd["stdout"])
      BY <1>3 DEF ReadNothing, Settle
    <2>2. /\ k \in Call /\ k.state = "running" /\ k.queued = call[c].queued
          /\ k.fd["stdin"] = call[c].fd["stdin"] /\ call[c].fd["stdout"] \in Fds \cup {0}
      BY <1>1 DEF Call, Ends
    <2> HIDE DEF k
    <2>3. Later(reactor, reactor', {})
      BY <1>1, <2>1, <2>2, RemoveCloseLater
    <2> QED
      BY <1>1, <2>1, <2>2, <2>3, DatesHandled
  <1> QED
    BY <1>2, <1>3

LEMMA ReadingDates ==
    ASSUME MaxCalls <= GenMax, IInv, IInv', Dates, NEW c \in Calls,
           OnStdout(c) \/ ReadSome(c) \/ OutputReturns(c)
    PROVE  Dates'
  <1>1. /\ call \in [Calls -> Call] /\ call[c] \in Call /\ Whole(reactor)
        /\ at.phase # "done" /\ UNCHANGED call
    BY Unmoved DEF OnStdout, ReadSome, OutputReturns, Event, IInv, Types
  <1>2. call[c].state = "running"
    <2>1. CASE OnStdout(c)
      <3>1. PICK t \in reactor.batch : Event(t, "fd", End(c, "stdout"))
        BY <2>1 DEF OnStdout
      <3> QED
        BY <3>1, EventOwner DEF Ends
    <2>2. CASE ReadSome(c) \/ OutputReturns(c)
      BY <2>2 DEF ReadSome, OutputReturns, IInv, Stands
    <2> QED
      BY <2>1, <2>2
  <1>3. Later(reactor, reactor', {})
    <2>1. (\E t \in reactor.batch : reactor' = Handled(t)) \/ reactor' = reactor
      BY DEF OnStdout, ReadSome, OutputReturns
    <2> QED
      BY <1>1, <2>1, HandledLater, SameLater DEF Whole
  <1>4. call' = [call EXCEPT ![c] = call[c]]
    BY <1>1
  <1> QED
    BY <1>1, <1>2, <1>3, <1>4, DatesHandled

LEMMA OnErrDates ==
    ASSUME MaxCalls <= GenMax, IInv, IInv', Dates, NEW c \in Calls, OnErr(c)
    PROVE  Dates'
  <1> DEFINE k == [call[c] EXCEPT !.fd["err"] = 0,
                          !.execFailed = @ \/ child[c].notice = "errno"]
             s(t) == RemoveClose(Handled(t), call[c].fd["err"])
  <1>1. PICK t \in reactor.batch :
            Event(t, "fd", End(c, "err")) /\ Settle(c, k, s(t))
    BY DEF OnErr
  <1>2. /\ call[c] \in Call /\ call[c].state = "running" /\ at.phase = "loop"
        /\ call' = [call EXCEPT ![c] = k] /\ reactor' = s(t)
    BY <1>1, Unmoved, EventOwner DEF Settle, Event, Ends
  <1>3. /\ k \in Call /\ k.state = "running" /\ k.queued = call[c].queued
        /\ k.fd["stdin"] = call[c].fd["stdin"] /\ call[c].fd["err"] \in Fds \cup {0}
    BY <1>2 DEF Call, Ends
  <1> HIDE DEF k
  <1>4. Whole(Handled(t)) /\ Later(reactor, Handled(t), {}) /\ Whole(reactor)
    BY HandledLater DEF IInv
  <1>5. Whole(s(t)) /\ Later(Handled(t), s(t), {})
    BY <1>3, <1>4, RemoveCloseKeeps, RemoveCloseLater
  <1>6. Later(reactor, reactor', {})
    BY <1>2, <1>4, <1>5, LaterStill
  <1> QED
    BY <1>2, <1>3, <1>6, DatesHandled

LEMMA OnStdinDates ==
    ASSUME MaxCalls <= GenMax, IInv, IInv', Dates, NEW c \in Calls, OnStdin(c)
    PROVE  Dates'
  <1> DEFINE f == call[c].fd["stdin"]
             sent == [call[c] EXCEPT !.queued = FALSE]
             shut == [call[c] EXCEPT !.queued = FALSE, !.fd["stdin"] = 0,
                                     !.closePending = FALSE]
  <1>1. PICK t \in reactor.batch :
            /\ Event(t, "fd", End(c, "stdin"))
            /\ \/ /\ reactor' = Remove(Handled(t), f)
                  /\ call' = [call EXCEPT ![c].queued = FALSE]
               \/ /\ reactor' = RemoveClose(Handled(t), f)
                  /\ call' = [call EXCEPT ![c].queued = FALSE, ![c].fd["stdin"] = 0,
                                          ![c].closePending = FALSE]
               \/ reactor' = Handled(t) /\ UNCHANGED call
    BY DEF OnStdin
  <1>2. /\ call[c] \in Call /\ call[c].state = "running" /\ at.phase = "loop"
        /\ UNCHANGED at /\ call \in [Calls -> Call] /\ f \in Fds
    BY <1>1, Unmoved, EventOwner DEF OnStdin, Event, Ends, IInv, Types
  <1>3. Whole(Handled(t)) /\ Later(reactor, Handled(t), {}) /\ Whole(reactor)
    BY HandledLater DEF IInv
  <1>4. /\ Whole(Remove(Handled(t), f)) /\ Whole(RemoveClose(Handled(t), f))
        /\ Later(Handled(t), Remove(Handled(t), f), {})
        /\ Later(Handled(t), RemoveClose(Handled(t), f), {})
    BY <1>2, <1>3, RemoveKeeps, RemoveCloseKeeps, RemoveLater, RemoveCloseLater DEF Whole
  <1>5. Later(reactor, reactor', {})
    BY <1>1, <1>3, <1>4, LaterStill
  <1>6. t.kind = "fd" /\ t.n = f
    <2>1. /\ t.kind = "fd" /\ t.n \in Fds
          /\ reactor.entries[t.n].to = End(c, "stdin")
      BY <1>1 DEF Event, Receiver, IInv, Whole, Tokens
    <2>2. reactor.entries[t.n].to # Nobody
      BY <2>1, EndsDiffer DEF Ends
    <2>3. reactor.file[t.n] = End(c, "stdin")
      BY <2>1, <2>2 DEF IInv, Whole, Agree
    <2> QED
      BY <2>1, <2>3 DEF IInv, Owned, Ends
  <1>7. reactor'.batch = reactor.batch \ {t}
    <2>1. Handled(t).batch = reactor.batch \ {t}
      BY <1>3 DEF Handled, Whole, Record
    <2>2. /\ Beside(Remove(Handled(t), f), Handled(t))
          /\ Beside(RemoveClose(Handled(t), f), Handled(t))
      BY <1>2, <1>3, RemoveKeeps, RemoveCloseKeeps
    <2> QED
      BY <1>1, <2>1, <2>2 DEF Beside
  <1>8. \A u \in reactor'.batch : u.kind = "fd" => u.n # f
    BY <1>6, <1>7 DEF Dates, OneEach
  <1>9. ASSUME NEW k \in Call, k.state = "running", call' = [call EXCEPT ![c] = k],
               k.fd["stdin"] \in {f, 0}
        PROVE  Dates'
    <2>1. \A u \in reactor'.batch : u.kind = "fd" => u.n # 0
      BY EndsDiffer DEF IInv, Whole, Tokens
    <2>2. \A u \in reactor'.batch : u.kind = "fd" => k.fd["stdin"] # u.n
      BY <1>8, <1>9, <2>1, Zenon
    <2>3. at.phase # "done"
      BY <1>2
    <2> HIDE DEF f
    <2> QED
      BY <1>2, <1>5, <1>9, <2>2, <2>3, DatesHandled
  <1>10. /\ sent \in Call /\ sent.state = "running" /\ sent.fd["stdin"] = f
         /\ shut \in Call /\ shut.state = "running" /\ shut.fd["stdin"] = 0
    BY <1>2 DEF Call, Ends
  <1>11. \/ call' = [call EXCEPT ![c] = sent]
         \/ call' = [call EXCEPT ![c] = shut]
         \/ call' = [call EXCEPT ![c] = call[c]]
    BY <1>1, <1>2
  <1> QED
    BY <1>2, <1>9, <1>10, <1>11

LEMMA OnProcessDates ==
    ASSUME MaxCalls <= GenMax, IInv, IInv', Dates, NEW c \in Calls, OnProcess(c)
    PROVE  Dates'
  <1> DEFINE k == [call[c] EXCEPT !.exited = TRUE]
             s(t) == Unwatch(Handled(t), "process", Own(c))
  <1>1. PICK t \in reactor.batch :
            Event(t, "process", Own(c)) /\ Settle(c, k, s(t))
    BY DEF OnProcess
  <1>2. /\ call[c] \in Call /\ call[c].state = "running" /\ at.phase = "loop"
        /\ call' = [call EXCEPT ![c] = k] /\ reactor' = s(t)
    BY <1>1, Unmoved, EventOwner DEF Settle, Event
  <1>3. /\ k \in Call /\ k.state = "running" /\ k.queued = call[c].queued
        /\ k.fd = call[c].fd
    BY <1>2 DEF Call
  <1> HIDE DEF k
  <1>4. Whole(Handled(t)) /\ Later(reactor, Handled(t), {}) /\ Whole(reactor)
    BY HandledLater DEF IInv
  <1>5. Whole(s(t)) /\ Later(Handled(t), s(t), {})
    BY <1>4, UnwatchKeeps, UnwatchLater
  <1>6. Later(reactor, reactor', {})
    BY <1>2, <1>4, <1>5, LaterStill
  <1> QED
    BY <1>2, <1>3, <1>6, DatesHandled

LEMMA OnTimeoutDates ==
    ASSUME MaxCalls <= GenMax, IInv, IInv', Dates, NEW c \in Calls, OnTimeout(c)
    PROVE  Dates'
  <1> DEFINE k == [IoClosed(call[c]) EXCEPT !.timedOut = TRUE]
             u(t) == Unwatch(Handled(t), "timer", Own(c))
             s(t) == CloseIo(u(t), call[c])
  <1>1. PICK t \in reactor.batch :
            Event(t, "timer", Own(c)) /\ Settle(c, k, s(t))
    BY DEF OnTimeout
  <1>2. /\ call[c] \in Call /\ call[c].state = "running" /\ at.phase = "loop"
        /\ call' = [call EXCEPT ![c] = k] /\ reactor' = s(t)
    BY <1>1, Unmoved, EventOwner DEF Settle, Event
  <1>3. k \in Call /\ k.state = "running" /\ k.fd["stdin"] = 0
    BY <1>2 DEF Call, IoClosed, Ends
  <1> HIDE DEF k
  <1>4. Whole(Handled(t)) /\ Later(reactor, Handled(t), {}) /\ Whole(reactor)
    BY HandledLater DEF IInv
  <1>5. Whole(u(t)) /\ Later(Handled(t), u(t), {})
    BY <1>4, UnwatchKeeps, UnwatchLater
  <1> HIDE DEF u
  <1>6. Whole(s(t)) /\ Later(u(t), s(t), {})
    BY <1>2, <1>5, CloseIoLater
  <1> HIDE DEF s
  <1>7. Later(reactor, reactor', {})
    BY <1>2, <1>4, <1>5, <1>6, LaterStill
  <1>8. \A x \in reactor'.batch : x.kind = "fd" => x.n # 0
    BY EndsDiffer DEF IInv, Whole, Tokens
  <1> QED
    BY <1>2, <1>3, <1>7, <1>8, DatesHandled

-----------------------------------------------------------------------------
(* The tokens of a new batch are of registrations that stand.               *)
LEMMA PollDates ==
    ASSUME IInv, IInv', Dates, Step, Poll(Ready)
    PROVE  Dates'
  <1>1. PICK n \in 0 .. MaxCalls : InLine(n)
    BY DEF Dates
  <1>2. /\ UNCHANGED <<call, at>> /\ at.phase = "loop"
        /\ reactor' = [reactor EXCEPT !.batch = Ready] /\ reactor \in Record
    BY DEF Step, Poll, IInv, Whole
  <1>3. /\ reactor'.entries = reactor.entries /\ reactor'.epoll = reactor.epoll
        /\ reactor'.watches = reactor.watches /\ reactor'.nextId = reactor.nextId
        /\ reactor'.batch = Ready
    BY <1>2 DEF Record
  <1>4. Ids(reactor') /\ Stamped(reactor') /\ InLine(n)'
    BY <1>1, <1>2, <1>3 DEF Dates, Ids, Stamped, InLine
  <1>5. \A t \in Ready :
            \/ \E f \in Fds : reactor.epoll[f] # 0 /\ t = FdToken(reactor, f)
            \/ \E w \in reactor.watches : t = WatchToken(w)
    <2> DEFINE Due(g) == LET c == reactor.file[g].call IN
                  CASE reactor.file[g].end = "stdin"  -> TRUE
                    [] reactor.file[g].end = "stdout" ->
                           got[c] < child[c].wrote \/ ~Writers(c)
                    [] reactor.file[g].end = "err"    -> child[c].notice # "wait"
               Up(w) == IF w.kind = "timer" THEN child[w.for.call].due
                        ELSE child[w.for.call].life = "zombie"
    <2>1. Ready = {FdToken(reactor, f) : f \in {g \in Fds : reactor.epoll[g] # 0 /\ Due(g)}}
                  \cup {WatchToken(w) : w \in {x \in reactor.watches : Up(x)}}
      BY Zenon DEF Ready
    <2> HIDE DEF Due, Up
    <2> QED
      BY <2>1
  <1>6. \A w \in reactor.watches : w.kind # "fd"
    BY <1>2 DEF Record, Watched
  <1>7. OneEach(Ready)
    BY <1>5, <1>6 DEF OneEach, FdToken, WatchToken
  <1>8. ASSUME NEW t \in Ready PROVE Dated(t, n)'
    <2>1. CASE \E w \in reactor.watches : t = WatchToken(w)
      <3>1. PICK w \in reactor.watches : t = WatchToken(w)
        BY <2>1
      <3>2. t.kind = w.kind /\ t.kind # "fd" /\ t.n = w.id /\ t.for = w.for
        BY <1>6, <3>1 DEF WatchToken
      <3>3. w.id < reactor.nextId
        BY DEF IInv, Whole, Counted
      <3>4. \A v \in reactor.watches : v.id = w.id => v = w
        BY DEF Dates, Ids
      <3> QED
        BY <1>3, <3>2, <3>3, <3>4 DEF Dated
    <2>2. CASE \E f \in Fds : reactor.epoll[f] # 0 /\ t = FdToken(reactor, f)
      <3>1. PICK f \in Fds : reactor.epoll[f] # 0 /\ t = FdToken(reactor, f)
        BY <2>2
      <3>2. t.kind = "fd" /\ t.n = f /\ t.gen = reactor.epoll[f] /\ t.for = reactor.file[f]
        BY <3>1 DEF FdToken
      <3>3. t.gen = reactor.entries[f].gen /\ t.gen \in 1 .. GenMax
        BY <1>2, <3>1, <3>2 DEF Dates, Stamped, Record, Entry
      <3>4. reactor.entries[f].to = t.for /\ t.for \in Whose
        BY <1>2, <3>1, <3>2 DEF IInv, Whole, Agree, Record
      <3>5. PICK c \in Calls, e \in Ends : t.for = End(c, e)
        BY <3>4, EndsDiffer DEF Whose
      <3>6. t.for.call = c /\ call[c].fd[e] = f /\ call[c].state = "running"
        <4>1. reactor.file[f] = End(c, e) /\ f # 0
          BY <3>2, <3>5, EndsDiffer
        <4>2. call[c].fd[e] = f /\ call[c].state = "running"
          BY <4>1 DEF IInv, Owned
        <4> QED
          BY <3>5, <4>2 DEF End
      <3>7. c = n
        BY <1>1, <1>2, <3>6, ActingIsLast
      <3>8. May(f, n) = 0
        <4>1. call[c].fd["stdin"] = f => call[c].queued
          BY <3>1, EndsDiffer DEF IInv, Owned
        <4> QED
          BY <3>6, <3>7, <4>1 DEF May
      <3>9. May(f, n)' = 0
        BY <1>2, <3>8 DEF May
      <3>10. Gap(t.gen, reactor'.entries[f].gen) + May(f, n)' <= n - t.for.call
        <4>1. reactor.entries[f].gen \in 1 .. GenMax
          BY <1>2 DEF Record, Entry
        <4>2. Gap(t.gen, reactor'.entries[f].gen) = 0
          BY <1>3, <3>3, <4>1, GapNext
        <4> QED
          BY <3>6, <3>7, <3>9, <4>2
      <3> QED
        BY <1>3, <3>2, <3>3, <3>4, <3>10 DEF Dated
    <2> QED
      BY <1>5, <2>1, <2>2
  <1> QED
    BY <1>1, <1>3, <1>4, <1>7, <1>8 DEF Dates

LEMMA UntouchedDates ==
    ASSUME MaxCalls <= GenMax, IInv, IInv', Dates, UNCHANGED <<call, at>>,
           Later(reactor, reactor', {})
    PROVE  Dates'
  <1>1. PICK n \in 0 .. MaxCalls : InLine(n) /\ \A t \in reactor.batch : Dated(t, n)
    BY DEF Dates
  <1>2. InLine(n)'
    BY <1>1 DEF InLine
  <1>3. \A f : May(f, n)' = May(f, n)
    BY DEF May
  <1>4. ASSUME NEW t \in reactor'.batch, t.kind = "fd"
        PROVE  May(t.n, n)' + (IF t.n \in {} THEN 1 ELSE 0) <= May(t.n, n) + (n - n)
    <2>1. May(t.n, n) \in {0, 1} /\ n \in Nat
      BY MayIsOne
    <2> QED
      BY <1>3, <2>1
  <1> QED
    BY <1>1, <1>2, <1>4, DatesStep

LEMMA StepDates ==
    ASSUME MaxCalls <= GenMax, IInv, IInv', Dates, Step
    PROVE  Dates'
  <1>1. CASE PassOver
    <2>1. PICK t \in reactor.batch : reactor' = Handled(t)
      BY <1>1 DEF PassOver
    <2>2. Later(reactor, reactor', {}) /\ UNCHANGED <<call, at>>
      BY <2>1, HandledLater DEF Step
    <2> QED
      BY <2>2, UntouchedDates
  <1>2. CASE Poll(Ready)
    BY <1>2, PollDates
  <1> QED
    BY <1>1, <1>2 DEF Step

LEMMA NextDates ==
    ASSUME MaxCalls <= GenMax
    PROVE  IInv /\ Dates /\ [Next]_vars => Dates'
  <1> SUFFICES ASSUME IInv, Dates, [Next]_vars PROVE Dates'
    OBVIOUS
  <1>1. IInv'
    BY NextIInv
  <1>2. ASSUME reactor' = reactor, UNCHANGED <<call, at>> PROVE Dates'
    <2>1. Later(reactor, reactor', {})
      BY <1>2, SameLater DEF IInv, Whole
    <2> QED
      BY <1>1, <1>2, <2>1, UntouchedDates
  <1>3. CASE Step
    BY <1>1, <1>3, StepDates
  <1>4. CASE FreeDone
    BY <1>1, <1>4, FreeDoneDates
  <1>5. ASSUME NEW c \in Calls, Handler(c) PROVE Dates'
    BY <1>1, <1>5, ReadingDates, ReadNothingDates, OnErrDates, OnStdinDates,
       OnProcessDates, OnTimeoutDates DEF Handler
  <1>6. ASSUME NEW c \in Calls, Embedder(c) PROVE Dates'
    BY <1>1, <1>6, StartDates, SetTimeoutDates, WriteStdinDates, CloseStdinDates,
       CancelDates DEF Embedder
  <1>7. ASSUME NEW c \in Calls, World(c) PROVE Dates'
    BY <1>2, <1>7 DEF World
  <1>8. CASE UNCHANGED vars
    BY <1>2, <1>8 DEF vars
  <1> QED
    BY <1>3, <1>4, <1>5, <1>6, <1>7, <1>8 DEF Next, Loop, RunReturns

LEMMA InitDates == Init => Dates
  <1> SUFFICES ASSUME Init PROVE Dates
    OBVIOUS
  <1>1. /\ reactor.watches = {} /\ reactor.batch = {} /\ reactor.epoll = [f \in Fds |-> 0]
        /\ \A c \in Calls : call[c].state = "none"
    BY DEF Init, NewReactor, NoCall
  <1>2. InLine(0)
    BY <1>1, ToolExecAssumption DEF InLine, Calls
  <1>3. 0 \in 0 .. MaxCalls
    BY ToolExecAssumption
  <1> QED
    BY <1>1, <1>2, <1>3 DEF Dates, Ids, Stamped, OneEach

LEMMA DatesStale == IInv /\ Dates => StaleEventsAreDropped
  <1> SUFFICES ASSUME IInv, Dates, NEW t \in reactor.batch, Delivers(reactor, t)
               PROVE  Receiver(reactor, t) = t.for
    BY DEF StaleEventsAreDropped
  <1>1. PICK n \in 0 .. MaxCalls : Dated(t, n)
    BY DEF Dates
  <1>2. CASE t.kind = "fd"
    BY <1>1, <1>2 DEF Dated, Delivers, Receiver
  <1>3. CASE t.kind # "fd"
    <2>1. \E w \in reactor.watches : w.kind = t.kind /\ w.id = t.n
      BY <1>3 DEF Delivers
    <2>2. \A w \in reactor.watches : w.kind = t.kind /\ w.id = t.n => w.for = t.for
      BY <1>1, <1>3 DEF Dated
    <2> QED
      BY <1>3, <2>1, <2>2 DEF Receiver
  <1> QED
    BY <1>2, <1>3

(* An event that is delivered runs a handler of the descriptor, timer or    *)
(* child it came from, whatever earlier handlers of the batch closed and    *)
(* opened again under the same number (the generation check of              *)
(* oi_reactor_step in reactor.c), if the generations, of which the code has *)
(* 2^30 - 1, are at least as many as the calls the embedder starts.         *)
THEOREM StaleEventsDropped ==
    ASSUME MaxCalls <= GenMax
    PROVE  Spec => []StaleEventsAreDropped
  <1>1. IInv /\ Dates /\ [Next]_vars => Dates'
    BY NextDates
  <1> QED
    BY <1>1, InitIInv, NextIInv, InitDates, DatesStale, PTL DEF Spec

-----------------------------------------------------------------------------
(* The end of a call.                                                       *)

Reported(c) == at = [phase |-> "done", call |-> c]

(* A call that was freed stays so: it is not reported, resumed or freed     *)
(* again, and no callback is about it.  One that was reported done is freed *)
(* next, so that it is reported once and cannot be cancelled after that     *)
(* (free_call, maybe_finish and the checks of destroyed_flag).              *)
EndIsFinal ==
    [][\A c \in Calls :
        /\ call[c].state = "gone" =>
              /\ call'[c].state = "gone"
              /\ at'.phase # "loop" => at'.call # c
        /\ Reported(c) => Reported(c)' \/ call'[c].state = "gone"]_vars

LEMMA GoneIsLeftAlone ==
    ASSUME IInv, [Next]_vars
    PROVE  \/ call' = call
           \/ \E c \in Calls : /\ call[c].state # "gone"
                               /\ \A d \in Calls \ {c} : call'[d] = call[d]
  <1>1. call \in [Calls -> Call]
    BY DEF IInv, Types
  <1>2. ASSUME NEW c \in Calls, call[c].state # "gone", NEW k,
               call' = [call EXCEPT ![c] = k]
        PROVE  \A d \in Calls \ {c} : call'[d] = call[d]
    BY <1>1, <1>2
  <1>3. CASE FreeDone
    <2>1. at.call \in Calls /\ call[at.call].state = "running"
      BY <1>3 DEF FreeDone, IInv, Stands
    <2> QED
      BY <1>2, <1>3, <2>1 DEF FreeDone
  <1>4. ASSUME NEW c \in Calls, OnErr(c) \/ OnStdin(c)
        PROVE  call[c].state = "running"
    BY <1>4, EventOwner DEF OnErr, OnStdin, Ends
  <1>5. ASSUME NEW c \in Calls, OnProcess(c) \/ OnTimeout(c)
        PROVE  call[c].state = "running"
    BY <1>5, EventOwner DEF OnProcess, OnTimeout
  <1>6. ASSUME NEW c \in Calls, ReadNothing(c)
        PROVE  call[c].state = "running"
    BY <1>6 DEF ReadNothing, IInv, Stands
  <1>7. ASSUME NEW c \in Calls, Handler(c)
        PROVE  \/ call' = call
               \/ /\ call[c].state = "running"
                  /\ \E k : call' = [call EXCEPT ![c] = k]
    BY <1>4, <1>5, <1>6, <1>7
       DEF Handler, OnStdout, ReadSome, OutputReturns, ReadNothing, OnErr, OnStdin,
           OnProcess, OnTimeout, Settle
  <1>8. ASSUME NEW c \in Calls, Embedder(c)
        PROVE  /\ call[c].state # "gone"
               /\ \E k : call' = [call EXCEPT ![c] = k]
    BY <1>8 DEF Embedder, Start, Resolve, Spawn, SpawnFails, SetTimeout, WriteStdin,
                CloseStdin, Cancel
  <1> QED
    BY <1>2, <1>3, <1>7, <1>8 DEF Next, Loop, Step, RunReturns, World, vars

LEMMA ReportedIsFreed ==
    ASSUME IInv, [Next]_vars, NEW c \in Calls, Reported(c)
    PROVE  Reported(c)' \/ call'[c].state = "gone"
  <1>1. at.phase = "done" /\ at.call = c /\ call \in [Calls -> Call]
    BY DEF Reported, IInv, Types
  <1>2. CASE FreeDone
    BY <1>1, <1>2 DEF FreeDone, Freed, NoCall
  <1>3. CASE UNCHANGED at
    BY <1>3 DEF Reported
  <1>4. CASE \E d \in Calls : Embedder(d)
    BY <1>1, <1>3, <1>4 DEF Embedder, Start, Resolve, SetTimeout, WriteStdin,
                            CloseStdin, Cancel, Quiet
  <1>5. ASSUME NEW d \in Calls
        PROVE  ~Handler(d)
    <2>1. ~OnStdout(d) /\ ~OnErr(d) /\ ~OnStdin(d) /\ ~OnProcess(d) /\ ~OnTimeout(d)
      <3>1. \A t, kind, to : ~Event(t, kind, to)
        BY <1>1 DEF Event
      <3> QED
        BY <3>1, Zenon DEF OnStdout, OnErr, OnStdin, OnProcess, OnTimeout
    <2>2. ~ReadSome(d) /\ ~OutputReturns(d) /\ ~ReadNothing(d)
      BY <1>1 DEF ReadSome, OutputReturns, ReadNothing
    <2> QED
      BY <2>1, <2>2, Zenon DEF Handler
  <1> QED
    BY <1>2, <1>3, <1>4, <1>5 DEF Next, Loop, Step, RunReturns, World, vars

(* Every call ends once: oi_tool_call is freed right after on_done, and     *)
(* nothing the reactor still holds leads back to a call that was freed.     *)
THEOREM CallsEndOnce == Spec => EndIsFinal
  <1>1. ASSUME IInv, [Next]_vars, NEW c \in Calls, call[c].state = "gone"
        PROVE  call'[c].state = "gone" /\ (at'.phase # "loop" => at'.call # c)
    <2>1. call'[c].state = "gone"
      BY <1>1, GoneIsLeftAlone
    <2> QED
      BY <1>1, <2>1, NextIInv DEF IInv, Stands
  <1>2. IInv /\ [Next]_vars =>
          [\A c \in Calls :
              /\ call[c].state = "gone" =>
                    /\ call'[c].state = "gone"
                    /\ at'.phase # "loop" => at'.call # c
              /\ Reported(c) => Reported(c)' \/ call'[c].state = "gone"]_vars
    BY <1>1, ReportedIsFreed
  <1> QED
    BY <1>2, InitIInv, NextIInv, PTL DEF Spec, EndIsFinal
=============================================================================
