----------------------------- MODULE HistoryProofs -----------------------------
(***************************************************************************)
(* What the operators of HistoryReplay do to the state of the fold: their  *)
(* types, how far answering one call of a round gets the round, and what   *)
(* the context of every log looks like that was written record by record.  *)
(***************************************************************************)
EXTENDS HistoryReplay, FiniteSetTheorems, SequenceTheorems, TLAPS

-----------------------------------------------------------------------------
(* Messages are messages.                                                  *)
LEMMA MessageTypes ==
    /\ \A t \in Text : UserMsg(t) \in Message
    /\ \A cs \in Seq(CallId) : AssistantMsg(cs) \in Message
    /\ \A id \in CallId, o \in Outcome : ToolMsg(id, o) \in Message
  BY DEF UserMsg, AssistantMsg, ToolMsg, Message

LEMMA EmptyHistoryType == EmptyHistory \in History
  BY DEF EmptyHistory, History, Phase

(* Each kind of record takes a history to a history.                       *)
LEMMA AfterUserType ==
    ASSUME NEW h \in History, NEW turn \in Nat, NEW t \in Text
    PROVE  AfterUser(h, turn, t) \in History
  <1>1. Append(h.ctx, UserMsg(t)) \in Seq(Message)
    BY MessageTypes DEF History
  <1> QED
    BY <1>1 DEF AfterUser, History, Phase

LEMMA AfterAssistantType ==
    ASSUME NEW h \in History, NEW cs \in Seq(CallId)
    PROVE  AfterAssistant(h, cs) \in History
  <1>1. Append(h.ctx, AssistantMsg(cs)) \in Seq(Message)
    BY MessageTypes DEF History
  <1> QED
    BY <1>1 DEF AfterAssistant, History, Phase

LEMMA AfterToolType ==
    ASSUME NEW h \in History, NEW id \in CallId, NEW o \in Outcome
    PROVE  AfterTool(h, id, o) \in History
  <1> DEFINE answered == h.resolved \cup {id}
             done     == ToSet(h.calls) \subseteq answered
             ctx      == Append(h.ctx, ToolMsg(id, o))
  <1>1. ctx \in Seq(Message)
    BY MessageTypes DEF History
  <1>2. answered \in SUBSET CallId /\ <<>> \in Seq(CallId)
    BY DEF History
  <1>3. CASE done
    <2>1. AfterTool(h, id, o) =
            [h EXCEPT !.phase = "assistant", !.calls = <<>>, !.began = {},
                      !.resolved = {}, !.ctx = ctx]
      BY <1>3 DEF AfterTool
    <2> QED
      BY <1>1, <1>2, <2>1 DEF History, Phase
  <1>4. CASE ~done
    <2>1. AfterTool(h, id, o) =
            [h EXCEPT !.phase = "tools", !.calls = h.calls, !.began = h.began,
                      !.resolved = answered, !.ctx = ctx]
      BY <1>4 DEF AfterTool
    <2> HIDE DEF answered, ctx
    <2> QED
      BY <1>1, <1>2, <2>1 DEF History, Phase
  <1> QED
    BY <1>3, <1>4

LEMMA AfterStartedType ==
    ASSUME NEW h \in History, NEW id \in CallId
    PROVE  AfterStarted(h, id) \in History
  BY DEF AfterStarted, History

LEMMA AfterPartialType ==
    ASSUME NEW h \in History
    PROVE  AfterPartial(h) \in History
  BY DEF AfterPartial, History

-----------------------------------------------------------------------------
(* What each kind of record does to the parts of the fold that a turn      *)
(* relies on.                                                              *)
LEMMA AfterUserEffect ==
    ASSUME NEW h \in History, NEW turn, NEW t
    PROVE  LET after == AfterUser(h, turn, t) IN
           /\ after.ctx = Append(h.ctx, UserMsg(t))
           /\ after.phase = "assistant" /\ after.started = turn
           /\ ~after.consumed /\ ~after.partial
  BY DEF AfterUser, History

LEMMA AfterAssistantEffect ==
    ASSUME NEW h \in History, NEW cs
    PROVE  LET after == AfterAssistant(h, cs) IN
           /\ after.ctx = Append(h.ctx, AssistantMsg(cs))
           /\ after.phase = IF cs = <<>> THEN "user" ELSE "tools"
           /\ after.started = h.started
           /\ after.calls = cs /\ after.began = {} /\ after.resolved = {}
           /\ after.consumed = h.consumed /\ ~after.partial
  BY DEF AfterAssistant, History

LEMMA AfterStartedEffect ==
    ASSUME NEW h \in History, NEW id
    PROVE  LET after == AfterStarted(h, id) IN
           /\ after.ctx = h.ctx
           /\ after.phase = h.phase /\ after.started = h.started
           /\ after.calls = h.calls /\ after.began = h.began \cup {id}
           /\ after.resolved = h.resolved
           /\ after.consumed = h.consumed /\ after.partial = h.partial
  BY DEF AfterStarted, History

LEMMA AfterPartialEffect ==
    ASSUME NEW h \in History
    PROVE  LET after == AfterPartial(h) IN
           /\ after.ctx = h.ctx
           /\ after.phase = h.phase /\ after.started = h.started
           /\ after.began = h.began /\ after.consumed = h.consumed
  BY DEF AfterPartial, History

LEMMA AfterToolEffect ==
    ASSUME NEW h \in History, NEW id, NEW o
    PROVE  LET after == AfterTool(h, id, o) IN
           /\ after.ctx = Append(h.ctx, ToolMsg(id, o))
           /\ after.started = h.started
           /\ after.consumed = h.consumed /\ after.partial = h.partial
  BY DEF AfterTool, History

(* A round goes on until every one of its calls has a result.              *)
LEMMA AfterToolRound ==
    ASSUME NEW h \in History, NEW id, NEW o
    PROVE  LET after    == AfterTool(h, id, o)
               answered == h.resolved \cup {id}
           IN  IF ToSet(h.calls) \subseteq answered
               THEN after.phase = "assistant"
               ELSE /\ after.phase = "tools"
                    /\ after.calls = h.calls /\ after.began = h.began
                    /\ after.resolved = answered
  BY DEF AfterTool, History

-----------------------------------------------------------------------------
(* The shape of a log.  The calls of an assistant message are answered by  *)
(* the messages right behind it, and by nothing else.  CompleteTo says so  *)
(* of the first n messages of a context, none of whose rounds is open.     *)
Window(c, i) == (i + 1)..(i + Len(c[i].arg))

Served(c, i, n) ==
    /\ c[i].arg \in Seq(CallId)
    /\ i + Len(c[i].arg) <= n
    /\ \A j \in Window(c, i) : c[j].role = "tool" /\ c[j].arg \in ToSet(c[i].arg)
    /\ \A id \in ToSet(c[i].arg) : \E j \in Window(c, i) : c[j].arg = id

CompleteTo(c, n) ==
    /\ \A i \in 1..n : c[i].role = "assistant" => Served(c, i, n)
    /\ \A j \in 1..n : c[j].role = "tool" =>
          \E i \in 1..n : c[i].role = "assistant" /\ j \in Window(c, i)

(* Message n asks, and what follows it are the results so far.             *)
OpenRound(h, n) ==
    /\ CompleteTo(h.ctx, n - 1)
    /\ h.ctx[n].role = "assistant" /\ h.ctx[n].arg = h.calls
    /\ Len(h.ctx) = n + Cardinality(h.resolved)
    /\ \A j \in (n + 1)..Len(h.ctx) :
          h.ctx[j].role = "tool" /\ h.ctx[j].arg \in h.resolved
    /\ \A id \in h.resolved :
          \E j \in (n + 1)..Len(h.ctx) : h.ctx[j].arg = id

Shape(h) ==
    /\ h.phase = "tools" =>
          /\ DistinctCalls(h.calls)
          /\ h.resolved \subseteq ToSet(h.calls)
          /\ ~(ToSet(h.calls) \subseteq h.resolved)
          /\ \E n \in 1..Len(h.ctx) : OpenRound(h, n)
    /\ h.phase # "tools" => h.calls = <<>> /\ CompleteTo(h.ctx, Len(h.ctx))
    /\ h.phase = "assistant" =>
          h.ctx # <<>> /\ h.ctx[Len(h.ctx)].role # "assistant"
    /\ h.consumed => h.phase = "user" /\ h.pending # NoText

(* The calls of a round, counted.                                          *)
LEMMA CallsCounted ==
    ASSUME NEW calls \in Seq(CallId), DistinctCalls(calls)
    PROVE  IsFiniteSet(ToSet(calls)) /\ Cardinality(ToSet(calls)) = Len(calls)
  <1>1. Len(calls) \in Nat /\ calls \in [1..Len(calls) -> ToSet(calls)]
    BY DEF ToSet
  <1>2. \A i, j \in 1..Len(calls) : calls[i] = calls[j] => i = j
    BY DEF DistinctCalls
  <1>3. \A id \in ToSet(calls) : \E i \in 1..Len(calls) : calls[i] = id
    BY DEF ToSet
  <1>4. ExistsBijection(1..Len(calls), ToSet(calls))
    BY <1>1, <1>2, <1>3
       DEF ExistsBijection, Bijection, Injection, Surjection, IsInjective
  <1> QED
    BY <1>1, <1>4, FS_NatBijection, FS_CountingElements

LEMMA RoundFinite ==
    ASSUME NEW h \in History, Shape(h), h.phase = "tools"
    PROVE  /\ IsFiniteSet(h.resolved)
           /\ Cardinality(h.resolved) \in Nat
           /\ Cardinality(h.resolved) < Len(h.calls)
           /\ Cardinality(ToSet(h.calls)) = Len(h.calls)
  <1>1. h.calls \in Seq(CallId) /\ DistinctCalls(h.calls)
    BY DEF History, Shape
  <1>2. h.resolved \subseteq ToSet(h.calls) /\ h.resolved # ToSet(h.calls)
    BY DEF Shape
  <1>3. IsFiniteSet(ToSet(h.calls)) /\ Cardinality(ToSet(h.calls)) = Len(h.calls)
    BY <1>1, CallsCounted
  <1>4. /\ IsFiniteSet(h.resolved)
        /\ Cardinality(h.resolved) <= Cardinality(ToSet(h.calls))
        /\ Cardinality(h.resolved) # Cardinality(ToSet(h.calls))
    BY <1>2, <1>3, FS_Subset
  <1>5. Cardinality(h.resolved) \in Nat
    BY <1>4, FS_CardinalityType
  <1> QED
    BY <1>1, <1>3, <1>4, <1>5

(* What is complete stays so, however the context goes on.                 *)
LEMMA CompletePrefix ==
    ASSUME NEW c, NEW d, NEW n \in Nat,
           \A i \in 1..n : d[i] = c[i],
           CompleteTo(c, n)
    PROVE  CompleteTo(d, n)
  <1>1. ASSUME NEW i \in 1..n, c[i].role = "assistant"
        PROVE  Served(c, i, n) /\ Window(d, i) = Window(c, i)
               /\ Window(c, i) \subseteq 1..n
    <2>1. Served(c, i, n) /\ d[i] = c[i]
      BY <1>1 DEF CompleteTo
    <2>2. c[i].arg \in Seq(CallId) /\ i + Len(c[i].arg) <= n
      BY <2>1 DEF Served
    <2> QED
      BY <2>1, <2>2 DEF Window
  <1>2. ASSUME NEW i \in 1..n, d[i].role = "assistant"
        PROVE  Served(d, i, n)
    <2>1. d[i] = c[i]
      OBVIOUS
    <2>2. Served(c, i, n) /\ Window(d, i) = Window(c, i)
      BY <1>1, <1>2, <2>1
    <2>3. \A j \in Window(c, i) : d[j] = c[j]
      BY <1>1, <1>2, <2>1
    <2> QED
      BY <2>1, <2>2, <2>3 DEF Served
  <1>3. ASSUME NEW j \in 1..n, d[j].role = "tool"
        PROVE  \E i \in 1..n : d[i].role = "assistant" /\ j \in Window(d, i)
    <2>1. c[j].role = "tool"
      BY <1>3
    <2>2. PICK i \in 1..n : c[i].role = "assistant" /\ j \in Window(c, i)
      BY <2>1 DEF CompleteTo
    <2> QED
      BY <1>1, <2>2
  <1> QED
    BY <1>2, <1>3 DEF CompleteTo

(* It grows by a user message, or by a round with all its results.         *)
LEMMA CompleteUser ==
    ASSUME NEW c, NEW n \in Nat, CompleteTo(c, n), c[n + 1].role = "user"
    PROVE  CompleteTo(c, n + 1)
  <1>1. \A i \in 1..(n + 1) : i \in 1..n \/ i = n + 1
    OBVIOUS
  <1>2. \A i \in 1..n : Served(c, i, n) => Served(c, i, n + 1)
    BY DEF Served
  <1> QED
    BY <1>1, <1>2 DEF CompleteTo

LEMMA CompleteRound ==
    ASSUME NEW c, NEW n \in Nat \ {0}, NEW m \in Nat, n <= m,
           CompleteTo(c, n - 1),
           c[n].role = "assistant", c[n].arg \in Seq(CallId),
           m = n + Len(c[n].arg), Served(c, n, m)
    PROVE  CompleteTo(c, m)
  <1>1. /\ \A i \in 1..m : i \in 1..(n - 1) \/ i = n \/ i \in Window(c, n)
        /\ 1..(n - 1) \subseteq 1..m /\ n \in 1..m
    <2> DEFINE l == Len(c[n].arg)
    <2>1. l \in Nat /\ m = n + l /\ Window(c, n) = (n + 1)..(n + l)
      BY DEF Window
    <2>2. ASSUME NEW i \in 1..m
          PROVE  i \in 1..(n - 1) \/ i = n \/ i \in Window(c, n)
      <3> HIDE DEF l
      <3> QED
        BY <2>1
    <2>3. 1..(n - 1) \subseteq 1..m /\ n \in 1..m
      OBVIOUS
    <2> QED
      BY <2>2, <2>3, Zenon
  <1>2. \A j \in Window(c, n) : c[j].role = "tool"
    BY DEF Served
  <1>3. ASSUME NEW i \in 1..(n - 1), Served(c, i, n - 1)
        PROVE  Served(c, i, m)
    <2> DEFINE l == Len(c[i].arg)
    <2>1. c[i].arg \in Seq(CallId) /\ i + l <= n - 1
      BY <1>3 DEF Served
    <2>2. l \in Nat
      BY <2>1
    <2> HIDE DEF l
    <2>3. i + l <= m
      BY <2>1, <2>2
    <2> QED
      BY <1>3, <2>3 DEF Served, l
  <1>4. ASSUME NEW i \in 1..m, c[i].role = "assistant"
        PROVE  Served(c, i, m)
    <2>1. i \in 1..(n - 1) \/ i = n
      BY <1>1, <1>2, <1>4
    <2>2. CASE i \in 1..(n - 1)
      BY <1>3, <1>4, <2>2 DEF CompleteTo
    <2> QED
      BY <2>1, <2>2
  <1>5. ASSUME NEW j \in 1..m, c[j].role = "tool"
        PROVE  \E i \in 1..m : c[i].role = "assistant" /\ j \in Window(c, i)
    <2>1. CASE j \in 1..(n - 1)
      BY <1>1, <1>5, <2>1 DEF CompleteTo
    <2>2. CASE j \in Window(c, n)
      BY <1>1, <2>2
    <2> QED
      BY <1>1, <1>5, <2>1, <2>2
  <1> QED
    BY <1>4, <1>5 DEF CompleteTo

(* Appending leaves what was there, and puts the message behind it.        *)
LEMMA Appended ==
    ASSUME NEW c \in Seq(Message), NEW m \in Message
    PROVE  LET d == Append(c, m) IN
           /\ Len(d) = Len(c) + 1 /\ Len(c) \in Nat
           /\ \A i \in 1..Len(c) : d[i] = c[i]
           /\ d[Len(c) + 1] = m
  OBVIOUS

-----------------------------------------------------------------------------
(* Every kind of record keeps the shape, if the log accepts it.            *)
LEMMA AfterUserShape ==
    ASSUME NEW h \in History, Shape(h), NEW turn \in Nat, NEW t \in Text,
           AcceptsUser(h, turn, t)
    PROVE  Shape(AfterUser(h, turn, t))
  <1> DEFINE d == Append(h.ctx, UserMsg(t))
             after == AfterUser(h, turn, t)
  <1>1. h.ctx \in Seq(Message) /\ UserMsg(t) \in Message
    BY MessageTypes DEF History
  <1>2. /\ Len(d) = Len(h.ctx) + 1 /\ Len(h.ctx) \in Nat
        /\ \A i \in 1..Len(h.ctx) : d[i] = h.ctx[i]
        /\ d[Len(h.ctx) + 1] = UserMsg(t)
    BY <1>1, Appended
  <1>3. h.calls = <<>> /\ CompleteTo(h.ctx, Len(h.ctx))
    BY DEF AcceptsUser, Shape
  <1>4. UserMsg(t).role = "user"
    BY DEF UserMsg
  <1> HIDE DEF d
  <1>5. CompleteTo(d, Len(h.ctx))
    BY <1>2, <1>3, CompletePrefix
  <1>6. CompleteTo(d, Len(d))
    BY <1>2, <1>4, <1>5, CompleteUser
  <1>7. d # <<>> /\ d[Len(d)].role # "assistant"
    BY <1>2, <1>4
  <1>8. /\ after.phase = "assistant" /\ after.ctx = d
        /\ after.calls = <<>> /\ ~after.consumed
    BY <1>3 DEF AfterUser, History, d
  <1>9. Shape(after)
    <2> HIDE DEF after
    <2> QED
      BY <1>6, <1>7, <1>8 DEF Shape
  <1> QED
    BY <1>9

LEMMA AfterAssistantShape ==
    ASSUME NEW h \in History, Shape(h), NEW cs \in Seq(CallId),
           NEW turn, NEW source, AcceptsAssistant(h, turn, source, cs)
    PROVE  Shape(AfterAssistant(h, cs))
  <1> DEFINE d == Append(h.ctx, AssistantMsg(cs))
             after == AfterAssistant(h, cs)
             n == Len(h.ctx) + 1
  <1>1. h.ctx \in Seq(Message) /\ AssistantMsg(cs) \in Message
    BY MessageTypes DEF History
  <1>2. /\ Len(d) = n /\ Len(h.ctx) \in Nat
        /\ \A i \in 1..Len(h.ctx) : d[i] = h.ctx[i]
        /\ d[n] = AssistantMsg(cs)
    BY <1>1, Appended
  <1>3. CompleteTo(h.ctx, Len(h.ctx)) /\ DistinctCalls(cs) /\ ~h.consumed
    BY DEF AcceptsAssistant, Shape
  <1>4. AssistantMsg(cs).role = "assistant" /\ AssistantMsg(cs).arg = cs
    BY DEF AssistantMsg
  <1>5. /\ after.ctx = d /\ after.calls = cs /\ after.resolved = {}
        /\ after.phase = IF cs = <<>> THEN "user" ELSE "tools"
        /\ ~after.consumed
    BY <1>3, AfterAssistantEffect
  <1> HIDE DEF d, after, n
  <1>0. n \in Nat \ {0} /\ n - 1 = Len(h.ctx)
    BY <1>2 DEF n
  <1>6. CompleteTo(d, n - 1)
    BY <1>0, <1>2, <1>3, CompletePrefix
  <1>7. ASSUME cs = <<>> PROVE Shape(after)
    <2>1. Served(d, n, n)
      BY <1>0, <1>2, <1>4, <1>7 DEF Served, Window, ToSet
    <2>2. /\ d[n].role = "assistant" /\ d[n].arg \in Seq(CallId)
          /\ n = n + Len(d[n].arg)
      BY <1>0, <1>2, <1>4, <1>7
    <2>3. CompleteTo(d, n)
      BY <1>0, <1>6, <2>1, <2>2, CompleteRound
    <2> QED
      BY <1>2, <1>5, <1>7, <2>3 DEF Shape
  <1>8. ASSUME cs # <<>> PROVE Shape(after)
    <2>1. ~(ToSet(cs) \subseteq {})
      <3>1. 1 \in 1..Len(cs)
        BY <1>8
      <3> QED
        BY <3>1 DEF ToSet
    <2>2. Cardinality({}) = 0
      BY FS_EmptySet
    <2>3. OpenRound(after, n)
      BY <1>0, <1>2, <1>4, <1>5, <1>6, <2>2 DEF OpenRound
    <2>4. n \in 1..Len(after.ctx)
      BY <1>0, <1>2, <1>5
    <2> QED
      BY <1>3, <1>5, <1>8, <2>1, <2>3, <2>4 DEF Shape
  <1> QED
    BY <1>7, <1>8 DEF after

(* A result takes the open round one call further, or completes it.        *)
LEMMA AfterToolShape ==
    ASSUME NEW h \in History, Shape(h), NEW id \in CallId, NEW o \in Outcome,
           NEW turn, NEW source, NEW raw,
           AcceptsTool(h, turn, id, o, source, raw)
    PROVE  Shape(AfterTool(h, id, o))
  <1> DEFINE d == Append(h.ctx, ToolMsg(id, o))
             after == AfterTool(h, id, o)
             answered == h.resolved \cup {id}
             m == Len(h.ctx) + 1
  <1>1. h.ctx \in Seq(Message) /\ ToolMsg(id, o) \in Message
        /\ h.calls \in Seq(CallId)
    BY MessageTypes DEF History
  <1>2. /\ Len(d) = m /\ Len(h.ctx) \in Nat
        /\ \A i \in 1..Len(h.ctx) : d[i] = h.ctx[i]
        /\ d[m] = ToolMsg(id, o)
    BY <1>1, Appended
  <1>3. ToolMsg(id, o).role = "tool" /\ ToolMsg(id, o).arg = id
    BY DEF ToolMsg
  <1>4. /\ h.phase = "tools" /\ ~h.consumed
        /\ id \in ToSet(h.calls) /\ id \notin h.resolved
    BY DEF AcceptsTool
  <1>5. /\ DistinctCalls(h.calls) /\ h.resolved \subseteq ToSet(h.calls)
        /\ \E n \in 1..Len(h.ctx) : OpenRound(h, n)
    BY <1>4 DEF Shape
  <1>6. PICK n \in 1..Len(h.ctx) : OpenRound(h, n)
    BY <1>5
  <1>7. /\ Cardinality(h.resolved) \in Nat
        /\ Cardinality(answered) = Cardinality(h.resolved) + 1
        /\ Cardinality(ToSet(h.calls)) = Len(h.calls)
    BY <1>4, RoundFinite, FS_AddElement
  <1>12. after.ctx = d /\ ~after.consumed
    BY <1>4, AfterToolEffect
  <1>13. IF ToSet(h.calls) \subseteq answered
         THEN after.phase = "assistant" /\ after.calls = <<>>
         ELSE /\ after.phase = "tools"
              /\ after.calls = h.calls /\ after.resolved = answered
    BY DEF AfterTool, History
  <1>14. answered \subseteq ToSet(h.calls)
    BY <1>4, <1>5
  <1> HIDE DEF d, after, answered, m
  <1>0. m = Len(h.ctx) + 1 /\ m \in Nat
    BY <1>2 DEF m
  <1>8. /\ n \in Nat \ {0} /\ d[n] = h.ctx[n] /\ n \in 1..m
        /\ d[n].role = "assistant" /\ d[n].arg = h.calls
        /\ m = n + Cardinality(answered)
    <2>1. n \in Nat \ {0} /\ n <= Len(h.ctx)
      BY <1>2
    <2>2. d[n] = h.ctx[n]
      BY <1>2
    <2>3. /\ h.ctx[n].role = "assistant" /\ h.ctx[n].arg = h.calls
          /\ Len(h.ctx) = n + Cardinality(h.resolved)
      BY <1>6 DEF OpenRound
    <2>4. m = n + Cardinality(answered)
      BY <1>0, <1>7, <2>1, <2>3
    <2> QED
      BY <1>0, <1>2, <2>1, <2>2, <2>3, <2>4
  <1>9. CompleteTo(d, n - 1)
    <2>1. \A i \in 1..(n - 1) : d[i] = h.ctx[i]
      BY <1>0, <1>2, <1>8
    <2>2. CompleteTo(h.ctx, n - 1)
      BY <1>6 DEF OpenRound
    <2> QED
      BY <1>8, <2>1, <2>2, CompletePrefix
  <1>10. ASSUME NEW j \in (n + 1)..m
         PROVE  d[j].role = "tool" /\ d[j].arg \in answered
    <2>1. CASE j = m
      BY <1>2, <1>3, <2>1 DEF answered
    <2>2. CASE j # m
      <3>1. j \in (n + 1)..Len(h.ctx) /\ j \in 1..Len(h.ctx)
        BY <1>0, <1>2, <1>8, <2>2
      <3>2. h.ctx[j].role = "tool" /\ h.ctx[j].arg \in h.resolved
        BY <1>6, <3>1 DEF OpenRound
      <3> QED
        BY <1>2, <3>1, <3>2 DEF answered
    <2> QED
      BY <2>1, <2>2
  <1>11. \A x \in answered : \E j \in (n + 1)..m : d[j].arg = x
    <2> TAKE x \in answered
    <2>1. CASE x = id
      BY <1>0, <1>2, <1>3, <1>8, <2>1, <1>6
    <2>2. CASE x \in h.resolved
      <3>1. PICK j \in (n + 1)..Len(h.ctx) : h.ctx[j].arg = x
        BY <1>6, <2>2 DEF OpenRound
      <3>2. j \in (n + 1)..m /\ d[j] = h.ctx[j]
        BY <1>0, <1>2, <1>8, <3>1
      <3> QED
        BY <3>1, <3>2
    <2> QED
      BY <2>1, <2>2 DEF answered
  <1>15. ASSUME ToSet(h.calls) \subseteq answered
         PROVE  Shape(after)
    <2>1. answered = ToSet(h.calls)
      BY <1>14, <1>15
    <2>2. m = n + Len(d[n].arg) /\ Window(d, n) = (n + 1)..m
      BY <1>7, <1>8, <2>1 DEF Window
    <2>3. d[n].arg \in Seq(CallId) /\ n <= m
      BY <1>0, <1>1, <1>8
    <2>4. Served(d, n, m)
      <3>1. /\ \A j \in Window(d, n) :
                  d[j].role = "tool" /\ d[j].arg \in ToSet(d[n].arg)
            /\ \A x \in ToSet(d[n].arg) : \E j \in Window(d, n) : d[j].arg = x
        BY <1>8, <1>10, <1>11, <2>1, <2>2
      <3>2. n + Len(d[n].arg) <= m
        BY <1>0, <2>2
      <3> QED
        BY <2>3, <3>1, <3>2 DEF Served
    <2>5. CompleteTo(d, m)
      BY <1>0, <1>8, <1>9, <2>2, <2>3, <2>4, CompleteRound
    <2>6. d # <<>> /\ d[Len(d)].role # "assistant"
      BY <1>0, <1>2, <1>3
    <2> QED
      BY <1>2, <1>12, <1>13, <1>15, <2>5, <2>6 DEF Shape
  <1>16. ASSUME ~(ToSet(h.calls) \subseteq answered)
         PROVE  Shape(after)
    <2>1. OpenRound(after, n)
      BY <1>2, <1>8, <1>9, <1>10, <1>11, <1>12, <1>13, <1>16 DEF OpenRound
    <2>2. n \in 1..Len(after.ctx)
      BY <1>0, <1>2, <1>8, <1>12
    <2> QED
      BY <1>5, <1>12, <1>13, <1>14, <1>16, <2>1, <2>2 DEF Shape
  <1> QED
    BY <1>15, <1>16 DEF after

(* The records that add no message.                                        *)
SameRound(h, g) ==
    /\ g.phase = h.phase /\ g.calls = h.calls /\ g.resolved = h.resolved
    /\ g.ctx = h.ctx

LEMMA SameRoundShape ==
    ASSUME NEW h, NEW g, Shape(h), SameRound(h, g),
           g.consumed => g.phase = "user" /\ g.pending # NoText
    PROVE  Shape(g)
  <1>1. \A n : OpenRound(g, n) <=> OpenRound(h, n)
    BY DEF OpenRound, SameRound
  <1> QED
    BY <1>1 DEF Shape, SameRound

LEMMA AfterStartedShape ==
    ASSUME NEW h \in History, Shape(h), NEW turn, NEW id \in CallId,
           AcceptsStarted(h, turn, id)
    PROVE  Shape(AfterStarted(h, id))
  <1>1. /\ SameRound(h, AfterStarted(h, id))
        /\ AfterStarted(h, id).consumed = h.consumed
    BY AfterStartedEffect DEF SameRound
  <1>2. ~h.consumed
    BY DEF AcceptsStarted
  <1> QED
    BY <1>1, <1>2, SameRoundShape

LEMMA AfterPartialShape ==
    ASSUME NEW h \in History, Shape(h), NEW turn, AcceptsPartial(h, turn)
    PROVE  Shape(AfterPartial(h))
  <1>1. /\ SameRound(h, AfterPartial(h))
        /\ AfterPartial(h).consumed = h.consumed
    BY DEF SameRound, AfterPartial, History
  <1>2. ~h.consumed
    BY DEF AcceptsPartial
  <1> QED
    BY <1>1, <1>2, SameRoundShape

(* The records of the queue.                                               *)
LEMMA AfterQueuedEffect ==
    ASSUME NEW h \in History, NEW turn \in Nat, NEW t \in Text
    PROVE  LET after == AfterQueued(h, turn, t) IN
           /\ after \in History /\ SameRound(h, after)
           /\ after.pending = t /\ after.pendTurn = turn
           /\ after.consumed = h.consumed /\ after.started = h.started
           /\ after.began = h.began /\ after.partial = h.partial
  BY DEF AfterQueued, History, SameRound

LEMMA AfterQueuedShape ==
    ASSUME NEW h \in History, Shape(h), NEW turn \in Nat, NEW t \in Text,
           AcceptsQueued(h, turn)
    PROVE  Shape(AfterQueued(h, turn, t))
  <1>1. ~h.consumed
    BY DEF AcceptsQueued
  <1> QED
    BY <1>1, AfterQueuedEffect, SameRoundShape

LEMMA AfterResolvedEffect ==
    ASSUME NEW h \in History, NEW how
    PROVE  LET after == AfterResolved(h, how) IN
           /\ after \in History /\ SameRound(h, after)
           /\ after.started = h.started
           /\ after.began = h.began /\ after.partial = h.partial
           /\ IF how = "consumed"
              THEN /\ after.consumed /\ after.pending = h.pending
                   /\ after.pendTurn = h.pendTurn
              ELSE /\ ~after.consumed /\ after.pending = NoText
                   /\ after.pendTurn = 0
  <1>1. CASE how = "consumed"
    BY <1>1 DEF AfterResolved, History, SameRound
  <1>2. CASE how # "consumed"
    BY <1>2 DEF AfterResolved, History, SameRound
  <1> QED
    BY <1>1, <1>2

LEMMA AfterResolvedShape ==
    ASSUME NEW h \in History, Shape(h), NEW turn, NEW how,
           AcceptsResolved(h, turn, how)
    PROVE  Shape(AfterResolved(h, how))
  <1> DEFINE after == AfterResolved(h, how)
  <1>1. /\ SameRound(h, after)
        /\ after.consumed => after.pending = h.pending
    BY AfterResolvedEffect, Zenon
  <1>2. h.phase = "user" /\ h.pending # NoText
    BY DEF AcceptsResolved
  <1>3. after.consumed => after.phase = "user" /\ after.pending # NoText
    BY <1>1, <1>2 DEF SameRound
  <1> HIDE DEF after
  <1>4. Shape(after)
    BY <1>1, <1>3, SameRoundShape
  <1> QED
    BY <1>4 DEF after

-----------------------------------------------------------------------------
(* A checkpoint replaces a prefix of the context by one message.  It must  *)
(* not end inside a round, and does not if a user message follows.         *)
EndsARound(c, p) == p = Len(c) \/ c[p + 1].role = "user"

LEMMA Spliced ==
    ASSUME NEW c \in Seq(Message), NEW p \in 1..Len(c)
    PROVE  LET d == Splice(c, p) IN
           /\ d \in Seq(Message) /\ Len(d) = Len(c) - p + 1
           /\ d[1] = SummaryMsg
           /\ \A i \in 2..Len(d) : i + p - 1 \in 1..Len(c) /\ d[i] = c[i + p - 1]
  <1> DEFINE e == SubSeq(c, p + 1, Len(c))
  <1>1. Len(c) \in Nat /\ p \in Nat /\ p >= 1 /\ p <= Len(c)
    OBVIOUS
  <1>2. /\ e \in Seq(Message) /\ Len(e) = Len(c) - p
        /\ \A i \in 1..Len(e) : e[i] = c[i + p]
    BY <1>1
  <1>3. SummaryMsg \in Message
    <2>1. <<>> \in Seq(CallId)
      OBVIOUS
    <2> QED
      BY <2>1 DEF SummaryMsg, Message
  <1> HIDE DEF e
  <1>4. /\ <<SummaryMsg>> \o e \in Seq(Message)
        /\ Len(<<SummaryMsg>> \o e) = 1 + Len(e)
        /\ (<<SummaryMsg>> \o e)[1] = SummaryMsg
        /\ \A i \in 2..(1 + Len(e)) : (<<SummaryMsg>> \o e)[i] = e[i - 1]
    <2> DEFINE one == <<SummaryMsg>>
    <2>1. one \in Seq(Message) /\ Len(one) = 1 /\ one[1] = SummaryMsg
      BY <1>3
    <2> HIDE DEF one
    <2>2. one \o e \in Seq(Message) /\ Len(one \o e) = Len(one) + Len(e)
      BY <1>2, <2>1, ConcatProperties
    <2>3. \A i \in 1..(Len(one) + Len(e)) :
             (one \o e)[i] = IF i <= Len(one) THEN one[i] ELSE e[i - Len(one)]
      BY <1>2, <2>1, ConcatProperties
    <2>4. Len(e) \in Nat
      BY <1>2
    <2>5. (one \o e)[1] = one[1]
      <3>1. 1 \in 1..(Len(one) + Len(e)) /\ 1 <= Len(one)
        BY <2>1, <2>4
      <3> QED
        BY <2>3, <3>1
    <2>6. ASSUME NEW i \in 2..(1 + Len(e))
          PROVE  (one \o e)[i] = e[i - 1]
      <3>1. i \in 1..(Len(one) + Len(e)) /\ ~(i <= Len(one))
        BY <2>1, <2>4
      <3> QED
        BY <2>1, <2>3, <3>1
    <2> QED
      BY <2>1, <2>2, <2>5, <2>6 DEF one
  <1>5. Splice(c, p) = <<SummaryMsg>> \o e
    BY DEF Splice, e
  <1>6. ASSUME NEW i \in 2..(1 + Len(e))
        PROVE  i + p - 1 \in 1..Len(c) /\ e[i - 1] = c[i + p - 1]
    <2>1. i - 1 \in 1..Len(e)
      BY <1>1, <1>2
    <2>2. e[i - 1] = c[(i - 1) + p]
      BY <1>2, <2>1
    <2>3. (i - 1) + p = i + p - 1 /\ i + p - 1 \in 1..Len(c)
      BY <1>1, <1>2
    <2> QED
      BY <2>2, <2>3
  <1> QED
    BY <1>1, <1>2, <1>4, <1>5, <1>6

LEMMA SpliceComplete ==
    ASSUME NEW c \in Seq(Message), NEW p \in 1..Len(c),
           CompleteTo(c, Len(c)), EndsARound(c, p)
    PROVE  CompleteTo(Splice(c, p), Len(Splice(c, p)))
  <1> DEFINE d == Splice(c, p)
             m == Len(d)
  <1>1. /\ Len(c) \in Nat /\ p \in Nat /\ 1 <= p /\ p <= Len(c)
        /\ m = Len(c) - p + 1 /\ m \in Nat
    BY Spliced
  <1>2. /\ d[1] = SummaryMsg
        /\ \A i \in 2..m : i + p - 1 \in 1..Len(c) /\ d[i] = c[i + p - 1]
    BY Spliced
  <1>3. d[1].role = "assistant" /\ d[1].arg = <<>>
    BY <1>2 DEF SummaryMsg
  <1> HIDE DEF d, m
  <1>4. Served(d, 1, m)
    <2>1. Len(<<>>) = 0 /\ <<>> \in Seq(CallId) /\ ToSet(<<>>) = {}
      BY DEF ToSet
    <2>2. Window(d, 1) = {}
      BY <1>3, <2>1 DEF Window
    <2> QED
      BY <1>1, <1>3, <2>1, <2>2 DEF Served
  <1>5. ASSUME NEW i \in 2..m, d[i].role = "assistant"
        PROVE  Served(d, i, m)
    <2>1. i + p - 1 \in 1..Len(c) /\ d[i] = c[i + p - 1]
      BY <1>2
    <2>2. Served(c, i + p - 1, Len(c))
      BY <1>5, <2>1 DEF CompleteTo
    <2> DEFINE n == Len(d[i].arg)
    <2>3. d[i].arg \in Seq(CallId) /\ i + p - 1 + n <= Len(c)
      BY <2>1, <2>2 DEF Served
    <2>4. n \in Nat /\ i \in Nat
      BY <2>3
    <2>5. /\ Window(d, i) = (i + 1)..(i + n)
          /\ Window(c, i + p - 1) = (i + p - 1 + 1)..(i + p - 1 + n)
      BY <2>1 DEF Window
    <2> HIDE DEF n
    <2>6. i + n <= m
      BY <1>1, <2>3, <2>4
    <2>7. ASSUME NEW j \in Window(d, i)
          PROVE  /\ j \in 2..m /\ j + p - 1 \in Window(c, i + p - 1)
                 /\ d[j] = c[j + p - 1]
      <3>1. j \in 2..m /\ j + p - 1 \in Window(c, i + p - 1)
        BY <1>1, <2>4, <2>5, <2>6
      <3> QED
        BY <1>2, <3>1
    <2>8. \A j \in Window(d, i) : d[j].role = "tool" /\ d[j].arg \in ToSet(d[i].arg)
      BY <2>1, <2>2, <2>7 DEF Served
    <2>9. ASSUME NEW id \in ToSet(d[i].arg)
          PROVE  \E j \in Window(d, i) : d[j].arg = id
      <3>1. PICK k \in Window(c, i + p - 1) : c[k].arg = id
        BY <2>1, <2>2 DEF Served
      <3>2. k \in Int /\ i + p <= k /\ k <= i + p - 1 + n
        BY <1>1, <2>4, <2>5
      <3>3. k - p + 1 \in Window(d, i) /\ (k - p + 1) + p - 1 = k
        BY <1>1, <2>4, <2>5, <3>2
      <3> QED
        BY <2>7, <3>1, <3>3
    <2> QED
      BY <2>3, <2>6, <2>8, <2>9 DEF Served, n
  <1>6. ASSUME NEW j \in 1..m, d[j].role = "tool"
        PROVE  \E i \in 1..m : d[i].role = "assistant" /\ j \in Window(d, i)
    <2>1. j \in 2..m
      BY <1>1, <1>3, <1>6
    <2>2. j + p - 1 \in 1..Len(c) /\ d[j] = c[j + p - 1]
      BY <1>2, <2>1
    <2>3. PICK k \in 1..Len(c) :
             c[k].role = "assistant" /\ j + p - 1 \in Window(c, k)
      BY <1>6, <2>2 DEF CompleteTo
    <2>4. Served(c, k, Len(c))
      BY <2>3 DEF CompleteTo
    <2>5. c[k].arg \in Seq(CallId) /\ Len(c[k].arg) \in Nat
          /\ \A x \in Window(c, k) : c[x].role = "tool"
      BY <2>4 DEF Served
    <2>6. k > p
      <3> SUFFICES ASSUME k <= p
                   PROVE  FALSE
        BY <1>1
      <3>1. p + 1 \in Window(c, k) /\ p # Len(c)
        BY <1>1, <2>1, <2>2, <2>3, <2>5 DEF Window
      <3>2. c[p + 1].role = "tool" /\ c[p + 1].role = "user"
        BY <2>5, <3>1 DEF EndsARound
      <3> QED
        BY <3>2
    <2>7. k - p + 1 \in 2..m /\ (k - p + 1) + p - 1 = k
      BY <1>1, <2>6
    <2>8. d[k - p + 1] = c[k]
      BY <1>2, <2>7
    <2>9. j \in Window(d, k - p + 1)
      <3> DEFINE n == Len(c[k].arg)
      <3>1. /\ Window(c, k) = (k + 1)..(k + n)
            /\ Window(d, k - p + 1) = (k - p + 1 + 1)..(k - p + 1 + n)
        BY <2>8 DEF Window
      <3>2. n \in Nat /\ j + p - 1 \in (k + 1)..(k + n)
        BY <2>3, <2>5, <3>1
      <3> HIDE DEF n
      <3> QED
        BY <1>1, <2>1, <3>1, <3>2
    <2>10. k - p + 1 \in 1..m /\ d[k - p + 1].role = "assistant"
      BY <1>1, <2>3, <2>7, <2>8
    <2> QED
      BY <2>9, <2>10
  <1>7. \A i \in 1..m : i = 1 \/ i \in 2..m
    BY <1>1
  <1>8. CompleteTo(d, m)
    BY <1>3, <1>4, <1>5, <1>6, <1>7 DEF CompleteTo
  <1> QED
    BY <1>8 DEF d, m

LEMMA AfterCheckpointEffect ==
    ASSUME NEW h \in History, NEW p \in 1..Len(h.ctx)
    PROVE  LET after == AfterCheckpoint(h, p) IN
           /\ after \in History /\ after.ctx = Splice(h.ctx, p)
           /\ after.phase = h.phase /\ after.started = h.started
           /\ after.calls = h.calls /\ after.began = h.began
           /\ after.resolved = h.resolved /\ after.partial = h.partial
           /\ after.pending = h.pending /\ after.pendTurn = h.pendTurn
           /\ after.consumed = h.consumed
  <1>1. h.ctx \in Seq(Message)
    BY DEF History
  <1>2. Splice(h.ctx, p) \in Seq(Message)
    BY <1>1, Spliced
  <1> QED
    BY <1>2 DEF AfterCheckpoint, History

LEMMA AfterCheckpointShape ==
    ASSUME NEW h \in History, Shape(h), NEW p, AcceptsCheckpoint(h, p),
           EndsARound(h.ctx, p)
    PROVE  Shape(AfterCheckpoint(h, p))
  <1> DEFINE after == AfterCheckpoint(h, p)
  <1>1. p \in 1..Len(h.ctx) /\ h.phase = "user" /\ ~h.consumed
    BY DEF AcceptsCheckpoint, BetweenTurns
  <1>2. h.ctx \in Seq(Message) /\ h.calls = <<>> /\ CompleteTo(h.ctx, Len(h.ctx))
    BY <1>1 DEF Shape, History
  <1>3. CompleteTo(Splice(h.ctx, p), Len(Splice(h.ctx, p)))
    BY <1>1, <1>2, SpliceComplete
  <1>4. /\ after.phase = "user" /\ after.calls = <<>> /\ ~after.consumed
        /\ after.ctx = Splice(h.ctx, p)
    BY <1>1, <1>2, AfterCheckpointEffect
  <1> HIDE DEF after
  <1>5. Shape(after)
    BY <1>3, <1>4 DEF Shape
  <1> QED
    BY <1>5 DEF after

-----------------------------------------------------------------------------
(* The logs a session starts from.                                         *)
LEMMA EmptyHistoryShape == Shape(EmptyHistory)
  BY DEF Shape, EmptyHistory, CompleteTo

LEMMA LegacyEffect ==
    ASSUME NEW n \in Nat, NEW t \in Text
    PROVE  LET h == LegacyHistory(n, t) IN
           /\ h \in History /\ Shape(h)
           /\ h.started = (n + 1) \div 2
           /\ h.phase \in {"user", "assistant"}
           /\ h.pending = NoText /\ ~h.consumed
  <1> DEFINE c == [i \in 1..n |-> IF i % 2 = 1 THEN UserMsg(t)
                                  ELSE AssistantMsg(<<>>)]
             h == LegacyHistory(n, t)
  <1>1. <<>> \in Seq(CallId)
    OBVIOUS
  <1>2. UserMsg(t) \in Message /\ AssistantMsg(<<>>) \in Message
    BY <1>1, MessageTypes
  <1>3. c \in Seq(Message) /\ Len(c) = n
    BY <1>2
  <1>4. /\ h.phase = IF n % 2 = 0 THEN "user" ELSE "assistant"
        /\ h.started = (n + 1) \div 2
        /\ h.calls = <<>> /\ h.began = {} /\ h.resolved = {} /\ h.partial = FALSE
        /\ h.pending = NoText /\ h.pendTurn = 0 /\ h.consumed = FALSE
        /\ h.ctx = c
        /\ h = [phase |-> h.phase, started |-> h.started, calls |-> h.calls,
                began |-> h.began, resolved |-> h.resolved,
                partial |-> h.partial, pending |-> h.pending,
                pendTurn |-> h.pendTurn, consumed |-> h.consumed,
                ctx |-> h.ctx]
    <2> HIDE DEF c
    <2>1. h = [EmptyHistory EXCEPT
                 !.phase   = IF n % 2 = 0 THEN "user" ELSE "assistant",
                 !.started = (n + 1) \div 2,
                 !.ctx     = c]
      BY DEF LegacyHistory, c
    <2> HIDE DEF h
    <2> QED
      BY <2>1 DEF EmptyHistory
  <1> HIDE DEF h
  <1>5. (n + 1) \div 2 \in Nat
    OBVIOUS
  <1>6. h \in History
    <2>1. h.ctx \in Seq(Message) /\ h.phase \in Phase /\ h.started \in Nat
      BY <1>3, <1>4, <1>5 DEF Phase
    <2>2. h.calls \in Seq(CallId) /\ h.pendTurn \in Nat
      BY <1>1, <1>4
    <2>3. h.began \in SUBSET CallId /\ h.resolved \in SUBSET CallId
      BY <1>4
    <2>4. h.partial \in BOOLEAN /\ h.consumed \in BOOLEAN
      BY <1>4, Zenon
    <2>5. h.pending \in Text \cup {NoText}
      BY <1>4
    <2> QED
      BY <1>4, <2>1, <2>2, <2>3, <2>4, <2>5 DEF History
  <1>7. \A i \in 1..n : \/ c[i].role = "user"
                        \/ c[i].role = "assistant" /\ c[i].arg = <<>>
    BY DEF UserMsg, AssistantMsg
  <1>8. n % 2 = 1 => n \in 1..n /\ c[n].role = "user"
    <2> SUFFICES ASSUME n % 2 = 1
                 PROVE  n \in 1..n /\ c[n].role = "user"
      OBVIOUS
    <2>1. n # 0
      OBVIOUS
    <2>2. n \in 1..n /\ c[n] = UserMsg(t)
      BY <2>1
    <2> QED
      BY <2>2 DEF UserMsg
  <1> HIDE DEF c
  <1>9. CompleteTo(c, n)
    <2>1. Len(<<>>) = 0 /\ ToSet(<<>>) = {}
      BY DEF ToSet
    <2>2. ASSUME NEW i \in 1..n, c[i].role = "assistant"
          PROVE  Served(c, i, n)
      <3>1. c[i].arg = <<>>
        BY <1>7, <2>2
      <3>2. Window(c, i) = {}
        BY <2>1, <3>1 DEF Window
      <3> QED
        BY <1>1, <2>1, <3>1, <3>2 DEF Served
    <2> QED
      BY <1>7, <2>2 DEF CompleteTo
  <1>10. n % 2 = 0 \/ n % 2 = 1
    OBVIOUS
  <1>11. Shape(h)
    <2>1. h.phase # "tools" /\ ~h.consumed
      BY <1>4
    <2>2. h.phase = "assistant" => c # <<>> /\ c[Len(c)].role # "assistant"
      BY <1>3, <1>4, <1>8, <1>10
    <2> QED
      BY <1>3, <1>4, <1>9, <2>1, <2>2 DEF Shape
  <1>12. /\ h \in History /\ Shape(h) /\ h.pending = NoText /\ ~h.consumed
         /\ h.started = (n + 1) \div 2 /\ h.phase \in {"user", "assistant"}
    BY <1>4, <1>6, <1>11
  <1> QED
    BY <1>12 DEF h

(* What build_repairs finds: a call is open exactly in the middle of a     *)
(* round.                                                                  *)
LEMMA OpenCalls ==
    ASSUME NEW h \in History, Shape(h)
    PROVE  Unresolved(h) # {} <=> h.phase = "tools"
  <1>1. CASE h.phase = "tools"
    <2>1. PICK id \in ToSet(h.calls) : id \notin h.resolved
      BY <1>1 DEF Shape
    <2>2. PICK i \in DOMAIN h.calls : h.calls[i] = id
      BY <2>1 DEF ToSet
    <2> QED
      BY <1>1, <2>1, <2>2 DEF Unresolved
  <1>2. CASE h.phase # "tools"
    <2>1. h.calls = <<>>
      BY <1>2 DEF Shape
    <2> QED
      BY <1>2, <2>1 DEF Unresolved
  <1> QED
    BY <1>1, <1>2

-----------------------------------------------------------------------------
(* What a turn may add to the log: a record of its own turn that the log   *)
(* accepts.                                                                *)
UserAdded(h, g, turn) ==
    \E t \in Text : AcceptsUser(h, turn, t) /\ g = AfterUser(h, turn, t)

RestAdded(h, g, turn) ==
    \/ \E cs \in Seq(CallId), source \in Source :
          AcceptsAssistant(h, turn, source, cs) /\ g = AfterAssistant(h, cs)
    \/ \E id \in CallId, o \in Outcome, source \in Source, raw \in BOOLEAN :
          AcceptsTool(h, turn, id, o, source, raw) /\ g = AfterTool(h, id, o)
    \/ \E id \in CallId : AcceptsStarted(h, turn, id) /\ g = AfterStarted(h, id)
    \/ AcceptsPartial(h, turn) /\ g = AfterPartial(h)

RecordAdded(h, g, turn) == UserAdded(h, g, turn) \/ RestAdded(h, g, turn)

LEMMA RecordKeepsShape ==
    ASSUME NEW h \in History, Shape(h), NEW g, NEW turn \in Nat,
           RecordAdded(h, g, turn)
    PROVE  g \in History /\ Shape(g)
  <1>1. CASE UserAdded(h, g, turn)
    BY <1>1, AfterUserType, AfterUserShape DEF UserAdded
  <1>2. CASE \E cs \in Seq(CallId), source \in Source :
                AcceptsAssistant(h, turn, source, cs) /\ g = AfterAssistant(h, cs)
    BY <1>2, AfterAssistantType, AfterAssistantShape
  <1>3. CASE \E id \in CallId, o \in Outcome, source \in Source, raw \in BOOLEAN :
                /\ AcceptsTool(h, turn, id, o, source, raw)
                /\ g = AfterTool(h, id, o)
    BY <1>3, AfterToolType, AfterToolShape
  <1>4. CASE \E id \in CallId :
                AcceptsStarted(h, turn, id) /\ g = AfterStarted(h, id)
    BY <1>4, AfterStartedType, AfterStartedShape
  <1>5. CASE AcceptsPartial(h, turn) /\ g = AfterPartial(h)
    BY <1>5, AfterPartialType, AfterPartialShape
  <1> QED
    BY <1>1, <1>2, <1>3, <1>4, <1>5 DEF RecordAdded, RestAdded

(* Only a user message touches what is queued.                             *)
LEMMA RestKeepsQueue ==
    ASSUME NEW h \in History, NEW g, NEW turn, RestAdded(h, g, turn)
    PROVE  /\ g.pending = h.pending /\ g.pendTurn = h.pendTurn
           /\ g.consumed = h.consumed /\ g.started = h.started
           /\ h.phase # "user"
  <1>1. ASSUME NEW cs, NEW source, AcceptsAssistant(h, turn, source, cs),
               g = AfterAssistant(h, cs)
        PROVE  /\ g.pending = h.pending /\ g.pendTurn = h.pendTurn
               /\ g.consumed = h.consumed /\ g.started = h.started
               /\ h.phase # "user"
    BY <1>1 DEF AfterAssistant, AcceptsAssistant, History
  <1>2. ASSUME NEW id, NEW o, NEW source, NEW raw,
               AcceptsTool(h, turn, id, o, source, raw), g = AfterTool(h, id, o)
        PROVE  /\ g.pending = h.pending /\ g.pendTurn = h.pendTurn
               /\ g.consumed = h.consumed /\ g.started = h.started
               /\ h.phase # "user"
    BY <1>2 DEF AfterTool, AcceptsTool, History
  <1>3. ASSUME NEW id, AcceptsStarted(h, turn, id), g = AfterStarted(h, id)
        PROVE  /\ g.pending = h.pending /\ g.pendTurn = h.pendTurn
               /\ g.consumed = h.consumed /\ g.started = h.started
               /\ h.phase # "user"
    BY <1>3 DEF AfterStarted, AcceptsStarted, History
  <1>4. ASSUME AcceptsPartial(h, turn), g = AfterPartial(h)
        PROVE  /\ g.pending = h.pending /\ g.pendTurn = h.pendTurn
               /\ g.consumed = h.consumed /\ g.started = h.started
               /\ h.phase # "user"
    BY <1>4 DEF AfterPartial, AcceptsPartial, History
  <1> QED
    BY <1>1, <1>2, <1>3, <1>4, Zenon DEF RestAdded

LEMMA UserSettlesQueue ==
    ASSUME NEW h \in History, NEW turn, NEW t, AcceptsUser(h, turn, t)
    PROVE  LET g == AfterUser(h, turn, t) IN
           /\ g # h /\ ~g.consumed
           /\ g.pending = IF h.consumed THEN NoText ELSE h.pending
           /\ g.pendTurn = IF h.consumed THEN 0 ELSE h.pendTurn
  BY DEF AfterUser, AcceptsUser, History
=============================================================================
