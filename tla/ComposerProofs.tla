--------------------------- MODULE ComposerProofs ---------------------------
(***************************************************************************)
(* The types of the composer, the draft that comes back and the keys that  *)
(* arrive whole: for any characters, keys, commands and seeds, a history   *)
(* of any size and any number of keys pressed.                             *)
(***************************************************************************)
EXTENDS Composer, SequenceTheorems, WellFoundedInduction, TLAPS

-----------------------------------------------------------------------------
(* Numbers.                                                                *)
LEMMA SmallestOf ==
    ASSUME NEW T, T \subseteq Nat, T # {}
    PROVE  \E m \in T : \A k \in T : m <= k
  <1> DEFINE R == OpToRel(<, Nat)
  <1>1. IsWellFoundedOn(R, Nat)
    BY NatLessThanWellFounded
  <1>2. \A x, y \in Nat : x < y => <<x, y>> \in R
    BY DEF OpToRel
  <1> HIDE DEF R
  <1>3. PICK m \in T : \A y \in T : <<y, m>> \notin R
    BY <1>1, WFMin
  <1>4. ASSUME NEW k \in T PROVE m <= k
    <2>1. ~(k < m)
      BY <1>2, <1>3
    <2> QED
      BY <2>1
  <1> QED
    BY <1>4

LEMMA MinOf ==
    ASSUME NEW T, T \subseteq Nat, T # {}
    PROVE  Min(T) \in T
  <1>1. \E m \in T : \A k \in T : m <= k
    BY SmallestOf
  <1> QED
    BY <1>1 DEF Min

LEMMA MaxOf ==
    ASSUME NEW n \in Nat, NEW T, T \subseteq 0..n, T # {}
    PROVE  Max(T) \in T
  <1> DEFINE U == {n - k : k \in T}
  <1>1. U \subseteq Nat /\ U # {}
    <2>1. \A k \in T : n - k \in Nat
      OBVIOUS
    <2>2. PICK k \in T : TRUE
      OBVIOUS
    <2>3. n - k \in U
      BY <2>2
    <2> QED
      BY <2>1, <2>3
  <1>2. PICK m \in U : \A k \in U : m <= k
    <2> HIDE DEF U
    <2> QED
      BY <1>1, SmallestOf
  <1>3. n - m \in T /\ \A k \in T : n - m >= k
    <2>1. PICK j \in T : m = n - j
      BY <1>2
    <2>2. \A k \in T : n - k \in U
      OBVIOUS
    <2>3. \A k \in T : m <= n - k
      <3> HIDE DEF U
      <3> QED
        BY <1>2, <2>2
    <2> HIDE DEF U
    <2>4. j \in 0..n /\ m = n - j /\ n - m = j
      BY <2>1
    <2> QED
      BY <2>3, <2>4
  <1> HIDE DEF U
  <1> QED
    BY <1>3 DEF Max

(* Upwards: what holds of a number as soon as it holds of the one before.  *)
LEMMA Upwards ==
    ASSUME NEW end \in Nat, NEW T, 0 \in T,
           \A i \in 1..end : i - 1 \in T => i \in T
    PROVE  \A i \in 0..end : i \in T
  <1> DEFINE Gaps == {i \in 0..end : i \notin T}
  <1>1. SUFFICES ASSUME Gaps # {} PROVE FALSE
    OBVIOUS
  <1>2. PICK m \in Gaps : \A k \in Gaps : m <= k
    <2>1. Gaps \subseteq Nat
      OBVIOUS
    <2> HIDE DEF Gaps
    <2> QED
      BY <1>1, <2>1, SmallestOf
  <1>3. m \in 0..end /\ m \notin T /\ m # 0
    OBVIOUS
  <1>4. m \in 1..end /\ m - 1 \in 0..end
    BY <1>3
  <1>5. m - 1 \notin Gaps
    <2> HIDE DEF Gaps
    <2> QED
      BY <1>2, <1>4
  <1>6. m - 1 \in T
    BY <1>4, <1>5
  <1> QED
    BY <1>3, <1>4, <1>6

(* A loop: what is computed from the value before.                         *)
Loops(g, end, base, step) ==
    g = [i \in 0..end |-> IF i = 0 THEN base ELSE step[<<i, g[i - 1]>>]]

LEMMA LoopExists ==
    ASSUME NEW end \in Nat, NEW V, NEW base \in V, NEW step,
           \A i \in 1..end : \A v \in V : step[<<i, v>>] \in V
    PROVE  \E g \in [0..end -> V] : Loops(g, end, base, step)
  <1> DEFINE Steps(g, n) ==
                 /\ g[0] = base
                 /\ \A i \in 1..n : g[i] = step[<<i, g[i - 1]>>]
             T == {n \in 0..end : \E g \in [0..n -> V] : Steps(g, n)}
  <1>1. 0 \in T
    <2> DEFINE g == [i \in 0..0 |-> base]
    <2>1. g \in [0..0 -> V] /\ g[0] = base /\ 1..0 = {}
      OBVIOUS
    <2>2. Steps(g, 0)
      BY <2>1
    <2>3. 0 \in 0..end
      OBVIOUS
    <2> HIDE DEF g, Steps
    <2> QED
      BY <2>1, <2>2, <2>3
  <1>2. ASSUME NEW n \in 1..end, n - 1 \in T PROVE n \in T
    <2>1. PICK g \in [0..n - 1 -> V] : Steps(g, n - 1)
      BY <1>2
    <2> DEFINE x == step[<<n, g[n - 1]>>]
               h == [i \in 0..n |-> IF i = n THEN x ELSE g[i]]
    <2>2. n \in Nat /\ n - 1 \in 0..n - 1 /\ 0 \in 0..n - 1
      OBVIOUS
    <2>3. x \in V
      BY <2>1, <2>2
    <2>4. /\ h \in [0..n -> V] /\ h[n] = x
          /\ \A i \in 0..n - 1 : h[i] = g[i]
      <3> HIDE DEF x
      <3> QED
        BY <2>1, <2>2, <2>3
    <2> HIDE DEF h
    <2>5. h[0] = base
      BY <2>1, <2>2, <2>4
    <2>6. ASSUME NEW i \in 1..n PROVE h[i] = step[<<i, h[i - 1]>>]
      <3>1. i - 1 \in 0..n - 1 /\ h[i - 1] = g[i - 1]
        BY <2>4
      <3>2. CASE i = n
        BY <3>1, <3>2, <2>4
      <3>3. CASE i # n
        <4>1. i \in 1..n - 1 /\ i \in 0..n - 1
          BY <3>3
        <4> QED
          BY <4>1, <3>1, <2>1, <2>4
      <3> QED
        BY <3>2, <3>3
    <2>7. Steps(h, n)
      BY <2>5, <2>6
    <2> HIDE DEF Steps
    <2> QED
      BY <2>4, <2>7
  <1> HIDE DEF T
  <1>3. end \in T
    <2>1. \A i \in 0..end : i \in T
      BY <1>1, <1>2, Upwards
    <2> QED
      BY <2>1
  <1>4. PICK g \in [0..end -> V] : Steps(g, end)
    BY <1>3 DEF T
  <1>5. \A i \in 0..end : g[i] = IF i = 0 THEN base ELSE step[<<i, g[i - 1]>>]
    <2> TAKE i \in 0..end
    <2>1. i = 0 \/ i \in 1..end
      OBVIOUS
    <2> QED
      BY <2>1, <1>4
  <1>6. g = [i \in 0..end |-> g[i]]
    BY <1>4
  <1>7. g = [i \in 0..end |-> IF i = 0 THEN base ELSE step[<<i, g[i - 1]>>]]
    <2> HIDE DEF Steps
    <2> QED
      BY <1>5, <1>6
  <1> QED
    BY <1>4, <1>7 DEF Loops

-----------------------------------------------------------------------------
(* Texts.                                                                  *)
TextType == Seq(Chars)

LEMMA Assumed ==
    /\ HistoryMax \in Nat \ {0} /\ MaxPressed \in Nat
    /\ "lf" \in Chars /\ " " \in Chars /\ "e'" \in Chars
    /\ \A k \in Keys : k.bytes \in TextType
    /\ Commands \in Seq(TextType)
    /\ \A seed \in Seeds : seed \in Seq(TextType)
  <1>1. /\ HistoryMax \in Nat \ {0} /\ MaxPressed \in Nat
        /\ {"lf", " ", "e'"} \subseteq Chars
        /\ \A k \in Keys : k.bytes \in TextType
        /\ Commands \in Seq(TextType)
        /\ Seeds \subseteq Seq(Seq(Chars))
    BY Zenon, ComposerAssumption DEF TextType
  <1>2. \A seed \in Seeds : seed \in Seq(TextType)
    BY Zenon, <1>1 DEF TextType
  <1>3. "lf" \in Chars /\ " " \in Chars /\ "e'" \in Chars
    BY <1>1
  <1> QED
    BY <1>1, <1>2, <1>3

LEMMA SizeOfHistory == HistoryMax \in Nat /\ HistoryMax # 0
  BY Assumed

LEMMA Slice ==
    ASSUME NEW S, NEW s \in Seq(S), NEW m \in Nat \ {0}, NEW n \in 0..Len(s)
    PROVE  /\ SubSeq(s, m, n) \in Seq(S)
           /\ Len(SubSeq(s, m, n)) = IF m <= n THEN n - m + 1 ELSE 0
           /\ \A i \in 1 .. n - m + 1 : SubSeq(s, m, n)[i] = s[m + i - 1]
  <1>1. m \in Int /\ n \in Int /\ \A i \in m..n : i \in 1..Len(s)
    OBVIOUS
  <1>2. \A i \in m..n : s[i] \in S
    BY <1>1, ElementOfSeq
  <1> QED
    BY <1>1, <1>2, SubSeqProperties

LEMMA Concat ==
    ASSUME NEW S, NEW a \in Seq(S), NEW b \in Seq(S)
    PROVE  a \o b \in Seq(S) /\ Len(a \o b) = Len(a) + Len(b)
  BY ConcatProperties

LEMMA Inserted ==
    ASSUME NEW S, NEW s \in Seq(S), NEW i \in 0..Len(s), NEW c \in S
    PROVE  /\ InsertAt(s, i + 1, c) \in Seq(S)
           /\ Len(InsertAt(s, i + 1, c)) = Len(s) + 1
  <1> DEFINE a == SubSeq(s, 1, (i + 1) - 1)
             b == SubSeq(s, i + 1, Len(s))
             m == <<c>>
             am == a \o m
  <1>0. Len(s) \in Nat /\ (i + 1) - 1 = i /\ i + 1 \in Nat \ {0} /\ Len(s) \in 0..Len(s)
    OBVIOUS
  <1>1. a \in Seq(S) /\ Len(a) = i
    <2>1. SubSeq(s, 1, i) \in Seq(S) /\ Len(SubSeq(s, 1, i)) = i
      BY <1>0, Slice
    <2> QED
      BY <2>1, <1>0
  <1>2. b \in Seq(S) /\ Len(b) = Len(s) - i
    <2>1. b \in Seq(S) /\ Len(b) = IF i + 1 <= Len(s) THEN Len(s) - (i + 1) + 1 ELSE 0
      BY <1>0, Slice
    <2> HIDE DEF b
    <2> QED
      BY <2>1
  <1>3. m \in Seq(S) /\ Len(m) = 1
    OBVIOUS
  <1>4. InsertAt(s, i + 1, c) = am \o b
    BY Zenon DEF InsertAt
  <1> HIDE DEF b, m
  <1>5. am \in Seq(S) /\ Len(am) = i + 1
    <2> HIDE DEF a
    <2> QED
      BY <1>1, <1>3, Concat
  <1> HIDE DEF am
  <1>6. am \o b \in Seq(S) /\ Len(am \o b) = Len(am) + Len(b)
    BY <1>2, <1>5, Concat
  <1>7. Len(am \o b) = Len(s) + 1
    BY <1>0, <1>2, <1>5, <1>6
  <1> QED
    BY <1>4, <1>6, <1>7

LEMMA Removed ==
    ASSUME NEW S, NEW s \in Seq(S), NEW i \in 1..Len(s)
    PROVE  /\ RemoveAt(s, i) \in Seq(S)
           /\ Len(RemoveAt(s, i)) = Len(s) - 1
  <1> DEFINE a == SubSeq(s, 1, i - 1)
             b == SubSeq(s, i + 1, Len(s))
  <1>0. /\ Len(s) \in Nat /\ i - 1 \in 0..Len(s)
        /\ i + 1 \in Nat \ {0} /\ Len(s) \in 0..Len(s)
    OBVIOUS
  <1>1. a \in Seq(S) /\ Len(a) = IF 1 <= i - 1 THEN i - 1 - 1 + 1 ELSE 0
    BY <1>0, Slice
  <1>2. b \in Seq(S) /\ Len(b) = IF i + 1 <= Len(s) THEN Len(s) - (i + 1) + 1 ELSE 0
    BY <1>0, Slice
  <1>3. RemoveAt(s, i) = a \o b
    BY Zenon DEF RemoveAt
  <1> HIDE DEF a, b
  <1>4. a \o b \in Seq(S) /\ Len(a \o b) = Len(a) + Len(b)
    BY <1>1, <1>2, Concat
  <1>5. Len(a) = i - 1 /\ Len(b) = Len(s) - i
    BY <1>0, <1>1, <1>2
  <1>6. Len(a \o b) = Len(s) - 1
    BY <1>0, <1>4, <1>5
  <1> QED
    BY <1>3, <1>4, <1>6

-----------------------------------------------------------------------------
(* The line editor.                                                        *)
EditorType == [text : TextType, cursor : Nat]
EditorOK(e) == e \in EditorType /\ e.cursor <= Len(e.text)

LEMMA EditorFields ==
    ASSUME NEW e, EditorOK(e)
    PROVE  /\ e.text \in TextType /\ Len(e.text) \in Nat
           /\ e.cursor \in 0..Len(e.text)
           /\ e = [text |-> e.text, cursor |-> e.cursor]
  BY DEF EditorOK, EditorType, TextType

LEMMA EditorOf ==
    ASSUME NEW text \in TextType, NEW cursor \in 0..Len(text)
    PROVE  EditorOK([text |-> text, cursor |-> cursor])
  BY DEF EditorOK, EditorType, TextType

LEMMA SetToIsOK ==
    ASSUME NEW text \in TextType
    PROVE  EditorOK(SetTo(text)) /\ SetTo(text).text = text
  <1>1. Len(text) \in 0..Len(text)
    BY DEF TextType
  <1> QED
    BY <1>1, EditorOf DEF SetTo

LEMMA NoTextIsOK == EditorOK(NoText) /\ NoText.text = <<>>
  BY DEF EditorOK, EditorType, TextType, NoText

LEMMA InsertIsOK ==
    ASSUME NEW e, EditorOK(e), NEW c \in Chars
    PROVE  EditorOK(Insert(e, c))
  <1> DEFINE t == InsertAt(e.text, e.cursor + 1, c)
             k == e.cursor + 1
  <1>1. e.text \in Seq(Chars) /\ e.cursor \in 0..Len(e.text) /\ Len(e.text) \in Nat
    BY EditorFields DEF TextType
  <1>2. t \in Seq(Chars) /\ Len(t) = Len(e.text) + 1
    BY <1>1, Inserted
  <1>3. Insert(e, c) = [text |-> t, cursor |-> k]
    BY DEF Insert
  <1> HIDE DEF t
  <1>4. k \in 0..Len(t)
    BY <1>1, <1>2
  <1> HIDE DEF k
  <1> QED
    BY <1>2, <1>3, <1>4, EditorOf DEF TextType

LEMMA BackspaceIsOK ==
    ASSUME NEW e, EditorOK(e)
    PROVE  EditorOK(Backspace(e))
  <1>1. e.text \in Seq(Chars) /\ e.cursor \in 0..Len(e.text) /\ Len(e.text) \in Nat
    BY EditorFields DEF TextType
  <1>2. CASE e.cursor = 0
    BY <1>2 DEF Backspace
  <1>3. CASE e.cursor # 0
    <2> DEFINE t == RemoveAt(e.text, e.cursor)
               k == e.cursor - 1
    <2>1. e.cursor \in 1..Len(e.text)
      BY <1>1, <1>3
    <2>2. t \in Seq(Chars) /\ Len(t) = Len(e.text) - 1
      BY <1>1, <2>1, Removed
    <2>3. Backspace(e) = [text |-> t, cursor |-> k]
      BY <1>3 DEF Backspace
    <2> HIDE DEF t
    <2>4. k \in 0..Len(t)
      BY <1>1, <2>1, <2>2
    <2> HIDE DEF k
    <2> QED
      BY <2>2, <2>3, <2>4, EditorOf DEF TextType
  <1> QED
    BY <1>2, <1>3

LEMMA DeleteIsOK ==
    ASSUME NEW e, EditorOK(e)
    PROVE  EditorOK(Delete(e))
  <1>1. /\ e.text \in Seq(Chars) /\ e.cursor \in 0..Len(e.text) /\ Len(e.text) \in Nat
        /\ e = [text |-> e.text, cursor |-> e.cursor]
    BY EditorFields DEF TextType
  <1>2. CASE e.cursor = Len(e.text)
    BY <1>2 DEF Delete
  <1>3. CASE e.cursor # Len(e.text)
    <2> DEFINE t == RemoveAt(e.text, e.cursor + 1)
    <2>1. e.cursor + 1 \in 1..Len(e.text)
      BY <1>1, <1>3
    <2>2. t \in Seq(Chars) /\ Len(t) = Len(e.text) - 1
      BY <1>1, <2>1, Removed
    <2>3. Delete(e) = [e EXCEPT !.text = t]
      BY <1>3 DEF Delete
    <2> HIDE DEF t
    <2>4. e.cursor \in 0..Len(t)
      BY <1>1, <2>1, <2>2
    <2>5. [e EXCEPT !.text = t] = [text |-> t, cursor |-> e.cursor]
      BY <1>1
    <2> QED
      BY <2>2, <2>3, <2>4, <2>5, EditorOf DEF TextType
  <1> QED
    BY <1>2, <1>3

(* A cursor that only moves.                                               *)
LEMMA MovedIsOK ==
    ASSUME NEW e, EditorOK(e), NEW k \in 0..Len(e.text)
    PROVE  EditorOK([e EXCEPT !.cursor = k])
  <1>1. /\ e.text \in TextType /\ e = [text |-> e.text, cursor |-> e.cursor]
    BY EditorFields
  <1>2. [e EXCEPT !.cursor = k] = [text |-> e.text, cursor |-> k]
    BY <1>1
  <1> QED
    BY <1>1, <1>2, EditorOf

LEMMA MovesAreOK ==
    ASSUME NEW e, EditorOK(e)
    PROVE  /\ EditorOK(MoveLeft(e)) /\ EditorOK(MoveRight(e))
           /\ EditorOK(LineStart(e)) /\ EditorOK(LineEnd(e))
  <1>1. e.cursor \in 0..Len(e.text) /\ Len(e.text) \in Nat
    BY EditorFields
  <1>2. EditorOK(MoveLeft(e))
    <2>1. CASE e.cursor = 0
      BY <2>1 DEF MoveLeft
    <2>2. CASE e.cursor # 0
      <3>1. e.cursor - 1 \in 0..Len(e.text)
        BY <1>1, <2>2
      <3> QED
        BY <2>2, <3>1, MovedIsOK DEF MoveLeft
    <2> QED
      BY <2>1, <2>2
  <1>3. EditorOK(MoveRight(e))
    <2>1. CASE e.cursor = Len(e.text)
      BY <2>1 DEF MoveRight
    <2>2. CASE e.cursor # Len(e.text)
      <3>1. e.cursor + 1 \in 0..Len(e.text)
        BY <1>1, <2>2
      <3> QED
        BY <2>2, <3>1, MovedIsOK DEF MoveRight
    <2> QED
      BY <2>1, <2>2
  <1>4. EditorOK(LineStart(e))
    <2> DEFINE T == {0} \cup {i \in 1..e.cursor : e.text[i] = "lf"}
    <2>1. T \subseteq 0..e.cursor /\ T # {} /\ e.cursor \in Nat
      BY <1>1
    <2>2. LineStart(e) = [e EXCEPT !.cursor = Max(T)]
      BY Zenon DEF LineStart
    <2> HIDE DEF T
    <2>3. Max(T) \in T
      BY <2>1, MaxOf
    <2>4. Max(T) \in 0..Len(e.text)
      <3>1. Max(T) \in 0..e.cursor
        BY Zenon, <2>1, <2>3
      <3> QED
        BY <3>1, <1>1
    <2> QED
      BY <2>2, <2>4, MovedIsOK
  <1>5. EditorOK(LineEnd(e))
    <2> DEFINE T == {Len(e.text)}
                    \cup {i \in e.cursor..Len(e.text) - 1 : e.text[i + 1] = "lf"}
    <2>1. T \subseteq 0..Len(e.text) /\ T # {}
      BY <1>1
    <2>2. LineEnd(e) = [e EXCEPT !.cursor = Min(T)]
      BY Zenon DEF LineEnd
    <2> HIDE DEF T
    <2>3. T \subseteq Nat
      BY <2>1
    <2>4. Min(T) \in T
      BY <2>1, <2>3, MinOf
    <2>5. Min(T) \in 0..Len(e.text)
      BY <2>1, <2>4
    <2> QED
      BY <2>2, <2>5, MovedIsOK
  <1> QED
    BY <1>2, <1>3, <1>4, <1>5

-----------------------------------------------------------------------------
(* The input history.                                                      *)
Entries(list) ==
    /\ list \in Seq(TextType) /\ Len(list) <= HistoryMax
    /\ \A i \in 2..Len(list) : list[i] # list[i - 1]

HistoryType == [entries : Seq(TextType), index : Nat, navigating : BOOLEAN,
                draft : TextType]
HistoryOK(h) ==
    /\ h \in HistoryType /\ Entries(h.entries)
    /\ h.index \in 1..Len(h.entries) + 1
    /\ ~h.navigating => h.index = Len(h.entries) + 1

LEMMA ResetIsOK ==
    ASSUME NEW list, Entries(list)
    PROVE  /\ HistoryOK(Reset(list)) /\ ~Reset(list).navigating
           /\ Reset(list).entries = list
  <1>1. Len(list) \in Nat /\ <<>> \in TextType /\ list \in Seq(TextType)
    BY DEF Entries, TextType
  <1>2. Len(list) + 1 \in 1..Len(list) + 1 /\ Len(list) + 1 \in Nat
    BY <1>1
  <1> QED
    BY <1>1, <1>2 DEF Reset, HistoryOK, HistoryType

LEMMA AppendedEntries ==
    ASSUME NEW list, Entries(list), NEW text \in TextType,
           list # <<>> => Last(list) # text, Len(list) < HistoryMax
    PROVE  Entries(Append(list, text))
  <1> DEFINE l == Append(list, text)
  <1>1. list \in Seq(TextType) /\ Len(list) \in Nat
    BY DEF Entries
  <1>2. /\ l \in Seq(TextType) /\ Len(l) = Len(list) + 1
        /\ \A i \in 1..Len(list) : l[i] = list[i]
        /\ l[Len(list) + 1] = text
    BY <1>1, AppendProperties
  <1>3. list # <<>> => list[Len(list)] # text
    BY DEF Last
  <1>4. Len(list) # 0 => list # <<>>
    BY <1>1
  <1> HIDE DEF l
  <1>5. ASSUME NEW i \in 2..Len(l) PROVE l[i] # l[i - 1]
    <2>1. CASE i \in 2..Len(list)
      <3>1. i \in 1..Len(list) /\ i - 1 \in 1..Len(list)
        BY <1>1, <2>1
      <3>2. list[i] # list[i - 1]
        BY <2>1 DEF Entries
      <3> QED
        BY <1>2, <3>1, <3>2
    <2>2. CASE i = Len(list) + 1
      <3>1. Len(list) \in 1..Len(list) /\ i - 1 = Len(list) /\ Len(list) # 0
        BY <1>1, <2>2
      <3> QED
        BY <1>2, <1>3, <1>4, <2>2, <3>1
    <2> QED
      BY <1>1, <1>2, <2>1, <2>2
  <1>6. Len(l) <= HistoryMax
    BY <1>1, <1>2, SizeOfHistory
  <1>7. Entries(l)
    BY <1>2, <1>5, <1>6 DEF Entries
  <1> QED
    BY <1>7 DEF l

LEMMA TailEntries ==
    ASSUME NEW list, Entries(list), list # <<>>
    PROVE  /\ Entries(Tail(list)) /\ Len(Tail(list)) = Len(list) - 1
           /\ Tail(list) # <<>> => Last(Tail(list)) = Last(list)
  <1> DEFINE l == Tail(list)
  <1>1. list \in Seq(TextType) /\ Len(list) \in Nat /\ Len(list) # 0
    <2>1. list \in Seq(TextType)
      BY DEF Entries
    <2> QED
      BY <2>1, EmptySeq
  <1>2. /\ l \in Seq(TextType) /\ Len(l) = Len(list) - 1
        /\ \A i \in 1..Len(l) : l[i] = list[i + 1]
    BY <1>1, HeadTailProperties
  <1> HIDE DEF l
  <1>3. ASSUME NEW i \in 2..Len(l) PROVE l[i] # l[i - 1]
    <2>1. i \in 1..Len(l) /\ i - 1 \in 1..Len(l) /\ i + 1 \in 2..Len(list)
      BY <1>1, <1>2
    <2>2. l[i] = list[i + 1] /\ l[i - 1] = list[(i - 1) + 1] /\ (i - 1) + 1 = i
      BY <1>2, <2>1
    <2>3. list[i + 1] # list[(i + 1) - 1] /\ (i + 1) - 1 = i
      BY <2>1 DEF Entries
    <2> QED
      BY <2>2, <2>3
  <1>4. Len(l) <= HistoryMax
    BY <1>1, <1>2, SizeOfHistory DEF Entries
  <1>5. Entries(l)
    BY <1>2, <1>3, <1>4 DEF Entries
  <1>6. l # <<>> => l[Len(l)] = list[Len(list)]
    <2>1. l # <<>> => Len(l) \in 1..Len(l)
      BY <1>2, EmptySeq
    <2>2. l # <<>> => l[Len(l)] = list[Len(l) + 1]
      BY <1>2, <2>1
    <2>3. Len(l) + 1 = Len(list)
      BY <1>1, <1>2
    <2> QED
      BY <2>2, <2>3
  <1> QED
    BY <1>2, <1>5, <1>6 DEF l, Last

LEMMA HistoryAppendIsOK ==
    ASSUME NEW h, HistoryOK(h), NEW text \in TextType
    PROVE  HistoryOK(HistoryAppend(h, text)) /\ ~HistoryAppend(h, text).navigating
  <1> DEFINE list == h.entries
             rest == IF Len(list) >= HistoryMax THEN Tail(list) ELSE list
  <1>1. Entries(list) /\ Len(list) \in Nat /\ HistoryMax \in Nat /\ HistoryMax # 0
    BY SizeOfHistory DEF HistoryOK, Entries
  <1>2. CASE list # <<>> /\ Last(list) = text
    <2>1. HistoryAppend(h, text) = Reset(list)
      BY <1>2 DEF HistoryAppend
    <2> QED
      BY <1>1, <2>1, ResetIsOK
  <1>3. CASE ~(list # <<>> /\ Last(list) = text)
    <2>1. HistoryAppend(h, text) = Reset(Append(rest, text))
      BY <1>3 DEF HistoryAppend
    <2>2. /\ Entries(rest) /\ Len(rest) < HistoryMax
          /\ rest # <<>> => Last(rest) # text
      <3>1. CASE Len(list) >= HistoryMax
        <4>1. Len(list) = HistoryMax /\ Len(list) # 0
          BY <1>1, <3>1 DEF Entries
        <4>2. list # <<>>
          BY <4>1
        <4>3. /\ Entries(Tail(list)) /\ Len(Tail(list)) = Len(list) - 1
              /\ Tail(list) # <<>> => Last(Tail(list)) = Last(list)
          BY <1>1, <4>2, TailEntries
        <4>4. rest = Tail(list)
          BY <3>1
        <4> HIDE DEF rest, list
        <4> QED
          BY <1>1, <1>3, <4>1, <4>2, <4>3, <4>4
      <3>2. CASE Len(list) < HistoryMax
        <4>1. rest = list
          BY <1>1, <3>2
        <4> HIDE DEF rest, list
        <4> QED
          BY <1>1, <1>3, <3>2, <4>1
      <3> QED
        BY <1>1, <3>1, <3>2
    <2> HIDE DEF rest
    <2>3. Entries(Append(rest, text))
      BY <2>2, AppendedEntries
    <2> QED
      BY <2>1, <2>3, ResetIsOK
  <1> QED
    BY <1>2, <1>3

(* A history that was just built.                                          *)
Fresh == {h \in HistoryType : HistoryOK(h) /\ ~h.navigating}

LEMMA FreshIs ==
    ASSUME NEW h
    PROVE  h \in Fresh <=> HistoryOK(h) /\ ~h.navigating
  BY DEF Fresh, HistoryOK

IsLoaded(seed, g) ==
    g = [i \in 0..Len(seed) |->
            IF i = 0 THEN Reset(<<>>) ELSE HistoryAppend(g[i - 1], seed[i])]

LEMMA LoadedIsOK ==
    ASSUME NEW seed \in Seq(TextType)
    PROVE  HistoryOK(Loaded(seed)) /\ ~Loaded(seed).navigating
  <1> DEFINE end == Len(seed)
             base == Reset(<<>>)
             step == [x \in (1..end) \X Fresh |-> HistoryAppend(x[2], seed[x[1]])]
             l == CHOOSE g : IsLoaded(seed, g)
  <1>1. end \in Nat /\ base \in Fresh
    <2>1. Entries(<<>>)
      BY SizeOfHistory DEF Entries
    <2>2. base \in Fresh
      BY <2>1, ResetIsOK, FreshIs
    <2> QED
      BY <2>2
  <1>2. ASSUME NEW i \in 1..end, NEW v \in Fresh
        PROVE  step[<<i, v>>] = HistoryAppend(v, seed[i]) /\ step[<<i, v>>] \in Fresh
    <2>1. step[<<i, v>>] = HistoryAppend(v, seed[i])
      OBVIOUS
    <2>2. seed[i] \in TextType
      BY ElementOfSeq
    <2>3. HistoryAppend(v, seed[i]) \in Fresh
      BY <2>2, FreshIs, HistoryAppendIsOK
    <2> QED
      BY <2>1, <2>3
  <1>3. PICK g \in [0..end -> Fresh] : Loops(g, end, base, step)
    <2> HIDE DEF step, base, end
    <2> QED
      BY <1>1, <1>2, LoopExists
  <1>4. \A i \in 0..end :
            g[i] = IF i = 0 THEN base ELSE HistoryAppend(g[i - 1], seed[i])
    <2> TAKE i \in 0..end
    <2>1. g[i] = IF i = 0 THEN base ELSE step[<<i, g[i - 1]>>]
      <3> HIDE DEF step, base, end
      <3> QED
        BY <1>3 DEF Loops
    <2>2. i # 0 => i \in 1..end /\ i - 1 \in 0..end
      BY <1>1
    <2>3. i # 0 => g[i - 1] \in Fresh
      BY <1>3, <2>2
    <2> HIDE DEF step, base, end
    <2>4. i # 0 => step[<<i, g[i - 1]>>] = HistoryAppend(g[i - 1], seed[i])
      BY <1>2, <2>2, <2>3
    <2> QED
      BY <2>1, <2>4
  <1>5. IsLoaded(seed, g)
    <2>1. g = [i \in 0..end |-> g[i]]
      BY <1>3
    <2> HIDE DEF step
    <2>2. g = [i \in 0..end |->
                IF i = 0 THEN base ELSE HistoryAppend(g[i - 1], seed[i])]
      <3> HIDE DEF base, end
      <3> QED
        BY <1>4, <2>1
    <2> QED
      BY Zenon, <2>2 DEF IsLoaded
  <1>6. IsLoaded(seed, l)
    BY Zenon, <1>5
  <1>7. Loaded(seed) = l[end]
    BY Zenon DEF Loaded, IsLoaded
  <1> HIDE DEF l, step
  <1>8. \A i \in 0..end :
            l[i] = IF i = 0 THEN base ELSE HistoryAppend(l[i - 1], seed[i])
    BY <1>6 DEF IsLoaded
  <1> DEFINE T == {i \in 0..end : l[i] \in Fresh}
  <1>9. 0 \in T
    BY <1>1, <1>8
  <1>10. ASSUME NEW i \in 1..end, i - 1 \in T PROVE i \in T
    <2>1. i \in 0..end /\ i # 0 /\ l[i - 1] \in Fresh
      BY <1>10
    <2>2. l[i] = HistoryAppend(l[i - 1], seed[i])
      BY <1>8, <2>1
    <2>3. seed[i] \in TextType
      BY ElementOfSeq
    <2>4. l[i] \in Fresh
      BY <2>1, <2>2, <2>3, FreshIs, HistoryAppendIsOK
    <2> QED
      BY <2>1, <2>4
  <1>11. end \in T
    <2> HIDE DEF T, end
    <2>1. \A i \in 0..end : i \in T
      BY <1>1, <1>9, <1>10, Upwards
    <2> QED
      BY <1>1, <2>1
  <1>12. l[end] \in Fresh
    BY <1>11
  <1> QED
    BY <1>7, <1>12, FreshIs

LEMMA ShownIsText ==
    ASSUME NEW h, HistoryOK(h)
    PROVE  Shown(h) \in TextType
  <1>1. CASE h.index = Len(h.entries) + 1
    BY <1>1 DEF Shown, HistoryOK, HistoryType
  <1>2. CASE h.index # Len(h.entries) + 1
    <2>1. h.entries \in Seq(TextType) /\ h.index \in 1..Len(h.entries) + 1
      BY DEF HistoryOK, HistoryType
    <2>2. h.index \in 1..Len(h.entries)
      BY <1>2, <2>1
    <2>3. h.entries[h.index] \in TextType
      BY <2>1, <2>2, ElementOfSeq
    <2> QED
      BY <1>2, <2>3 DEF Shown
  <1> QED
    BY <1>1, <1>2

LEMMA HistoryFields ==
    ASSUME NEW h, HistoryOK(h)
    PROVE  /\ h = [entries |-> h.entries, index |-> h.index,
                   navigating |-> h.navigating, draft |-> h.draft]
           /\ h.entries \in Seq(TextType) /\ Entries(h.entries)
           /\ h.index \in 1..Len(h.entries) + 1 /\ Len(h.entries) \in Nat
           /\ h.navigating \in BOOLEAN /\ h.draft \in TextType
           /\ ~h.navigating => h.index = Len(h.entries) + 1
  BY DEF HistoryOK, HistoryType

LEMMA BegunIs ==
    ASSUME NEW h \in HistoryType, NEW text \in TextType
    PROVE  /\ [h EXCEPT !.navigating = TRUE, !.draft = text] \in HistoryType
           /\ [h EXCEPT !.navigating = TRUE, !.draft = text].entries = h.entries
           /\ [h EXCEPT !.navigating = TRUE, !.draft = text].index = h.index
           /\ [h EXCEPT !.navigating = TRUE, !.draft = text].navigating
           /\ [h EXCEPT !.navigating = TRUE, !.draft = text].draft = text
  BY DEF HistoryType

LEMMA SteppedIs ==
    ASSUME NEW h \in HistoryType, NEW i \in Nat
    PROVE  /\ [h EXCEPT !.index = i] \in HistoryType
           /\ [h EXCEPT !.index = i].entries = h.entries
           /\ [h EXCEPT !.index = i].index = i
           /\ [h EXCEPT !.index = i].navigating = h.navigating
           /\ [h EXCEPT !.index = i].draft = h.draft
  BY DEF HistoryType

LEMMA PreviousIsOK ==
    ASSUME NEW h, HistoryOK(h), HasPrevious(h), NEW text \in TextType
    PROVE  /\ HistoryOK(HistoryPrevious(h, text))
           /\ HistoryPrevious(h, text).navigating
           /\ HistoryPrevious(h, text).draft =
                 IF h.navigating THEN h.draft ELSE text
  <1> DEFINE begun == IF h.navigating THEN h
                      ELSE [h EXCEPT !.navigating = TRUE, !.draft = text]
             d == IF h.navigating THEN h.draft ELSE text
             i == h.index - 1
             p == [begun EXCEPT !.index = i]
  <1>1. /\ h \in HistoryType /\ Entries(h.entries) /\ h.entries \in Seq(TextType)
        /\ h.index \in 1..Len(h.entries) + 1 /\ Len(h.entries) \in Nat
        /\ ~h.navigating => h.index = Len(h.entries) + 1
    BY HistoryFields DEF HistoryOK
  <1>2. Len(h.entries) # 0
    BY <1>1, EmptySeq DEF HasPrevious
  <1>3. h.index # 1
    BY <1>1, <1>2 DEF HasPrevious
  <1>4. i \in 1..Len(h.entries) + 1 /\ i \in Nat
    BY <1>1, <1>3
  <1>5. /\ begun \in HistoryType /\ begun.entries = h.entries
        /\ begun.index = h.index /\ begun.navigating /\ begun.draft = d
    <2>1. CASE h.navigating
      BY <1>1, <2>1
    <2>2. CASE ~h.navigating
      BY <1>1, <2>2, BegunIs
    <2> QED
      BY <2>1, <2>2
  <1>6. HistoryPrevious(h, text) = [begun EXCEPT !.index = @ - 1]
    BY Zenon DEF HistoryPrevious
  <1> HIDE DEF begun
  <1>7. HistoryPrevious(h, text) = p
    BY <1>5, <1>6
  <1> HIDE DEF i
  <1>8. /\ p \in HistoryType /\ p.entries = h.entries /\ p.index = i
        /\ p.navigating = begun.navigating /\ p.draft = d
    BY <1>4, <1>5, SteppedIs
  <1> HIDE DEF p
  <1>9. HistoryOK(p) /\ p.navigating /\ p.draft = d
    BY <1>1, <1>4, <1>5, <1>8 DEF HistoryOK
  <1> QED
    BY <1>7, <1>9 DEF d

LEMMA NextIsOK ==
    ASSUME NEW h, HistoryOK(h), HasNext(h)
    PROVE  /\ HistoryOK(HistoryNext(h)) /\ HistoryNext(h).navigating
           /\ HistoryNext(h).draft = h.draft /\ HistoryNext(h).entries = h.entries
  <1> DEFINE i == h.index + 1
             p == [h EXCEPT !.index = i]
  <1>1. /\ h \in HistoryType /\ Entries(h.entries)
        /\ h.index \in 1..Len(h.entries) + 1 /\ Len(h.entries) \in Nat
    BY HistoryFields DEF HistoryOK
  <1>2. h.navigating /\ i \in 1..Len(h.entries) + 1 /\ i \in Nat
    BY <1>1 DEF HasNext
  <1>3. HistoryNext(h) = p
    BY DEF HistoryNext
  <1> HIDE DEF i
  <1>4. /\ p \in HistoryType /\ p.entries = h.entries /\ p.index = i
        /\ p.navigating = h.navigating /\ p.draft = h.draft
    BY <1>1, <1>2, SteppedIs
  <1> HIDE DEF p
  <1>5. HistoryOK(p) /\ p.navigating
    BY <1>1, <1>2, <1>4 DEF HistoryOK
  <1> QED
    BY <1>3, <1>4, <1>5

-----------------------------------------------------------------------------
(* The menu of commands.                                                   *)
MenuType == [matches : Seq(TextType), selection : Nat]
MenuOK(m) ==
    /\ m \in MenuType
    /\ m.selection < Len(m.matches) \/ (m.matches = <<>> /\ m.selection = 0)

Kept(text, i, list) ==
    IF IsPrefix(text, Commands[i]) THEN Append(list, Commands[i]) ELSE list
IsFilter(text, g) ==
    g = [i \in 0..Len(Commands) |->
            IF i = 0 THEN <<>>
            ELSE IF IsPrefix(text, Commands[i]) THEN Append(g[i - 1], Commands[i])
            ELSE g[i - 1]]

LEMMA FilterIsTyped ==
    ASSUME NEW text
    PROVE  Filter(text) \in Seq(TextType)
  <1> DEFINE end == Len(Commands)
             V == Seq(TextType)
             base == <<>>
             step == [x \in (1..end) \X V |-> Kept(text, x[1], x[2])]
             l == CHOOSE g : IsFilter(text, g)
  <1>1. end \in Nat /\ base \in V /\ Commands \in Seq(TextType)
    <2>1. Commands \in Seq(TextType)
      BY Zenon, Assumed
    <2> QED
      BY <2>1
  <1>2. ASSUME NEW i \in 1..end, NEW v \in V
        PROVE  Kept(text, i, v) \in V
    <2>1. Commands[i] \in TextType
      BY <1>1, ElementOfSeq
    <2>2. Append(v, Commands[i]) \in V
      BY <2>1, AppendProperties
    <2> QED
      BY <2>2 DEF Kept
  <1>3. ASSUME NEW i \in 1..end, NEW v \in V
        PROVE  step[<<i, v>>] = Kept(text, i, v) /\ step[<<i, v>>] \in V
    <2> HIDE DEF V
    <2>1. step[<<i, v>>] = Kept(text, i, v)
      OBVIOUS
    <2> QED
      BY <2>1, <1>2
  <1> HIDE DEF V
  <1>4. PICK g \in [0..end -> V] : Loops(g, end, base, step)
    <2> HIDE DEF step, base, end
    <2> QED
      BY <1>1, <1>3, LoopExists
  <1>5. \A i \in 0..end :
            g[i] = IF i = 0 THEN base ELSE Kept(text, i, g[i - 1])
    <2> TAKE i \in 0..end
    <2>1. g[i] = IF i = 0 THEN base ELSE step[<<i, g[i - 1]>>]
      <3> HIDE DEF step, base, end
      <3> QED
        BY <1>4 DEF Loops
    <2>2. i # 0 => i \in 1..end /\ i - 1 \in 0..end
      BY <1>1
    <2>3. i # 0 => g[i - 1] \in V
      BY <1>4, <2>2
    <2> HIDE DEF step, base, end
    <2>4. i # 0 => step[<<i, g[i - 1]>>] = Kept(text, i, g[i - 1])
      BY <1>3, <2>2, <2>3
    <2> QED
      BY <2>1, <2>4
  <1>6. IsFilter(text, g)
    <2>1. g = [i \in 0..end |-> g[i]]
      BY <1>4
    <2>2. g = [i \in 0..end |-> IF i = 0 THEN base ELSE Kept(text, i, g[i - 1])]
      <3> HIDE DEF base, end, step
      <3> QED
        BY <1>5, <2>1
    <2> QED
      BY Zenon, <2>2 DEF IsFilter, Kept
  <1>7. IsFilter(text, l)
    BY Zenon, <1>6
  <1>8. Filter(text) = IF text = <<>> \/ text[1] # "/" \/ LiteralSlash(text)
                       THEN <<>> ELSE l[end]
    BY Zenon DEF Filter, IsFilter
  <1> HIDE DEF l, step
  <1>9. \A i \in 0..end : l[i] = IF i = 0 THEN base ELSE Kept(text, i, l[i - 1])
    BY <1>7 DEF IsFilter, Kept
  <1> DEFINE T == {i \in 0..end : l[i] \in V}
  <1>10. 0 \in T
    BY <1>1, <1>9
  <1>11. ASSUME NEW i \in 1..end, i - 1 \in T PROVE i \in T
    <2>1. i \in 0..end /\ i # 0 /\ l[i - 1] \in V
      BY <1>11
    <2>2. l[i] = Kept(text, i, l[i - 1])
      BY <1>9, <2>1
    <2>3. l[i] \in V
      BY <2>1, <2>2, <1>2
    <2> QED
      BY <2>1, <2>3
  <1>12. end \in T
    <2> HIDE DEF T, end
    <2>1. \A i \in 0..end : i \in T
      BY <1>1, <1>10, <1>11, Upwards
    <2> QED
      BY <1>1, <2>1
  <1>13. l[end] \in V
    BY <1>12
  <1> QED
    BY <1>1, <1>8, <1>13 DEF V

(* A refreshed menu keeps its selection only where it still is one.        *)
LEMMA RefreshIsOK ==
    ASSUME MenuOK(menu), NEW e
    PROVE  MenuOK(Refresh(e))
  <1> DEFINE f == Filter(e.text)
             i == IF menu.selection >= Len(f) THEN 0 ELSE menu.selection
  <1>1. f \in Seq(TextType)
    BY FilterIsTyped
  <1>2. Refresh(e) = [matches |-> f, selection |-> i]
    BY DEF Refresh
  <1> HIDE DEF f
  <1>3. menu.selection \in Nat /\ Len(f) \in Nat /\ (f # <<>> => Len(f) # 0)
    BY <1>1, EmptySeq DEF MenuOK, MenuType
  <1>4. i \in Nat /\ (i < Len(f) \/ (f = <<>> /\ i = 0))
    BY <1>3
  <1> HIDE DEF i
  <1> QED
    BY <1>1, <1>2, <1>4 DEF MenuOK, MenuType

LEMMA MenuFields ==
    ASSUME MenuOK(menu)
    PROVE  /\ menu.matches \in Seq(TextType) /\ Len(menu.matches) \in Nat
           /\ menu.selection \in Nat
           /\ MenuOpen <=> menu.matches # <<>>
           /\ MenuOpen => /\ menu.selection < Len(menu.matches)
                          /\ Len(menu.matches) # 0 /\ Chosen \in TextType
  <1>1. /\ menu.matches \in Seq(TextType) /\ Len(menu.matches) \in Nat
        /\ menu.selection \in Nat
        /\ menu.selection < Len(menu.matches) \/ menu.matches = <<>>
    BY DEF MenuOK, MenuType
  <1>2. CASE menu.matches # <<>>
    <2>1. menu.selection + 1 \in 1..Len(menu.matches)
      BY <1>1, <1>2
    <2>2. menu.matches[menu.selection + 1] \in TextType
      BY <1>1, <2>1, ElementOfSeq
    <2> QED
      BY <1>1, <1>2, <2>2 DEF MenuOpen, Chosen
  <1>3. CASE menu.matches = <<>>
    BY <1>1, <1>3 DEF MenuOpen
  <1> QED
    BY <1>2, <1>3

LEMMA SelectedIsOK ==
    ASSUME MenuOK(menu), MenuOpen, NEW i \in Nat, i < Len(menu.matches)
    PROVE  MenuOK([menu EXCEPT !.selection = i])
  <1> DEFINE m == [menu EXCEPT !.selection = i]
  <1>1. m \in MenuType /\ m.matches = menu.matches /\ m.selection = i
    BY DEF MenuOK, MenuType
  <1> HIDE DEF m
  <1>2. MenuOK(m)
    BY <1>1 DEF MenuOK
  <1> QED
    BY <1>2 DEF m

-----------------------------------------------------------------------------
(* The prompt.  What an event may do to editor, menu and history.          *)
PromptOK == EditorOK(editor) /\ MenuOK(menu) /\ HistoryOK(history)
ThenOK(then) ==
    EditorOK(then.editor) /\ MenuOK(then.menu) /\ HistoryOK(then.history)

LEMMA EditIsOK ==
    ASSUME PromptOK, NEW e, EditorOK(e)
    PROVE  /\ ThenOK(Edit(e)) /\ Edit(e).history = history
           /\ Edit(e).editor = e /\ Edit(e).action = "NONE"
  <1>1. MenuOK(Refresh(e))
    BY RefreshIsOK DEF PromptOK
  <1> QED
    BY <1>1 DEF Edit, Then, ThenOK, PromptOK

LEMMA MoveToIsOK ==
    ASSUME PromptOK, NEW e, EditorOK(e)
    PROVE  ThenOK(MoveTo(e)) /\ MoveTo(e).history = history
  BY DEF MoveTo, Then, ThenOK, PromptOK

LEMMA ActIsOK ==
    ASSUME PromptOK, NEW action
    PROVE  ThenOK(Act(action)) /\ Act(action).history = history
  BY DEF Act, Then, ThenOK, PromptOK

LEMMA SelectIsOK ==
    ASSUME PromptOK, MenuOpen, NEW i \in Nat, i < Len(menu.matches)
    PROVE  ThenOK(Select(i)) /\ Select(i).history = history
  <1>1. MenuOK([menu EXCEPT !.selection = i])
    BY SelectedIsOK DEF PromptOK
  <1> QED
    BY <1>1 DEF Select, Then, ThenOK, PromptOK

LEMMA ShowIsOK ==
    ASSUME PromptOK, NEW h, HistoryOK(h)
    PROVE  /\ ThenOK(Show(h)) /\ Show(h).history = h
           /\ Show(h).editor.text = Shown(h)
  <1>1. EditorOK(SetTo(Shown(h))) /\ SetTo(Shown(h)).text = Shown(h)
    BY ShownIsText, SetToIsOK
  <1>2. MenuOK(Refresh(SetTo(Shown(h))))
    BY RefreshIsOK DEF PromptOK
  <1>3. Show(h) = Then(SetTo(Shown(h)), Refresh(SetTo(Shown(h))), h, "NONE")
    BY DEF Show
  <1> QED
    BY <1>1, <1>2, <1>3 DEF Then, ThenOK

LEMMA CompleteIsOK ==
    ASSUME PromptOK, MenuOpen
    PROVE  ThenOK(Complete) /\ Complete.history = history
  <1>1. Chosen \in Seq(Chars)
    BY MenuFields DEF PromptOK, TextType
  <1>2. Append(Chosen, " ") \in TextType
    BY <1>1, Assumed, AppendProperties DEF TextType
  <1>3. EditorOK(SetTo(Append(Chosen, " ")))
    BY <1>2, SetToIsOK
  <1> QED
    BY <1>3, EditIsOK DEF Complete

(* Apply, as far as types and the history go.                              *)
LEMMA ApplyIsOneOf ==
    ASSUME NEW event
    PROVE  \/ event.type = "TEXT" /\ Apply(event) = Edit(Insert(editor, event.text))
           \/ /\ event.type \in {"NEWLINE", "BACKSPACE", "DELETE", "CTRL_D", "CTRL_C"}
              /\ Apply(event) \in {Edit(Insert(editor, "lf")), Edit(Backspace(editor)),
                                   Edit(Delete(editor)), Edit(NoText)}
           \/ Apply(event) \in {MoveTo(MoveLeft(editor)), MoveTo(MoveRight(editor)),
                                MoveTo(LineStart(editor)), MoveTo(LineEnd(editor))}
           \/ MenuOpen /\ Apply(event) = Complete
           \/ /\ MenuOpen
              /\ Apply(event) \in
                   {Select(IF menu.selection = 0 THEN Len(menu.matches) - 1
                           ELSE menu.selection - 1),
                    Select((menu.selection + 1) % Len(menu.matches))}
           \/ /\ event.type = "UP" /\ ~MenuOpen /\ HasPrevious(history)
              /\ Apply(event) = Show(HistoryPrevious(history, editor.text))
           \/ /\ event.type = "DOWN" /\ ~MenuOpen /\ HasNext(history)
              /\ Apply(event) = Show(HistoryNext(history))
           \/ Apply(event) \in {Act("SUBMIT"), Act("EXIT"), Act("NONE")}
  BY DEF Apply

EventOK(event) == event.type = "TEXT" => event.text \in Chars

LEMMA ApplyIsOK ==
    ASSUME PromptOK, NEW event, EventOK(event)
    PROVE  /\ ThenOK(Apply(event))
           /\ \/ Apply(event).history = history
              \/ /\ event.type = "UP" /\ ~MenuOpen /\ HasPrevious(history)
                 /\ Apply(event).history = HistoryPrevious(history, editor.text)
              \/ /\ event.type = "DOWN" /\ HasNext(history)
                 /\ Apply(event).history = HistoryNext(history)
                 /\ Apply(event).editor.text = Shown(HistoryNext(history))
  <1>1. EditorOK(editor) /\ MenuOK(menu) /\ HistoryOK(history)
    BY DEF PromptOK
  <1>2. CASE event.type = "TEXT" /\ Apply(event) = Edit(Insert(editor, event.text))
    <2>1. EditorOK(Insert(editor, event.text))
      BY <1>1, <1>2, InsertIsOK DEF EventOK
    <2> QED
      BY <1>2, <2>1, EditIsOK
  <1>3. CASE Apply(event) \in {Edit(Insert(editor, "lf")), Edit(Backspace(editor)),
                               Edit(Delete(editor)), Edit(NoText)}
    <2>0. "lf" \in Chars
      BY Zenon, Assumed
    <2>1. EditorOK(Insert(editor, "lf"))
      BY <1>1, <2>0, InsertIsOK
    <2>2. EditorOK(Backspace(editor)) /\ EditorOK(Delete(editor)) /\ EditorOK(NoText)
      BY <1>1, BackspaceIsOK, DeleteIsOK, NoTextIsOK
    <2>3. /\ ThenOK(Edit(Insert(editor, "lf")))
          /\ Edit(Insert(editor, "lf")).history = history
      BY <2>1, EditIsOK
    <2>4. /\ ThenOK(Edit(Backspace(editor))) /\ Edit(Backspace(editor)).history = history
          /\ ThenOK(Edit(Delete(editor))) /\ Edit(Delete(editor)).history = history
          /\ ThenOK(Edit(NoText)) /\ Edit(NoText).history = history
      BY <2>2, EditIsOK
    <2> QED
      BY <1>3, <2>3, <2>4
  <1>4. CASE Apply(event) \in {MoveTo(MoveLeft(editor)), MoveTo(MoveRight(editor)),
                               MoveTo(LineStart(editor)), MoveTo(LineEnd(editor))}
    <2>1. /\ EditorOK(MoveLeft(editor)) /\ EditorOK(MoveRight(editor))
          /\ EditorOK(LineStart(editor)) /\ EditorOK(LineEnd(editor))
      BY <1>1, MovesAreOK
    <2>2. /\ ThenOK(MoveTo(MoveLeft(editor)))
          /\ MoveTo(MoveLeft(editor)).history = history
          /\ ThenOK(MoveTo(MoveRight(editor)))
          /\ MoveTo(MoveRight(editor)).history = history
      BY <2>1, MoveToIsOK
    <2>3. /\ ThenOK(MoveTo(LineStart(editor)))
          /\ MoveTo(LineStart(editor)).history = history
          /\ ThenOK(MoveTo(LineEnd(editor)))
          /\ MoveTo(LineEnd(editor)).history = history
      BY <2>1, MoveToIsOK
    <2> QED
      BY <1>4, <2>2, <2>3
  <1>5. CASE MenuOpen /\ Apply(event) = Complete
    BY <1>5, CompleteIsOK
  <1>6. CASE /\ MenuOpen
             /\ Apply(event) \in
                  {Select(IF menu.selection = 0 THEN Len(menu.matches) - 1
                          ELSE menu.selection - 1),
                   Select((menu.selection + 1) % Len(menu.matches))}
    <2> DEFINE up == IF menu.selection = 0 THEN Len(menu.matches) - 1
                     ELSE menu.selection - 1
               down == (menu.selection + 1) % Len(menu.matches)
    <2>1. /\ menu.selection \in Nat /\ Len(menu.matches) \in Nat
          /\ menu.selection < Len(menu.matches) /\ Len(menu.matches) # 0
      BY <1>1, <1>6, MenuFields
    <2>2. /\ up \in Nat /\ up < Len(menu.matches)
          /\ down \in Nat /\ down < Len(menu.matches)
      BY <2>1
    <2>3. Apply(event) \in {Select(up), Select(down)}
      BY <1>6
    <2> HIDE DEF up, down
    <2>4. /\ ThenOK(Select(up)) /\ Select(up).history = history
          /\ ThenOK(Select(down)) /\ Select(down).history = history
      BY <1>6, <2>2, SelectIsOK
    <2> QED
      BY <2>3, <2>4
  <1>7. CASE /\ event.type = "UP" /\ ~MenuOpen /\ HasPrevious(history)
             /\ Apply(event) = Show(HistoryPrevious(history, editor.text))
    <2>1. editor.text \in TextType
      BY <1>1, EditorFields
    <2>2. HistoryOK(HistoryPrevious(history, editor.text))
      BY <1>1, <1>7, <2>1, PreviousIsOK
    <2> QED
      BY <1>7, <2>2, ShowIsOK
  <1>8. CASE /\ event.type = "DOWN" /\ ~MenuOpen /\ HasNext(history)
             /\ Apply(event) = Show(HistoryNext(history))
    <2>1. HistoryOK(HistoryNext(history))
      BY <1>1, <1>8, NextIsOK
    <2> QED
      BY <1>8, <2>1, ShowIsOK
  <1>9. CASE Apply(event) \in {Act("SUBMIT"), Act("EXIT"), Act("NONE")}
    <2>1. /\ ThenOK(Act("SUBMIT")) /\ Act("SUBMIT").history = history
          /\ ThenOK(Act("EXIT")) /\ Act("EXIT").history = history
          /\ ThenOK(Act("NONE")) /\ Act("NONE").history = history
      BY ActIsOK
    <2> QED
      BY <1>9, <2>1
  <1> QED
    BY <1>2, <1>3, <1>4, <1>5, <1>6, <1>7, <1>8, <1>9, ApplyIsOneOf

-----------------------------------------------------------------------------
(* The decoder.                                                            *)
DecodeOK(d) == d.consumed \in Nat /\ EventOK(d.event)

LEMMA PartsAreOK ==
    /\ \A paste : DecodeOK(Again(paste)) /\ DecodeOK(Invalid(paste))
    /\ \A type, n, paste : n \in Nat /\ type # "TEXT" => DecodeOK(Decoded(Event(type), n, paste))
    /\ \A c \in Chars : \A n, paste : n \in Nat => DecodeOK(Decoded(Text(c), n, paste))
  <1>1. \A type, n, paste : n \in Nat /\ type # "TEXT" =>
            DecodeOK(Decoded(Event(type), n, paste))
    BY DEF DecodeOK, EventOK, Decoded, Event
  <1>2. \A c \in Chars : \A n, paste : n \in Nat => DecodeOK(Decoded(Text(c), n, paste))
    BY DEF DecodeOK, EventOK, Decoded, Text
  <1>3. \A paste : DecodeOK(Again(paste)) /\ DecodeOK(Invalid(paste))
    BY <1>1 DEF Again, Invalid
  <1> QED
    BY <1>1, <1>2, <1>3

LEMMA FirstOf ==
    ASSUME NEW bytes \in TextType, bytes # <<>>
    PROVE  bytes[1] \in Chars
  BY DEF TextType

LEMMA DecodeTextIsOK ==
    ASSUME NEW bytes \in TextType, bytes # <<>>, NEW paste
    PROVE  DecodeOK(DecodeText(bytes, paste))
  <1>1. "e'" \in Chars /\ bytes[1] \in Chars
    BY Zenon, Assumed, FirstOf
  <1>2. DecodeText(bytes, paste) \in
            {Again(paste), Decoded(Text("e'"), 2, paste), Invalid(paste),
             Decoded(Text(bytes[1]), 1, paste)}
    <2>1. Len(bytes) \in Nat /\ Len(bytes) # 0
      BY EmptySeq DEF TextType
    <2>2. Len(bytes) = 1 \/ Len(bytes) > 1
      BY <2>1
    <2> QED
      BY <2>2 DEF DecodeText
  <1>3. /\ DecodeOK(Decoded(Text("e'"), 2, paste))
        /\ DecodeOK(Decoded(Text(bytes[1]), 1, paste))
        /\ DecodeOK(Again(paste)) /\ DecodeOK(Invalid(paste))
    BY <1>1, PartsAreOK
  <1> QED
    BY <1>2, <1>3

LEMMA SequencesAre ==
    ASSUME NEW t \in DOMAIN EscapeMappings, NEW s \in EscapeMappings[t]
    PROVE  t # "TEXT" /\ Len(s) \in Nat
  BY DEF EscapeMappings

LEMMA DecodeEscapeIsOK ==
    ASSUME NEW bytes
    PROVE  DecodeOK(DecodeEscape(bytes))
  <1> DEFINE Whole(t) == {s \in EscapeMappings[t] : IsPrefix(s, bytes)}
             whole == {t \in DOMAIN EscapeMappings : Whole(t) # {}}
             t1 == CHOOSE t \in whole : TRUE
             s1 == CHOOSE s \in Whole(t1) : TRUE
  <1>1. CASE whole # {}
    <2>1. DecodeEscape(bytes) = Decoded(Event(t1), Len(s1), t1 = "PASTE_BEGIN")
      BY Zenon, <1>1 DEF DecodeEscape
    <2>2. t1 \in whole
      BY Zenon, <1>1
    <2>3. s1 \in Whole(t1)
      BY Zenon, <2>2
    <2>4. t1 \in DOMAIN EscapeMappings /\ s1 \in EscapeMappings[t1]
      BY Zenon, <2>2, <2>3
    <2> HIDE DEF t1, s1
    <2>5. t1 # "TEXT" /\ Len(s1) \in Nat
      BY <2>4, SequencesAre
    <2> QED
      BY <2>1, <2>5, PartsAreOK
  <1>2. CASE whole = {}
    <2>1. DecodeEscape(bytes) \in {Again(FALSE), Invalid(FALSE)}
      BY Zenon, <1>2 DEF DecodeEscape
    <2> QED
      BY <2>1, PartsAreOK
  <1> QED
    BY <1>1, <1>2

LEMMA DecodeIsOK ==
    ASSUME NEW bytes \in TextType, bytes # <<>>, NEW paste
    PROVE  DecodeOK(Decode(bytes, paste))
  <1>1. DecodeOK(DecodePasted(bytes))
    <2>1. Len(PasteEnd) \in Nat
      BY DEF PasteEnd
    <2>2. /\ DecodeOK(Decoded(Event("PASTE_END"), Len(PasteEnd), FALSE))
          /\ DecodeOK(Again(TRUE)) /\ DecodeOK(Invalid(TRUE))
          /\ DecodeOK(DecodeText(bytes, TRUE))
      BY <2>1, PartsAreOK, DecodeTextIsOK
    <2>3. DecodePasted(bytes) \in
            {Decoded(Event("PASTE_END"), Len(PasteEnd), FALSE), Again(TRUE),
             Invalid(TRUE), DecodeText(bytes, TRUE)}
      BY DEF DecodePasted
    <2> QED
      BY <2>2, <2>3
  <1>2. DecodeOK(DecodeEscape(bytes)) /\ DecodeOK(DecodeText(bytes, FALSE))
        /\ DecodeOK(Invalid(FALSE))
    BY DecodeEscapeIsOK, DecodeTextIsOK, PartsAreOK
  <1>3. bytes[1] \in DOMAIN Controls =>
            DecodeOK(Decoded(Event(Controls[bytes[1]]), 1, FALSE))
    <2>1. bytes[1] \in DOMAIN Controls => Controls[bytes[1]] # "TEXT"
      BY DEF Controls
    <2> QED
      BY <2>1, PartsAreOK
  <1>4. \/ Decode(bytes, paste) \in {DecodePasted(bytes), DecodeEscape(bytes),
                                     Invalid(FALSE), DecodeText(bytes, FALSE)}
        \/ /\ bytes[1] \in DOMAIN Controls
           /\ Decode(bytes, paste) = Decoded(Event(Controls[bytes[1]]), 1, FALSE)
    <2>1. CASE paste
      <3>1. Decode(bytes, paste) = DecodePasted(bytes)
        BY <2>1 DEF Decode
      <3> QED
        BY <3>1
    <2>2. CASE ~paste
      <3>1. "esc" \notin DOMAIN Controls /\ "nul" \notin DOMAIN Controls
        BY DEF Controls
      <3> QED
        BY <2>2, <3>1 DEF Decode
    <2> QED
      BY <2>1, <2>2
  <1> QED
    BY <1>1, <1>2, <1>3, <1>4

-----------------------------------------------------------------------------
(* The invariant: the types, and how the ghost of a walk relates to the    *)
(* history.  Before a walk the history is not navigated; during the first  *)
(* one it is, and its draft is the text the walk began with.               *)
Buffers == tty \in TextType /\ input \in TextType /\ queued \in TextType

Readers ==
    /\ reader \in {"idle", "busy", "permission", "select", "closed"}
    /\ at \in {"decode", "wait"}
    /\ timer => reader \in {"busy", "permission"}
    /\ option \in 0..Options - 1
    /\ hearing \in {"whole", "torn", "wrong"}

WalkType == [stage : {"none", "first", "back", "left"}, had : TextType]
Walking ==
    /\ walk \in WalkType
    /\ walk.stage = "none" => ~history.navigating
    /\ walk.stage = "first" => history.navigating /\ history.draft = walk.had

Lines == PromptOK /\ Walking
IInv  == Buffers /\ Readers /\ Lines

DraftStep == walk.stage = "first" /\ walk'.stage = "back" => editor'.text = walk.had

LEMMA LinesStay ==
    ASSUME Lines, UNCHANGED <<editor, menu, history, walk>>
    PROVE  Lines' /\ DraftStep
  BY DEF Lines, PromptOK, EditorOK, MenuOK, HistoryOK, Entries, Walking, DraftStep

LEMMA InitIInv == Init => IInv
  <1> SUFFICES ASSUME Init PROVE IInv
    OBVIOUS
  <1>1. PICK seed \in Seeds : history = Loaded(seed)
    BY DEF Init
  <1>2. seed \in Seq(TextType)
    BY Zenon, Assumed
  <1>3. HistoryOK(history) /\ ~history.navigating
    BY <1>1, <1>2, LoadedIsOK
  <1>4. <<>> \in TextType /\ <<>> \in Seq(TextType)
    BY DEF TextType
  <1>5. EditorOK(editor)
    BY NoTextIsOK DEF Init
  <1>6. MenuOK(menu)
    BY <1>4 DEF Init, MenuOK, MenuType
  <1>7. Walking
    BY <1>3, <1>4 DEF Init, Walking, WalkType
  <1>8. Buffers /\ Readers
    BY <1>4 DEF Init, Buffers, Readers, Options
  <1> QED
    BY <1>3, <1>5, <1>6, <1>7, <1>8 DEF IInv, Lines, PromptOK

(* What a key does at the prompt, whoever reads it.                        *)
LEMMA AppliedIsOK ==
    ASSUME Lines, NEW event, EventOK(event), Applies(event, Apply(event))
    PROVE  Lines' /\ DraftStep
  <1> DEFINE then == Apply(event)
             grown == [stage |-> "first", had |-> editor.text]
  <1>1. EditorOK(editor) /\ HistoryOK(history) /\ PromptOK /\ walk \in WalkType
    BY DEF Lines, PromptOK, Walking
  <1>2. /\ ThenOK(then)
        /\ \/ then.history = history
           \/ /\ event.type = "UP" /\ ~MenuOpen /\ HasPrevious(history)
              /\ then.history = HistoryPrevious(history, editor.text)
           \/ /\ event.type = "DOWN" /\ HasNext(history)
              /\ then.history = HistoryNext(history)
              /\ then.editor.text = Shown(HistoryNext(history))
    BY <1>1, ApplyIsOK
  <1>3. /\ editor' = then.editor /\ menu' = then.menu /\ history' = then.history
        /\ walk' = Walked(event, then)
    BY DEF Applies
  <1>4. PromptOK'
    <2>1. EditorOK(editor') /\ MenuOK(menu') /\ HistoryOK(history')
      BY <1>2, <1>3 DEF ThenOK
    <2> QED
      BY <2>1 DEF PromptOK, EditorOK, MenuOK, HistoryOK, Entries
  <1>5. editor.text \in TextType
    BY <1>1, EditorFields
  <1> HIDE DEF then
  <1>6. \/ /\ walk.stage = "none" /\ event.type = "UP" /\ ~MenuOpen
           /\ history.entries # <<>> /\ walk' = grown
        \/ /\ walk.stage = "first" /\ event.type = "DOWN" /\ then.history # history
           /\ then.history.index = Len(history.entries) + 1
           /\ walk' = [walk EXCEPT !.stage = "back"]
        \/ walk.stage = "first" /\ walk' = [walk EXCEPT !.stage = "left"]
        \/ /\ walk' = walk
           /\ ~(/\ walk.stage = "none" /\ event.type = "UP" /\ ~MenuOpen
                /\ history.entries # <<>>)
    BY <1>3 DEF Walked
  <1>7. CASE /\ walk.stage = "none" /\ event.type = "UP" /\ ~MenuOpen
             /\ history.entries # <<>> /\ walk' = grown
    <2>1. ~history.navigating
      BY <1>7 DEF Lines, Walking
    <2>2. HasPrevious(history)
      BY <1>7, <2>1 DEF HasPrevious
    <2>3. then.history = HistoryPrevious(history, editor.text)
      <3>1. Apply(event) = Show(HistoryPrevious(history, editor.text))
        BY <1>7, <2>2 DEF Apply
      <3> QED
        BY <3>1, <1>1, <1>5, PreviousIsOK, ShowIsOK, <2>2 DEF then
    <2>4. history'.navigating /\ history'.draft = editor.text
      BY <1>1, <1>3, <1>5, <2>1, <2>2, <2>3, PreviousIsOK
    <2>5. walk' \in WalkType /\ walk'.stage = "first" /\ walk'.had = editor.text
      BY <1>5, <1>7 DEF WalkType
    <2>6. Walking'
      BY <2>4, <2>5 DEF Walking, WalkType, TextType
    <2> QED
      BY <1>4, <2>5, <2>6 DEF Lines, DraftStep
  <1>8. CASE /\ walk.stage = "first" /\ event.type = "DOWN" /\ then.history # history
             /\ then.history.index = Len(history.entries) + 1
             /\ walk' = [walk EXCEPT !.stage = "back"]
    <2>1. /\ then.history = HistoryNext(history) /\ HasNext(history)
          /\ then.editor.text = Shown(HistoryNext(history))
      BY <1>2, <1>8
    <2>2. history.draft = walk.had
      BY <1>8 DEF Lines, Walking
    <2>3. /\ HistoryNext(history).draft = history.draft
          /\ HistoryNext(history).entries = history.entries
      BY <1>1, <2>1, NextIsOK
    <2>4. editor'.text = walk.had
      BY <1>3, <1>8, <2>1, <2>2, <2>3 DEF Shown
    <2>5. walk' \in WalkType /\ walk'.stage = "back"
      BY <1>1, <1>8 DEF WalkType
    <2>6. Walking'
      BY <2>5 DEF Walking, WalkType, TextType
    <2> QED
      BY <1>4, <2>4, <2>6 DEF Lines, DraftStep
  <1>9. CASE walk.stage = "first" /\ walk' = [walk EXCEPT !.stage = "left"]
    <2>1. walk' \in WalkType /\ walk'.stage = "left"
      BY <1>1, <1>9 DEF WalkType
    <2>2. Walking'
      BY <2>1 DEF Walking, WalkType, TextType
    <2> QED
      BY <1>4, <2>1, <2>2 DEF Lines, DraftStep
  <1>10. CASE /\ walk' = walk
              /\ ~(/\ walk.stage = "none" /\ event.type = "UP" /\ ~MenuOpen
                   /\ history.entries # <<>>)
    <2>1. CASE then.history = history
      <3>1. Walking'
        BY <1>3, <1>10, <2>1 DEF Lines, Walking, WalkType, TextType
      <3> QED
        BY <1>4, <1>10, <3>1 DEF Lines, DraftStep
    <2>2. CASE /\ event.type = "UP" /\ ~MenuOpen /\ HasPrevious(history)
               /\ then.history = HistoryPrevious(history, editor.text)
      <3>1. walk.stage # "none"
        BY <1>10, <2>2 DEF HasPrevious
      <3>2. /\ history'.navigating
            /\ history'.draft = IF history.navigating THEN history.draft ELSE editor.text
        BY <1>1, <1>3, <1>5, <2>2, PreviousIsOK
      <3>3. Walking'
        BY <1>10, <3>1, <3>2 DEF Lines, Walking, WalkType, TextType
      <3> QED
        BY <1>4, <1>10, <3>3 DEF Lines, DraftStep
    <2>3. CASE /\ event.type = "DOWN" /\ HasNext(history)
               /\ then.history = HistoryNext(history)
      <3>1. history'.navigating /\ history'.draft = history.draft
        BY <1>1, <1>3, <2>3, NextIsOK
      <3>2. history.navigating
        BY <2>3 DEF HasNext
      <3>3. Walking'
        BY <1>10, <3>1, <3>2 DEF Lines, Walking, WalkType, TextType
      <3> QED
        BY <1>4, <1>10, <3>3 DEF Lines, DraftStep
    <2> QED
      BY <1>2, <2>1, <2>2, <2>3
  <1> QED
    BY <1>6, <1>7, <1>8, <1>9, <1>10

LEMMA CommitIsOK ==
    ASSUME Lines, Commit
    PROVE  Lines' /\ DraftStep
  <1>1. /\ EditorOK(editor) /\ MenuOK(menu) /\ HistoryOK(history)
    BY DEF Lines, PromptOK
  <1>2. editor.text \in TextType /\ <<>> \in TextType
    BY <1>1, EditorFields DEF TextType
  <1>3. HistoryOK(history')
    BY <1>1, <1>2, HistoryAppendIsOK DEF Commit
  <1>4. EditorOK(editor') /\ MenuOK(menu')
    BY <1>1, NoTextIsOK, RefreshIsOK DEF Commit
  <1>5. PromptOK'
    BY <1>3, <1>4 DEF PromptOK, EditorOK, MenuOK, HistoryOK, Entries
  <1>6. walk' \in WalkType /\ walk'.stage = "none"
    BY <1>2 DEF Commit, WalkType
  <1>7. ~history'.navigating
    BY <1>1, <1>2, HistoryAppendIsOK DEF Commit
  <1>8. Walking'
    BY <1>6, <1>7 DEF Walking, WalkType, TextType
  <1> QED
    BY <1>5, <1>6, <1>8 DEF Lines, DraftStep

(* A cancelled turn gives what was queued back to the editor.              *)
LEMMA GivenBackIsOK ==
    ASSUME Lines, queued \in TextType, NEW event, event.type = "CTRL_C",
           editor' = SetTo(queued), menu' = Apply(event).menu,
           history' = history, walk' = Walked(event, Apply(event))
    PROVE  Lines' /\ DraftStep
  <1>1. PromptOK /\ walk \in WalkType /\ EventOK(event)
    BY DEF Lines, Walking, EventOK
  <1>2. ThenOK(Apply(event))
    BY <1>1, ApplyIsOK
  <1>3. EditorOK(editor') /\ MenuOK(menu') /\ HistoryOK(history')
    BY <1>1, <1>2, SetToIsOK DEF PromptOK, ThenOK
  <1>4. PromptOK'
    BY <1>3 DEF PromptOK, EditorOK, MenuOK, HistoryOK, Entries
  <1>5. \/ walk' = walk
        \/ walk' = [walk EXCEPT !.stage = "left"]
    BY DEF Walked
  <1>6. CASE walk' = walk
    BY <1>4, <1>6 DEF Lines, Walking, WalkType, TextType, DraftStep
  <1>7. CASE walk' = [walk EXCEPT !.stage = "left"]
    <2>1. walk' \in WalkType /\ walk'.stage = "left"
      BY <1>1, <1>7 DEF WalkType
    <2>2. Walking'
      BY <2>1 DEF Walking, WalkType, TextType
    <2> QED
      BY <1>4, <2>1, <2>2 DEF Lines, DraftStep
  <1> QED
    BY <1>5, <1>6, <1>7

-----------------------------------------------------------------------------
(* The actions.                                                            *)
LEMMA PromptKept ==
    ASSUME IInv, UNCHANGED prompt
    PROVE  Lines' /\ DraftStep /\ queued' \in TextType
  BY LinesStay DEF prompt, IInv, Buffers

LEMMA CutOf ==
    ASSUME NEW s \in TextType, NEW m \in Nat \ {0}
    PROVE  SubSeq(s, m, Len(s)) \in TextType
  <1>1. Len(s) \in 0..Len(s)
    BY DEF TextType
  <1> QED
    BY <1>1, Slice DEF TextType

LEMMA PressStep ==
    ASSUME IInv, NEW k \in Keys, Press(k)
    PROVE  IInv' /\ DraftStep
  <1>1. Lines' /\ DraftStep /\ queued' \in TextType
    BY PromptKept DEF Press
  <1>2. tty' \in TextType
    <2>1. k.bytes \in TextType
      BY Zenon, Assumed
    <2> QED
      BY <2>1, Concat DEF Press, IInv, Buffers, TextType
  <1>3. Buffers'
    BY <1>1, <1>2 DEF Press, IInv, Buffers, TextType
  <1>4. Readers'
    BY DEF Press, IInv, Readers, Options
  <1> QED
    BY <1>1, <1>3, <1>4 DEF IInv

LEMMA ReadStep ==
    ASSUME IInv, Read
    PROVE  IInv' /\ DraftStep
  <1>1. Lines' /\ DraftStep /\ queued' \in TextType
    BY PromptKept DEF Read
  <1>2. PICK n \in 1..Len(tty) :
            /\ input' = input \o SubSeq(tty, 1, n)
            /\ tty' = SubSeq(tty, n + 1, Len(tty))
    BY DEF Read
  <1>3. tty \in Seq(Chars) /\ input \in Seq(Chars)
    BY DEF IInv, Buffers, TextType
  <1>4. SubSeq(tty, 1, n) \in Seq(Chars)
    <2>1. n \in 0..Len(tty)
      BY <1>3
    <2> QED
      BY <1>3, <2>1, Slice
  <1>5. input' \in TextType
    BY <1>2, <1>3, <1>4, Concat DEF TextType
  <1>6. tty' \in TextType
    <2>1. n + 1 \in Nat \ {0}
      BY <1>3
    <2> QED
      BY <1>2, <1>3, <2>1, CutOf DEF TextType
  <1>7. Readers'
    BY DEF Read, IInv, Readers, Options
  <1> QED
    BY <1>1, <1>5, <1>6, <1>7 DEF IInv, Buffers, TextType

LEMMA StarveStep ==
    ASSUME IInv, Starve
    PROVE  IInv' /\ DraftStep
  <1>1. Lines' /\ DraftStep /\ queued' \in TextType
    BY PromptKept DEF Starve
  <1>2. Buffers'
    BY <1>1 DEF Starve, IInv, Buffers, TextType
  <1>3. Readers'
    BY DEF Starve, IInv, Readers, Options
  <1> QED
    BY <1>1, <1>2, <1>3 DEF IInv

LEMMA CompareStep ==
    ASSUME Readers, NEW event, Compare(event)
    PROVE  hearing' \in {"whole", "torn", "wrong"}
  BY DEF Readers, Compare

LEMMA TimeoutStep ==
    ASSUME IInv, Timeout
    PROVE  IInv' /\ DraftStep
  <1>1. Lines' /\ DraftStep /\ queued' \in TextType
    BY PromptKept DEF Timeout
  <1>2. input' \in TextType
    <2>1. input \in Seq(Chars) /\ input # <<>>
      BY DEF IInv, Buffers, TextType, Timeout, EscapePending
    <2> QED
      BY <2>1, HeadTailProperties DEF Timeout, TextType
  <1>3. Buffers'
    BY <1>1, <1>2 DEF Timeout, IInv, Buffers, TextType
  <1>4. hearing' \in {"whole", "torn", "wrong"}
    <2>1. hearing' = "torn" \/ Compare(Event("ESCAPE"))
      BY DEF Timeout
    <2> QED
      BY <2>1, CompareStep DEF IInv
  <1>5. Readers'
    <2>1. /\ reader' \in {"idle", "busy", "permission", "select", "closed"}
          /\ at' \in {"decode", "wait"} /\ timer' = FALSE
          /\ option' \in 0..Options' - 1
      <3>1. CASE /\ reader \in {"select", "permission"}
                 /\ reader' = IF reader = "select" THEN "idle" ELSE "busy"
                 /\ option' = 0
        BY <3>1 DEF Timeout, IInv, Readers, Options
      <3>2. CASE reader \in {"idle", "busy"} /\ UNCHANGED <<reader, option>>
        BY <3>2 DEF Timeout, IInv, Readers, Options
      <3> QED
        BY <3>1, <3>2 DEF Timeout
    <2> QED
      BY <1>4, <2>1 DEF Readers
  <1> QED
    BY <1>1, <1>3, <1>5 DEF IInv

LEMMA AskStep ==
    ASSUME IInv, AskPermission
    PROVE  IInv' /\ DraftStep
  <1>1. Lines' /\ DraftStep /\ queued' \in TextType
    BY PromptKept DEF AskPermission
  <1>2. Buffers'
    BY <1>1 DEF AskPermission, IInv, Buffers, TextType
  <1>3. Readers'
    BY DEF AskPermission, IInv, Readers, Options
  <1> QED
    BY <1>1, <1>2, <1>3 DEF IInv

LEMMA EndsStep ==
    ASSUME IInv, TurnEnds
    PROVE  IInv' /\ DraftStep
  <1>1. Lines' /\ DraftStep
    BY LinesStay DEF TurnEnds, IInv
  <1>2. Buffers'
    BY DEF TurnEnds, IInv, Buffers, TextType
  <1>3. Readers'
    <2>1. reader' \in {"idle", "busy", "select"} /\ at' \in {"decode", "wait"}
      BY DEF TurnEnds
    <2> QED
      BY <2>1 DEF TurnEnds, IInv, Readers, Options
  <1> QED
    BY <1>1, <1>2, <1>3 DEF IInv

(* The readers, when they take a decoded event: reader, timer and option.  *)
Choosing ==
    /\ reader \in {"idle", "busy", "permission", "select", "closed"}
    /\ at \in {"decode", "wait"}
    /\ timer => reader \in {"busy", "permission"}
    /\ option \in 0..Options - 1

LEMMA AtPromptStep ==
    ASSUME IInv, NEW event, EventOK(event), AtPrompt(event), at = "decode"
    PROVE  Lines' /\ DraftStep /\ Choosing' /\ queued' \in TextType
  <1> DEFINE then == Apply(event)
  <1>1. reader = "idle" /\ UNCHANGED <<timer, option, queued>> /\ Lines /\ Readers
    BY DEF AtPrompt, IInv
  <1>2. \/ then.action = "NONE" /\ Applies(event, then) /\ UNCHANGED <<reader, at>>
        \/ /\ reader' = "closed" /\ at' = "wait"
           /\ UNCHANGED <<editor, menu, history, walk>>
        \/ /\ Commit /\ reader' \in {"idle", "busy", "select"}
           /\ at' = IF reader' = "busy" THEN "wait" ELSE "decode"
    <2>1. then.action \in {"NONE", "EXIT", "SUBMIT"}
      <3>1. /\ \A e : Edit(e).action = "NONE" /\ MoveTo(e).action = "NONE"
            /\ \A i : Select(i).action = "NONE" /\ \A h : Show(h).action = "NONE"
            /\ \A a : Act(a).action = a
        BY DEF Edit, MoveTo, Select, Act, Show, Then
      <3>2. Complete.action = "NONE"
        BY <3>1 DEF Complete
      <3> QED
        BY <3>1, <3>2, ApplyIsOneOf
    <2> HIDE DEF then
    <2> QED
      BY <2>1 DEF AtPrompt, then
  <1>3. Lines' /\ DraftStep
    <2>1. CASE Applies(event, then)
      BY <1>1, <2>1, AppliedIsOK
    <2>2. CASE UNCHANGED <<editor, menu, history, walk>>
      BY <1>1, <2>2, LinesStay
    <2>3. CASE Commit
      BY <1>1, <2>3, CommitIsOK
    <2> QED
      BY <1>2, <2>1, <2>2, <2>3
  <1>4. Choosing'
    <2>1. reader' \in {"idle", "busy", "select", "closed"} /\ at' \in {"decode", "wait"}
      BY <1>1, <1>2 DEF Readers
    <2>2. ~timer /\ option \in 0..1
      BY <1>1 DEF Readers, Options
    <2> QED
      BY <1>1, <2>1, <2>2 DEF Choosing, Options
  <1>5. queued' \in TextType
    BY <1>1 DEF IInv, Buffers
  <1> QED
    BY <1>3, <1>4, <1>5

LEMMA DuringTurnStep ==
    ASSUME IInv, NEW event, EventOK(event), DuringTurn(event), at = "decode"
    PROVE  Lines' /\ DraftStep /\ Choosing' /\ queued' \in TextType
  <1> DEFINE then == Apply(event)
  <1>1. /\ reader = "busy" /\ reader' = "busy" /\ option' = option /\ Lines /\ Readers
        /\ queued \in TextType /\ <<>> \in TextType
    BY DEF DuringTurn, IInv, Buffers, TextType
  <1>2. \/ Applies(event, then) /\ at' = at /\ queued' = queued
        \/ Applies(event, then) /\ at' = "wait" /\ queued' = queued
        \/ /\ event.type = "CTRL_C"
           /\ editor' = SetTo(queued) /\ queued' = <<>>
           /\ menu' = then.menu /\ history' = history
           /\ walk' = Walked(event, then)
           /\ at' = "wait"
        \/ at' = "wait" /\ UNCHANGED prompt
        \/ Commit /\ queued' = Meant(editor.text) /\ at' = "wait"
        \/ Commit /\ queued' = queued /\ at' = "wait"
    BY DEF DuringTurn
  <1>3. Lines' /\ DraftStep /\ queued' \in TextType /\ at' \in {"decode", "wait"}
    <2>0. editor.text \in TextType
      BY <1>1, EditorFields DEF Lines, PromptOK
    <2>1. CASE Applies(event, then) /\ at' \in {at, "wait"} /\ queued' = queued
      BY <1>1, <2>1, AppliedIsOK DEF Readers
    <2>2. CASE /\ event.type = "CTRL_C"
               /\ editor' = SetTo(queued) /\ queued' = <<>>
               /\ menu' = then.menu /\ history' = history
               /\ walk' = Walked(event, then)
               /\ at' = "wait"
      BY <1>1, <2>2, GivenBackIsOK
    <2>3. CASE at' = "wait" /\ UNCHANGED prompt
      BY <2>3, PromptKept
    <2>4. CASE Commit /\ queued' \in {Meant(editor.text), queued} /\ at' = "wait"
      <3>1. Meant(editor.text) \in TextType
        BY <2>0 DEF Meant, LiteralSlash, TextType
      <3> QED
        BY <1>1, <2>0, <2>4, <3>1, CommitIsOK
    <2> HIDE DEF then
    <2> QED
      BY <1>2, <2>1, <2>2, <2>3, <2>4
  <1>4. Choosing'
    BY <1>1, <1>3 DEF Choosing, Readers, Options
  <1> QED
    BY <1>3, <1>4

LEMMA PickIsOK ==
    ASSUME Readers, NEW event
    PROVE  Pick(event).option \in 0..Options - 1
  <1>1. Options \in {2, 3} /\ option \in 0..Options - 1
    BY DEF Options, Readers
  <1>2. Digit(event) # {} => (CHOOSE i \in Digit(event) : TRUE) \in 0..Options - 1
    <2>1. Digit(event) \subseteq 0..Options - 1
      BY DEF Digit
    <2> QED
      BY <2>1
  <1>3. Pick(event).option \in
            {IF option = 0 THEN Options - 1 ELSE option - 1, (option + 1) % Options, option}
        \/ /\ Digit(event) # {}
           /\ Pick(event).option = CHOOSE i \in Digit(event) : TRUE
    <2> HIDE DEF Digit, Options
    <2> QED
      BY DEF Pick
  <1>4. /\ (IF option = 0 THEN Options - 1 ELSE option - 1) \in 0..Options - 1
        /\ (option + 1) % Options \in 0..Options - 1
    BY <1>1
  <1> QED
    BY <1>1, <1>2, <1>3, <1>4

LEMMA InSelectorStep ==
    ASSUME IInv, NEW event, InSelector(event), at = "decode"
    PROVE  Lines' /\ DraftStep /\ Choosing' /\ queued' \in TextType
  <1> DEFINE pick == Pick(event)
  <1>1. Lines' /\ DraftStep /\ queued' \in TextType
    BY PromptKept DEF InSelector
  <1>2. pick.option \in 0..Options - 1
    BY PickIsOK DEF IInv
  <1> HIDE DEF pick
  <1>3. /\ reader \in {"permission", "select"}
        /\ option' = IF pick.decided THEN 0 ELSE pick.option
        /\ reader' = CASE ~pick.decided -> reader
                       [] pick.decided /\ reader = "permission" -> "busy"
                       [] pick.decided /\ reader = "select" -> "idle"
        /\ at' = IF pick.decided /\ reader = "permission" THEN "wait" ELSE at
        /\ timer' => at' = "wait" /\ reader = "permission"
    BY DEF InSelector, pick
  <1>4. Choosing'
    <2>1. CASE ~pick.decided
      BY <1>2, <1>3, <2>1 DEF Choosing, Options
    <2>2. CASE pick.decided /\ reader = "permission"
      BY <1>3, <2>2 DEF Choosing, Options
    <2>3. CASE pick.decided /\ reader = "select"
      BY <1>3, <2>3 DEF Choosing, Options
    <2> QED
      BY <1>3, <2>1, <2>2, <2>3
  <1> QED
    BY <1>1, <1>4

LEMMA HearStep ==
    ASSUME IInv, Hear
    PROVE  IInv' /\ DraftStep
  <1> DEFINE d == Decode(input, pasting)
  <1>1. /\ at = "decode" /\ input # <<>> /\ input' = SubSeq(input, d.consumed + 1, Len(input))
        /\ Compare(d.event) /\ Take(d.event) /\ tty' = tty
    BY DEF Hear, Starved
  <1>2. DecodeOK(d)
    BY <1>1, DecodeIsOK DEF IInv, Buffers
  <1> HIDE DEF d
  <1>3. d.consumed + 1 \in Nat \ {0} /\ EventOK(d.event)
    BY <1>2 DEF DecodeOK
  <1>4. input' \in TextType
    BY <1>1, <1>3, CutOf DEF IInv, Buffers
  <1>5. hearing' \in {"whole", "torn", "wrong"}
    BY <1>1, CompareStep DEF IInv
  <1>6. Lines' /\ DraftStep /\ Choosing' /\ queued' \in TextType
    BY <1>1, <1>3, AtPromptStep, DuringTurnStep, InSelectorStep DEF Take
  <1>7. Readers'
    BY <1>5, <1>6 DEF Readers, Choosing, Options
  <1> QED
    BY <1>1, <1>4, <1>6, <1>7 DEF IInv, Buffers, TextType

LEMMA StopStep ==
    ASSUME IInv, UNCHANGED vars
    PROVE  IInv' /\ DraftStep
  <1>1. Lines' /\ DraftStep
    BY LinesStay DEF vars, IInv
  <1>2. Buffers' /\ Readers'
    BY DEF vars, IInv, Buffers, Readers, Options, TextType
  <1> QED
    BY <1>1, <1>2 DEF IInv

LEMMA NextIInv ==
    ASSUME IInv, [Next]_vars
    PROVE  IInv' /\ DraftStep
  BY PressStep, ReadStep, StarveStep, HearStep, TimeoutStep, AskStep, EndsStep, StopStep
     DEF Next

(* Whatever bytes arrive and whoever reads them, the cursor stays inside   *)
(* the draft, the selection inside the menu, the index inside the history, *)
(* no two entries in a row are the same and no more than HistoryMax are    *)
(* kept, and a timer runs only for a reader that has one.                  *)
THEOREM ComposerTyped == Spec => []TypeOK
  <1>1. IInv => TypeOK
    <2> SUFFICES ASSUME IInv PROVE TypeOK
      OBVIOUS
    <2>1. editor.cursor \in 0..Len(editor.text)
      BY EditorFields DEF IInv, Lines, PromptOK
    <2>2. /\ menu.selection \in 0..Len(menu.matches)
          /\ menu.matches # <<>> => menu.selection < Len(menu.matches)
      <3>1. MenuOK(menu) /\ Len(menu.matches) \in Nat /\ menu.selection \in Nat
        BY MenuFields DEF IInv, Lines, PromptOK
      <3> QED
        BY <3>1 DEF MenuOK
    <2>3. /\ history.index \in 1..Len(history.entries) + 1
          /\ Len(history.entries) <= HistoryMax
          /\ \A i \in 2..Len(history.entries) :
                 history.entries[i] # history.entries[i - 1]
      BY HistoryFields DEF IInv, Lines, PromptOK, Entries
    <2> QED
      BY <2>1, <2>2, <2>3 DEF IInv, Readers, TypeOK
  <1>2. IInv /\ [Next]_vars => IInv'
    BY NextIInv
  <1> QED
    BY <1>1, <1>2, InitIInv, PTL DEF Spec

(* On the first walk since a submission, walking past the newest entry of  *)
(* the history restores the draft the user had when the walk began, for    *)
(* any keys, any readers in between and a history of any size              *)
(* (cli_input_history.c); a later walk may restore a stale one.            *)
THEOREM DraftIsRestored == Spec => DraftComesBack
  <1>1. IInv /\ [Next]_vars => IInv'
    BY NextIInv
  <1>2. IInv /\ [Next]_vars =>
            [walk.stage = "first" /\ walk'.stage = "back" => editor'.text = walk.had]_vars
    BY NextIInv DEF DraftStep
  <1> QED
    BY <1>1, <1>2, InitIInv, PTL DEF Spec, DraftComesBack

-----------------------------------------------------------------------------
(* The decoder and what the terminal sends.                                *)
AnyByte == Chars \cup {"esc", "[", "A", "B", "C", "D", "H", "F", "~",
                       "0", "1", "2", "3", "4", "7", "8"}

LEMMA TextIsBytes ==
    ASSUME NEW s \in TextType
    PROVE  s \in Seq(AnyByte) /\ Len(s) \in Nat
  <1>1. Chars \subseteq AnyByte
    BY DEF AnyByte
  <1> QED
    BY <1>1, SeqMonotonic DEF TextType

LEMMA PrefixIs ==
    ASSUME NEW S, NEW s \in Seq(S), NEW t \in Seq(S)
    PROVE  IsPrefix(s, t) <=>
               Len(s) <= Len(t) /\ \A i \in 1..Len(s) : s[i] = t[i]
  <1> DEFINE c == SubSeq(t, 1, Len(s))
  <1>1. Len(s) \in Nat /\ Len(t) \in Nat /\ SubSeq(s, 1, Len(s)) = s
    BY SubSeqFull
  <1>2. IsPrefix(s, t) <=> Len(s) <= Len(t) /\ s = c
    BY <1>1 DEF IsPrefix
  <1>3. ASSUME Len(s) <= Len(t)
        PROVE  s = c <=> \A i \in 1..Len(s) : s[i] = t[i]
    <2>1. Len(s) \in 0..Len(t)
      BY <1>1, <1>3
    <2>2. /\ c \in Seq(S) /\ Len(c) = IF 1 <= Len(s) THEN Len(s) - 1 + 1 ELSE 0
          /\ \A i \in 1 .. Len(s) - 1 + 1 : c[i] = t[1 + i - 1]
      BY <2>1, Slice
    <2> HIDE DEF c
    <2>3. Len(c) = Len(s) /\ \A i \in 1..Len(s) : c[i] = t[i]
      <3>1. Len(s) - 1 + 1 = Len(s) /\ \A i \in 1..Len(s) : 1 + i - 1 = i
        BY <1>1
      <3> QED
        BY <2>2, <3>1, <1>1
    <2>4. (\A i \in 1..Len(s) : s[i] = c[i]) => s = c
      BY <2>2, <2>3, SeqEqual
    <2> QED
      BY <2>3, <2>4
  <1> QED
    BY <1>2, <1>3

(* The third byte tells the sequences apart.                               *)
LEMMA SequenceOf ==
    ASSUME NEW t \in DOMAIN EscapeMappings, NEW s \in EscapeMappings[t]
    PROVE  \/ t = "UP" /\ s = <<"esc", "[", "A">>
           \/ t = "DOWN" /\ s = <<"esc", "[", "B">>
           \/ t = "RIGHT" /\ s = <<"esc", "[", "C">>
           \/ t = "LEFT" /\ s = <<"esc", "[", "D">>
           \/ t = "HOME" /\ s = <<"esc", "[", "H">>
           \/ t = "HOME" /\ s = <<"esc", "[", "1", "~">>
           \/ t = "HOME" /\ s = <<"esc", "[", "7", "~">>
           \/ t = "END" /\ s = <<"esc", "[", "F">>
           \/ t = "END" /\ s = <<"esc", "[", "4", "~">>
           \/ t = "END" /\ s = <<"esc", "[", "8", "~">>
           \/ t = "DELETE" /\ s = <<"esc", "[", "3", "~">>
           \/ t = "PASTE_BEGIN" /\ s = <<"esc", "[", "2", "0", "0", "~">>
  BY DEF EscapeMappings

LEMMA SequencesDiffer ==
    ASSUME NEW t \in DOMAIN EscapeMappings, NEW s \in EscapeMappings[t],
           NEW u \in DOMAIN EscapeMappings, NEW r \in EscapeMappings[u], s[3] = r[3]
    PROVE  t = u /\ s = r
  <1> DEFINE Is(x, q, name, third, whole) ==
                 (q[3] = third => x = name /\ q = whole)
             All(x, q) ==
                 /\ Is(x, q, "UP", "A", <<"esc", "[", "A">>)
                 /\ Is(x, q, "DOWN", "B", <<"esc", "[", "B">>)
                 /\ Is(x, q, "RIGHT", "C", <<"esc", "[", "C">>)
                 /\ Is(x, q, "LEFT", "D", <<"esc", "[", "D">>)
                 /\ Is(x, q, "HOME", "H", <<"esc", "[", "H">>)
                 /\ Is(x, q, "HOME", "1", <<"esc", "[", "1", "~">>)
                 /\ Is(x, q, "HOME", "7", <<"esc", "[", "7", "~">>)
                 /\ Is(x, q, "END", "F", <<"esc", "[", "F">>)
                 /\ Is(x, q, "END", "4", <<"esc", "[", "4", "~">>)
                 /\ Is(x, q, "END", "8", <<"esc", "[", "8", "~">>)
                 /\ Is(x, q, "DELETE", "3", <<"esc", "[", "3", "~">>)
                 /\ Is(x, q, "PASTE_BEGIN", "2", <<"esc", "[", "2", "0", "0", "~">>)
  <1>1. ASSUME NEW x \in DOMAIN EscapeMappings, NEW q \in EscapeMappings[x]
        PROVE  /\ q[3] \in {"A", "B", "C", "D", "H", "F", "1", "2", "3", "4", "7", "8"}
               /\ All(x, q)
    BY SequenceOf
  <1>2. All(t, s) /\ All(u, r)
    BY <1>1
  <1>3. s[3] \in {"A", "B", "C", "D", "H", "F", "1", "2", "3", "4", "7", "8"}
    BY <1>1
  <1> QED
    BY <1>2, <1>3

LEMMA SequenceLooks ==
    ASSUME NEW t \in DOMAIN EscapeMappings, NEW s \in EscapeMappings[t]
    PROVE  /\ s \in Seq(AnyByte) /\ Len(s) \in Nat /\ 3 <= Len(s)
           /\ s[1] = "esc" /\ t \notin {"PASTE_END", "AGAIN", "TEXT"}
  <1>1. <<"esc", "[", "A">> \in Seq(AnyByte) /\ <<"esc", "[", "B">> \in Seq(AnyByte)
        /\ <<"esc", "[", "C">> \in Seq(AnyByte) /\ <<"esc", "[", "D">> \in Seq(AnyByte)
        /\ <<"esc", "[", "H">> \in Seq(AnyByte) /\ <<"esc", "[", "F">> \in Seq(AnyByte)
    BY DEF AnyByte
  <1>2. <<"esc", "[", "1", "~">> \in Seq(AnyByte) /\ <<"esc", "[", "7", "~">> \in Seq(AnyByte)
        /\ <<"esc", "[", "4", "~">> \in Seq(AnyByte) /\ <<"esc", "[", "8", "~">> \in Seq(AnyByte)
        /\ <<"esc", "[", "3", "~">> \in Seq(AnyByte)
        /\ <<"esc", "[", "2", "0", "0", "~">> \in Seq(AnyByte)
    BY DEF AnyByte
  <1>3. s \in Seq(AnyByte)
    BY <1>1, <1>2, SequenceOf
  <1>4. 3 <= Len(s) /\ s[1] = "esc" /\ t \notin {"PASTE_END", "AGAIN", "TEXT"}
    BY SequenceOf
  <1>5. Len(s) \in Nat
    BY <1>3, LenProperties
  <1> QED
    BY <1>3, <1>4, <1>5

(* The start of b is the bytes s, of which p has as many as were read.     *)
Starts(p, b) == Len(p) <= Len(b) /\ \A i \in 1..Len(p) : p[i] = b[i]

(* What the decoder makes of enough bytes.                                 *)
Right(p, s, event, paste) ==
    Len(s) <= Len(p) /\ Decode(p, paste) = Decoded(event, Len(s), PastesAfter(paste, event))

LEMMA PasteEndIs ==
    /\ PasteEnd \in Seq(AnyByte) /\ Len(PasteEnd) = 6 /\ PasteEnd[1] = "esc"
  BY DEF PasteEnd, AnyByte

LEMMA AgainIs == \A paste : Again(paste).event.type = "AGAIN"
  BY DEF Again, Decoded, Event

LEMMA DecodeWhich ==
    ASSUME NEW p
    PROVE  /\ Decode(p, TRUE) = DecodePasted(p)
           /\ p[1] = "esc" => Decode(p, FALSE) = DecodeEscape(p)
           /\ p[1] \in DOMAIN Controls =>
                  Decode(p, FALSE) = Decoded(Event(Controls[p[1]]), 1, FALSE)
           /\ p[1] = "nul" => Decode(p, FALSE) = Invalid(FALSE)
           /\ p[1] \notin {"esc", "nul"} \cup DOMAIN Controls =>
                  Decode(p, FALSE) = DecodeText(p, FALSE)
  <1>1. "esc" \notin DOMAIN Controls /\ "nul" \notin DOMAIN Controls
    BY DEF Controls
  <1> QED
    BY <1>1 DEF Decode

LEMMA ChoiceIs ==
    ASSUME NEW S, NEW x, S = {x}
    PROVE  (CHOOSE y \in S : TRUE) = x
  OBVIOUS

LEMMA SequenceArrives ==
    ASSUME NEW p \in TextType, p # <<>>,
           NEW t \in DOMAIN EscapeMappings, NEW s \in EscapeMappings[t],
           \A i \in 1..Len(s) : i <= Len(p) => p[i] = s[i],
           Decode(p, FALSE).event.type # "AGAIN"
    PROVE  Right(p, s, Event(t), FALSE)
  <1> DEFINE Whole(u) == {r \in EscapeMappings[u] : IsPrefix(r, p)}
             whole == {u \in DOMAIN EscapeMappings : Whole(u) # {}}
             begun == \E u \in DOMAIN EscapeMappings : \E r \in EscapeMappings[u] :
                          IsStrictPrefix(p, r)
  <1>1. /\ p \in Seq(AnyByte) /\ Len(p) \in Nat /\ Len(p) # 0
        /\ s \in Seq(AnyByte) /\ Len(s) \in Nat /\ 3 <= Len(s) /\ s[1] = "esc"
    BY TextIsBytes, SequenceLooks, EmptySeq
  <1>2. p[1] = "esc"
    <2>1. 1 \in 1..Len(s) /\ 1 <= Len(p)
      BY <1>1
    <2> QED
      BY <1>1, <2>1
  <1>3. Decode(p, FALSE) = DecodeEscape(p)
    BY <1>2, DecodeWhich
  <1>4. ASSUME NEW u \in DOMAIN EscapeMappings, NEW r \in EscapeMappings[u], IsPrefix(r, p)
        PROVE  u = t /\ r = s /\ Len(s) <= Len(p)
    <2>1. r \in Seq(AnyByte) /\ Len(r) \in Nat /\ 3 <= Len(r)
      BY SequenceLooks
    <2>2. Len(r) <= Len(p) /\ \A i \in 1..Len(r) : r[i] = p[i]
      BY <1>1, <1>4, <2>1, PrefixIs
    <2>3. r[3] = p[3] /\ p[3] = s[3]
      <3>1. 3 \in 1..Len(r) /\ 3 \in 1..Len(s) /\ 3 <= Len(p)
        BY <1>1, <2>1, <2>2
      <3> QED
        BY <2>2, <3>1
    <2>4. u = t /\ r = s
      BY <2>3, SequencesDiffer
    <2> QED
      BY <2>2, <2>4
  <1>5. CASE Len(s) <= Len(p)
    <2>1. IsPrefix(s, p)
      BY <1>1, <1>5, PrefixIs
    <2>2. Whole(t) = {s}
      <3>1. \A r : r \in Whole(t) => r = s
        BY <1>4
      <3>2. s \in Whole(t)
        BY <2>1
      <3> QED
        BY Zenon, <3>1, <3>2
    <2>3. whole = {t}
      <3>1. \A u : u \in whole => u = t
        <4> TAKE u
        <4> HAVE u \in whole
        <4>1. PICK r : r \in Whole(u)
          BY Zenon
        <4> QED
          BY Zenon, <4>1, <1>4
      <3>2. t \in whole
        BY Zenon, <2>2
      <3> QED
        BY Zenon, <3>1, <3>2
    <2>4. (CHOOSE u \in whole : TRUE) = t /\ (CHOOSE r \in Whole(t) : TRUE) = s
      <3> HIDE DEF whole, Whole
      <3> QED
        BY Zenon, <2>2, <2>3, ChoiceIs
    <2>5. DecodeEscape(p) = Decoded(Event(t), Len(s), t = "PASTE_BEGIN")
      <3>1. whole # {}
        BY Zenon, <2>3
      <3>2. DecodeEscape(p) =
              Decoded(Event(CHOOSE u \in whole : TRUE),
                      Len(CHOOSE r \in Whole(CHOOSE u \in whole : TRUE) : TRUE),
                      (CHOOSE u \in whole : TRUE) = "PASTE_BEGIN")
        BY Zenon, <3>1 DEF DecodeEscape
      <3> HIDE DEF whole, Whole
      <3> QED
        BY Zenon, <2>4, <3>2
    <2>6. PastesAfter(FALSE, Event(t)) = (t = "PASTE_BEGIN")
      BY DEF PastesAfter, Event
    <2> QED
      BY Zenon, <1>3, <1>5, <2>5, <2>6 DEF Right
  <1>6. CASE ~(Len(s) <= Len(p))
    <2>1. whole = {}
      BY Zenon, <1>4, <1>6
    <2>2. IsStrictPrefix(p, s)
      <3>1. Len(p) <= Len(s) /\ \A i \in 1..Len(p) : p[i] = s[i]
        BY <1>1, <1>6
      <3>2. IsPrefix(p, s)
        BY <1>1, <3>1, PrefixIs
      <3>3. p # s
        BY <1>1, <1>6
      <3> QED
        BY <3>2, <3>3 DEF IsStrictPrefix
    <2>3. begun
      BY Zenon, <2>2
    <2>4. DecodeEscape(p) = Again(FALSE)
      BY Zenon, <2>1, <2>3 DEF DecodeEscape
    <2>5. FALSE
      BY Zenon, <1>3, <2>4, AgainIs
    <2> QED
      BY <2>5
  <1> QED
    BY <1>5, <1>6

LEMMA EscapeWaits ==
    ASSUME NEW p \in TextType, Len(p) = 1, p[1] = "esc"
    PROVE  Decode(p, FALSE).event.type = "AGAIN"
  <1> DEFINE Whole(u) == {r \in EscapeMappings[u] : IsPrefix(r, p)}
             whole == {u \in DOMAIN EscapeMappings : Whole(u) # {}}
  <1>1. p \in Seq(AnyByte)
    BY TextIsBytes
  <1>2. ASSUME NEW u \in DOMAIN EscapeMappings, NEW r \in EscapeMappings[u]
        PROVE  ~IsPrefix(r, p)
    <2>1. r \in Seq(AnyByte) /\ Len(r) \in Nat /\ 3 <= Len(r)
      BY SequenceLooks
    <2>2. ~(Len(r) <= Len(p))
      BY <2>1
    <2> QED
      BY <1>1, <2>1, <2>2, PrefixIs
  <1>3. whole = {}
    BY Zenon, <1>2
  <1>4. DecodeEscape(p) = Again(FALSE)
    BY Zenon, <1>3 DEF DecodeEscape
  <1>5. Decode(p, FALSE) = DecodeEscape(p)
    BY DecodeWhich
  <1> QED
    BY Zenon, <1>4, <1>5, AgainIs

LEMMA PasteEndArrives ==
    ASSUME NEW p \in TextType, p # <<>>,
           \A i \in 1..6 : i <= Len(p) => p[i] = PasteEnd[i],
           Decode(p, TRUE).event.type # "AGAIN"
    PROVE  Right(p, PasteEnd, Event("PASTE_END"), TRUE)
  <1>1. p \in Seq(AnyByte) /\ Len(p) \in Nat
    BY TextIsBytes
  <1>2. PasteEnd \in Seq(AnyByte) /\ Len(PasteEnd) = 6
    BY PasteEndIs
  <1>3. Decode(p, TRUE) = DecodePasted(p)
    BY DecodeWhich
  <1>4. CASE Len(p) < 6
    <2>1. IsPrefix(p, PasteEnd)
      <3>1. Len(p) <= Len(PasteEnd) /\ \A i \in 1..Len(p) : p[i] = PasteEnd[i]
        BY <1>1, <1>2, <1>4
      <3> QED
        BY <1>1, <1>2, <3>1, PrefixIs
    <2>2. p # PasteEnd
      <3>1. ~(Len(p) >= 6)
        BY <1>1, <1>4
      <3>2. Len(PasteEnd) >= 6
        BY <1>2
      <3> QED
        BY Zenon, <3>1, <3>2
    <2>3. IsStrictPrefix(p, PasteEnd) /\ ~IsPrefix(PasteEnd, p)
      <3>1. ~(Len(PasteEnd) <= Len(p))
        BY <1>1, <1>2, <1>4
      <3> QED
        BY <1>1, <1>2, <2>1, <2>2, <3>1, PrefixIs DEF IsStrictPrefix
    <2>4. p[1] = "esc"
      <3>1. Len(p) # 0
        BY <1>1, EmptySeq
      <3> QED
        BY <1>1, <3>1, PasteEndIs
    <2>5. DecodePasted(p) = Again(TRUE)
      BY <2>3, <2>4 DEF DecodePasted
    <2> QED
      BY Zenon, <1>3, <2>5, AgainIs
  <1>5. CASE Len(p) >= 6
    <2>1. IsPrefix(PasteEnd, p)
      <3>1. Len(PasteEnd) <= Len(p) /\ \A i \in 1..Len(PasteEnd) : PasteEnd[i] = p[i]
        BY <1>1, <1>2, <1>5
      <3> QED
        BY <1>1, <1>2, <3>1, PrefixIs
    <2>2. ~IsStrictPrefix(p, PasteEnd)
      <3>1. SUFFICES ASSUME IsPrefix(p, PasteEnd), p # PasteEnd PROVE FALSE
        BY DEF IsStrictPrefix
      <3>2. Len(p) <= Len(PasteEnd) /\ \A i \in 1..Len(p) : p[i] = PasteEnd[i]
        BY <1>1, <1>2, <3>1, PrefixIs
      <3>3. Len(p) = Len(PasteEnd)
        BY <1>1, <1>2, <1>5, <3>2
      <3> QED
        BY <1>1, <1>2, <3>1, <3>2, <3>3, SeqEqual
    <2>3. p[1] = "esc"
      BY <1>1, <1>5, PasteEndIs
    <2>4. DecodePasted(p) = Decoded(Event("PASTE_END"), Len(PasteEnd), FALSE)
      BY <2>1, <2>2, <2>3 DEF DecodePasted
    <2>5. PastesAfter(TRUE, Event("PASTE_END")) = FALSE
      BY DEF PastesAfter, Event
    <2>6. Len(PasteEnd) <= Len(p)
      BY <1>2, <1>5
    <2> QED
      BY Zenon, <1>3, <2>4, <2>5, <2>6 DEF Right
  <1>6. Len(p) < 6 \/ Len(p) >= 6
    BY <1>1
  <1> QED
    BY Zenon, <1>4, <1>5, <1>6

(* In a paste everything but its end is text, or a zero byte.              *)
LEMMA PastedArrives ==
    ASSUME NEW p \in TextType, p # <<>>, Decode(p, TRUE).event.type # "AGAIN",
           p[1] = "esc" => ~IsPrefix(PasteEnd, p)
    PROVE  /\ p[1] = "nul" => Decode(p, TRUE) = Invalid(TRUE)
           /\ p[1] # "nul" => Decode(p, TRUE) = DecodeText(p, TRUE)
  <1>1. p \in Seq(AnyByte) /\ Len(p) \in Nat /\ Len(p) # 0
    BY TextIsBytes, EmptySeq
  <1>2. Decode(p, TRUE) = DecodePasted(p)
    BY DecodeWhich
  <1>3. ~IsStrictPrefix(p, PasteEnd)
    <2>1. SUFFICES ASSUME IsStrictPrefix(p, PasteEnd), IsPrefix(p, PasteEnd) PROVE FALSE
      BY DEF IsStrictPrefix
    <2>2. Len(p) <= 6 /\ \A i \in 1..Len(p) : p[i] = PasteEnd[i]
      BY <1>1, <2>1, PrefixIs, PasteEndIs
    <2>3. p[1] = "esc"
      BY <1>1, <2>2, PasteEndIs
    <2>4. DecodePasted(p) = Again(TRUE)
      BY <2>1, <2>3 DEF DecodePasted
    <2> QED
      BY Zenon, <1>2, <2>4, AgainIs
  <1>4. ~IsPrefix(PasteEnd, p)
    <2>1. CASE p[1] = "esc"
      BY <2>1
    <2>2. CASE p[1] # "esc"
      <3>1. SUFFICES ASSUME IsPrefix(PasteEnd, p) PROVE FALSE
        OBVIOUS
      <3>2. \A i \in 1..Len(PasteEnd) : PasteEnd[i] = p[i]
        <4>1. PasteEnd \in Seq(AnyByte)
          BY Zenon, PasteEndIs
        <4> QED
          BY <1>1, <3>1, <4>1, PrefixIs
      <3>3. 1 \in 1..Len(PasteEnd)
        BY PasteEndIs
      <3> QED
        BY Zenon, <2>2, <3>2, <3>3, PasteEndIs
    <2> QED
      BY <2>1, <2>2
  <1> QED
    BY <1>2, <1>3, <1>4 DEF DecodePasted

LEMMA OneByte ==
    /\ \A n \in Nat : n > 1 => ~(n = 1)
    /\ \A n \in Nat : n >= 1 /\ ~(n > 1) => n = 1
    /\ \A n \in Nat : n >= 1 /\ n <= 1 => n = 1
  OBVIOUS

LEMMA TextArrives ==
    ASSUME NEW p \in TextType, p # <<>>, NEW paste,
           DecodeText(p, paste).event.type # "AGAIN"
    PROVE  /\ p[1] \notin {"c3", "a9"} =>
                  DecodeText(p, paste) = Decoded(Text(p[1]), 1, paste)
           /\ p[1] = "c3" /\ (Len(p) > 1 => p[2] = "a9") =>
                  /\ Len(p) > 1
                  /\ DecodeText(p, paste) = Decoded(Text("e'"), 2, paste)
  <1>1. p[1] \notin {"c3", "a9"} =>
            DecodeText(p, paste) = Decoded(Text(p[1]), 1, paste)
    BY DEF DecodeText
  <1>0. Len(p) \in Nat /\ Len(p) >= 1
    BY TextIsBytes, EmptySeq DEF TextType
  <1>2. ASSUME p[1] = "c3", Len(p) > 1 => p[2] = "a9"
        PROVE  Len(p) > 1 /\ DecodeText(p, paste) = Decoded(Text("e'"), 2, paste)
    <2>1. CASE Len(p) > 1
      <3>1. p[2] = "a9"
        BY <1>2, <2>1
      <3>2. ~(Len(p) = 1)
        BY Zenon, <1>0, <2>1, OneByte
      <3> QED
        BY <1>2, <2>1, <3>1, <3>2 DEF DecodeText
    <2>2. CASE ~(Len(p) > 1)
      <3>1. Len(p) = 1
        BY Zenon, <1>0, <2>2, OneByte
      <3>2. DecodeText(p, paste) = Again(paste)
        BY <1>2, <3>1 DEF DecodeText
      <3> QED
        BY Zenon, <3>2, AgainIs
    <2> QED
      BY <2>1, <2>2
  <1> QED
    BY <1>1, <1>2

(* After an event that neither begins nor ends one, a paste is as before.  *)
LEMMA PasteStays ==
    /\ \A c, paste : paste \in BOOLEAN => PastesAfter(paste, Text(c)) = paste
    /\ \A paste : paste \in BOOLEAN => PastesAfter(paste, Event("INVALID")) = paste
    /\ \A c \in DOMAIN Controls : PastesAfter(FALSE, Event(Controls[c])) = FALSE
  <1>1. \A c \in DOMAIN Controls : Controls[c] # "PASTE_BEGIN"
    BY DEF Controls
  <1> QED
    BY <1>1 DEF PastesAfter, Text, Event

(* However much of the bytes of an event was read, the decoder waits for   *)
(* more or finds that event and takes just those bytes.                    *)
LEMMA EventArrives ==
    ASSUME NEW p \in TextType, p # <<>>, NEW b \in TextType, Starts(p, b),
           NEW s \in TextType, Len(s) \in 1..Len(b), \A i \in 1..Len(s) : s[i] = b[i],
           NEW paste \in BOOLEAN, NEW event, Encodes(s, event, paste),
           paste /\ event = Text("esc") => ~IsPrefix(PasteEnd, p),
           event = Event("ESCAPE") => Len(s) = Len(b),
           Decode(p, paste).event.type # "AGAIN"
    PROVE  Right(p, s, event, paste)
  <1>1. /\ Len(p) \in Nat /\ Len(p) >= 1 /\ Len(b) \in Nat
        /\ Len(p) <= Len(b) /\ \A i \in 1..Len(p) : p[i] = b[i]
    BY TextIsBytes, EmptySeq DEF Starts
  <1>2. Len(s) \in Nat /\ Len(s) >= 1 /\ s[1] = p[1]
    BY <1>1
  <1>3. \A i \in 1..Len(s) : i <= Len(p) => p[i] = s[i]
    BY <1>1, <1>2
  <1>4. paste = TRUE \/ paste = FALSE
    OBVIOUS
  <1>5. CASE /\ Len(s) = 1 /\ event = Text(s[1]) /\ s[1] \notin {"c3", "a9", "nul"}
             /\ ~paste => s[1] \notin {"esc"} \cup DOMAIN Controls
    <2>1. Decode(p, paste) = DecodeText(p, paste)
      <3>1. CASE paste = TRUE
        <4>1. p[1] = "esc" => ~IsPrefix(PasteEnd, p)
          BY <1>2, <1>5, <3>1
        <4> QED
          BY <1>2, <1>5, <3>1, <4>1, PastedArrives
      <3>2. CASE paste = FALSE
        BY <1>2, <1>5, <3>2, DecodeWhich
      <3> QED
        BY <1>4, <3>1, <3>2
    <2>2. Decode(p, paste) = Decoded(Text(p[1]), 1, paste)
      BY <1>2, <1>5, <2>1, TextArrives
    <2>3. PastesAfter(paste, event) = paste /\ event = Text(p[1])
      BY <1>2, <1>5, PasteStays
    <2>4. Len(s) = 1 /\ Len(s) <= Len(p)
      BY <1>1, <1>5
    <2> QED
      BY Zenon, <2>2, <2>3, <2>4 DEF Right
  <1>6. CASE s = <<"c3", "a9">> /\ event = Text("e'")
    <2>0. /\ Len(s) = 2 /\ s[1] = "c3" /\ s[2] = "a9" /\ p[1] = "c3"
      BY <1>2, <1>6
    <2>1. Decode(p, paste) = DecodeText(p, paste)
      <3>1. CASE paste = TRUE
        BY <2>0, <3>1, PastedArrives
      <3>2. CASE paste = FALSE
        <4>1. "c3" \notin DOMAIN Controls
          BY DEF Controls
        <4> QED
          BY <2>0, <3>2, <4>1, DecodeWhich
      <3> QED
        BY <1>4, <3>1, <3>2
    <2>2. Len(p) > 1 => p[2] = "a9"
      BY <1>1, <1>3, <2>0
    <2>3. Len(p) > 1 /\ Decode(p, paste) = Decoded(Text("e'"), 2, paste)
      BY <2>0, <2>1, <2>2, TextArrives
    <2>4. PastesAfter(paste, event) = paste
      BY <1>6, PasteStays
    <2>5. Len(s) <= Len(p)
      BY <1>1, <2>0, <2>3
    <2> QED
      BY Zenon, <1>6, <2>0, <2>3, <2>4, <2>5 DEF Right
  <1>7. CASE s = <<"nul">> /\ event = Event("INVALID")
    <2>0. Len(s) = 1 /\ p[1] = "nul"
      BY <1>2, <1>7
    <2>1. Decode(p, paste) = Invalid(paste)
      <3>1. CASE paste = TRUE
        BY <2>0, <3>1, PastedArrives
      <3>2. CASE paste = FALSE
        BY <2>0, <3>2, DecodeWhich
      <3> QED
        BY <1>4, <3>1, <3>2
    <2>2. PastesAfter(paste, event) = paste
      BY <1>7, PasteStays
    <2>3. Len(s) <= Len(p)
      BY <1>1, <2>0
    <2> QED
      BY Zenon, <1>7, <2>0, <2>1, <2>2, <2>3 DEF Right, Invalid
  <1>8. CASE paste /\ s = PasteEnd /\ event = Event("PASTE_END")
    <2>1. \A i \in 1..6 : i <= Len(p) => p[i] = PasteEnd[i]
      BY <1>3, <1>8, PasteEndIs
    <2>2. paste = TRUE
      BY <1>8
    <2>3. Right(p, PasteEnd, Event("PASTE_END"), TRUE)
      BY <2>1, <2>2, PasteEndArrives
    <2> QED
      BY Zenon, <1>8, <2>2, <2>3
  <1>9. CASE ~paste /\ s = <<"esc">> /\ event = Event("ESCAPE")
    <2>1. Len(s) = 1 /\ p[1] = "esc" /\ paste = FALSE
      BY <1>2, <1>9
    <2>2. Len(p) = 1
      <3>1. Len(b) = 1
        BY Zenon, <1>9, <2>1
      <3>2. Len(p) <= 1
        BY Zenon, <1>1, <3>1
      <3> QED
        BY Zenon, <1>1, <3>2, OneByte
    <2> QED
      BY <2>1, <2>2, EscapeWaits
  <1>10. CASE ~paste /\ \E c \in DOMAIN Controls : s = <<c>> /\ event = Event(Controls[c])
    <2>1. PICK c \in DOMAIN Controls : s = <<c>> /\ event = Event(Controls[c])
      BY <1>10
    <2>2. Len(s) = 1 /\ p[1] = c /\ paste = FALSE
      BY <1>2, <1>10, <2>1
    <2>3. Decode(p, FALSE) = Decoded(Event(Controls[c]), 1, FALSE)
      BY <2>2, DecodeWhich
    <2>4. PastesAfter(FALSE, event) = FALSE
      BY <2>1, PasteStays
    <2>5. Len(s) <= Len(p)
      BY <1>1, <2>2
    <2> QED
      BY Zenon, <2>1, <2>2, <2>3, <2>4, <2>5 DEF Right
  <1>11. CASE ~paste /\ \E t \in DOMAIN EscapeMappings :
                            s \in EscapeMappings[t] /\ event = Event(t)
    <2>1. PICK t \in DOMAIN EscapeMappings : s \in EscapeMappings[t] /\ event = Event(t)
      BY <1>11
    <2>2. paste = FALSE
      BY <1>11
    <2> QED
      BY Zenon, <1>3, <2>1, <2>2, SequenceArrives
  <1> QED
    BY <1>5, <1>6, <1>7, <1>8, <1>9, <1>10, <1>11 DEF Encodes

(* An Escape that nothing follows.                                         *)
LEMMA LoneEscape ==
    ASSUME NEW s, NEW event, Encodes(s, event, FALSE), Len(s) = 1, s[1] = "esc"
    PROVE  event = Event("ESCAPE")
  <1>1. ~(\E c \in DOMAIN Controls : s = <<c>>)
    BY DEF Controls
  <1>2. ~(\E t \in DOMAIN EscapeMappings : s \in EscapeMappings[t])
    <2>1. ~(Len(s) >= 3)
      OBVIOUS
    <2> QED
      BY <2>1, SequenceLooks
  <1>3. s # <<"c3", "a9">> /\ s # <<"nul">>
    OBVIOUS
  <1> QED
    BY <1>1, <1>2, <1>3 DEF Encodes

-----------------------------------------------------------------------------
(* Bytes of several events.                                                *)
LEMMA SliceOfRest ==
    ASSUME NEW S, NEW b \in Seq(S), NEW w \in 0..Len(b), NEW x \in 0..Len(b) - w,
           NEW y \in x..Len(b) - w
    PROVE  SubSeq(SubSeq(b, w + 1, Len(b)), x + 1, y) = SubSeq(b, w + x + 1, w + y)
  <1> DEFINE rest == SubSeq(b, w + 1, Len(b))
             c == SubSeq(rest, x + 1, y)
             d == SubSeq(b, w + x + 1, w + y)
             n == Len(b)
  <1>1. n \in Nat /\ w \in Nat /\ x \in Nat /\ y \in Nat /\ w + 1 \in Nat \ {0}
        /\ x + 1 \in Nat \ {0} /\ w + x + 1 \in Nat \ {0} /\ w + y \in 0..n /\ n \in 0..n
        /\ w <= n /\ x <= y /\ y <= n - w
    OBVIOUS
  <1>2. /\ rest \in Seq(S) /\ Len(rest) = IF w + 1 <= n THEN n - (w + 1) + 1 ELSE 0
        /\ \A i \in 1 .. n - (w + 1) + 1 : rest[i] = b[(w + 1) + i - 1]
    BY <1>1, Slice
  <1>3. /\ d \in Seq(S)
        /\ Len(d) = IF w + x + 1 <= w + y THEN (w + y) - (w + x + 1) + 1 ELSE 0
        /\ \A i \in 1 .. (w + y) - (w + x + 1) + 1 : d[i] = b[(w + x + 1) + i - 1]
    BY <1>1, Slice
  <1> HIDE DEF rest, d
  <1>4. Len(rest) = n - w /\ \A i \in 1..n - w : rest[i] = b[w + i]
    <2> HIDE DEF n
    <2>1. Len(rest) = n - w /\ n - (w + 1) + 1 = n - w
      BY <1>1, <1>2
    <2>2. \A i \in 1..n - w : (w + 1) + i - 1 = w + i
      BY <1>1
    <2> QED
      BY <1>2, <2>1, <2>2
  <1>5. y \in 0..Len(rest)
    <2> HIDE DEF n
    <2> QED
      BY <1>1, <1>4
  <1>6. /\ c \in Seq(S) /\ Len(c) = IF x + 1 <= y THEN y - (x + 1) + 1 ELSE 0
        /\ \A i \in 1 .. y - (x + 1) + 1 : c[i] = rest[(x + 1) + i - 1]
    BY <1>1, <1>2, <1>5, Slice
  <1> HIDE DEF c, n
  <1>7. Len(c) = y - x /\ Len(d) = y - x
    BY <1>1, <1>3, <1>6
  <1>8. ASSUME NEW i \in 1..y - x PROVE c[i] = d[i]
    <2>1. /\ i \in 1 .. y - (x + 1) + 1 /\ i \in 1 .. (w + y) - (w + x + 1) + 1
          /\ (x + 1) + i - 1 = x + i /\ (w + x + 1) + i - 1 = w + (x + i)
          /\ x + i \in 1..n - w
      BY <1>1
    <2>2. c[i] = rest[x + i] /\ d[i] = b[w + (x + i)]
      BY <1>3, <1>6, <2>1
    <2> QED
      BY <1>4, <2>1, <2>2
  <1>9. c = d
    BY <1>3, <1>6, <1>7, <1>8, SeqEqual
  <1> QED
    BY <1>9 DEF c, d, rest, n

LEMMA SliceOfBoth ==
    ASSUME NEW S, NEW a \in Seq(S), NEW b \in Seq(S)
    PROVE  /\ \A x \in 0..Len(a) : \A y \in x..Len(a) :
                  SubSeq(a \o b, x + 1, y) = SubSeq(a, x + 1, y)
           /\ \A x \in 0..Len(b) : \A y \in x..Len(b) :
                  SubSeq(a \o b, Len(a) + x + 1, Len(a) + y) = SubSeq(b, x + 1, y)
  <1> DEFINE ab == a \o b
             m == Len(a)
             n == Len(b)
  <1>1. /\ m \in Nat /\ n \in Nat /\ ab \in Seq(S) /\ Len(ab) = m + n
        /\ \A i \in 1..m + n : ab[i] = IF i <= m THEN a[i] ELSE b[i - m]
    BY ConcatProperties
  <1> HIDE DEF ab
  <1>2. ASSUME NEW x \in 0..m, NEW y \in x..m
        PROVE  SubSeq(ab, x + 1, y) = SubSeq(a, x + 1, y)
    <2> DEFINE c == SubSeq(ab, x + 1, y)
               d == SubSeq(a, x + 1, y)
    <2>1. /\ x + 1 \in Nat \ {0} /\ y \in 0..Len(ab) /\ y \in 0..m
          /\ x \in Nat /\ y \in Nat /\ x <= y /\ y <= m
      BY <1>1
    <2>2. /\ c \in Seq(S) /\ Len(c) = IF x + 1 <= y THEN y - (x + 1) + 1 ELSE 0
          /\ \A i \in 1 .. y - (x + 1) + 1 : c[i] = ab[(x + 1) + i - 1]
      BY SMTT(30), <1>1, <2>1, Slice
    <2>3. /\ d \in Seq(S) /\ Len(d) = IF x + 1 <= y THEN y - (x + 1) + 1 ELSE 0
          /\ \A i \in 1 .. y - (x + 1) + 1 : d[i] = a[(x + 1) + i - 1]
      BY <2>1, Slice
    <2> HIDE DEF c, d, m, n
    <2>4. Len(c) = y - x /\ Len(d) = y - x
      BY <2>1, <2>2, <2>3
    <2>5. ASSUME NEW i \in 1..y - x PROVE c[i] = d[i]
      <3>1. /\ i \in 1 .. y - (x + 1) + 1 /\ (x + 1) + i - 1 = x + i
            /\ x + i \in 1..m + n /\ x + i <= m
        BY <1>1, <2>1
      <3> QED
        BY <1>1, <2>2, <2>3, <3>1
    <2>6. c = d
      BY <2>2, <2>3, <2>4, <2>5, SeqEqual
    <2> QED
      BY <2>6 DEF c, d
  <1>3. ASSUME NEW x \in 0..n, NEW y \in x..n
        PROVE  SubSeq(ab, m + x + 1, m + y) = SubSeq(b, x + 1, y)
    <2> DEFINE c == SubSeq(ab, m + x + 1, m + y)
               d == SubSeq(b, x + 1, y)
    <2>1. /\ x + 1 \in Nat \ {0} /\ m + x + 1 \in Nat \ {0} /\ m + y \in 0..Len(ab)
          /\ y \in 0..n /\ x \in Nat /\ y \in Nat /\ x <= y /\ y <= n
      BY <1>1
    <2>2. /\ c \in Seq(S)
          /\ Len(c) = IF m + x + 1 <= m + y THEN (m + y) - (m + x + 1) + 1 ELSE 0
          /\ \A i \in 1 .. (m + y) - (m + x + 1) + 1 : c[i] = ab[(m + x + 1) + i - 1]
      BY <1>1, <2>1, Slice
    <2>3. /\ d \in Seq(S) /\ Len(d) = IF x + 1 <= y THEN y - (x + 1) + 1 ELSE 0
          /\ \A i \in 1 .. y - (x + 1) + 1 : d[i] = b[(x + 1) + i - 1]
      BY <2>1, Slice
    <2> HIDE DEF c, d, m, n
    <2>4. Len(c) = y - x /\ Len(d) = y - x
      BY <1>1, <2>1, <2>2, <2>3
    <2>5. ASSUME NEW i \in 1..y - x PROVE c[i] = d[i]
      <3>1. /\ i \in 1 .. y - (x + 1) + 1 /\ (x + 1) + i - 1 = x + i
            /\ i \in 1 .. (m + y) - (m + x + 1) + 1 /\ (m + x + 1) + i - 1 = m + (x + i)
            /\ m + (x + i) \in 1..m + n /\ ~(m + (x + i) <= m)
            /\ (m + (x + i)) - m = x + i
        BY <1>1, <2>1
      <3>2. c[i] = ab[m + (x + i)] /\ d[i] = b[x + i]
        BY <2>2, <2>3, <3>1
      <3> QED
        BY <1>1, <3>1, <3>2
    <2>6. c = d
      BY <2>2, <2>3, <2>4, <2>5, SeqEqual
    <2> QED
      BY <2>6 DEF c, d
  <1> QED
    BY <1>2, <1>3 DEF ab

(* One event of several, from cut[i - 1] to cut[i].                        *)
Piece(bytes, events, mode, cut, i) ==
    /\ mode[i] = PastesAfter(mode[i - 1], events[i])
    /\ cut[i - 1] < cut[i]
    /\ Encodes(SubSeq(bytes, cut[i - 1] + 1, cut[i]), events[i], mode[i - 1])
    /\ mode[i - 1] /\ events[i] = Text("esc") =>
         /\ cut[i - 1] + Len(PasteEnd) <= Len(bytes)
         /\ SubSeq(bytes, cut[i - 1] + 1, cut[i - 1] + Len(PasteEnd)) # PasteEnd
    /\ events[i] = Event("ESCAPE") => i = Len(events)

Pieces(bytes, events, paste, mode, cut) ==
    /\ mode \in [0..Len(events) -> BOOLEAN] /\ cut \in [0..Len(events) -> 0..Len(bytes)]
    /\ mode[0] = paste /\ mode[Len(events)] = FALSE
    /\ cut[0] = 0 /\ cut[Len(events)] = Len(bytes)
    /\ \A i \in 1..Len(events) : Piece(bytes, events, mode, cut, i)

LEMMA SendsIs ==
    ASSUME NEW bytes, NEW events, NEW paste
    PROVE  Sends(bytes, events, paste) <=>
               \E mode, cut : Pieces(bytes, events, paste, mode, cut)
  <1>1. ASSUME Sends(bytes, events, paste)
        PROVE  \E mode, cut : Pieces(bytes, events, paste, mode, cut)
    BY ZenonT(40), <1>1 DEF Sends, Pieces, Piece
  <1>2. ASSUME NEW mode, NEW cut, Pieces(bytes, events, paste, mode, cut)
        PROVE  Sends(bytes, events, paste)
    BY Zenon, <1>2 DEF Sends, Pieces, Piece
  <1> QED
    BY Zenon, <1>1, <1>2

LEMMA SendsNothing ==
    /\ \A bytes, paste : Sends(bytes, <<>>, paste) => Len(bytes) = 0
    /\ Sends(<<>>, <<>>, FALSE)
  <1>1. ASSUME NEW bytes, NEW paste, Sends(bytes, <<>>, paste)
        PROVE  Len(bytes) = 0
    <2>1. PICK mode, cut : Pieces(bytes, <<>>, paste, mode, cut)
      BY Zenon, <1>1, SendsIs
    <2>2. cut[0] = 0 /\ cut[Len(<<>>)] = Len(bytes)
      BY Zenon, <2>1 DEF Pieces
    <2>3. Len(<<>>) = 0
      OBVIOUS
    <2> QED
      BY <2>2, <2>3
  <1>2. Sends(<<>>, <<>>, FALSE)
    <2> DEFINE mode == [i \in 0..0 |-> FALSE]
               cut  == [i \in 0..0 |-> 0]
    <2>1. Len(<<>>) = 0 /\ 1..0 = {}
      OBVIOUS
    <2>2. /\ mode \in [0..0 -> BOOLEAN] /\ cut \in [0..0 -> 0..0]
          /\ mode[0] = FALSE /\ cut[0] = 0
      OBVIOUS
    <2> HIDE DEF mode, cut
    <2>3. Pieces(<<>>, <<>>, FALSE, mode, cut)
      BY <2>1, <2>2 DEF Pieces
    <2> QED
      BY Zenon, <2>3, SendsIs
  <1> QED
    BY <1>1, <1>2

(* Where an event begins, and that the first of them ends before the next. *)
LEMMA CutsRise ==
    ASSUME NEW n \in Nat, n >= 1, NEW cut, NEW size \in Nat, cut \in [0..n -> 0..size],
           \A i \in 1..n : cut[i - 1] < cut[i]
    PROVE  \A i \in 1..n : cut[1] <= cut[i]
  <1> DEFINE T == {i \in 0..n : i >= 1 => cut[1] <= cut[i]}
  <1>1. 0 \in T
    OBVIOUS
  <1>2. ASSUME NEW i \in 1..n, i - 1 \in T PROVE i \in T
    <2>1. i \in 0..n /\ i - 1 \in 0..n /\ 1 \in 0..n
      OBVIOUS
    <2>2. cut[i] \in Nat /\ cut[i - 1] \in Nat /\ cut[1] \in Nat
      BY <2>1
    <2>3. CASE i = 1
      BY <2>1, <2>2, <2>3
    <2>4. CASE i # 1
      <3>1. cut[1] <= cut[i - 1] /\ cut[i - 1] < cut[i]
        BY <1>2, <2>4
      <3> QED
        BY <2>1, <2>2, <3>1
    <2> QED
      BY <2>3, <2>4
  <1>3. \A i \in 0..n : i \in T
    <2> HIDE DEF T
    <2> QED
      BY <1>1, <1>2, Upwards
  <1> QED
    BY <1>3

LEMMA TailIs ==
    ASSUME NEW e \in Seq(Meaning), e # <<>>
    PROVE  /\ Len(e) \in Nat /\ Len(e) >= 1 /\ Head(e) = e[1]
           /\ Tail(e) \in Seq(Meaning) /\ Len(Tail(e)) = Len(e) - 1
           /\ \A i \in 1..Len(e) - 1 : Tail(e)[i] = e[i + 1]
  BY EmptySeq, HeadTailProperties

(* Of n bytes w are gone; the next piece is after x of the rest, up to y.  *)
Room(n, w, x, y) ==
    /\ n \in Nat /\ w \in Nat /\ x \in Nat /\ y \in Nat
    /\ w <= n /\ x < y /\ w + y <= n

RoomLeft(n, w, x, y) ==
    /\ w \in 0..n /\ x \in 0..n - w /\ y \in x..n - w /\ x < y
    /\ w + 1 \in Nat \ {0} /\ n \in 0..n
    /\ (IF w + 1 <= n THEN n - (w + 1) + 1 ELSE 0) = n - w
    /\ w + x + 6 <= n =>
           x + 6 \in x..n - w /\ x + 6 <= n - w /\ w + (x + 6) = w + x + 6

LEMMA RestHasRoom ==
    ASSUME NEW n, NEW w, NEW x, NEW y, Room(n, w, x, y)
    PROVE  RoomLeft(n, w, x, y)
  BY DEF Room, RoomLeft

SlicesAre(b, w, x, y) ==
    /\ Len(SubSeq(b, w + 1, Len(b))) = Len(b) - w
    /\ SubSeq(SubSeq(b, w + 1, Len(b)), x + 1, y) = SubSeq(b, w + x + 1, w + y)
    /\ w + x + 6 <= Len(b) =>
           SubSeq(SubSeq(b, w + 1, Len(b)), x + 1, x + 6) = SubSeq(b, w + x + 1, w + x + 6)

LEMMA SlicesAgree ==
    ASSUME NEW b \in TextType, NEW w, NEW x, NEW y, Room(Len(b), w, x, y)
    PROVE  SlicesAre(b, w, x, y)
  <1>0. RoomLeft(Len(b), w, x, y)
    BY Zenon, RestHasRoom
  <1>1. /\ w \in 0..Len(b) /\ x \in 0..Len(b) - w /\ y \in x..Len(b) - w
        /\ w + 1 \in Nat \ {0} /\ Len(b) \in 0..Len(b)
        /\ (IF w + 1 <= Len(b) THEN Len(b) - (w + 1) + 1 ELSE 0) = Len(b) - w
        /\ w + x + 6 <= Len(b) => x + 6 \in x..Len(b) - w /\ w + (x + 6) = w + x + 6
    BY Zenon, <1>0 DEF RoomLeft
  <1>2. b \in Seq(Chars)
    BY DEF TextType
  <1>3. Len(SubSeq(b, w + 1, Len(b)))
            = IF w + 1 <= Len(b) THEN Len(b) - (w + 1) + 1 ELSE 0
    BY <1>1, <1>2, Slice
  <1>4. Len(SubSeq(b, w + 1, Len(b))) = Len(b) - w
    BY Zenon, <1>1, <1>3
  <1>5. \A z \in x..Len(b) - w :
            SubSeq(SubSeq(b, w + 1, Len(b)), x + 1, z) = SubSeq(b, w + x + 1, w + z)
    BY <1>1, <1>2, SliceOfRest
  <1>6. ASSUME w + x + 6 <= Len(b)
        PROVE  SubSeq(SubSeq(b, w + 1, Len(b)), x + 1, x + 6)
                   = SubSeq(b, w + x + 1, w + x + 6)
    <2> DEFINE six == x + 6
    <2>1. six \in x..Len(b) - w /\ w + six = w + x + 6
      BY Zenon, <1>1, <1>6
    <2> HIDE DEF six
    <2>2. SubSeq(SubSeq(b, w + 1, Len(b)), x + 1, six) = SubSeq(b, w + x + 1, w + six)
      BY Zenon, <1>5, <2>1
    <2>3. SubSeq(SubSeq(b, w + 1, Len(b)), x + 1, six) = SubSeq(b, w + x + 1, w + x + 6)
      BY Zenon, <2>1, <2>2
    <2> QED
      BY Zenon, <2>3 DEF six
  <1> QED
    BY Zenon, <1>1, <1>4, <1>5, <1>6 DEF SlicesAre

LEMMA LessOne == \A i, k \in Nat : i + 1 = k => i = k - 1
  OBVIOUS

(* A piece but the first is a piece of the rest.                           *)
LEMMA PieceOfRest ==
    ASSUME NEW b \in TextType, NEW e \in Seq(Meaning), e # <<>>,
           NEW mode, NEW cut, NEW w, NEW x, NEW y, Room(Len(b), w, x, y),
           NEW i \in 1..Len(e) - 1, cut[i] = w + x, cut[i + 1] = w + y,
           Piece(b, e, mode, cut, i + 1),
           NEW mode2, NEW cut2,
           mode2[i] = mode[i + 1], mode2[i - 1] = mode[i],
           cut2[i] = y, cut2[i - 1] = x
    PROVE  Piece(SubSeq(b, w + 1, Len(b)), Tail(e), mode2, cut2, i)
  <1> DEFINE rest == SubSeq(b, w + 1, Len(b))
  <1>0. Len(e) \in Nat /\ i \in Nat /\ (i + 1) - 1 = i /\ Len(Tail(e)) = Len(e) - 1
        /\ Tail(e)[i] = e[i + 1]
    BY TailIs
  <1>1. /\ mode[i + 1] = PastesAfter(mode[i], e[i + 1])
        /\ Encodes(SubSeq(b, w + x + 1, w + y), e[i + 1], mode[i])
        /\ mode[i] /\ e[i + 1] = Text("esc") =>
             /\ w + x + 6 <= Len(b)
             /\ SubSeq(b, w + x + 1, w + x + 6) # PasteEnd
        /\ e[i + 1] = Event("ESCAPE") => i + 1 = Len(e)
    BY Zenon, <1>0, PasteEndIs DEF Piece
  <1>2. /\ x < y /\ Len(rest) = Len(b) - w
        /\ SubSeq(rest, x + 1, y) = SubSeq(b, w + x + 1, w + y)
        /\ w + x + 6 <= Len(b) =>
             /\ x + 6 <= Len(b) - w
             /\ SubSeq(rest, x + 1, x + 6) = SubSeq(b, w + x + 1, w + x + 6)
    <2>1. RoomLeft(Len(b), w, x, y)
      BY Zenon, RestHasRoom
    <2>2. x < y /\ (w + x + 6 <= Len(b) => x + 6 <= Len(b) - w)
      BY Zenon, <2>1 DEF RoomLeft
    <2>3. /\ Len(rest) = Len(b) - w
          /\ SubSeq(rest, x + 1, y) = SubSeq(b, w + x + 1, w + y)
          /\ w + x + 6 <= Len(b) =>
               SubSeq(rest, x + 1, x + 6) = SubSeq(b, w + x + 1, w + x + 6)
      <3>1. SlicesAre(b, w, x, y)
        BY Zenon, SlicesAgree
      <3> QED
        BY Zenon, <3>1 DEF SlicesAre
    <2> HIDE DEF rest
    <2> QED
      BY Zenon, <2>2, <2>3
  <1>3. e[i + 1] = Event("ESCAPE") => i = Len(Tail(e))
    BY Zenon, <1>0, <1>1, LessOne
  <1> HIDE DEF rest
  <1>4. mode[i] /\ e[i + 1] = Text("esc") =>
            x + 6 <= Len(rest) /\ SubSeq(rest, x + 1, x + 6) # PasteEnd
    BY Zenon, <1>1, <1>2
  <1>5. Piece(rest, Tail(e), mode2, cut2, i)
    BY Zenon, <1>0, <1>1, <1>2, <1>3, <1>4, PasteEndIs DEF Piece
  <1> QED
    BY <1>5 DEF rest

(* The first event and the rest of the bytes.                              *)
First(b, e, paste, w) ==
    /\ w \in 1..Len(b) /\ Encodes(SubSeq(b, 1, w), e[1], paste)
    /\ paste /\ e[1] = Text("esc") =>
         6 <= Len(b) /\ SubSeq(b, 1, 6) # PasteEnd
    /\ e[1] = Event("ESCAPE") => Len(e) = 1
    /\ Sends(SubSeq(b, w + 1, Len(b)), Tail(e), PastesAfter(paste, e[1]))

Shifts(size, w, c, d, x, y) == Room(size, w, x, y) /\ c = w + x /\ d = w + y

LEMMA CutAgain ==
    ASSUME NEW size \in Nat, NEW w \in Nat, NEW c \in Nat, NEW d \in Nat,
           w <= c, c < d, d <= size
    PROVE  Shifts(size, w, c, d, c - w, d - w)
  BY DEF Room, Shifts

LEMMA SendsRest ==
    ASSUME NEW b \in TextType, NEW e \in Seq(Meaning), e # <<>>, NEW paste,
           Sends(b, e, paste)
    PROVE  paste \in BOOLEAN /\ \E w : First(b, e, paste, w)
  <1>1. PICK mode, cut : Pieces(b, e, paste, mode, cut)
    BY Zenon, SendsIs
  <1> DEFINE n == Len(e)
             w == cut[1]
             rest == SubSeq(b, w + 1, Len(b))
             mode2 == [i \in 0..n - 1 |-> mode[i + 1]]
             cut2  == [i \in 0..n - 1 |-> cut[i + 1] - w]
  <1>2. /\ n \in Nat /\ n >= 1 /\ Len(Tail(e)) = n - 1 /\ Len(b) \in Nat
    BY TailIs, TextIsBytes
  <1>3. /\ mode \in [0..n -> BOOLEAN] /\ cut \in [0..n -> 0..Len(b)]
        /\ mode[0] = paste /\ mode[n] = FALSE
        /\ cut[0] = 0 /\ cut[n] = Len(b)
        /\ \A i \in 1..n : Piece(b, e, mode, cut, i)
    BY Zenon, <1>1 DEF Pieces
  <1> HIDE DEF n
  <1>4. 0 \in 0..n /\ 1 \in 0..n /\ 1 \in 1..n /\ n \in 0..n /\ 1 - 1 = 0 /\ 0 + 1 = 1
    BY <1>2
  <1>5. paste \in BOOLEAN
    BY <1>3, <1>4
  <1>6. /\ mode[1] = PastesAfter(paste, e[1])
        /\ 0 < w
        /\ Encodes(SubSeq(b, 1, w), e[1], paste)
        /\ paste /\ e[1] = Text("esc") =>
             6 <= Len(b) /\ SubSeq(b, 1, 6) # PasteEnd
        /\ e[1] = Event("ESCAPE") => n = 1
    <2>1. Piece(b, e, mode, cut, 1)
      BY <1>3, <1>4
    <2>2. 0 + 6 = 6
      OBVIOUS
    <2> QED
      BY Zenon, <1>3, <1>4, <2>1, <2>2, PasteEndIs DEF Piece, n
  <1>7. w \in Nat /\ w \in 1..Len(b)
    <2>1. w \in 0..Len(b)
      BY <1>3, <1>4
    <2> HIDE DEF w
    <2> QED
      BY <1>2, <1>6, <2>1
  <1>8. \A i \in 1..n : w <= cut[i] /\ cut[i] \in Nat /\ cut[i] <= Len(b)
    <2>1. \A i \in 1..n : cut[i - 1] < cut[i]
      BY Zenon, <1>3 DEF Piece
    <2>2. \A i \in 1..n : w <= cut[i]
      BY <1>2, <1>3, <2>1, CutsRise
    <2>3. \A i \in 1..n : cut[i] \in Nat /\ cut[i] <= Len(b)
      BY <1>2, <1>3
    <2> HIDE DEF w
    <2> QED
      BY <2>2, <2>3
  <1>9. /\ mode2 \in [0..n - 1 -> BOOLEAN] /\ cut2 \in [0..n - 1 -> 0..Len(b) - w]
        /\ mode2[0] = mode[1] /\ mode2[n - 1] = FALSE
        /\ cut2[0] = 0 /\ cut2[n - 1] = Len(b) - w
    <2>1. 0 \in 0..n - 1 /\ n - 1 \in 0..n - 1 /\ (n - 1) + 1 = n /\ w - w = 0
      <3> HIDE DEF w
      <3> QED
        BY <1>2, <1>7
    <2>2. \A i \in 0..n - 1 : i + 1 \in 1..n /\ i + 1 \in 0..n
      BY <1>2
    <2>3. \A i \in 0..n - 1 : mode[i + 1] \in BOOLEAN
      BY <1>3, <2>2
    <2>4. \A i \in 0..n - 1 : cut[i + 1] - w \in 0..Len(b) - w
      <3> TAKE i \in 0..n - 1
      <3> DEFINE c == cut[i + 1]
                 size == Len(b)
      <3>1. w <= c /\ c \in Nat /\ c <= size /\ size \in Nat
        BY <1>2, <1>8, <2>2
      <3> HIDE DEF c, w, size
      <3>2. c - w \in 0..size - w
        BY <1>7, <3>1
      <3> QED
        BY <3>2 DEF c, size
    <2> QED
      BY <1>3, <1>4, <2>1, <2>3, <2>4
  <1>10. ASSUME NEW i \in 1..n - 1 PROVE Piece(rest, Tail(e), mode2, cut2, i)
    <2>1. /\ i + 1 \in 1..n /\ i \in 1..n /\ i \in 0..n - 1 /\ i - 1 \in 0..n - 1
          /\ (i - 1) + 1 = i /\ (i + 1) - 1 = i /\ i \in 1..Len(e) - 1
      BY <1>2 DEF n
    <2>2. /\ mode2[i] = mode[i + 1] /\ mode2[i - 1] = mode[i]
          /\ cut2[i] = cut[i + 1] - w /\ cut2[i - 1] = cut[i] - w
      BY <2>1
    <2>3. Piece(b, e, mode, cut, i + 1)
      BY <1>3, <2>1
    <2>4. cut[i] < cut[i + 1]
      BY Zenon, <2>1, <2>3 DEF Piece
    <2> DEFINE c == cut[i]
               d == cut[i + 1]
               x == c - w
               y == d - w
               size == Len(b)
    <2>5. w <= c /\ c \in Nat /\ c < d /\ d \in Nat /\ d <= size /\ size \in Nat
      BY <1>2, <1>8, <2>1, <2>4
    <2>6. Room(size, w, x, y) /\ c = w + x /\ d = w + y
      <3>1. Shifts(size, w, c, d, c - w, d - w)
        <4> HIDE DEF c, d, w, size
        <4> QED
          BY <1>7, <2>5, CutAgain
      <3> QED
        BY Zenon, <3>1 DEF Shifts
    <2>7. /\ Room(Len(b), w, x, y) /\ cut[i] = w + x /\ cut[i + 1] = w + y
          /\ cut2[i] = y /\ cut2[i - 1] = x
      BY Zenon, <2>2, <2>6
    <2> HIDE DEF x, y, c, d, size, w, mode2, cut2
    <2>8. Piece(SubSeq(b, w + 1, Len(b)), Tail(e), mode2, cut2, i)
      BY Zenon, <2>1, <2>2, <2>3, <2>7, PieceOfRest
    <2> QED
      BY <2>8
  <1>11. Len(rest) = Len(b) - w
    <2> DEFINE size == Len(b)
    <2>1. w + 1 \in Nat \ {0} /\ size \in 0..size
      <3> HIDE DEF w, size
      <3>1. size \in Nat
        BY <1>2 DEF size
      <3> QED
        BY <1>7, <3>1
    <2>2. Len(rest) = IF w + 1 <= size THEN size - (w + 1) + 1 ELSE 0
      <3> HIDE DEF w
      <3> QED
        BY <2>1, Slice DEF TextType
    <2>3. w \in 1..size /\ size \in Nat
      BY <1>2, <1>7
    <2> HIDE DEF w, rest, size
    <2>4. Len(rest) = size - w
      BY <2>2, <2>3
    <2> QED
      BY <2>4 DEF size
  <1> HIDE DEF w, rest, mode2, cut2
  <1>12. Pieces(rest, Tail(e), PastesAfter(paste, e[1]), mode2, cut2)
    BY Zenon, <1>2, <1>6, <1>9, <1>10, <1>11 DEF Pieces
  <1>13. Sends(SubSeq(b, w + 1, Len(b)), Tail(e), PastesAfter(paste, e[1]))
    BY Zenon, <1>12, SendsIs DEF rest
  <1>14. First(b, e, paste, w)
    BY Zenon, <1>6, <1>7, <1>13 DEF First, n
  <1> QED
    BY <1>5, <1>14

(* The pieces of two texts, one after the other.                           *)
Piece1(x, y, n) == x \in Nat /\ y \in Nat /\ x < y /\ y <= n
FirstAre(a, b, x, y) ==
    /\ SubSeq(a \o b, x + 1, y) = SubSeq(a, x + 1, y)
    /\ x + 6 <= Len(a) =>
         x + 6 <= Len(a \o b) /\ SubSeq(a \o b, x + 1, x + 6) = SubSeq(a, x + 1, x + 6)
SecondAre(a, b, x, y) ==
    /\ Len(a) + x < Len(a) + y
    /\ SubSeq(a \o b, Len(a) + x + 1, Len(a) + y) = SubSeq(b, x + 1, y)
    /\ x + 6 <= Len(b) =>
         /\ Len(a) + x + 6 <= Len(a \o b)
         /\ SubSeq(a \o b, Len(a) + x + 1, Len(a) + x + 6) = SubSeq(b, x + 1, x + 6)

RoomFor(x, y, n) ==
    /\ n \in Nat /\ x \in 0..n /\ y \in x..n
    /\ x + 6 <= n => x + 6 \in x..n
RoomAfter(x, y, n, m) ==
    /\ x + 6 <= n => x + 6 <= n + m
    /\ m + x < m + y
    /\ m + (x + 6) = m + x + 6
    /\ x + 6 <= n => m + x + 6 <= m + n

LEMMA RoomForPiece ==
    ASSUME NEW n \in Nat, NEW m \in Nat, NEW x, NEW y, Piece1(x, y, n)
    PROVE  RoomFor(x, y, n) /\ RoomAfter(x, y, n, m)
  BY DEF Piece1, RoomFor, RoomAfter

LEMMA SlicesOfBoth ==
    ASSUME NEW a \in TextType, NEW b \in TextType, NEW x, NEW y
    PROVE  /\ Piece1(x, y, Len(a)) => FirstAre(a, b, x, y)
           /\ Piece1(x, y, Len(b)) => SecondAre(a, b, x, y)
  <1>1. Len(a) \in Nat /\ Len(b) \in Nat /\ Len(a \o b) = Len(a) + Len(b)
    BY TextIsBytes, Concat DEF TextType
  <1>2. /\ \A u \in 0..Len(a) : \A v \in u..Len(a) :
              SubSeq(a \o b, u + 1, v) = SubSeq(a, u + 1, v)
        /\ \A u \in 0..Len(b) : \A v \in u..Len(b) :
              SubSeq(a \o b, Len(a) + u + 1, Len(a) + v) = SubSeq(b, u + 1, v)
    BY SliceOfBoth DEF TextType
  <1>3. ASSUME Piece1(x, y, Len(a)) PROVE FirstAre(a, b, x, y)
    <2>1. RoomFor(x, y, Len(a)) /\ RoomAfter(x, y, Len(a), Len(b))
      BY Zenon, <1>1, <1>3, RoomForPiece
    <2> QED
      BY Zenon, <1>1, <1>2, <2>1 DEF RoomFor, RoomAfter, FirstAre
  <1>4. ASSUME Piece1(x, y, Len(b)) PROVE SecondAre(a, b, x, y)
    <2>1. RoomFor(x, y, Len(b)) /\ RoomAfter(x, y, Len(b), Len(a))
      BY Zenon, <1>1, <1>4, RoomForPiece
    <2>2. SubSeq(a \o b, Len(a) + x + 1, Len(a) + y) = SubSeq(b, x + 1, y)
      BY Zenon, <1>2, <2>1 DEF RoomFor
    <2>3. ASSUME x + 6 <= Len(b)
          PROVE  SubSeq(a \o b, Len(a) + x + 1, Len(a) + x + 6) = SubSeq(b, x + 1, x + 6)
      <3>1. SubSeq(a \o b, Len(a) + x + 1, Len(a) + (x + 6)) = SubSeq(b, x + 1, x + 6)
        BY Zenon, <1>2, <2>1, <2>3 DEF RoomFor
      <3> QED
        BY Zenon, <2>1, <3>1 DEF RoomAfter
    <2> QED
      BY Zenon, <1>1, <2>1, <2>2, <2>3 DEF RoomAfter, SecondAre
  <1> QED
    BY <1>3, <1>4

LEMMA PieceOfFirst ==
    ASSUME NEW a \in TextType, NEW b \in TextType, NEW e, NEW f, NEW i,
           NEW mode, NEW cut, Piece(a, e, mode, cut, i),
           Piece1(cut[i - 1], cut[i], Len(a)), e[i] # Event("ESCAPE"),
           NEW mode2, NEW cut2,
           f[i] = e[i], mode2[i] = mode[i], mode2[i - 1] = mode[i - 1],
           cut2[i] = cut[i], cut2[i - 1] = cut[i - 1]
    PROVE  Piece(a \o b, f, mode2, cut2, i)
  <1>1. FirstAre(a, b, cut[i - 1], cut[i])
    BY Zenon, SlicesOfBoth
  <1> QED
    BY Zenon, <1>1, PasteEndIs DEF Piece, FirstAre

LEMMA PieceOfSecond ==
    ASSUME NEW a \in TextType, NEW b \in TextType, NEW e, NEW f, NEW i, NEW j,
           NEW mode, NEW cut, Piece(b, e, mode, cut, j),
           Piece1(cut[j - 1], cut[j], Len(b)), j = Len(e) => i = Len(f),
           NEW mode2, NEW cut2,
           f[i] = e[j], mode2[i] = mode[j], mode2[i - 1] = mode[j - 1],
           cut2[i] = Len(a) + cut[j], cut2[i - 1] = Len(a) + cut[j - 1]
    PROVE  Piece(a \o b, f, mode2, cut2, i)
  <1>1. SecondAre(a, b, cut[j - 1], cut[j])
    BY Zenon, SlicesOfBoth
  <1> QED
    BY Zenon, <1>1, PasteEndIs DEF Piece, SecondAre

LEMMA PieceOne ==
    ASSUME NEW b \in TextType, NEW e, Len(e) \in Nat, NEW paste, NEW mode, NEW cut,
           Pieces(b, e, paste, mode, cut), NEW i \in 1..Len(e)
    PROVE  Piece(b, e, mode, cut, i) /\ Piece1(cut[i - 1], cut[i], Len(b))
  <1>1. Piece(b, e, mode, cut, i) /\ cut[i - 1] < cut[i]
    BY Zenon DEF Pieces, Piece
  <1>2. i \in 0..Len(e) /\ i - 1 \in 0..Len(e)
    OBVIOUS
  <1>3. cut[i] \in 0..Len(b) /\ cut[i - 1] \in 0..Len(b) /\ Len(b) \in Nat
    BY <1>2, TextIsBytes DEF Pieces
  <1>4. cut[i] \in Nat /\ cut[i - 1] \in Nat /\ cut[i] <= Len(b)
    BY <1>3
  <1> QED
    BY Zenon, <1>1, <1>4 DEF Piece1

(* Two functions on intervals, one after the other.                        *)
Glued(m, n, f, g) == [i \in 0..m + n |-> IF i <= m THEN f[i] ELSE g[i - m]]

LEMMA GluedIs ==
    ASSUME NEW m \in Nat, NEW n \in Nat, NEW f, NEW g, f[m] = g[0]
    PROVE  /\ \A i \in 0..m : Glued(m, n, f, g)[i] = f[i]
           /\ \A j \in 0..n : m + j \in 0..m + n /\ Glued(m, n, f, g)[m + j] = g[j]
           /\ \A i \in 1..m : i \in 0..m /\ i - 1 \in 0..m
           /\ \A j \in 1..n : j \in 0..n /\ j - 1 \in 0..n /\ (m + j) - 1 = m + (j - 1)
           /\ \A i \in 1..m + n : i \in 1..m \/ \E j \in 1..n : i = m + j
           /\ 0 \in 0..m /\ m \in 0..m /\ n \in 0..n
  <1>1. ASSUME NEW i \in 0..m PROVE Glued(m, n, f, g)[i] = f[i]
    <2>1. i \in 0..m + n /\ i <= m
      OBVIOUS
    <2> QED
      BY Zenon, <2>1 DEF Glued
  <1>2. ASSUME NEW j \in 0..n
        PROVE  m + j \in 0..m + n /\ Glued(m, n, f, g)[m + j] = g[j]
    <2>1. m + j \in 0..m + n /\ (m + j) - m = j
      OBVIOUS
    <2>2. CASE j = 0
      <3>1. m + j = m /\ m \in 0..m
        BY <2>2
      <3> QED
        BY Zenon, <1>1, <2>1, <2>2, <3>1
    <2>3. CASE j # 0
      <3>1. ~(m + j <= m)
        BY <2>3
      <3> QED
        BY Zenon, <2>1, <3>1 DEF Glued
    <2> QED
      BY <2>2, <2>3
  <1>3. ASSUME NEW i \in 1..m + n PROVE i \in 1..m \/ \E j \in 1..n : i = m + j
    <2>1. CASE i <= m
      BY <2>1
    <2>2. CASE ~(i <= m)
      <3>1. i - m \in 1..n /\ i = m + (i - m)
        BY <2>2
      <3> QED
        BY Zenon, <3>1
    <2> QED
      BY <2>1, <2>2
  <1>4. /\ \A i \in 1..m : i \in 0..m /\ i - 1 \in 0..m
        /\ \A j \in 1..n : j \in 0..n /\ j - 1 \in 0..n /\ (m + j) - 1 = m + (j - 1)
        /\ 0 \in 0..m /\ m \in 0..m /\ n \in 0..n
    OBVIOUS
  <1> QED
    BY Zenon, <1>1, <1>2, <1>3, <1>4

NoEscape(e) == \A i \in 1..Len(e) : e[i] # Event("ESCAPE")

LEMMA SendsBoth ==
    ASSUME NEW a \in TextType, NEW b \in TextType, NEW paste,
           NEW e \in Seq(Meaning), NEW f \in Seq(Meaning), NoEscape(e),
           Sends(a, e, paste), Sends(b, f, FALSE)
    PROVE  Sends(a \o b, e \o f, paste)
  <1>1. PICK mode1, cut1 : Pieces(a, e, paste, mode1, cut1)
    BY Zenon, SendsIs
  <1>2. PICK mode2, cut2 : Pieces(b, f, FALSE, mode2, cut2)
    BY Zenon, SendsIs
  <1> DEFINE m == Len(e)
             n == Len(f)
             k == Len(a)
             late == [j \in 0..n |-> k + cut2[j]]
             mode == Glued(m, n, mode1, mode2)
             cut  == Glued(m, n, cut1, late)
  <1>3. /\ m \in Nat /\ n \in Nat /\ k \in Nat /\ Len(b) \in Nat
        /\ Len(e \o f) = m + n /\ Len(a \o b) = k + Len(b)
    BY TextIsBytes, Concat DEF TextType
  <1>4. /\ \A i \in 1..m : (e \o f)[i] = e[i]
        /\ \A j \in 1..n : (e \o f)[m + j] = f[j]
    <2>1. \A i \in 1..m + n : (e \o f)[i] = IF i <= m THEN e[i] ELSE f[i - m]
      BY ConcatProperties
    <2> HIDE DEF m, n
    <2>2. \A i \in 1..m : i \in 1..m + n /\ i <= m
      BY <1>3
    <2>3. \A j \in 1..n : m + j \in 1..m + n /\ ~(m + j <= m) /\ (m + j) - m = j
      BY <1>3
    <2> QED
      BY Zenon, <2>1, <2>2, <2>3
  <1>5. /\ mode1 \in [0..m -> BOOLEAN] /\ mode2 \in [0..n -> BOOLEAN]
        /\ cut1 \in [0..m -> 0..k] /\ cut2 \in [0..n -> 0..Len(b)]
        /\ mode1[0] = paste /\ mode1[m] = FALSE /\ mode2[0] = FALSE /\ mode2[n] = FALSE
        /\ cut1[0] = 0 /\ cut1[m] = k /\ cut2[0] = 0 /\ cut2[n] = Len(b)
    BY Zenon, <1>1, <1>2 DEF Pieces
  <1>6. /\ \A i \in 1..m : Piece(a, e, mode1, cut1, i) /\ Piece1(cut1[i - 1], cut1[i], k)
        /\ \A j \in 1..n : Piece(b, f, mode2, cut2, j) /\ Piece1(cut2[j - 1], cut2[j], Len(b))
    BY <1>1, <1>2, <1>3, PieceOne
  <1> HIDE DEF m, n, k
  <1>7. /\ \A j \in 0..n : late[j] = k + cut2[j]
        /\ late[0] = k /\ late[n] = k + Len(b)
    <2>1. 0 \in 0..n /\ n \in 0..n /\ k + 0 = k
      BY <1>3
    <2> QED
      BY Zenon, <1>5, <2>1
  <1> HIDE DEF late
  <1>8. mode1[m] = mode2[0] /\ cut1[m] = late[0]
    BY Zenon, <1>5, <1>7
  <1>9. /\ \A i \in 0..m : mode[i] = mode1[i] /\ cut[i] = cut1[i]
        /\ \A j \in 0..n : /\ m + j \in 0..m + n
                           /\ mode[m + j] = mode2[j] /\ cut[m + j] = late[j]
        /\ \A i \in 1..m : i \in 0..m /\ i - 1 \in 0..m
        /\ \A j \in 1..n : j \in 0..n /\ j - 1 \in 0..n /\ (m + j) - 1 = m + (j - 1)
        /\ \A i \in 1..m + n : i \in 1..m \/ \E j \in 1..n : i = m + j
        /\ 0 \in 0..m /\ m \in 0..m /\ n \in 0..n
    BY <1>3, <1>8, GluedIs
  <1>10. mode \in [0..m + n -> BOOLEAN] /\ cut \in [0..m + n -> 0..k + Len(b)]
    <2>1. ASSUME NEW i \in 0..m + n
          PROVE  mode[i] \in BOOLEAN /\ cut[i] \in 0..k + Len(b)
      <3>1. CASE i \in 0..m
        <4>1. mode[i] = mode1[i] /\ cut[i] = cut1[i]
          BY Zenon, <1>9, <3>1
        <4>2. mode1[i] \in BOOLEAN /\ cut1[i] \in 0..k
          BY <1>5, <3>1
        <4>3. cut1[i] \in 0..k + Len(b)
          BY <1>3, <4>2
        <4> QED
          BY <4>1, <4>2, <4>3
      <3>2. CASE i \notin 0..m
        <4>1. i \in 1..m + n /\ i \notin 1..m
          BY <1>3, <3>2
        <4>2. PICK j \in 1..n : i = m + j
          BY Zenon, <1>9, <4>1
        <4>3. j \in 0..n /\ mode[i] = mode2[j] /\ cut[i] = k + cut2[j]
          BY Zenon, <1>7, <1>9, <4>2
        <4>4. mode2[j] \in BOOLEAN /\ cut2[j] \in 0..Len(b)
          BY <1>5, <4>3
        <4>5. k + cut2[j] \in 0..k + Len(b)
          BY <1>3, <4>4
        <4> QED
          BY <4>3, <4>4, <4>5
      <3> QED
        BY <3>1, <3>2
    <2>2. mode = [i \in 0..m + n |-> mode[i]] /\ cut = [i \in 0..m + n |-> cut[i]]
      BY DEF Glued
    <2> HIDE DEF mode, cut
    <2> QED
      BY <2>1, <2>2
  <1> HIDE DEF mode, cut
  <1>11. ASSUME NEW i \in 1..m PROVE Piece(a \o b, e \o f, mode, cut, i)
    <2>1. /\ mode[i] = mode1[i] /\ mode[i - 1] = mode1[i - 1]
          /\ cut[i] = cut1[i] /\ cut[i - 1] = cut1[i - 1]
      BY Zenon, <1>9
    <2>2. (e \o f)[i] = e[i] /\ e[i] # Event("ESCAPE")
      BY Zenon, <1>4 DEF NoEscape, m
    <2>3. Piece(a, e, mode1, cut1, i) /\ Piece1(cut1[i - 1], cut1[i], Len(a))
      BY Zenon, <1>6 DEF k
    <2> QED
      BY Zenon, <2>1, <2>2, <2>3, PieceOfFirst
  <1>12. ASSUME NEW j \in 1..n PROVE Piece(a \o b, e \o f, mode, cut, m + j)
    <2>1. /\ mode[m + j] = mode2[j] /\ mode[(m + j) - 1] = mode2[j - 1]
          /\ cut[m + j] = Len(a) + cut2[j] /\ cut[(m + j) - 1] = Len(a) + cut2[j - 1]
      BY Zenon, <1>7, <1>9 DEF k
    <2>2. (e \o f)[m + j] = f[j]
      BY Zenon, <1>4
    <2>3. Piece(b, f, mode2, cut2, j) /\ Piece1(cut2[j - 1], cut2[j], Len(b))
      BY Zenon, <1>6
    <2>4. j = Len(f) => m + j = Len(e \o f)
      BY Zenon, <1>3 DEF n
    <2> QED
      BY Zenon, <2>1, <2>2, <2>3, <2>4, PieceOfSecond
  <1>13. \A i \in 1..m + n : Piece(a \o b, e \o f, mode, cut, i)
    BY Zenon, <1>9, <1>11, <1>12
  <1>14. /\ mode[0] = paste /\ mode[m + n] = FALSE
         /\ cut[0] = 0 /\ cut[m + n] = k + Len(b)
    BY Zenon, <1>5, <1>7, <1>9
  <1>15. Pieces(a \o b, e \o f, paste, mode, cut)
    BY Zenon, <1>3, <1>10, <1>13, <1>14 DEF Pieces
  <1> QED
    BY Zenon, <1>15, SendsIs

LEMMA EscapeIsLast ==
    ASSUME NEW b, NEW e \in Seq(Meaning), NEW paste, Sends(b, e, paste),
           e = <<>> \/ Last(e) # Event("ESCAPE")
    PROVE  NoEscape(e)
  <1>1. PICK mode, cut : Pieces(b, e, paste, mode, cut)
    BY Zenon, SendsIs
  <1>2. \A i \in 1..Len(e) : e[i] = Event("ESCAPE") => i = Len(e)
    BY Zenon, <1>1 DEF Pieces, Piece
  <1>3. CASE e = <<>>
    BY <1>3 DEF NoEscape
  <1>4. CASE Last(e) # Event("ESCAPE")
    BY Zenon, <1>2, <1>4 DEF NoEscape, Last
  <1> QED
    BY <1>3, <1>4

(* Bytes taken from the first of two texts.                                *)
LEMMA RestOfBoth ==
    ASSUME NEW a \in TextType, NEW b \in TextType, NEW w \in 1..Len(a)
    PROVE  SubSeq(a, w + 1, Len(a)) \o b = SubSeq(a \o b, w + 1, Len(a \o b))
  <1> DEFINE m == Len(a)
             n == Len(b)
             c == SubSeq(a, w + 1, m)
             d == SubSeq(a \o b, w + 1, Len(a \o b))
  <1>1. /\ a \in Seq(Chars) /\ b \in Seq(Chars) /\ a \o b \in Seq(Chars)
        /\ m \in Nat /\ n \in Nat /\ Len(a \o b) = m + n
        /\ \A i \in 1..m + n : (a \o b)[i] = IF i <= m THEN a[i] ELSE b[i - m]
    BY ConcatProperties, TextIsBytes DEF TextType
  <1>2. w \in 1..m /\ w + 1 \in Nat \ {0} /\ m \in 0..m /\ m + n \in 0..m + n
    BY <1>1
  <1>3. /\ c \in Seq(Chars) /\ Len(c) = IF w + 1 <= m THEN m - (w + 1) + 1 ELSE 0
        /\ \A i \in 1 .. m - (w + 1) + 1 : c[i] = a[(w + 1) + i - 1]
    BY <1>1, <1>2, Slice
  <1>4. /\ d \in Seq(Chars)
        /\ Len(d) = IF w + 1 <= m + n THEN (m + n) - (w + 1) + 1 ELSE 0
        /\ \A i \in 1 .. (m + n) - (w + 1) + 1 : d[i] = (a \o b)[(w + 1) + i - 1]
    BY <1>1, <1>2, Slice
  <1> HIDE DEF m, n, c, d
  <1>5. Len(c) = m - w /\ Len(d) = (m + n) - w /\ m - w \in Nat
    BY <1>1, <1>2, <1>3, <1>4
  <1>6. /\ c \o b \in Seq(Chars) /\ Len(c \o b) = (m - w) + n
        /\ \A i \in 1..(m - w) + n :
               (c \o b)[i] = IF i <= m - w THEN c[i] ELSE b[i - (m - w)]
    <2>1. /\ c \o b \in Seq(Chars) /\ Len(c \o b) = Len(c) + n
          /\ \A i \in 1..Len(c) + n :
                 (c \o b)[i] = IF i <= Len(c) THEN c[i] ELSE b[i - Len(c)]
      BY <1>1, <1>3, ConcatProperties DEF n
    <2> QED
      BY Zenon, <1>5, <2>1
  <1>7. (m - w) + n = (m + n) - w
    BY <1>1, <1>2
  <1>8. ASSUME NEW i \in 1..(m - w) + n PROVE (c \o b)[i] = d[i]
    <2>1. /\ i \in 1 .. (m + n) - (w + 1) + 1 /\ (w + 1) + i - 1 = w + i
          /\ w + i \in 1..m + n
          /\ i <= m - w => i \in 1 .. m - (w + 1) + 1 /\ w + i <= m
          /\ ~(i <= m - w) => ~(w + i <= m) /\ (w + i) - m = i - (m - w)
      BY <1>1, <1>2
    <2>2. d[i] = IF w + i <= m THEN a[w + i] ELSE b[(w + i) - m]
      BY Zenon, <1>1, <1>4, <2>1
    <2>3. CASE i <= m - w
      BY Zenon, <1>3, <1>6, <2>1, <2>2, <2>3
    <2>4. CASE ~(i <= m - w)
      BY Zenon, <1>6, <2>1, <2>2, <2>4
    <2> QED
      BY <2>3, <2>4
  <1>9. c \o b = d
    <2>1. Len(c \o b) = Len(d) /\ \A i \in 1..Len(c \o b) : (c \o b)[i] = d[i]
      BY Zenon, <1>5, <1>6, <1>7, <1>8
    <2> QED
      BY <1>4, <1>6, <2>1, SeqEqual
  <1> QED
    BY <1>9 DEF c, d, m

(* What was read is the beginning of what is on its way.                   *)
LEMMA ReadIsStart ==
    ASSUME NEW a \in TextType, NEW b \in TextType
    PROVE  a \o b \in TextType /\ Starts(a, a \o b)
  <1>1. /\ a \o b \in Seq(Chars) /\ Len(a) \in Nat /\ Len(b) \in Nat
        /\ Len(a \o b) = Len(a) + Len(b)
        /\ \A i \in 1..Len(a) + Len(b) :
               (a \o b)[i] = IF i <= Len(a) THEN a[i] ELSE b[i - Len(a)]
    BY ConcatProperties, TextIsBytes DEF TextType
  <1>2. /\ Len(a) <= Len(a) + Len(b)
        /\ \A i \in 1..Len(a) : i \in 1..Len(a) + Len(b) /\ i <= Len(a)
    BY <1>1
  <1> QED
    BY Zenon, <1>1, <1>2 DEF Starts, TextType

(* The first bytes.                                                        *)
LEMMA FirstBytes ==
    ASSUME NEW b \in TextType, NEW w \in 1..Len(b)
    PROVE  /\ SubSeq(b, 1, w) \in TextType /\ Len(SubSeq(b, 1, w)) = w
           /\ \A i \in 1..w : SubSeq(b, 1, w)[i] = b[i]
  <1>1. w \in 0..Len(b) /\ w \in Nat /\ 1 <= w /\ Len(b) \in Nat /\ 1 \in Nat \ {0}
    BY TextIsBytes
  <1>2. /\ SubSeq(b, 1, w) \in Seq(Chars)
        /\ Len(SubSeq(b, 1, w)) = IF 1 <= w THEN w - 1 + 1 ELSE 0
        /\ \A i \in 1 .. w - 1 + 1 : SubSeq(b, 1, w)[i] = b[1 + i - 1]
    BY <1>1, Slice DEF TextType
  <1>3. w - 1 + 1 = w /\ \A i \in 1..w : 1 + i - 1 = i
    BY <1>1
  <1> QED
    BY Zenon, <1>1, <1>2, <1>3 DEF TextType

-----------------------------------------------------------------------------
(* What is in the buffer and on its way is what the terminal sends for the *)
(* events still owed, and ends outside a paste: as long as no Escape was   *)
(* pressed or taken on top of other bytes.                                 *)
Heard ==
    /\ owed \in Seq(Meaning)
    /\ hearing # "wrong"
    /\ hearing = "whole" => Sends(input \o tty, owed, pasting)

LEMMA HeardStays ==
    ASSUME Heard, UNCHANGED <<owed, hearing, pasting>>, input' \o tty' = input \o tty
    PROVE  Heard'
  BY Zenon DEF Heard

Joins(S, a, b, ab) ==
    /\ ab \in Seq(S) /\ Len(ab) = Len(a) + Len(b)
    /\ \A i \in 1..Len(a) + Len(b) : ab[i] = IF i <= Len(a) THEN a[i] ELSE b[i - Len(a)]

LEMMA JoinsIs ==
    ASSUME NEW S, NEW a \in Seq(S), NEW b \in Seq(S)
    PROVE  Joins(S, a, b, a \o b)
  BY ConcatProperties DEF Joins

LEMMA JoinsMore ==
    ASSUME NEW S, NEW a \in Seq(S), NEW b \in Seq(S), NEW c \in Seq(S),
           NEW ab, Joins(S, a, b, ab), NEW bc, Joins(S, b, c, bc),
           NEW l, Joins(S, ab, c, l), NEW r, Joins(S, a, bc, r)
    PROVE  l = r
  <1> DEFINE x == Len(a)
             y == Len(b)
             z == Len(c)
  <1>1. x \in Nat /\ y \in Nat /\ z \in Nat
    OBVIOUS
  <1> HIDE DEF x, y, z
  <1>2. /\ Len(ab) = x + y /\ Len(bc) = y + z
        /\ \A i \in 1..x + y : ab[i] = IF i <= x THEN a[i] ELSE b[i - x]
        /\ \A i \in 1..y + z : bc[i] = IF i <= y THEN b[i] ELSE c[i - y]
    BY Zenon DEF Joins, x, y, z
  <1>3. /\ l \in Seq(S) /\ Len(l) = (x + y) + z
        /\ \A i \in 1..(x + y) + z : l[i] = IF i <= x + y THEN ab[i] ELSE c[i - (x + y)]
    BY Zenon, <1>2 DEF Joins, x, y, z
  <1>4. /\ r \in Seq(S) /\ Len(r) = x + (y + z)
        /\ \A i \in 1..x + (y + z) : r[i] = IF i <= x THEN a[i] ELSE bc[i - x]
    BY Zenon, <1>2 DEF Joins, x, y, z
  <1>5. (x + y) + z = x + (y + z)
    BY <1>1
  <1>6. ASSUME NEW i \in 1..(x + y) + z PROVE l[i] = r[i]
    <2>0. i \in 1..x + (y + z)
      BY <1>1
    <2>1. CASE i <= x
      <3>1. i \in 1..x + y /\ i <= x + y
        BY <1>1, <2>1
      <3> QED
        BY Zenon, <1>2, <1>3, <1>4, <2>0, <2>1, <3>1
    <2>2. CASE ~(i <= x) /\ i <= x + y
      <3>1. i \in 1..x + y /\ i - x \in 1..y + z /\ i - x <= y
        BY <1>1, <2>2
      <3> QED
        BY Zenon, <1>2, <1>3, <1>4, <2>0, <2>2, <3>1
    <2>3. CASE ~(i <= x) /\ ~(i <= x + y)
      <3>1. i - x \in 1..y + z /\ ~(i - x <= y) /\ i - (x + y) = (i - x) - y
        BY <1>1, <2>3
      <3> QED
        BY Zenon, <1>2, <1>3, <1>4, <2>0, <2>3, <3>1
    <2> QED
      BY <2>1, <2>2, <2>3
  <1>7. Len(l) = Len(r) /\ \A i \in 1..Len(l) : l[i] = r[i]
    BY Zenon, <1>3, <1>4, <1>5, <1>6
  <1> QED
    BY <1>3, <1>4, <1>7, SeqEqual

Same(x, y) == x = y

LEMMA Joined ==
    ASSUME NEW S, NEW a \in Seq(S), NEW b \in Seq(S), NEW c \in Seq(S)
    PROVE  Same((a \o b) \o c, a \o (b \o c))
  <1> DEFINE ab == a \o b
             bc == b \o c
             l  == ab \o c
             r  == a \o bc
  <1>1. Joins(S, a, b, ab) /\ Joins(S, b, c, bc)
    BY JoinsIs
  <1>2. ab \in Seq(S) /\ bc \in Seq(S)
    BY Zenon, <1>1 DEF Joins
  <1> HIDE DEF ab, bc
  <1>3. Joins(S, ab, c, l) /\ Joins(S, a, bc, r)
    BY <1>2, JoinsIs
  <1> HIDE DEF l, r
  <1>4. l = r
    BY <1>1, <1>3, JoinsMore
  <1> QED
    BY <1>4 DEF l, r, ab, bc, Same

LEMMA InitHeard == Init => Heard
  <1> SUFFICES ASSUME Init PROVE Heard
    OBVIOUS
  <1>1. owed = <<>> /\ input = <<>> /\ tty = <<>> /\ pasting = FALSE /\ hearing = "whole"
    BY DEF Init
  <1>2. <<>> \o <<>> = <<>> /\ owed \in Seq(Meaning)
    BY <1>1
  <1>3. Sends(input \o tty, owed, pasting)
    BY Zenon, <1>1, <1>2, SendsNothing
  <1> QED
    BY <1>1, <1>2, <1>3 DEF Heard

LEMMA PressHeard ==
    ASSUME IInv, Heard, NEW k \in Keys, Press(k)
    PROVE  Heard'
  <1>1. k.means \in Seq(Meaning) /\ Sends(k.bytes, k.means, FALSE) /\ k.bytes \in TextType
    BY Zenon, KeysAssumption, Assumed
  <1>2. /\ tty' = tty \o k.bytes /\ owed' = owed \o k.means
        /\ hearing' = IF owed # <<>> /\ Last(owed) = Event("ESCAPE") THEN "torn" ELSE hearing
        /\ input' = input /\ pasting' = pasting
    BY DEF Press
  <1>3. input \in TextType /\ tty \in TextType /\ owed \in Seq(Meaning)
    BY DEF IInv, Buffers, Heard
  <1>4. owed' \in Seq(Meaning)
    BY <1>1, <1>2, <1>3, Concat
  <1>5. hearing' # "wrong"
    BY <1>2 DEF Heard
  <1>6. ASSUME hearing' = "whole" PROVE Sends(input' \o tty', owed', pasting')
    <2>1. hearing = "whole" /\ (owed = <<>> \/ Last(owed) # Event("ESCAPE"))
      BY <1>2, <1>6
    <2>2. Sends(input \o tty, owed, pasting)
      BY <2>1 DEF Heard
    <2>3. NoEscape(owed)
      BY Zenon, <1>3, <2>1, <2>2, EscapeIsLast
    <2>4. input \o tty \in TextType
      BY Zenon, <1>3, ReadIsStart
    <2>5. Sends((input \o tty) \o k.bytes, owed \o k.means, pasting)
      BY Zenon, <1>1, <1>3, <2>2, <2>3, <2>4, SendsBoth
    <2>6. (input \o tty) \o k.bytes = input \o (tty \o k.bytes)
      <3>1. input \in Seq(Chars) /\ tty \in Seq(Chars) /\ k.bytes \in Seq(Chars)
        BY Zenon, <1>1, <1>3 DEF TextType
      <3> QED
        <4>1. Same((input \o tty) \o k.bytes, input \o (tty \o k.bytes))
          BY Zenon, <3>1, Joined
        <4> QED
          BY Zenon, <4>1 DEF Same
    <2> QED
      BY Zenon, <1>2, <2>5, <2>6
  <1> QED
    BY Zenon, <1>4, <1>5, <1>6 DEF Heard

LEMMA ReadHeard ==
    ASSUME IInv, Heard, Read
    PROVE  Heard'
  <1>1. PICK n \in 1..Len(tty) :
            /\ input' = input \o SubSeq(tty, 1, n)
            /\ tty' = SubSeq(tty, n + 1, Len(tty))
    BY DEF Read
  <1>2. input \in Seq(Chars) /\ tty \in Seq(Chars)
    BY DEF IInv, Buffers, TextType
  <1>3. SubSeq(tty, 1, n) \o SubSeq(tty, n + 1, Len(tty)) = tty
    <2>1. /\ 1 \in 1..Len(tty) + 1 /\ n \in 1 - 1..Len(tty) /\ Len(tty) \in n..Len(tty)
      BY <1>2
    <2>2. SubSeq(tty, 1, n) \o SubSeq(tty, n + 1, Len(tty)) = SubSeq(tty, 1, Len(tty))
      BY <1>2, <2>1, ConcatAdjacentSubSeq
    <2> QED
      BY Zenon, <1>2, <2>2, SubSeqFull
  <1>4. SubSeq(tty, 1, n) \in Seq(Chars) /\ SubSeq(tty, n + 1, Len(tty)) \in Seq(Chars)
    <2>1. n \in 0..Len(tty) /\ n + 1 \in Nat \ {0}
      BY <1>2
    <2> QED
      BY <1>2, <2>1, Slice, CutOf DEF TextType
  <1>5. input' \o tty' = input \o tty
    <2>1. (input \o SubSeq(tty, 1, n)) \o SubSeq(tty, n + 1, Len(tty))
              = input \o (SubSeq(tty, 1, n) \o SubSeq(tty, n + 1, Len(tty)))
      <3> DEFINE u == SubSeq(tty, 1, n)
                 v == SubSeq(tty, n + 1, Len(tty))
      <3> HIDE DEF u, v
      <3>1. u \in Seq(Chars) /\ v \in Seq(Chars)
        BY Zenon, <1>4 DEF u, v
      <3>2. (input \o u) \o v = input \o (u \o v)
        <4>1. Same((input \o u) \o v, input \o (u \o v))
          BY Zenon, <1>2, <3>1, Joined
        <4> QED
          BY Zenon, <4>1 DEF Same
      <3> QED
        BY Zenon, <3>2 DEF u, v
    <2> QED
      BY Zenon, <1>1, <1>3, <2>1
  <1> QED
    BY <1>5, HeardStays DEF Read

(* An event taken, when what comes is what is owed.                        *)
LEMMA TakenHeard ==
    ASSUME Heard, NEW event, Compare(event),
           hearing = "whole" =>
               /\ owed # <<>> /\ event = owed[1]
               /\ Sends(input' \o tty', Tail(owed), pasting')
    PROVE  Heard'
  <1>1. /\ owed' = IF owed = <<>> THEN owed ELSE Tail(owed)
        /\ hearing' = IF hearing = "whole" /\ (owed = <<>> \/ Head(owed) # event)
                      THEN "wrong" ELSE hearing
    BY DEF Compare
  <1>2. owed \in Seq(Meaning) /\ hearing # "wrong"
    BY DEF Heard
  <1>3. owed # <<>> => Tail(owed) \in Seq(Meaning) /\ Head(owed) = owed[1]
    BY Zenon, <1>2, TailIs
  <1>4. hearing' = hearing
    BY <1>1, <1>3
  <1>5. owed' \in Seq(Meaning)
    BY <1>1, <1>2, <1>3
  <1>6. hearing = "whole" => owed' = Tail(owed)
    BY <1>1
  <1> QED
    BY Zenon, <1>2, <1>4, <1>5, <1>6 DEF Heard

LEMMA HearHeard ==
    ASSUME IInv, Heard, Hear
    PROVE  Heard'
  <1> DEFINE d == Decode(input, pasting)
             b == input \o tty
  <1>1. /\ input # <<>> /\ d.event.type # "AGAIN"
        /\ input' = SubSeq(input, d.consumed + 1, Len(input))
        /\ pasting' = d.pasting /\ tty' = tty /\ Compare(d.event)
    BY DEF Hear, Starved
  <1> HIDE DEF d
  <1>2. input \in TextType /\ tty \in TextType /\ owed \in Seq(Meaning)
    BY DEF IInv, Buffers, Heard
  <1>3. b \in TextType /\ Starts(input, b)
    BY Zenon, <1>2, ReadIsStart
  <1>4. Len(input) \in Nat /\ Len(input) >= 1 /\ Len(b) \in Nat /\ Len(input) <= Len(b)
    BY <1>1, <1>2, <1>3, TextIsBytes, EmptySeq DEF Starts
  <1> HIDE DEF b
  <1>5. ASSUME hearing = "whole"
        PROVE  /\ owed # <<>> /\ d.event = owed[1]
               /\ Sends(input' \o tty', Tail(owed), pasting')
    <2>1. Sends(b, owed, pasting)
      BY Zenon, <1>5 DEF Heard, b
    <2>2. owed # <<>>
      <3>1. SUFFICES ASSUME owed = <<>> PROVE FALSE
        OBVIOUS
      <3>2. Len(b) = 0
        BY Zenon, <2>1, <3>1, SendsNothing
      <3> QED
        BY <1>4, <3>2
    <2>3. pasting \in BOOLEAN /\ \E w : First(b, owed, pasting, w)
      BY Zenon, <1>2, <1>3, <2>1, <2>2, SendsRest
    <2>4. PICK w : First(b, owed, pasting, w)
      BY Zenon, <2>3
    <2> DEFINE s == SubSeq(b, 1, w)
    <2>5. /\ w \in 1..Len(b) /\ Encodes(s, owed[1], pasting)
          /\ pasting /\ owed[1] = Text("esc") => 6 <= Len(b) /\ SubSeq(b, 1, 6) # PasteEnd
          /\ owed[1] = Event("ESCAPE") => Len(owed) = 1
          /\ Sends(SubSeq(b, w + 1, Len(b)), Tail(owed), PastesAfter(pasting, owed[1]))
      BY Zenon, <2>4 DEF First
    <2>6. s \in TextType /\ Len(s) = w /\ \A i \in 1..w : s[i] = b[i]
      BY <1>3, <2>5, FirstBytes
    <2> HIDE DEF s
    <2>7. pasting /\ owed[1] = Text("esc") => ~IsPrefix(PasteEnd, input)
      <3>1. SUFFICES ASSUME pasting, owed[1] = Text("esc"), IsPrefix(PasteEnd, input)
                     PROVE  FALSE
        OBVIOUS
      <3>2. 6 <= Len(b) /\ SubSeq(b, 1, 6) # PasteEnd
        BY Zenon, <2>5, <3>1
      <3>3. /\ Len(PasteEnd) <= Len(input)
            /\ \A i \in 1..Len(PasteEnd) : PasteEnd[i] = input[i]
        <4>1. PasteEnd \in Seq(AnyByte) /\ input \in Seq(AnyByte)
          BY Zenon, <1>2, PasteEndIs, TextIsBytes
        <4> QED
          BY ZenonT(40), <3>1, <4>1, PrefixIs
      <3>4. \A i \in 1..6 : PasteEnd[i] = b[i]
        <4>1. 6 <= Len(input)
          BY Zenon, <3>3, PasteEndIs
        <4>2. \A i \in 1..6 : i \in 1..Len(input)
          BY <1>4, <4>1
        <4> QED
          BY Zenon, <1>3, <3>3, <4>2, PasteEndIs DEF Starts
      <3> DEFINE c == SubSeq(b, 1, 6)
      <3>5. c \in TextType /\ Len(c) = 6 /\ \A i \in 1..6 : c[i] = b[i]
        <4>1. 6 \in 1..Len(b)
          BY <1>4, <3>2
        <4> QED
          BY <1>3, <4>1, FirstBytes
      <3>6. c \in Seq(AnyByte)
        BY Zenon, <3>5, TextIsBytes
      <3> HIDE DEF c
      <3>7. c = PasteEnd
        <4>1. /\ PasteEnd \in Seq(AnyByte) /\ Len(c) = Len(PasteEnd)
              /\ \A i \in 1..Len(c) : c[i] = PasteEnd[i]
          BY Zenon, <3>4, <3>5, PasteEndIs
        <4> QED
          BY <3>6, <4>1, SeqEqual
      <3> QED
        BY Zenon, <3>2, <3>7 DEF c
    <2>8. owed[1] = Event("ESCAPE") => Len(s) = Len(b)
      <3>1. SUFFICES ASSUME owed[1] = Event("ESCAPE") PROVE w = Len(b)
        BY Zenon, <2>6
      <3>2. Tail(owed) = <<>>
        <4>1. Len(owed) = 1
          BY Zenon, <2>5, <3>1
        <4>2. Tail(owed) \in Seq(Meaning) /\ Len(Tail(owed)) = 0
          BY <1>2, <2>2, <4>1, TailIs
        <4> QED
          BY <4>2, EmptySeq
      <3>3. Len(SubSeq(b, w + 1, Len(b))) = 0
        BY Zenon, <2>5, <3>2, SendsNothing
      <3>4. Len(SubSeq(b, w + 1, Len(b)))
                = IF w + 1 <= Len(b) THEN Len(b) - (w + 1) + 1 ELSE 0
        <4>1. w + 1 \in Nat \ {0} /\ Len(b) \in 0..Len(b)
          BY <1>4, <2>5
        <4> QED
          BY <1>3, <4>1, Slice DEF TextType
      <3> DEFINE size == Len(b)
      <3>5. (IF w + 1 <= size THEN size - (w + 1) + 1 ELSE 0) = 0
        BY Zenon, <3>3, <3>4
      <3>6. w \in 1..size /\ size \in Nat
        BY <1>4, <2>5
      <3> HIDE DEF size
      <3>7. w = size
        BY <3>5, <3>6
      <3> QED
        BY <3>7 DEF size
    <2>9. Len(s) \in 1..Len(b) /\ \A i \in 1..Len(s) : s[i] = b[i]
      BY Zenon, <2>5, <2>6
    <2>10. Right(input, s, owed[1], pasting)
      BY <1>1, <1>2, <1>3, <2>3, <2>5, <2>6, <2>7, <2>8, <2>9, EventArrives DEF d
    <2>11. /\ w <= Len(input)
           /\ d.event = owed[1] /\ d.consumed = w
           /\ d.pasting = PastesAfter(pasting, owed[1])
      <3>1. d = Decoded(owed[1], w, PastesAfter(pasting, owed[1])) /\ w <= Len(input)
        BY Zenon, <2>6, <2>10 DEF Right, d
      <3> QED
        BY <3>1 DEF Decoded
    <2>12. input' \o tty' = SubSeq(b, w + 1, Len(b))
      <3>1. w \in 1..Len(input)
        BY <1>4, <2>5, <2>11
      <3>2. SubSeq(input, w + 1, Len(input)) \o tty = SubSeq(b, w + 1, Len(b))
        BY Zenon, <1>2, <3>1, RestOfBoth DEF b
      <3> QED
        BY Zenon, <1>1, <2>11, <3>2
    <2> QED
      BY Zenon, <1>1, <2>2, <2>5, <2>11, <2>12
  <1> QED
    BY Zenon, <1>1, <1>5, TakenHeard

LEMMA TimeoutHeard ==
    ASSUME IInv, Heard, Timeout
    PROVE  Heard'
  <1>1. /\ tty = <<>> /\ tty' = tty /\ input # <<>> /\ input[1] = "esc" /\ ~pasting
        /\ input' = Tail(input) /\ pasting' = pasting
    BY DEF Timeout, EscapePending
  <1>2. \/ Len(input) > 1 /\ hearing' = "torn" /\ UNCHANGED owed
        \/ ~(Len(input) > 1) /\ Compare(Event("ESCAPE"))
    BY DEF Timeout
  <1>3. input \in TextType /\ tty \in TextType /\ owed \in Seq(Meaning)
    BY DEF IInv, Buffers, Heard
  <1>4. CASE Len(input) > 1 /\ hearing' = "torn" /\ UNCHANGED owed
    BY <1>3, <1>4 DEF Heard
  <1>5. CASE ~(Len(input) > 1) /\ Compare(Event("ESCAPE"))
    <2>1. Len(input) = 1
      <3>1. Len(input) \in Nat /\ Len(input) >= 1
        BY <1>1, <1>3, TextIsBytes, EmptySeq
      <3> QED
        BY Zenon, <1>5, <3>1, OneByte
    <2>2. input \o tty = input /\ input' \o tty' = Tail(input)
      <3>1. input \in Seq(Chars) /\ Tail(input) \in Seq(Chars)
        BY <1>1, <1>3, HeadTailProperties DEF TextType
      <3> QED
        BY Zenon, <1>1, <3>1, ConcatEmptySeq
    <2>3. ASSUME hearing = "whole"
          PROVE  /\ owed # <<>> /\ Event("ESCAPE") = owed[1]
                 /\ Sends(input' \o tty', Tail(owed), pasting')
      <3>1. Sends(input, owed, pasting)
        BY Zenon, <2>2, <2>3 DEF Heard
      <3>2. owed # <<>>
        <4>1. SUFFICES ASSUME owed = <<>> PROVE FALSE
          OBVIOUS
        <4>2. Len(input) = 0
          BY Zenon, <3>1, <4>1, SendsNothing
        <4> QED
          BY <2>1, <4>2
      <3>3. pasting \in BOOLEAN /\ \E w : First(input, owed, pasting, w)
        BY Zenon, <1>3, <3>1, <3>2, SendsRest
      <3>4. PICK w : First(input, owed, pasting, w)
        BY Zenon, <3>3
      <3>5. pasting = FALSE
        BY <1>1, <3>3
      <3>6. w = 1
        <4>1. w \in 1..1
          BY Zenon, <2>1, <3>4 DEF First
        <4> QED
          BY <4>1
      <3>7. SubSeq(input, 1, 1) = input
        BY <1>3, <2>1, SubSeqFull DEF TextType
      <3>8. /\ Encodes(input, owed[1], FALSE)
            /\ Sends(SubSeq(input, 1 + 1, Len(input)), Tail(owed), PastesAfter(FALSE, owed[1]))
        BY Zenon, <3>4, <3>5, <3>6, <3>7 DEF First
      <3>9. owed[1] = Event("ESCAPE")
        BY Zenon, <1>1, <2>1, <3>8, LoneEscape
      <3>10. PastesAfter(FALSE, Event("ESCAPE")) = FALSE
        BY DEF PastesAfter, Event
      <3>11. Tail(input) = SubSeq(input, 1 + 1, Len(input))
        <4>1. Tail(input) = SubSeq(input, 2, Len(input)) /\ 1 + 1 = 2
          BY <1>1, <1>3, TailIsSubSeq DEF TextType
        <4> QED
          BY Zenon, <4>1
      <3> QED
        BY Zenon, <1>1, <2>2, <3>2, <3>5, <3>8, <3>9, <3>10, <3>11
    <2> QED
      BY Zenon, <1>5, <2>3, TakenHeard
  <1> QED
    BY <1>2, <1>4, <1>5

LEMMA NextHeard ==
    ASSUME IInv, Heard, [Next]_vars
    PROVE  Heard'
  <1>1. CASE Starve
    BY <1>1, HeardStays DEF Starve
  <1>2. CASE AskPermission
    BY <1>2, HeardStays DEF AskPermission
  <1>3. CASE TurnEnds
    BY <1>3, HeardStays DEF TurnEnds
  <1>4. CASE UNCHANGED vars
    BY <1>4, HeardStays DEF vars
  <1> QED
    BY <1>1, <1>2, <1>3, <1>4, PressHeard, ReadHeard, HearHeard, TimeoutHeard DEF Next

(* The events taken are those the pressed keys mean, in order, none lost   *)
(* and none twice, wherever the reads cut the bytes and whichever reader   *)
(* takes them: for any keys whose bytes mean what the tables of the        *)
(* decoder say (cli_input.c, cli_composer.c).                              *)
THEOREM KeysArrive == Spec => []KeysArriveWhole
  <1>1. IInv /\ Heard /\ [Next]_vars => IInv' /\ Heard'
    BY NextIInv, NextHeard
  <1>2. Init => IInv /\ Heard
    BY InitIInv, InitHeard
  <1>3. IInv /\ Heard => KeysArriveWhole
    <2> SUFFICES ASSUME IInv, Heard PROVE KeysArriveWhole
      OBVIOUS
    <2>1. ASSUME hearing = "whole", tty = <<>>, input = <<>>, owed # <<>> PROVE FALSE
      <3>1. /\ <<>> \o <<>> = <<>> /\ <<>> \in Seq(Chars) /\ Len(<<>>) = 0 /\ 1..0 = {}
        OBVIOUS
      <3>2. Sends(<<>>, owed, pasting) /\ owed \in Seq(Meaning) /\ <<>> \in TextType
        BY Zenon, <2>1, <3>1 DEF Heard, TextType
      <3>3. \E w : First(<<>>, owed, pasting, w)
        BY Zenon, <2>1, <3>2, SendsRest
      <3>4. \E w : w \in 1..0
        BY Zenon, <3>1, <3>3 DEF First
      <3> QED
        BY <3>1, <3>4
    <2> QED
      BY <2>1 DEF KeysArriveWhole, Heard
  <1> QED
    BY <1>1, <1>2, <1>3, PTL DEF Spec
=============================================================================
