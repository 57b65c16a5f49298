--------------------------- MODULE SessLogProofs ---------------------------
(***************************************************************************)
(* What reading the bytes of a session log yields, for files and records   *)
(* of any length: whatever is written at the end, cut off there, or        *)
(* truncated, the records before it stay what they were.  From this, that  *)
(* the file keeps the promise of sesslog.h.                                *)
(***************************************************************************)
EXTENDS SessLog, SequenceTheorems, WellFoundedInduction, TLAPS

-----------------------------------------------------------------------------
(* The bytes of a length prefix.                                           *)
LEMMA DivMod ==
    ASSUME NEW n \in Nat, NEW d \in Nat \ {0}
    PROVE  /\ n % d \in 0 .. d - 1 /\ n \div d \in Nat
           /\ n = (n % d) + d * (n \div d)
  OBVIOUS

LEMMA EncodeDecodes ==
    ASSUME NEW n \in 0..MaxRecord
    PROVE  /\ Encode(n)[1] \in Byte /\ Encode(n)[2] \in Byte
           /\ Encode(n)[1] + Radix * Encode(n)[2] = n
  <1>1. /\ n \in Nat /\ Radix \in Nat \ {0} /\ n < Radix * Radix
    BY SessLogAssumption
  <1>2. /\ n % Radix \in 0 .. Radix - 1 /\ n \div Radix \in Nat
        /\ n = (n % Radix) + Radix * (n \div Radix)
    BY <1>1, DivMod
  <1> DEFINE q == n \div Radix
             m == n % Radix
  <1>3. Encode(n)[1] = m /\ Encode(n)[2] = q
    BY DEF Encode
  <1>4. m \in 0..Radix-1 /\ q \in Nat /\ n = m + Radix * q
    BY <1>2
  <1> HIDE DEF m, q
  <1>5. q < Radix
    <2> SUFFICES ASSUME q >= Radix PROVE FALSE
      BY <1>1, <1>4
    <2>1. Radix * q >= Radix * Radix
      BY <1>1, <1>4
    <2> QED
      BY <1>1, <1>4, <2>1
  <1> QED
    BY <1>1, <1>3, <1>4, <1>5 DEF Byte

-----------------------------------------------------------------------------
(* Every set of numbers has a smallest one: what the inductions over a     *)
(* file below rest on.                                                     *)
LEMMA SmallestOf ==
    ASSUME NEW T, T \subseteq Nat, T # {}
    PROVE  \E m \in T : \A k \in T : m <= k
  <1> DEFINE R == OpToRel(<, Nat)
  <1>1. IsWellFoundedOn(R, Nat)
    BY NatLessThanWellFounded
  <1>2. \A x, y \in Nat : x < y => <<x, y>> \in R
    BY DEF OpToRel
  <1> HIDE DEF R
  <1>3. PICK m \in T : \A y \in T : <<y, m>> \notin R
    BY <1>1, WFMin
  <1>4. ASSUME NEW k \in T PROVE m <= k
    <2>1. ~(k < m)
      BY <1>2, <1>3
    <2> QED
      BY <2>1
  <1> QED
    BY <1>4

(* Downwards: what holds at an offset as soon as it holds at all later     *)
(* ones up to end holds at every offset.                                   *)
LEMMA Downwards ==
    ASSUME NEW end \in Nat, NEW T,
           \A pos \in 0..end :
               (\A later \in pos + 1 .. end : later \in T) => pos \in T
    PROVE  \A pos \in 0..end : pos \in T
  <1> DEFINE Gaps == {n \in 0..end : end - n \notin T}
  <1> SUFFICES ASSUME Gaps # {} PROVE FALSE
    <2>1. ASSUME NEW pos \in 0..end, Gaps = {} PROVE pos \in T
      <3>1. end - pos \in 0..end /\ end - (end - pos) = pos
        OBVIOUS
      <3> QED
        BY <2>1, <3>1
    <2> QED
      BY <2>1
  <1>1. \E m \in Gaps : \A k \in Gaps : m <= k
    <2>1. Gaps \subseteq Nat
      OBVIOUS
    <2> HIDE DEF Gaps
    <2> QED
      BY <2>1, SmallestOf
  <1>4. PICK m \in Gaps : \A k \in Gaps : m <= k
    BY <1>1
  <1>2. ASSUME NEW later \in end - m + 1 .. end PROVE later \in T
    <2>1. end - later \in 0..end /\ end - later < m /\ end - (end - later) = later
      OBVIOUS
    <2>2. end - later \notin Gaps
      BY <1>4, <2>1
    <2> QED
      BY <2>1, <2>2
  <1>3. end - m \in 0..end /\ end - m \notin T
    OBVIOUS
  <1> QED
    BY <1>2, <1>3

-----------------------------------------------------------------------------
(* Frames.                                                                 *)
LEMMA Slice ==
    ASSUME NEW S, NEW f \in Seq(S), NEW m \in 1 .. Len(f) + 1,
           NEW n \in m - 1 .. Len(f)
    PROVE  /\ SubSeq(f, m, n) \in Seq(S)
           /\ Len(SubSeq(f, m, n)) = n - m + 1
           /\ \A i \in 1 .. n - m + 1 : SubSeq(f, m, n)[i] = f[m + i - 1]
  <1>1. m \in Int /\ n \in Int /\ \A i \in m..n : f[i] \in S
    BY ElementOfSeq
  <1> QED
    BY <1>1, SubSeqProperties

LEMMA PayloadIsShort ==
    ASSUME NEW r
    PROVE  r \in Payload <=> r \in Seq(Byte) /\ Len(r) \in 0..MaxRecord
  <1>1. ASSUME r \in Payload PROVE r \in Seq(Byte) /\ Len(r) \in 0..MaxRecord
    <2>1. PICK n \in 0..MaxRecord : r \in [1..n -> Byte]
      BY <1>1 DEF Payload
    <2> QED
      BY <2>1, SessLogAssumption
  <1>2. ASSUME r \in Seq(Byte), Len(r) \in 0..MaxRecord PROVE r \in Payload
    <2>1. r \in [1..Len(r) -> Byte]
      BY <1>2, LenProperties
    <2> QED
      BY <1>2, <2>1 DEF Payload
  <1> QED
    BY <1>1, <1>2

LEMMA FrameFits ==
    ASSUME NEW f \in Seq(Byte), NEW pos \in 0..Len(f), FrameAt(f, pos)
    PROVE  /\ Decode(f, pos) \in 0..MaxRecord
           /\ NextFrame(f, pos) \in pos + 2 .. Len(f)
           /\ SubSeq(f, pos + 3, NextFrame(f, pos)) \in Payload
  <1>1. /\ Len(f) \in Nat /\ Len(f) - pos >= 2 /\ pos \in Nat
        /\ Decode(f, pos) <= MaxRecord /\ Decode(f, pos) <= Len(f) - pos - 2
    BY DEF FrameAt
  <1>2. f[pos + 1] \in Nat /\ f[pos + 2] \in Nat /\ Radix \in Nat
    <2>1. pos + 1 \in 1..Len(f) /\ pos + 2 \in 1..Len(f)
      BY <1>1
    <2>2. Radix \in Nat /\ \A b \in Byte : b \in Nat
      BY SessLogAssumption DEF Byte
    <2>3. f[pos + 1] \in Byte /\ f[pos + 2] \in Byte
      BY <2>1, ElementOfSeq
    <2> QED
      BY <2>2, <2>3
  <1>3. Decode(f, pos) \in Nat
    BY <1>2 DEF Decode
  <1>4. NextFrame(f, pos) \in pos + 2 .. Len(f) /\ MaxRecord \in Nat
    BY <1>1, <1>3, SessLogAssumption DEF NextFrame
  <1> DEFINE r == SubSeq(f, pos + 3, NextFrame(f, pos))
  <1>5. r \in Seq(Byte) /\ Len(r) = Decode(f, pos)
    <2>1. /\ pos + 3 \in 1 .. Len(f) + 1
          /\ NextFrame(f, pos) \in pos + 3 - 1 .. Len(f)
          /\ NextFrame(f, pos) = pos + 2 + Decode(f, pos)
      BY <1>1, <1>4 DEF NextFrame
    <2> QED
      BY <1>1, <1>3, <2>1, Slice
  <1>6. Decode(f, pos) \in 0..MaxRecord
    BY <1>1, <1>3, <1>4
  <1>7. r \in Payload
    <2> HIDE DEF r
    <2> QED
      BY <1>5, <1>6, PayloadIsShort
  <1> QED
    BY <1>4, <1>6, <1>7

-----------------------------------------------------------------------------
(* A function that is defined from later offsets exists.                   *)
Solves(g, from, end, D, next, base, step) ==
    \A p \in from..end :
        g[p] = IF p \in D THEN step[<<p, g[next[p]]>>] ELSE base[p]

LEMMA Recursion ==
    ASSUME NEW end \in Nat, NEW V, NEW D, NEW next, NEW base, NEW step,
           \A p \in 0..end : p \in D => next[p] \in p + 1 .. end,
           \A p \in 0..end : base[p] \in V,
           \A p \in 0..end : \A v \in V : p \in D => step[<<p, v>>] \in V
    PROVE  \E g \in [0..end -> V] : Solves(g, 0, end, D, next, base, step)
  <1> DEFINE T == {pos \in 0..end : \E g \in [pos..end -> V] :
                      Solves(g, pos, end, D, next, base, step)}
  <1>1. ASSUME NEW pos \in 0..end, \A later \in pos + 1 .. end : later \in T
        PROVE  pos \in T
    <2>1. CASE pos = end
      <3> DEFINE g == [p \in end..end |-> base[p]]
      <3>1. g \in [pos..end -> V] /\ pos \notin D /\ g[pos] = base[pos]
        BY <2>1
      <3>2. Solves(g, pos, end, D, next, base, step)
        BY <2>1, <3>1 DEF Solves
      <3> QED
        BY <3>1, <3>2
    <2>2. CASE pos < end
      <3>1. pos + 1 \in T
        <4> HIDE DEF T
        <4>1. pos + 1 \in pos + 1 .. end
          BY <2>2
        <4> QED
          BY <1>1, <4>1
      <3>2. PICK g \in [pos + 1 .. end -> V] :
               Solves(g, pos + 1, end, D, next, base, step)
        BY <3>1
      <3> DEFINE x == IF pos \in D THEN step[<<pos, g[next[pos]]>>] ELSE base[pos]
                 h == [p \in pos..end |-> IF p = pos THEN x ELSE g[p]]
      <3>3. x \in V
        <4>1. pos \in D => next[pos] \in pos + 1 .. end
          OBVIOUS
        <4>2. pos \in D => g[next[pos]] \in V
          BY <4>1, <3>2
        <4> QED
          BY <4>2
      <3>4. /\ h \in [pos..end -> V] /\ h[pos] = x
            /\ \A p \in pos + 1 .. end : h[p] = g[p]
        <4> HIDE DEF x
        <4> QED
          BY <3>3, <3>2
      <3>5. \A p \in pos..end : p \in D => h[next[p]] = g[next[p]]
        <4>1. \A p \in pos..end : p \in D => next[p] \in pos + 1 .. end
          <5> TAKE p \in pos..end
          <5>1. p \in 0..end /\ p >= pos
            OBVIOUS
          <5> QED
            BY <5>1
        <4> HIDE DEF h
        <4> QED
          BY <4>1, <3>4
      <3>6. ASSUME NEW p \in pos..end
            PROVE  h[p] = IF p \in D THEN step[<<p, h[next[p]]>>] ELSE base[p]
        <4> HIDE DEF h
        <4>1. CASE p = pos
          BY <4>1, <3>4, <3>5
        <4>2. CASE p # pos
          <5>1. p \in pos + 1 .. end
            BY <4>2
          <5>2. g[p] = IF p \in D THEN step[<<p, g[next[p]]>>] ELSE base[p]
            BY <5>1, <3>2 DEF Solves
          <5> QED
            BY <5>1, <5>2, <3>4, <3>5
        <4> QED
          BY <4>1, <4>2
      <3> HIDE DEF h
      <3>7. Solves(h, pos, end, D, next, base, step)
        BY <3>6 DEF Solves
      <3> QED
        BY <3>4, <3>7
    <2> QED
      BY <2>1, <2>2
  <1> HIDE DEF T
  <1>2. \A pos \in 0..end : pos \in T
    BY <1>1, Downwards
  <1>3. 0 \in T
    BY <1>2
  <1> USE DEF T
  <1> QED
    BY <1>3

-----------------------------------------------------------------------------
(* The two readings of a file from an offset on.                           *)
IsScan(f, g) ==
    g = [pos \in 0..Len(f) |->
            IF FrameAt(f, pos) THEN g[NextFrame(f, pos)] ELSE pos]
Scan(f) == CHOOSE g : IsScan(f, g)

IsFrom(f, g) ==
    g = [pos \in 0..Len(f) |->
            IF FrameAt(f, pos)
            THEN <<SubSeq(f, pos + 3, NextFrame(f, pos))>> \o g[NextFrame(f, pos)]
            ELSE <<>>]
From(f) == CHOOSE g : IsFrom(f, g)

LEMMA ReadingsAre ==
    ASSUME NEW f
    PROVE  /\ ValidEnd(f) = Scan(f)[Len(Header)]
           /\ Records(f) = IF Len(f) < Len(Header) THEN <<>> ELSE From(f)[Len(Header)]
  <1>1. ValidEnd(f) = Scan(f)[Len(Header)]
    BY Zenon DEF ValidEnd, Scan, IsScan
  <1>2. Records(f) = IF Len(f) < Len(Header) THEN <<>> ELSE From(f)[Len(Header)]
    BY Zenon DEF Records, From, IsFrom
  <1> QED
    BY <1>1, <1>2

LEMMA ScanExists ==
    ASSUME NEW f \in Seq(Byte)
    PROVE  IsScan(f, Scan(f))
  <1> DEFINE end == Len(f)
             V == 0..end
             D == {p \in 0..end : FrameAt(f, p)}
             next == [p \in 0..end |-> NextFrame(f, p)]
             base == [p \in 0..end |-> p]
             step == [x \in (0..end) \X V |-> x[2]]
  <1>1. /\ end \in Nat
        /\ \A p \in 0..end : p \in D => next[p] \in p + 1 .. end
    BY FrameFits
  <1>2. /\ \A p \in 0..end : base[p] \in V
        /\ \A p \in 0..end : \A v \in V : step[<<p, v>>] = v
        /\ \A p \in 0..end : \A v \in V : p \in D => step[<<p, v>>] \in V
    OBVIOUS
  <1>3. \E g \in [0..end -> V] : Solves(g, 0, end, D, next, base, step)
    <2> HIDE DEF V, D, next, base, step, end
    <2> QED
      BY <1>1, <1>2, Recursion
  <1>4. PICK g \in [0..end -> V] : \A p \in 0..end :
              g[p] = IF p \in D THEN step[<<p, g[next[p]]>>] ELSE base[p]
    BY <1>3 DEF Solves
  <1>5. ASSUME NEW p \in 0..end
        PROVE  g[p] = IF FrameAt(f, p) THEN g[NextFrame(f, p)] ELSE p
    <2>1. CASE FrameAt(f, p)
      <3>1. p \in D /\ next[p] = NextFrame(f, p) /\ g[next[p]] \in V
        BY <2>1, <1>1, <1>4
      <3>2. step[<<p, g[next[p]]>>] = g[next[p]]
        BY <3>1, <1>2
      <3> QED
        BY <2>1, <3>1, <3>2, <1>4
    <2>2. CASE ~FrameAt(f, p)
      BY <2>2, <1>4
    <2> QED
      BY <2>1, <2>2
  <1>6. g = [p \in 0..Len(f) |-> IF FrameAt(f, p) THEN g[NextFrame(f, p)] ELSE p]
    BY <1>4, <1>5
  <1> QED
    BY <1>6, Zenon DEF IsScan, Scan

(* Where the scan from an offset ends, and that it goes frame by frame.    *)
LEMMA ScanFacts ==
    ASSUME NEW f \in Seq(Byte), NEW pos \in 0..Len(f)
    PROVE  /\ Scan(f)[pos] \in pos..Len(f)
           /\ Scan(f)[pos] = IF FrameAt(f, pos) THEN Scan(f)[NextFrame(f, pos)] ELSE pos
           /\ ~FrameAt(f, Scan(f)[pos])
  <1> DEFINE g == Scan(f)
             T == {p \in 0..Len(f) : g[p] \in p..Len(f) /\ ~FrameAt(f, g[p])}
  <1>1. ASSUME NEW p \in 0..Len(f)
        PROVE  g[p] = IF FrameAt(f, p) THEN g[NextFrame(f, p)] ELSE p
    <2>1. g = [q \in 0..Len(f) |-> IF FrameAt(f, q) THEN g[NextFrame(f, q)] ELSE q]
      BY ScanExists DEF IsScan
    <2> HIDE DEF g
    <2> QED
      BY <2>1
  <1> HIDE DEF g
  <1>2. ASSUME NEW p \in 0..Len(f), \A later \in p + 1 .. Len(f) : later \in T
        PROVE  p \in T
    <2>1. CASE FrameAt(f, p)
      <3>1. NextFrame(f, p) \in p + 1 .. Len(f)
        BY <2>1, FrameFits
      <3>2. NextFrame(f, p) \in T /\ g[p] = g[NextFrame(f, p)]
        BY <1>1, <1>2, <2>1, <3>1
      <3> QED
        BY <3>1, <3>2
    <2>2. CASE ~FrameAt(f, p)
      BY <1>1, <2>2
    <2> QED
      BY <2>1, <2>2
  <1>3. pos \in T
    <2>1. Len(f) \in Nat
      OBVIOUS
    <2> HIDE DEF T
    <2> QED
      BY <1>2, <2>1, Downwards
  <1> QED
    BY <1>1, <1>3 DEF g

LEMMA FromExists ==
    ASSUME NEW f \in Seq(Byte)
    PROVE  IsFrom(f, From(f))
  <1> DEFINE end == Len(f)
             V == Seq(Payload)
             piece(p) == SubSeq(f, p + 3, NextFrame(f, p))
             D == {p \in 0..end : FrameAt(f, p)}
             next == [p \in 0..end |-> NextFrame(f, p)]
             base == [p \in 0..end |-> <<>>]
             step == [x \in (0..end) \X V |-> <<piece(x[1])>> \o x[2]]
  <1>1. /\ end \in Nat
        /\ \A p \in 0..end : p \in D => next[p] \in p + 1 .. end
        /\ \A p \in 0..end : p \in D => piece(p) \in Payload
    BY FrameFits
  <1>2. /\ \A p \in 0..end : base[p] \in V
        /\ \A p \in 0..end : \A v \in V : step[<<p, v>>] = <<piece(p)>> \o v
    <2> HIDE DEF piece
    <2> QED
      OBVIOUS
  <1>3. \A p \in 0..end : \A v \in V : p \in D => step[<<p, v>>] \in V
    <2> HIDE DEF piece, step, D, end
    <2>1. ASSUME NEW p \in 0..end, NEW v \in V, p \in D
          PROVE  step[<<p, v>>] \in V
      <3>1. piece(p) \in Payload
        BY <1>1, <2>1
      <3>2. <<piece(p)>> \in V
        BY <3>1
      <3>3. <<piece(p)>> \o v \in V
        BY <3>2, ConcatProperties
      <3> QED
        BY <1>2, <3>3
    <2> QED
      BY <2>1
  <1>4. \E g \in [0..end -> V] : Solves(g, 0, end, D, next, base, step)
    <2> HIDE DEF V, D, next, base, step, end
    <2> QED
      BY <1>1, <1>2, <1>3, Recursion
  <1>5. PICK g \in [0..end -> V] : \A p \in 0..end :
              g[p] = IF p \in D THEN step[<<p, g[next[p]]>>] ELSE base[p]
    BY <1>4 DEF Solves
  <1>6. ASSUME NEW p \in 0..end
        PROVE  g[p] = IF FrameAt(f, p) THEN <<piece(p)>> \o g[NextFrame(f, p)] ELSE <<>>
    <2>1. CASE FrameAt(f, p)
      <3>1. p \in D /\ next[p] = NextFrame(f, p) /\ next[p] \in 0..end
        BY <2>1, <1>1
      <3>2. g[next[p]] \in V
        BY <1>5, <3>1
      <3> HIDE DEF piece, step, D, V, next
      <3>3. step[<<p, g[next[p]]>>] = <<piece(p)>> \o g[next[p]]
        BY <3>2, <1>2
      <3> QED
        BY <2>1, <3>1, <3>3, <1>5
    <2>2. CASE ~FrameAt(f, p)
      BY <2>2, <1>5
    <2> QED
      BY <2>1, <2>2
  <1>7. g = [p \in 0..Len(f) |->
                IF FrameAt(f, p) THEN <<piece(p)>> \o g[NextFrame(f, p)] ELSE <<>>]
    <2> HIDE DEF piece
    <2> QED
      BY <1>5, <1>6
  <1>8. IsFrom(f, g)
    BY <1>7, Zenon DEF IsFrom
  <1> QED
    BY <1>8, Zenon DEF From

(* What is read from an offset on are records, one for each frame.         *)
Piece(f, pos) == SubSeq(f, pos + 3, NextFrame(f, pos))

LEMMA FromFacts ==
    ASSUME NEW f \in Seq(Byte), NEW pos \in 0..Len(f)
    PROVE  /\ From(f)[pos] \in Seq(Payload)
           /\ FrameAt(f, pos) => From(f)[pos] = <<Piece(f, pos)>> \o From(f)[NextFrame(f, pos)]
           /\ ~FrameAt(f, pos) => From(f)[pos] = <<>>
  <1> DEFINE g == From(f)
             T == {p \in 0..Len(f) : g[p] \in Seq(Payload)}
  <1>1. ASSUME NEW p \in 0..Len(f)
        PROVE  /\ FrameAt(f, p) => g[p] = <<Piece(f, p)>> \o g[NextFrame(f, p)]
               /\ ~FrameAt(f, p) => g[p] = <<>>
    <2>1. g = [q \in 0..Len(f) |->
                 IF FrameAt(f, q) THEN <<Piece(f, q)>> \o g[NextFrame(f, q)] ELSE <<>>]
      BY FromExists DEF IsFrom, Piece
    <2> HIDE DEF g
    <2> QED
      BY <2>1
  <1> HIDE DEF g
  <1>2. ASSUME NEW p \in 0..Len(f), \A later \in p + 1 .. Len(f) : later \in T
        PROVE  p \in T
    <2>1. CASE FrameAt(f, p)
      <3>1. NextFrame(f, p) \in p + 1 .. Len(f) /\ Piece(f, p) \in Payload
        BY <2>1, FrameFits DEF Piece
      <3>2. g[NextFrame(f, p)] \in Seq(Payload)
        BY <1>2, <3>1
      <3>3. <<Piece(f, p)>> \in Seq(Payload)
        BY <3>1
      <3>4. <<Piece(f, p)>> \o g[NextFrame(f, p)] \in Seq(Payload)
        BY <3>2, <3>3, ConcatProperties, Zenon
      <3> QED
        BY <1>1, <2>1, <3>4
    <2>2. CASE ~FrameAt(f, p)
      BY <1>1, <2>2, EmptySeq
    <2> QED
      BY <2>1, <2>2
  <1>3. pos \in T
    <2>1. Len(f) \in Nat
      OBVIOUS
    <2> HIDE DEF T
    <2> QED
      BY <1>2, <2>1, Downwards
  <1> QED
    BY <1>1, <1>3 DEF g

-----------------------------------------------------------------------------
(* Two files of which one begins with the other.                           *)
Begins(f, g) ==
    /\ f \in Seq(Byte) /\ g \in Seq(Byte) /\ Len(f) <= Len(g)
    /\ \A i \in 1..Len(f) : f[i] = g[i]

LEMMA FramesAgree ==
    ASSUME NEW f, NEW g, Begins(f, g), NEW pos \in 0..Len(f),
           FrameAt(f, pos) \/ (FrameAt(g, pos) /\ NextFrame(g, pos) <= Len(f))
    PROVE  /\ FrameAt(f, pos) /\ FrameAt(g, pos)
           /\ NextFrame(f, pos) = NextFrame(g, pos)
           /\ Piece(f, pos) = Piece(g, pos)
  <1>1. /\ f \in Seq(Byte) /\ g \in Seq(Byte) /\ Len(f) <= Len(g)
        /\ Len(f) \in Nat /\ Len(g) \in Nat /\ pos \in 0..Len(g)
        /\ MaxRecord \in Nat
    BY SessLogAssumption DEF Begins
  <1>2. Len(f) - pos >= 2
    <2>1. CASE FrameAt(f, pos)
      BY <2>1 DEF FrameAt
    <2>2. CASE FrameAt(g, pos) /\ NextFrame(g, pos) <= Len(f)
      <3>1. NextFrame(g, pos) \in pos + 2 .. Len(g)
        BY <1>1, <2>2, FrameFits
      <3> QED
        BY <1>1, <2>2, <3>1
    <2> QED
      BY <2>1, <2>2
  <1>3. Decode(f, pos) = Decode(g, pos) /\ NextFrame(f, pos) = NextFrame(g, pos)
    <2>1. pos + 1 \in 1..Len(f) /\ pos + 2 \in 1..Len(f)
      BY <1>1, <1>2
    <2>2. f[pos + 1] = g[pos + 1] /\ f[pos + 2] = g[pos + 2]
      BY <2>1 DEF Begins
    <2> QED
      BY <2>2 DEF Decode, NextFrame
  <1>4. Decode(f, pos) \in 0..MaxRecord /\ NextFrame(f, pos) \in pos + 2 .. Len(f)
    <2>1. CASE FrameAt(f, pos)
      BY <1>1, <2>1, FrameFits
    <2>2. CASE FrameAt(g, pos) /\ NextFrame(g, pos) <= Len(f)
      <3>1. NextFrame(g, pos) \in pos + 2 .. Len(g) /\ Decode(g, pos) \in 0..MaxRecord
        BY <1>1, <2>2, FrameFits
      <3> QED
        BY <1>1, <1>3, <2>2, <3>1
    <2> QED
      BY <2>1, <2>2
  <1>5. FrameAt(f, pos) /\ FrameAt(g, pos)
    <2>1. NextFrame(f, pos) = pos + 2 + Decode(f, pos)
      BY DEF NextFrame
    <2> QED
      BY <1>1, <1>2, <1>3, <1>4, <2>1 DEF FrameAt
  <1>6. Piece(f, pos) = Piece(g, pos)
    <2> DEFINE m == pos + 3
               n == NextFrame(f, pos)
    <2>1. /\ m \in 1 .. Len(f) + 1 /\ n \in m - 1 .. Len(f)
          /\ m \in 1 .. Len(g) + 1 /\ n \in m - 1 .. Len(g)
      BY <1>1, <1>2, <1>4
    <2> HIDE DEF m, n
    <2>2. /\ SubSeq(f, m, n) \in Seq(Byte) /\ SubSeq(g, m, n) \in Seq(Byte)
          /\ Len(SubSeq(f, m, n)) = n - m + 1 /\ Len(SubSeq(g, m, n)) = n - m + 1
          /\ \A i \in 1 .. n - m + 1 : SubSeq(f, m, n)[i] = f[m + i - 1]
          /\ \A i \in 1 .. n - m + 1 : SubSeq(g, m, n)[i] = g[m + i - 1]
      BY <1>1, <2>1, Slice
    <2>3. ASSUME NEW i \in 1 .. n - m + 1
          PROVE  SubSeq(f, m, n)[i] = SubSeq(g, m, n)[i]
      <3>1. m + i - 1 \in 1..Len(f)
        BY <1>1, <2>1
      <3> QED
        BY <2>2, <3>1 DEF Begins
    <2>4. SubSeq(f, m, n) = SubSeq(g, m, n)
      BY <2>2, <2>3, SeqEqual
    <2> QED
      BY <1>3, <2>4 DEF Piece, m, n
  <1> QED
    BY <1>3, <1>5, <1>6

LEMMA Associates ==
    ASSUME NEW S, NEW a \in Seq(S), NEW b \in Seq(S), NEW c \in Seq(S)
    PROVE  a \o (b \o c) = (a \o b) \o c
  <1> DEFINE x == a \o (b \o c)
             y == (a \o b) \o c
  <1>1. a \o b \in Seq(S) /\ b \o c \in Seq(S)
    OBVIOUS
  <1>2. /\ x \in Seq(S) /\ Len(x) = Len(a) + Len(b) + Len(c)
        /\ y \in Seq(S) /\ Len(y) = Len(x)
    BY <1>1
  <1>3. \A i \in 1..Len(x) : x[i] = y[i]
    BY <1>1
  <1> HIDE DEF x, y
  <1>4. x = y
    BY <1>2, <1>3, SeqEqual
  <1> QED
    BY <1>4 DEF x, y

(* A longer file is read as the shorter one is, and then on from where     *)
(* that reading stopped.                                                   *)
LEMMA ReadsOn ==
    ASSUME NEW f, NEW g, Begins(f, g), NEW pos \in 0..Len(f)
    PROVE  /\ Scan(f)[pos] \in pos..Len(f)
           /\ Scan(g)[pos] = Scan(g)[Scan(f)[pos]]
           /\ From(g)[pos] = From(f)[pos] \o From(g)[Scan(f)[pos]]
  <1> DEFINE T == {p \in 0..Len(f) :
                      /\ Scan(g)[p] = Scan(g)[Scan(f)[p]]
                      /\ From(g)[p] = From(f)[p] \o From(g)[Scan(f)[p]]}
  <1>1. /\ f \in Seq(Byte) /\ g \in Seq(Byte) /\ Len(f) <= Len(g)
        /\ Len(f) \in Nat /\ Len(g) \in Nat /\ \A p \in 0..Len(f) : p \in 0..Len(g)
    BY DEF Begins
  <1>2. ASSUME NEW p \in 0..Len(f), \A later \in p + 1 .. Len(f) : later \in T
        PROVE  p \in T
    <2> DEFINE e == Scan(f)[p]
    <2>0. p \in 0..Len(g) /\ e \in 0..Len(f) /\ e \in 0..Len(g)
      BY <1>1, ScanFacts
    <2>1. CASE FrameAt(f, p)
      <3> DEFINE q == NextFrame(f, p)
      <3>1. /\ FrameAt(g, p) /\ NextFrame(g, p) = q /\ Piece(g, p) = Piece(f, p)
            /\ q \in p + 1 .. Len(f) /\ Piece(f, p) \in Payload
        BY <1>1, <2>1, FramesAgree, FrameFits DEF Piece
      <3>2. /\ Scan(f)[p] = Scan(f)[q] /\ Scan(g)[p] = Scan(g)[q]
        BY <1>1, <2>0, <2>1, <3>1, ScanFacts
      <3>3. /\ From(f)[p] = <<Piece(f, p)>> \o From(f)[q]
            /\ From(g)[p] = <<Piece(f, p)>> \o From(g)[q]
        BY <1>1, <2>0, <2>1, <3>1, FromFacts
      <3>4. q \in T
        BY <1>2, <3>1
      <3> HIDE DEF q
      <3>5. /\ Scan(g)[p] = Scan(g)[e]
            /\ From(g)[q] = From(f)[q] \o From(g)[e]
        BY <3>2, <3>4
      <3>6. /\ <<Piece(f, p)>> \in Seq(Payload)
            /\ From(f)[q] \in Seq(Payload) /\ From(g)[e] \in Seq(Payload)
        <4>1. q \in 0..Len(f) /\ <<Piece(f, p)>> \in Seq(Payload)
          BY <3>1
        <4> HIDE DEF e
        <4> QED
          BY <1>1, <2>0, <4>1, FromFacts
      <3>7. <<Piece(f, p)>> \o (From(f)[q] \o From(g)[e])
              = (<<Piece(f, p)>> \o From(f)[q]) \o From(g)[e]
        <4> DEFINE a == <<Piece(f, p)>>
                   b == From(f)[q]
                   c == From(g)[e]
        <4>1. a \in Seq(Payload) /\ b \in Seq(Payload) /\ c \in Seq(Payload)
          BY <3>6
        <4> HIDE DEF a, b, c
        <4>2. a \o (b \o c) = (a \o b) \o c
          BY <4>1, Associates
        <4> QED
          BY <4>2 DEF a, b, c
      <3>8. From(g)[p] = From(f)[p] \o From(g)[e]
        BY <3>3, <3>5, <3>7
      <3> QED
        BY <3>5, <3>8
    <2>2. CASE ~FrameAt(f, p)
      <3>1. e = p /\ From(f)[p] = <<>> /\ From(g)[p] \in Seq(Payload)
        BY <1>1, <2>0, <2>2, ScanFacts, FromFacts
      <3>2. From(g)[p] = <<>> \o From(g)[p]
        BY <3>1, ConcatEmptySeq
      <3> QED
        BY <3>1, <3>2
    <2> QED
      BY <2>1, <2>2
  <1>3. pos \in T
    <2> HIDE DEF T
    <2> QED
      BY <1>1, <1>2, Downwards
  <1> QED
    BY <1>1, <1>3, ScanFacts

(* A file cut off where its scan ends is read as it was.                   *)
LEMMA CutReads ==
    ASSUME NEW f, NEW g, Begins(f, g), NEW pos \in 0..Len(f),
           Scan(g)[pos] = Len(f)
    PROVE  Scan(f)[pos] = Len(f) /\ From(f)[pos] = From(g)[pos]
  <1> DEFINE T == {p \in 0..Len(f) :
                      Scan(g)[p] = Len(f) =>
                          Scan(f)[p] = Len(f) /\ From(f)[p] = From(g)[p]}
  <1>1. /\ f \in Seq(Byte) /\ g \in Seq(Byte) /\ Len(f) <= Len(g)
        /\ Len(f) \in Nat /\ Len(g) \in Nat /\ \A p \in 0..Len(f) : p \in 0..Len(g)
    BY DEF Begins
  <1>2. ASSUME NEW p \in 0..Len(f), \A later \in p + 1 .. Len(f) : later \in T
        PROVE  p \in T
    <2> SUFFICES ASSUME Scan(g)[p] = Len(f)
                 PROVE  Scan(f)[p] = Len(f) /\ From(f)[p] = From(g)[p]
      OBVIOUS
    <2>0. p \in 0..Len(g)
      BY <1>1
    <2>1. CASE FrameAt(g, p)
      <3> DEFINE q == NextFrame(g, p)
      <3>1. q \in p + 1 .. Len(g) /\ Scan(g)[q] = Len(f)
        BY <1>1, <2>0, <2>1, FrameFits, ScanFacts
      <3>2. q <= Len(f)
        <4>1. Scan(g)[q] \in q..Len(g)
          BY <1>1, <3>1, ScanFacts
        <4> HIDE DEF q
        <4> QED
          BY <1>1, <3>1, <4>1
      <3>3. FrameAt(f, p) /\ NextFrame(f, p) = q /\ Piece(f, p) = Piece(g, p)
        BY <2>1, <3>2, FramesAgree
      <3> HIDE DEF q
      <3>4. q \in T
        BY <1>1, <1>2, <3>1, <3>2
      <3>5. Scan(f)[q] = Len(f) /\ From(f)[q] = From(g)[q]
        BY <3>1, <3>4
      <3>6. Scan(f)[p] = Scan(f)[q]
        BY <1>1, <3>3, ScanFacts
      <3>7. /\ From(f)[p] = <<Piece(f, p)>> \o From(f)[q]
            /\ From(g)[p] = <<Piece(g, p)>> \o From(g)[q]
        BY <1>1, <2>0, <2>1, <3>3, FromFacts DEF q
      <3> QED
        BY <3>3, <3>5, <3>6, <3>7
    <2>2. CASE ~FrameAt(g, p)
      <3>1. p = Len(f) /\ From(g)[p] = <<>>
        BY <1>1, <2>0, <2>2, ScanFacts, FromFacts
      <3>2. ~FrameAt(f, p)
        BY <1>1, <3>1 DEF FrameAt
      <3> QED
        BY <1>1, <3>1, <3>2, ScanFacts, FromFacts
    <2> QED
      BY <2>1, <2>2
  <1>3. pos \in T
    <2> HIDE DEF T
    <2> QED
      BY <1>1, <1>2, Downwards
  <1> QED
    BY <1>3

-----------------------------------------------------------------------------
(* A log that ends with a whole record, or with its header.                *)
Clean(f) == f \in Seq(Byte) /\ Len(Header) <= Len(f) /\ ValidEnd(f) = Len(f)

LEMMA HeaderFacts ==
    /\ Len(Header) \in Nat \ {0}
    /\ \A f \in Seq(Byte) : Len(Header) <= Len(f) =>
          /\ Len(Header) \in 0..Len(f)
          /\ ValidEnd(f) = Scan(f)[Len(Header)]
          /\ Records(f) = From(f)[Len(Header)]
          /\ ValidEnd(f) \in Len(Header)..Len(f)
  <1>1. Header \in Seq(Byte) /\ Len(Header) \in Nat \ {0}
    BY SessLogAssumption, EmptySeq
  <1>2. ASSUME NEW f \in Seq(Byte), Len(Header) <= Len(f)
        PROVE  /\ Len(Header) \in 0..Len(f)
               /\ ValidEnd(f) = Scan(f)[Len(Header)]
               /\ Records(f) = From(f)[Len(Header)]
               /\ ValidEnd(f) \in Len(Header)..Len(f)
    <2>1. Len(f) \in Nat /\ Len(Header) \in 0..Len(f) /\ ~(Len(f) < Len(Header))
      BY <1>1, <1>2
    <2>2. /\ ValidEnd(f) = Scan(f)[Len(Header)]
          /\ Records(f) = From(f)[Len(Header)]
      BY <2>1, ReadingsAre
    <2> QED
      BY <2>1, <2>2, ScanFacts
  <1> QED
    BY <1>1, <1>2

LEMMA RecordsType ==
    ASSUME NEW f \in Seq(Byte)
    PROVE  Records(f) \in Seq(Payload)
  <1>1. CASE Len(f) < Len(Header)
    BY <1>1, ReadingsAre, EmptySeq
  <1>2. CASE Len(Header) <= Len(f)
    BY <1>2, HeaderFacts, FromFacts
  <1> QED
    BY <1>1, <1>2, HeaderFacts

LEMMA HeaderAlone == Clean(Header) /\ Records(Header) = <<>>
  <1>1. Header \in Seq(Byte) /\ Len(Header) <= Len(Header) /\ Len(Header) \in 0..Len(Header)
    BY SessLogAssumption
  <1>2. ~FrameAt(Header, Len(Header))
    BY <1>1 DEF FrameAt
  <1>3. /\ Scan(Header)[Len(Header)] = Len(Header)
        /\ From(Header)[Len(Header)] = <<>>
    BY <1>1, <1>2, ScanFacts, FromFacts
  <1> QED
    BY <1>1, <1>3, HeaderFacts DEF Clean

(* The bytes of a frame.                                                   *)
LEMMA FrameBytes ==
    ASSUME NEW r \in Payload
    PROVE  /\ r \in Seq(Byte) /\ Len(r) \in 0..MaxRecord
           /\ Frame(r) \in Seq(Byte) /\ Len(Frame(r)) = Len(r) + 2
           /\ Frame(r)[1] + Radix * Frame(r)[2] = Len(r)
           /\ \A i \in 1..Len(r) : Frame(r)[i + 2] = r[i]
  <1>1. r \in Seq(Byte) /\ Len(r) \in 0..MaxRecord /\ Len(r) \in Nat
    BY PayloadIsShort
  <1> DEFINE n == Len(r)
             e == Encode(n)
  <1>2. /\ e[1] \in Byte /\ e[2] \in Byte /\ e[1] + Radix * e[2] = n
    BY <1>1, EncodeDecodes
  <1>3. e = <<e[1], e[2]>> /\ Len(e) = 2
    BY DEF Encode
  <1>4. e \in Seq(Byte)
    <2> HIDE DEF e
    <2>1. <<e[1], e[2]>> \in Seq(Byte)
      BY <1>2
    <2> QED
      BY <1>3, <2>1
  <1> HIDE DEF e
  <1>5. /\ e \o r \in Seq(Byte) /\ Len(e \o r) = 2 + n
        /\ \A i \in 1 .. 2 + n : (e \o r)[i] = IF i <= 2 THEN e[i] ELSE r[i - 2]
    <2>1. /\ e \o r \in Seq(Byte) /\ Len(e \o r) = Len(e) + Len(r)
          /\ \A i \in 1 .. Len(e) + Len(r) : (e \o r)[i] =
                IF i <= Len(e) THEN e[i] ELSE r[i - Len(e)]
      BY <1>1, <1>4, ConcatProperties
    <2> QED
      BY <1>3, <2>1
  <1>6. Frame(r) = e \o r
    BY DEF Frame, e
  <1>7. Frame(r)[1] = e[1] /\ Frame(r)[2] = e[2]
    BY <1>1, <1>5, <1>6
  <1>8. ASSUME NEW i \in 1..n PROVE Frame(r)[i + 2] = r[i]
    <2>1. i + 2 \in 1 .. 2 + n /\ ~(i + 2 <= 2) /\ (i + 2) - 2 = i
      BY <1>1
    <2> QED
      BY <1>5, <1>6, <2>1
  <1> QED
    BY <1>1, <1>2, <1>5, <1>6, <1>7, <1>8

LEMMA ConcatBegins ==
    ASSUME NEW f \in Seq(Byte), NEW s \in Seq(Byte)
    PROVE  /\ Begins(f, f \o s)
           /\ Len(f \o s) = Len(f) + Len(s)
           /\ \A i \in 1..Len(s) : (f \o s)[Len(f) + i] = s[i]
  <1>1. /\ f \o s \in Seq(Byte) /\ Len(f \o s) = Len(f) + Len(s)
        /\ \A i \in 1 .. Len(f) + Len(s) : (f \o s)[i] =
              IF i <= Len(f) THEN f[i] ELSE s[i - Len(f)]
        /\ Len(f) \in Nat /\ Len(s) \in Nat
    BY ConcatProperties
  <1> DEFINE g == f \o s
  <1> HIDE DEF g
  <1>2. ASSUME NEW i \in 1..Len(s) PROVE g[Len(f) + i] = s[i]
    <2>1. /\ Len(f) + i \in 1 .. Len(f) + Len(s) /\ ~(Len(f) + i <= Len(f))
          /\ (Len(f) + i) - Len(f) = i
      BY <1>1
    <2> QED
      BY <1>1, <2>1 DEF g
  <1>3. ASSUME NEW i \in 1..Len(f) PROVE g[i] = f[i]
    <2>1. i \in 1 .. Len(f) + Len(s) /\ i <= Len(f)
      BY <1>1
    <2> QED
      BY <1>1, <2>1 DEF g
  <1> QED
    BY <1>1, <1>2, <1>3 DEF Begins, g

(* A record written behind a clean log is read behind its records.         *)
LEMMA WholeFrameAppends ==
    ASSUME NEW f, Clean(f), NEW r \in Payload
    PROVE  /\ Clean(f \o Frame(r))
           /\ Records(f \o Frame(r)) = Append(Records(f), r)
  <1> DEFINE s == Frame(r)
             g == f \o s
             n == Len(f)
             H == Len(Header)
  <1>1. f \in Seq(Byte) /\ n \in Nat /\ H \in Nat /\ H <= n /\ H \in 0..n
        /\ Scan(f)[H] = n /\ Records(f) = From(f)[H]
    BY HeaderFacts DEF Clean
  <1>2. /\ r \in Seq(Byte) /\ Len(r) \in 0..MaxRecord /\ Len(r) \in Nat
        /\ s \in Seq(Byte) /\ Len(s) = Len(r) + 2
        /\ s[1] + Radix * s[2] = Len(r)
        /\ \A i \in 1..Len(r) : s[i + 2] = r[i]
    BY FrameBytes
  <1> HIDE DEF s
  <1>3. /\ Begins(f, g) /\ g \in Seq(Byte) /\ Len(g) = n + Len(r) + 2 /\ Len(g) \in Nat
        /\ \A i \in 1..Len(s) : g[n + i] = s[i]
    <2>1. /\ Begins(f, g) /\ Len(g) = n + Len(s)
          /\ \A i \in 1..Len(s) : g[n + i] = s[i]
      BY <1>1, <1>2, ConcatBegins
    <2>2. g \in Seq(Byte)
      BY <2>1 DEF Begins
    <2> HIDE DEF g
    <2> QED
      BY <1>1, <1>2, <2>1, <2>2
  <1> HIDE DEF g
  <1>4. /\ FrameAt(g, n) /\ NextFrame(g, n) = Len(g)
    <2>1. g[n + 1] = s[1] /\ g[n + 2] = s[2]
      BY <1>2, <1>3
    <2>2. Decode(g, n) = Len(r)
      BY <1>2, <2>1 DEF Decode
    <2> QED
      BY <1>1, <1>2, <1>3, <2>2, SessLogAssumption DEF FrameAt, NextFrame
  <1>5. Piece(g, n) = r
    <2> DEFINE m == n + 3
               e == Len(g)
    <2>1. m \in 1 .. Len(g) + 1 /\ e \in m - 1 .. Len(g) /\ e - m + 1 = Len(r)
      BY <1>1, <1>2, <1>3
    <2>2. /\ SubSeq(g, m, e) \in Seq(Byte) /\ Len(SubSeq(g, m, e)) = Len(r)
          /\ \A i \in 1..Len(r) : SubSeq(g, m, e)[i] = g[m + i - 1]
      <3> HIDE DEF m, e
      <3> QED
        BY <1>3, <2>1, Slice
    <2>3. ASSUME NEW i \in 1..Len(r) PROVE SubSeq(g, m, e)[i] = r[i]
      <3>1. i + 2 \in 1..Len(s) /\ m + i - 1 = n + (i + 2)
        BY <1>1, <1>2
      <3>2. g[n + (i + 2)] = r[i]
        BY <1>2, <1>3, <3>1
      <3> HIDE DEF m, e
      <3> QED
        BY <2>2, <3>1, <3>2
    <2>4. SubSeq(g, m, e) = r
      <3> HIDE DEF m, e
      <3> QED
        BY <1>2, <2>2, <2>3, SeqEqual
    <2> QED
      BY <1>4, <2>4 DEF Piece
  <1>6. /\ n \in 0..Len(g) /\ Len(g) \in 0..Len(g) /\ ~FrameAt(g, Len(g))
    BY <1>1, <1>2, <1>3 DEF FrameAt
  <1> HIDE DEF n, H
  <1>7. /\ Scan(g)[n] = Len(g) /\ From(g)[Len(g)] = <<>>
        /\ From(g)[n] = <<r>> \o From(g)[Len(g)]
    <2>1. Scan(g)[n] = Scan(g)[Len(g)] /\ Scan(g)[Len(g)] = Len(g)
      BY <1>3, <1>4, <1>6, ScanFacts
    <2>2. /\ From(g)[Len(g)] = <<>>
          /\ From(g)[n] = <<Piece(g, n)>> \o From(g)[Len(g)]
      BY <1>3, <1>4, <1>6, FromFacts
    <2> QED
      BY <1>5, <2>1, <2>2
  <1>8. /\ Scan(g)[H] = Len(g) /\ From(g)[H] = From(f)[H] \o From(g)[n]
    <2>1. H \in 0..Len(f)
      BY <1>1 DEF n
    <2>2. /\ Scan(g)[H] = Scan(g)[Scan(f)[H]]
          /\ From(g)[H] = From(f)[H] \o From(g)[Scan(f)[H]]
      BY <1>3, <2>1, ReadsOn, Zenon
    <2> QED
      BY <1>1, <1>7, <2>2
  <1>9. From(f)[H] \in Seq(Payload) /\ <<r>> \in Seq(Payload)
    <2>1. H \in 0..Len(f)
      BY <1>1 DEF n
    <2>2. From(f)[H] \in Seq(Payload)
      BY <1>1, <2>1, FromFacts
    <2>3. <<r>> \in Seq(Payload)
      OBVIOUS
    <2> QED
      BY <2>2, <2>3
  <1>10. From(g)[H] = Append(From(f)[H], r)
    <2>1. From(g)[n] = <<r>>
      BY <1>7, <1>9, ConcatEmptySeq
    <2> QED
      BY <1>8, <1>9, <2>1, AppendIsConcat
  <1>11. H <= Len(g)
    BY <1>1, <1>2, <1>3
  <1> QED
    BY <1>1, <1>3, <1>8, <1>10, <1>11, HeaderFacts DEF Clean, g, s, H

(* One that is cut off is not read at all.                                 *)
LEMMA CutFrameAddsNothing ==
    ASSUME NEW f, Clean(f), NEW r \in Payload, NEW part \in Cut(Frame(r))
    PROVE  /\ Begins(f, f \o part)
           /\ ValidEnd(f \o part) = Len(f)
           /\ Records(f \o part) = Records(f)
  <1> DEFINE s == Frame(r)
             g == f \o part
             n == Len(f)
             H == Len(Header)
  <1>1. f \in Seq(Byte) /\ n \in Nat /\ H \in Nat /\ H <= n /\ H \in 0..n
        /\ Scan(f)[H] = n /\ Records(f) = From(f)[H]
    BY HeaderFacts DEF Clean
  <1>2. /\ Len(r) \in 0..MaxRecord /\ Len(r) \in Nat
        /\ s \in Seq(Byte) /\ Len(s) = Len(r) + 2
        /\ s[1] + Radix * s[2] = Len(r)
    BY FrameBytes
  <1>3. PICK k \in 0 .. Len(s) - 1 : part = SubSeq(s, 1, k)
    BY DEF Cut
  <1> HIDE DEF s
  <1>4. /\ part \in Seq(Byte) /\ Len(part) = k /\ k \in Nat
        /\ \A i \in 1..k : part[i] = s[i]
    <2>1. 1 \in 1 .. Len(s) + 1 /\ k \in 1 - 1 .. Len(s) /\ k \in Nat
      BY <1>2, <1>3
    <2>2. /\ part \in Seq(Byte) /\ Len(part) = k - 1 + 1
          /\ \A i \in 1 .. k - 1 + 1 : part[i] = s[1 + i - 1]
      BY <1>2, <1>3, <2>1, Slice
    <2>3. ASSUME NEW i \in 1..k PROVE part[i] = s[i]
      <3>1. i \in 1 .. k - 1 + 1 /\ 1 + i - 1 = i
        BY <2>1
      <3> QED
        BY <2>2, <3>1
    <2> QED
      BY <2>1, <2>2, <2>3
  <1>5. /\ Begins(f, g) /\ g \in Seq(Byte) /\ Len(g) = n + k /\ Len(g) \in Nat
        /\ \A i \in 1..k : g[n + i] = s[i]
    <2>1. /\ Begins(f, g) /\ Len(g) = n + Len(part)
          /\ \A i \in 1..Len(part) : g[n + i] = part[i]
      BY <1>1, <1>4, ConcatBegins
    <2>2. g \in Seq(Byte)
      BY <2>1 DEF Begins
    <2> HIDE DEF g
    <2> QED
      BY <1>1, <1>4, <2>1, <2>2
  <1> HIDE DEF g
  <1>6. ~FrameAt(g, n)
    <2> SUFFICES ASSUME FrameAt(g, n) PROVE FALSE
      OBVIOUS
    <2>1. k >= 2 /\ Decode(g, n) <= k - 2
      BY <1>1, <1>5 DEF FrameAt
    <2>2. 1 \in 1..k /\ 2 \in 1..k
      BY <2>1, <1>4
    <2>3. g[n + 1] = s[1] /\ g[n + 2] = s[2]
      BY <1>5, <2>2
    <2>4. Decode(g, n) = Len(r)
      BY <1>2, <2>3 DEF Decode
    <2> QED
      BY <1>2, <1>3, <2>1, <2>4
  <1>7. n \in 0..Len(g) /\ H <= Len(g)
    BY <1>1, <1>4, <1>5
  <1> HIDE DEF n, H
  <1>8. Scan(g)[n] = n /\ From(g)[n] = <<>>
    BY <1>5, <1>6, <1>7, ScanFacts, FromFacts
  <1>9. H \in 0..Len(f)
    BY <1>1 DEF n
  <1>10. Scan(g)[H] = n /\ From(g)[H] = From(f)[H] \o <<>>
    <2>1. /\ Scan(g)[H] = Scan(g)[Scan(f)[H]]
          /\ From(g)[H] = From(f)[H] \o From(g)[Scan(f)[H]]
      BY <1>5, <1>9, ReadsOn, Zenon
    <2> QED
      BY <1>1, <1>8, <2>1
  <1>11. From(g)[H] = From(f)[H]
    <2>1. From(f)[H] \in Seq(Payload)
      BY <1>1, <1>9, FromFacts
    <2> QED
      BY <1>10, <2>1, ConcatEmptySeq
  <1> QED
    BY <1>1, <1>5, <1>7, <1>10, <1>11, HeaderFacts DEF g, n, H

(* Cutting the torn tail off leaves a clean log of the same records.       *)
LEMMA FirstBytes ==
    ASSUME NEW f \in Seq(Byte), NEW k \in 0..Len(f)
    PROVE  Begins(SubSeq(f, 1, k), f) /\ Len(SubSeq(f, 1, k)) = k
  <1>1. 1 \in 1 .. Len(f) + 1 /\ k \in 1 - 1 .. Len(f) /\ k \in Nat /\ Len(f) \in Nat
    OBVIOUS
  <1> DEFINE s == SubSeq(f, 1, k)
  <1>2. /\ s \in Seq(Byte) /\ Len(s) = k - 1 + 1
        /\ \A i \in 1 .. k - 1 + 1 : s[i] = f[1 + i - 1]
    BY <1>1, Slice
  <1> HIDE DEF s
  <1>3. ASSUME NEW i \in 1..k PROVE s[i] = f[i]
    <2>1. i \in 1 .. k - 1 + 1 /\ 1 + i - 1 = i
      BY <1>1
    <2> QED
      BY <1>2, <2>1
  <1>4. Len(s) = k /\ k <= Len(f)
    BY <1>1, <1>2
  <1> QED
    BY <1>2, <1>3, <1>4 DEF Begins, s

LEMMA TruncationKeeps ==
    ASSUME NEW g \in Seq(Byte), Len(Header) <= Len(g),
           NEW f, f = SubSeq(g, 1, ValidEnd(g))
    PROVE  /\ Clean(f) /\ Records(f) = Records(g)
           /\ Len(f) = ValidEnd(g) /\ Begins(f, g)
  <1>1. /\ Len(Header) \in 0..Len(g)
        /\ ValidEnd(g) = Scan(g)[Len(Header)] /\ Records(g) = From(g)[Len(Header)]
        /\ ValidEnd(g) \in Len(Header)..Len(g) /\ ValidEnd(g) \in 0..Len(g)
    BY HeaderFacts
  <1>2. Begins(f, g) /\ Len(f) = ValidEnd(g)
    BY <1>1, FirstBytes
  <1>3. Len(Header) \in 0..Len(f) /\ Len(Header) <= Len(f) /\ f \in Seq(Byte)
    BY <1>1, <1>2 DEF Begins
  <1>4. /\ Scan(f)[Len(Header)] = Len(f)
        /\ From(f)[Len(Header)] = From(g)[Len(Header)]
    <2>1. Scan(g)[Len(Header)] = Len(f)
      BY <1>1, <1>2
    <2> QED
      BY <1>2, <1>3, <2>1, CutReads, Zenon
  <1> QED
    BY <1>1, <1>2, <1>3, <1>4, HeaderFacts DEF Clean

(* What is written behind a clean beginning does not shorten its reading.  *)
LEMMA ScanGoesOn ==
    ASSUME NEW f, Clean(f), NEW g, Begins(f, g)
    PROVE  ValidEnd(g) \in Len(f)..Len(g)
  <1>1. /\ f \in Seq(Byte) /\ g \in Seq(Byte) /\ Len(f) <= Len(g)
        /\ Len(f) \in Nat /\ Len(g) \in Nat /\ Len(f) \in 0..Len(g)
        /\ Len(Header) <= Len(f) /\ Len(Header) <= Len(g) /\ Len(Header) \in 0..Len(f)
        /\ Scan(f)[Len(Header)] = Len(f) /\ ValidEnd(g) = Scan(g)[Len(Header)]
    BY HeaderFacts DEF Clean, Begins
  <1>2. Scan(g)[Len(Header)] = Scan(g)[Len(f)]
    <2>1. Scan(g)[Len(Header)] = Scan(g)[Scan(f)[Len(Header)]]
      BY <1>1, ReadsOn
    <2> QED
      BY <1>1, <2>1
  <1> QED
    BY <1>1, <1>2, ScanFacts

-----------------------------------------------------------------------------
(* The inductive invariant.  One process at a time has the log; the one    *)
(* that opened it has a clean file and its records, until a rollback       *)
(* fails; what was there when it failed is clean and still there.          *)
Alone ==
    \A p, q \in Process : pc[p] # "closed" /\ pc[q] # "closed" => p = q

Held ==
    \A p \in Process : pc[p] = "open" =>
        /\ Len(Header) <= Len(file)
        /\ stuck = 0 => Clean(file) /\ mem[p] = Records(file)

Spared == stuck # 0 => Clean(SubSeq(file, 1, stuck))

IInv == TypeOK /\ Alone /\ Held /\ Spared

(* What a step may do to the log as sesslog.h promises it.                 *)
LogStep ==
    \/ UNCHANGED <<Records(Sound), known>>
    \/ \E r \in Payload : Promise!Add(r)

LEMMA SameFile ==
    ASSUME UNCHANGED <<file, stuck, known>>
    PROVE  LogStep
  BY DEF LogStep, Sound

LEMMA BeginsSame ==
    ASSUME NEW f, NEW g, Begins(f, g), NEW k \in 0..Len(f)
    PROVE  SubSeq(f, 1, k) = SubSeq(g, 1, k)
  <1>1. /\ f \in Seq(Byte) /\ g \in Seq(Byte) /\ k \in 0..Len(g) /\ k \in Nat
        /\ Len(f) \in Nat
    BY DEF Begins
  <1>2. /\ Begins(SubSeq(f, 1, k), f) /\ Len(SubSeq(f, 1, k)) = k
        /\ Begins(SubSeq(g, 1, k), g) /\ Len(SubSeq(g, 1, k)) = k
    BY <1>1, FirstBytes
  <1> DEFINE a == SubSeq(f, 1, k)
             b == SubSeq(g, 1, k)
  <1> HIDE DEF a, b
  <1>3. ASSUME NEW i \in 1..k PROVE a[i] = b[i]
    <2>1. i \in 1..Len(f)
      BY <1>1
    <2>2. a[i] = f[i] /\ b[i] = g[i] /\ f[i] = g[i]
      BY <1>2, <2>1 DEF Begins, a, b
    <2> QED
      BY <2>2
  <1>4. a \in Seq(Byte) /\ b \in Seq(Byte) /\ Len(a) = Len(b) /\ Len(a) = k
    BY <1>2 DEF Begins, a, b
  <1>5. a = b
    BY <1>3, <1>4, SeqEqual
  <1> QED
    BY <1>5 DEF a, b

(* Less than a header holds no record.                                     *)
LEMMA Nothing ==
    ASSUME NEW f \in Seq(Byte), Len(f) < Len(Header)
    PROVE  Records(f) = <<>>
  BY ReadingsAre

-----------------------------------------------------------------------------
LEMMA InitIInv == Init => IInv /\ Promise!Init
  <1> SUFFICES ASSUME Init PROVE IInv /\ Promise!Init
    OBVIOUS
  <1>1. file = <<>> /\ <<>> \in Seq(Byte) /\ Len(<<>>) = 0 /\ Len(Header) \in Nat \ {0}
    BY EmptySeq, HeaderFacts DEF Init
  <1>2. TypeOK
    BY <1>1, SessLogAssumption DEF Init, TypeOK
  <1>3. Alone /\ Held /\ Spared
    BY DEF Init, Alone, Held, Spared
  <1>4. Promise!Init
    <2>1. Sound = <<>> /\ known = 0
      BY DEF Init, Sound
    <2>2. Records(<<>>) = <<>>
      <3>1. Len(<<>>) < Len(Header)
        BY <1>1
      <3> QED
        BY <3>1, ReadingsAre
    <2> QED
      BY <2>1, <2>2 DEF Promise!Init
  <1> QED
    BY <1>2, <1>3, <1>4 DEF IInv

(* Lock, refuse, and close.                                                *)
LEMMA LockStep ==
    ASSUME IInv, NEW p \in Process, Lock(p)
    PROVE  IInv' /\ LogStep
  <1>1. /\ UNCHANGED <<file, mem, known, stuck>> /\ pc' = [pc EXCEPT ![p] = "check"]
        /\ \A q \in Process : pc[q] = "closed"
    BY DEF Lock
  <1>2. \A q \in Process : pc'[q] = IF q = p THEN "check" ELSE "closed"
    BY <1>1 DEF IInv, TypeOK
  <1>3. TypeOK'
    BY <1>1 DEF IInv, TypeOK
  <1>4. Alone' /\ Held'
    BY <1>2 DEF Alone, Held
  <1>5. Spared'
    BY <1>1 DEF IInv, Spared
  <1> QED
    BY <1>1, <1>3, <1>4, <1>5, SameFile DEF IInv

(* Nobody has the log any more when the one who had it is gone.            *)
LEMMA ClosedStep ==
    ASSUME IInv, NEW p \in Process, pc[p] # "closed", Closed(p)
    PROVE  /\ pc' \in [Process -> {"closed", "check", "open"}]
           /\ mem' \in [Process -> Seq(Payload)] /\ known' = known
           /\ Alone' /\ Held'
  <1>1. /\ pc' = [pc EXCEPT ![p] = "closed"] /\ mem' = [mem EXCEPT ![p] = <<>>]
        /\ known' = known
    BY DEF Closed
  <1>2. \A q \in Process : pc'[q] = "closed"
    BY <1>1 DEF IInv, TypeOK, Alone
  <1>3. mem' \in [Process -> Seq(Payload)]
    <2>1. <<>> \in Seq(Payload)
      BY EmptySeq
    <2> QED
      BY <1>1, <2>1 DEF IInv, TypeOK
  <1> QED
    BY <1>1, <1>2, <1>3 DEF IInv, TypeOK, Alone, Held

LEMMA CloseStep ==
    ASSUME IInv, NEW p \in Process, pc[p] # "closed", Closed(p),
           UNCHANGED <<file, stuck>>
    PROVE  IInv' /\ LogStep
  <1>1. /\ pc' \in [Process -> {"closed", "check", "open"}]
        /\ mem' \in [Process -> Seq(Payload)] /\ known' = known
        /\ Alone' /\ Held'
    BY ClosedStep
  <1>2. TypeOK' /\ Spared'
    BY <1>1 DEF IInv, TypeOK, Spared
  <1> QED
    BY <1>1, <1>2, SameFile DEF IInv

(* The log is open, with a clean file in stuck = 0.                        *)
LEMMA OpenedStep ==
    ASSUME IInv, NEW p \in Process, pc[p] = "check", Opened(p), Clean(file')
    PROVE  /\ pc' \in [Process -> {"closed", "check", "open"}]
           /\ mem' \in [Process -> Seq(Payload)] /\ known' = known
           /\ Alone' /\ Held'
  <1>1. /\ pc' = [pc EXCEPT ![p] = "open"]
        /\ mem' = [mem EXCEPT ![p] = Records(file')]
        /\ known' = known
    BY DEF Opened
  <1>2. \A q \in Process : pc'[q] = IF q = p THEN "open" ELSE "closed"
    BY <1>1 DEF IInv, TypeOK, Alone
  <1>3. file' \in Seq(Byte) /\ Len(Header) <= Len(file')
    BY DEF Clean
  <1>4. Records(file') \in Seq(Payload)
    BY <1>3, RecordsType
  <1>5. mem' \in [Process -> Seq(Payload)] /\ mem'[p] = Records(file')
    BY <1>1, <1>4 DEF IInv, TypeOK
  <1>6. Alone'
    BY <1>2 DEF Alone
  <1>7. Held'
    BY <1>2, <1>3, <1>5 DEF Held
  <1> QED
    BY <1>1, <1>5, <1>6, <1>7 DEF IInv, TypeOK

(* A new file, with its header whole or in part.                           *)
LEMMA CreateStep ==
    ASSUME IInv, NEW p \in Process, Create(p)
    PROVE  IInv' /\ LogStep
  <1>1. /\ pc[p] = "check" /\ file = <<>> /\ stuck = 0
        /\ Len(Header) \in Nat \ {0} /\ Len(Header) <= MaxFile
        /\ Header \in Seq(Byte) /\ MaxFile \in Nat
    <2>1. pc[p] = "check" /\ file = <<>>
      BY DEF Create
    <2>2. stuck \in 0..Len(file) /\ Len(<<>>) = 0
      BY EmptySeq DEF IInv, TypeOK
    <2> QED
      BY <2>1, <2>2, HeaderFacts, SessLogAssumption
  <1>2. ASSUME NEW part \in Cut(Header) \cup {<<>>}
        PROVE  part \in Seq(Byte) /\ Len(part) < Len(Header)
    <2>1. CASE part = <<>>
      BY <1>1, <2>1, EmptySeq
    <2>2. CASE part \in Cut(Header)
      <3>1. PICK k \in 0 .. Len(Header) - 1 : part = SubSeq(Header, 1, k)
        BY <2>2 DEF Cut
      <3>2. k \in 0..Len(Header) /\ k < Len(Header)
        BY <1>1
      <3> QED
        BY <1>1, <3>1, <3>2, FirstBytes DEF Begins
    <2> QED
      BY <1>2, <2>1, <2>2
  <1>3. /\ file' \in Cut(Header) \cup {<<>>, Header}
        /\ \/ file' = Header /\ Opened(p)
           \/ Closed(p) /\ UNCHANGED stuck
    BY DEF Create
  <1>4. /\ file' \in Seq(Byte) /\ Len(file') <= MaxFile /\ Records(file') = <<>>
    <2>1. CASE file' = Header
      BY <1>1, <2>1, HeaderAlone
    <2>2. CASE file' \in Cut(Header) \cup {<<>>}
      <3>1. file' \in Seq(Byte) /\ Len(file') < Len(Header) /\ Len(file') \in Nat
        BY <1>2, <2>2
      <3> QED
        BY <1>1, <3>1, Nothing
    <2> QED
      BY <1>3, <2>1, <2>2
  <1>5. /\ pc' \in [Process -> {"closed", "check", "open"}]
        /\ mem' \in [Process -> Seq(Payload)] /\ known' = known
        /\ Alone' /\ Held' /\ stuck' = 0
    <2>1. CASE file' = Header /\ Opened(p)
      <3>1. Clean(file') /\ Len(file') # 0
        BY <1>1, <2>1, HeaderAlone
      <3>2. stuck' = 0
        BY <1>1, <2>1, <3>1 DEF Opened
      <3> QED
        BY <1>1, <2>1, <3>1, <3>2, OpenedStep
    <2>2. CASE Closed(p) /\ UNCHANGED stuck
      BY <1>1, <2>2, ClosedStep
    <2> QED
      BY <1>3, <2>1, <2>2
  <1>6. TypeOK' /\ Spared'
    <2>1. 0 \in 0..Len(file')
      BY <1>4
    <2> QED
      BY <1>4, <1>5, <2>1 DEF IInv, TypeOK, Spared
  <1>7. LogStep
    <2>1. Sound = <<>> /\ Sound' = file'
      BY <1>1, <1>5 DEF Sound
    <2>2. Records(<<>>) = <<>>
      <3>1. <<>> \in Seq(Byte) /\ Len(<<>>) < Len(Header)
        BY <1>1, EmptySeq
      <3> QED
        BY <3>1, Nothing
    <2> QED
      BY <1>4, <1>5, <2>1, <2>2 DEF LogStep
  <1> QED
    BY <1>5, <1>6, <1>7 DEF IInv

(* The scan, and the torn tail cut off.                                    *)
LEMMA RecoverStep ==
    ASSUME IInv, NEW p \in Process, Recover(p)
    PROVE  IInv' /\ LogStep
  <1>1. /\ pc[p] = "check" /\ Len(Header) <= Len(file)
        /\ file \in Seq(Byte) /\ Len(file) \in Nat /\ Len(file) <= MaxFile
        /\ stuck \in 0..Len(file) /\ MaxFile \in Nat /\ Len(Header) \in Nat \ {0}
        /\ known \in Nat
    BY HeaderFacts, SessLogAssumption DEF Recover, IsPrefix, IInv, TypeOK
  <1>2. CASE Closed(p) /\ UNCHANGED <<file, stuck>>
    BY <1>1, <1>2, CloseStep
  <1>3. CASE file' = SubSeq(file, 1, ValidEnd(file)) /\ Opened(p)
    <2>1. /\ Clean(file') /\ Records(file') = Records(file)
          /\ Len(file') = ValidEnd(file) /\ Begins(file', file)
      BY <1>1, <1>3, TruncationKeeps
    <2>2. /\ file' \in Seq(Byte) /\ Len(file') \in Nat /\ Len(file') # 0
          /\ Len(file') <= MaxFile
      BY <1>1, <2>1 DEF Clean, Begins
    <2>3. /\ pc' \in [Process -> {"closed", "check", "open"}]
          /\ mem' \in [Process -> Seq(Payload)] /\ known' = known
          /\ Alone' /\ Held'
      BY <1>1, <1>3, <2>1, OpenedStep
    <2>4. stuck' = IF Len(file') = stuck THEN 0 ELSE stuck
      BY <1>3 DEF Opened
    <2>5. CASE stuck = 0
      <3>1. stuck' = 0
        BY <2>2, <2>4, <2>5
      <3>2. TypeOK' /\ Spared'
        BY <1>1, <2>2, <2>3, <3>1 DEF TypeOK, Spared
      <3>3. Records(Sound') = Records(Sound)
        BY <2>1, <2>5, <3>1 DEF Sound
      <3> QED
        BY <2>3, <3>2, <3>3 DEF IInv, LogStep
    <2>6. CASE stuck # 0
      <3> DEFINE b == SubSeq(file, 1, stuck)
      <3>1. Clean(b) /\ Begins(b, file) /\ Len(b) = stuck
        BY <1>1, <2>6, FirstBytes DEF IInv, Spared
      <3> HIDE DEF b
      <3>2. stuck <= Len(file')
        <4>1. ValidEnd(file) \in Len(b)..Len(file)
          BY <3>1, ScanGoesOn
        <4> QED
          BY <1>1, <2>1, <3>1, <4>1
      <3>3. SubSeq(file', 1, stuck) = b
        <4>1. stuck \in 0..Len(file')
          BY <1>1, <2>2, <3>2
        <4> QED
          BY <2>1, <4>1, BeginsSame DEF b
      <3>4. Sound = b
        BY <2>6 DEF Sound, b
      <3>5. CASE Len(file') = stuck
        <4>1. stuck' = 0 /\ file' = b
          <5>1. SubSeq(file', 1, Len(file')) = file'
            BY <2>2, SubSeqFull
          <5> QED
            BY <2>4, <3>3, <3>5, <5>1
        <4>2. TypeOK' /\ Spared'
          BY <1>1, <2>2, <2>3, <4>1 DEF TypeOK, Spared
        <4>3. Sound' = b
          BY <4>1 DEF Sound
        <4> QED
          BY <2>3, <3>4, <4>2, <4>3 DEF IInv, LogStep
      <3>6. CASE Len(file') # stuck
        <4>1. stuck' = stuck
          BY <2>4, <3>6
        <4>2. Sound' = b /\ Spared'
          BY <2>6, <3>1, <3>3, <4>1 DEF Sound, Spared
        <4>3. TypeOK'
          <5>1. stuck' \in 0..Len(file')
            BY <1>1, <2>2, <3>2, <4>1
          <5> QED
            BY <1>1, <2>2, <2>3, <5>1 DEF TypeOK
        <4> QED
          BY <2>3, <3>4, <4>2, <4>3 DEF IInv, LogStep
      <3> QED
        BY <3>5, <3>6
    <2> QED
      BY <2>5, <2>6
  <1> QED
    BY <1>2, <1>3 DEF Recover

-----------------------------------------------------------------------------
(* Bytes are added behind what is there.                                   *)
LEMMA AddedBytes ==
    ASSUME IInv, NEW part \in Seq(Byte), file' = file \o part,
           Len(Header) <= Len(file), Len(file) + Len(part) <= MaxFile
    PROVE  /\ file' \in Seq(Byte) /\ Len(file') = Len(file) + Len(part)
           /\ Len(file') \in Nat /\ Len(file') <= MaxFile
           /\ Len(Header) <= Len(file') /\ stuck \in 0..Len(file')
           /\ stuck # 0 /\ stuck' = stuck => Sound' = Sound /\ Spared'
  <1>1. /\ file \in Seq(Byte) /\ Len(file) \in Nat /\ Len(part) \in Nat
        /\ stuck \in 0..Len(file) /\ Len(Header) \in Nat
    BY HeaderFacts DEF IInv, TypeOK
  <1>2. Begins(file, file') /\ Len(file') = Len(file) + Len(part)
    BY <1>1, ConcatBegins
  <1>3. file' \in Seq(Byte)
    BY <1>2 DEF Begins
  <1>4. SubSeq(file', 1, stuck) = SubSeq(file, 1, stuck)
    BY <1>1, <1>2, BeginsSame
  <1>5. stuck # 0 /\ stuck' = stuck => Sound' = Sound /\ Spared'
    BY <1>4 DEF Sound, Spared, IInv
  <1> QED
    BY <1>1, <1>2, <1>3, <1>5

(* A frame, whole or cut off, is a sequence of bytes and no longer.        *)
LEMMA CutBytes ==
    ASSUME NEW r \in Payload, NEW part \in Cut(Frame(r)) \cup {Frame(r)}
    PROVE  part \in Seq(Byte) /\ Len(part) \in Nat /\ Len(part) <= Len(Frame(r))
  <1>1. Frame(r) \in Seq(Byte) /\ Len(Frame(r)) \in Nat
    BY FrameBytes
  <1>2. CASE part = Frame(r)
    BY <1>1, <1>2
  <1>3. CASE part \in Cut(Frame(r))
    <2> DEFINE s == Frame(r)
    <2>1. PICK k \in 0 .. Len(s) - 1 : part = SubSeq(s, 1, k)
      BY <1>3 DEF Cut
    <2> HIDE DEF s
    <2>2. k \in 0..Len(s) /\ s \in Seq(Byte) /\ Len(s) \in Nat
      BY <1>1, <2>1 DEF s
    <2>3. part \in Seq(Byte) /\ Len(part) = k
      BY <2>1, <2>2, FirstBytes DEF Begins
    <2> QED
      BY <2>2, <2>3 DEF s
  <1> QED
    BY <1>2, <1>3

LEMMA WroteStep ==
    ASSUME IInv, NEW p \in Process, pc[p] = "open", NEW r \in Payload,
           Len(file) + Len(Frame(r)) <= MaxFile, Wrote(p, r)
    PROVE  IInv' /\ LogStep
  <1>1. /\ file' = file \o Frame(r) /\ mem' = [mem EXCEPT ![p] = Append(mem[p], r)]
        /\ known' = (IF stuck = 0 THEN Len(mem'[p]) ELSE known)
        /\ pc' = pc /\ stuck' = stuck
    BY DEF Wrote
  <1>2. /\ Len(Header) <= Len(file) /\ stuck = 0 => Clean(file) /\ mem[p] = Records(file)
        /\ Len(Header) <= Len(file)
        /\ file \in Seq(Byte) /\ mem[p] \in Seq(Payload) /\ known \in Nat
    BY DEF IInv, Held, TypeOK
  <1>3. Frame(r) \in Seq(Byte)
    BY FrameBytes
  <1>4. /\ file' \in Seq(Byte) /\ Len(file') <= MaxFile /\ Len(Header) <= Len(file')
        /\ stuck \in 0..Len(file')
        /\ stuck # 0 => Sound' = Sound /\ Spared'
    BY <1>1, <1>2, <1>3, AddedBytes
  <1>5. /\ Append(mem[p], r) \in Seq(Payload)
        /\ Len(Append(mem[p], r)) \in Nat
    BY <1>2, AppendProperties
  <1>6. mem' \in [Process -> Seq(Payload)] /\ mem'[p] = Append(mem[p], r)
    BY <1>1, <1>5 DEF IInv, TypeOK
  <1>7. known' \in Nat
    BY <1>1, <1>2, <1>5, <1>6
  <1>8. TypeOK'
    BY <1>1, <1>4, <1>6, <1>7 DEF IInv, TypeOK
  <1>9. Alone' /\ \A q \in Process : pc'[q] = "open" => q = p
    BY <1>1 DEF IInv, Alone
  <1>10. CASE stuck = 0
    <2>1. Clean(file') /\ Records(file') = Append(Records(file), r)
      BY <1>1, <1>2, <1>10, WholeFrameAppends
    <2>2. Held' /\ Spared'
      BY <1>1, <1>2, <1>4, <1>6, <1>9, <1>10, <2>1 DEF Held, Spared
    <2>3. Sound = file /\ Sound' = file'
      BY <1>1, <1>10 DEF Sound
    <2>4. known' = Len(Records(file'))
      BY <1>1, <1>2, <1>6, <1>10, <2>1
    <2>5. Promise!Add(r)
      BY <2>1, <2>3, <2>4 DEF Promise!Add
    <2> QED
      BY <1>8, <1>9, <2>2, <2>5 DEF IInv, LogStep
  <1>11. CASE stuck # 0
    <2>1. Held'
      BY <1>1, <1>4, <1>9, <1>11 DEF Held
    <2>2. Records(Sound') = Records(Sound) /\ known' = known
      BY <1>1, <1>4, <1>11
    <2> QED
      BY <1>4, <1>8, <1>9, <1>11, <2>1, <2>2 DEF IInv, LogStep
  <1> QED
    BY <1>10, <1>11

LEMMA RolledBackStep ==
    ASSUME IInv, NEW p \in Process, pc[p] = "open", NEW r \in Payload,
           Len(file) + Len(Frame(r)) <= MaxFile, RolledBack(r)
    PROVE  IInv' /\ LogStep
  <1>1. UNCHANGED <<pc, mem, known>>
    BY DEF RolledBack
  <1>2. CASE UNCHANGED <<file, stuck>>
    BY <1>1, <1>2, SameFile DEF IInv, TypeOK, Alone, Held, Spared
  <1>3. CASE /\ file' \in {file \o part : part \in Cut(Frame(r))}
             /\ stuck' = IF stuck = 0 /\ file' # file THEN Len(file) ELSE stuck
    <2>1. PICK part \in Cut(Frame(r)) : file' = file \o part
      BY <1>3
    <2>2. /\ Len(Header) <= Len(file) /\ Len(Header) \in Nat \ {0}
          /\ file \in Seq(Byte) /\ Len(file) \in Nat /\ MaxFile \in Nat
          /\ stuck = 0 => Clean(file)
      BY HeaderFacts, SessLogAssumption DEF IInv, Held, TypeOK
    <2>3. /\ part \in Seq(Byte) /\ Len(part) \in Nat /\ Len(part) <= Len(Frame(r))
          /\ Len(Frame(r)) \in Nat
      BY CutBytes, FrameBytes
    <2>4. Len(file) + Len(part) <= MaxFile
      BY <2>2, <2>3
    <2>5. /\ file' \in Seq(Byte) /\ Len(file') <= MaxFile /\ Len(file') \in Nat
          /\ Len(Header) <= Len(file') /\ stuck \in 0..Len(file')
          /\ Len(file') = Len(file) + Len(part)
          /\ stuck # 0 /\ stuck' = stuck => Sound' = Sound /\ Spared'
      BY <2>1, <2>2, <2>3, <2>4, AddedBytes
    <2>6. CASE stuck = 0 /\ file' # file
      <3>1. stuck' = Len(file) /\ stuck' # 0 /\ stuck' \in 0..Len(file')
        BY <1>3, <2>2, <2>3, <2>5, <2>6
      <3>2. SubSeq(file', 1, stuck') = file
        <4>1. Begins(file, file')
          BY <2>1, <2>2, <2>3, ConcatBegins
        <4>2. SubSeq(file, 1, Len(file)) = SubSeq(file', 1, Len(file))
          BY <2>2, <4>1, BeginsSame
        <4> QED
          BY <2>2, <3>1, <4>2, SubSeqFull
      <3>3. Sound = file /\ Sound' = file
        BY <2>6, <3>1, <3>2 DEF Sound
      <3>4. TypeOK'
        BY <1>1, <2>5, <3>1 DEF IInv, TypeOK
      <3>5. Spared'
        BY <2>2, <2>6, <3>2 DEF Spared
      <3>6. Alone' /\ Held'
        BY <1>1, <2>5, <3>1 DEF IInv, Alone, Held
      <3> QED
        BY <1>1, <3>3, <3>4, <3>5, <3>6 DEF IInv, LogStep
    <2>7. CASE file' = file
      <3>1. stuck' = stuck
        BY <1>3, <2>7
      <3> QED
        BY <1>1, <2>7, <3>1, SameFile DEF IInv, TypeOK, Alone, Held, Spared
    <2>8. CASE stuck # 0
      <3>1. stuck' = stuck
        BY <1>3, <2>8
      <3>2. TypeOK'
        BY <1>1, <2>5, <3>1 DEF IInv, TypeOK
      <3>3. Alone' /\ Held'
        BY <1>1, <2>5, <2>8, <3>1 DEF IInv, Alone, Held
      <3>4. Records(Sound') = Records(Sound) /\ Spared'
        BY <2>5, <2>8, <3>1
      <3> QED
        BY <1>1, <3>2, <3>3, <3>4 DEF IInv, LogStep
    <2> QED
      BY <2>6, <2>7, <2>8
  <1> QED
    BY <1>2, <1>3 DEF RolledBack

LEMMA KilledStep ==
    ASSUME IInv, NEW p \in Process, pc[p] = "open", NEW r \in Payload,
           Len(file) + Len(Frame(r)) <= MaxFile, Killed(p, r)
    PROVE  IInv' /\ LogStep
  <1>1. Closed(p) /\ stuck' = stuck
    BY DEF Killed
  <1>2. PICK part \in Cut(Frame(r)) \cup {Frame(r)} : file' = file \o part
    BY DEF Killed
  <1>3. /\ Len(Header) <= Len(file) /\ file \in Seq(Byte) /\ Len(file) \in Nat
        /\ MaxFile \in Nat /\ known \in Nat
        /\ stuck = 0 => Clean(file)
    BY SessLogAssumption DEF IInv, Held, TypeOK
  <1>4. /\ part \in Seq(Byte) /\ Len(part) \in Nat /\ Len(part) <= Len(Frame(r))
        /\ Len(Frame(r)) \in Nat
    BY CutBytes, FrameBytes
  <1>5. Len(file) + Len(part) <= MaxFile
    BY <1>3, <1>4
  <1>6. /\ file' \in Seq(Byte) /\ Len(file') <= MaxFile /\ stuck \in 0..Len(file')
        /\ stuck # 0 => Sound' = Sound /\ Spared'
    BY <1>1, <1>2, <1>3, <1>4, <1>5, AddedBytes
  <1>7. /\ pc' \in [Process -> {"closed", "check", "open"}]
        /\ mem' \in [Process -> Seq(Payload)] /\ known' = known
        /\ Alone' /\ Held'
    BY <1>1, ClosedStep
  <1>8. TypeOK'
    BY <1>1, <1>3, <1>6, <1>7 DEF TypeOK
  <1>9. CASE stuck # 0
    <2>1. Records(Sound') = Records(Sound) /\ Spared'
      BY <1>6, <1>9
    <2> QED
      BY <1>7, <1>8, <2>1 DEF IInv, LogStep
  <1>10. CASE stuck = 0
    <2>1. Sound = file /\ Sound' = file' /\ Spared'
      BY <1>1, <1>10 DEF Sound, Spared
    <2>2. CASE part \in Cut(Frame(r))
      <3>1. Records(file') = Records(file)
        BY <1>2, <1>3, <1>10, <2>2, CutFrameAddsNothing
      <3>2. Records(Sound') = Records(Sound)
        BY <2>1, <3>1
      <3> QED
        BY <1>7, <1>8, <2>1, <3>2 DEF IInv, LogStep
    <2>3. CASE part = Frame(r)
      <3>1. Records(file') = Append(Records(file), r)
        BY <1>2, <1>3, <1>10, <2>3, WholeFrameAppends
      <3>2. Promise!Add(r)
        BY <1>7, <2>1, <3>1 DEF Promise!Add
      <3> QED
        BY <1>7, <1>8, <2>1, <3>2 DEF IInv, LogStep
    <2> QED
      BY <2>2, <2>3
  <1> QED
    BY <1>9, <1>10

-----------------------------------------------------------------------------
LEMMA NextStep ==
    ASSUME IInv, [Next]_vars
    PROVE  IInv' /\ LogStep
  <1>1. CASE UNCHANGED vars
    <2>1. UNCHANGED <<file, pc, mem, known, stuck>>
      BY <1>1 DEF vars
    <2> QED
      BY <2>1, SameFile DEF IInv, TypeOK, Alone, Held, Spared
  <1>2. ASSUME NEW p \in Process, Refuse(p) \/ Close(p)
        PROVE  IInv' /\ LogStep
    <2>1. pc[p] # "closed" /\ Closed(p) /\ UNCHANGED <<file, stuck>>
      BY <1>2 DEF Refuse, Close
    <2> QED
      BY <2>1, CloseStep
  <1>3. ASSUME NEW p \in Process, NEW r \in Payload, AppendRecord(p, r)
        PROVE  IInv' /\ LogStep
    BY <1>3, WroteStep, RolledBackStep, KilledStep DEF AppendRecord
  <1> QED
    BY <1>1, <1>2, <1>3, LockStep, CreateStep, RecoverStep DEF Next

LEMMA AlwaysIInv == Spec => []IInv
  <1>1. Init => IInv
    BY InitIInv
  <1>2. IInv /\ [Next]_vars => IInv'
    BY NextStep
  <1> QED
    BY <1>1, <1>2, PTL DEF Spec

(* Files of any length, any number of processes, any records: every state  *)
(* is well typed, and a tail that could not be rolled back lies within the *)
(* file (sesslog.c).                                                       *)
THEOREM LogTyped == Spec => []TypeOK
  <1>1. IInv => TypeOK
    BY DEF IInv
  <1> QED
    BY <1>1, AlwaysIInv, PTL

(* What the holder of the log has in memory is what the next process that  *)
(* opens it will read, through torn tails, rollbacks and deaths, unless a  *)
(* rollback failed (cli_history_store.c over sesslog.c).                   *)
THEOREM MemoryIsTheFiles == Spec => []MemoryMatchesFile
  <1>1. IInv => MemoryMatchesFile
    BY DEF IInv, Held, MemoryMatchesFile
  <1> QED
    BY <1>1, AlwaysIInv, PTL

(* The bytes and the processes on them implement the append-only log that  *)
(* sesslog.h promises: records are added at its end, whole, and none that  *)
(* was acknowledged is lost, changed or moved.                             *)
THEOREM PromiseIsKept == Spec => KeepsPromise
  <1>1. Init => Promise!Init
    BY InitIInv
  <1>2. IInv /\ [Next]_vars =>
          [\E r \in Payload : Promise!Add(r)]_<<Records(Sound), known>>
    BY NextStep DEF LogStep
  <1> QED
    BY <1>1, <1>2, AlwaysIInv, PTL DEF Spec, KeepsPromise, Promise!Spec
=============================================================================
