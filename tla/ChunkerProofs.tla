--------------------------- MODULE ChunkerProofs ---------------------------
(***************************************************************************)
(* Theorems about Chunker, for every text and every choice of bounds and   *)
(* ratio the constructor accepts. The texts' cuts play no part but for     *)
(* their type: 0 and the text's length are cuts.                           *)
(***************************************************************************)
EXTENDS Chunker, TLAPS

-----------------------------------------------------------------------------
(* The inductive invariant *)

\* Where the next segment's own tokens begin.
Next0 == From(Len(segments) + 1)

\* Covered, and the segment being filled carries it on.
CoveredOn ==
  /\ Covered
  /\ start <= Next0
  /\ \A k \in 1..Len(segments) : segments[k].start <= start
  /\ pc = "pack" /\ fresh => cursor # Length

\* OverlapExact, and the segment being filled begins where it must.
OverlapOn ==
  /\ OverlapExact
  /\ Len(segments) > 0 =>
       LET prev == segments[Len(segments)]
       IN /\ Scaled(prev.end - start) >= Threshold(prev.start, prev.end)
          /\ \A d \in cuts :
               start < d /\ d <= prev.end =>
                 Scaled(prev.end - d) <= Threshold(prev.start, prev.end)

\* LongByOneUnit, and the segment being filled may end at the cursor.
LongOn ==
  /\ LongByOneUnit
  /\ ~fresh /\ cursor - start > MaxTokens =>
       \E b \in cuts : Unit(b, cursor) /\ (b = Next0 \/ b - start < MinTokens)

IInv == TypeOK /\ CoveredOn /\ OverlapOn /\ OnlyLastShort /\ LongOn

-----------------------------------------------------------------------------
(* Arithmetic *)

\* Multiplying by a natural number keeps an order.
LEMMA Monotone ==
  ASSUME NEW d \in Nat, NEW a \in Int, NEW b \in Int, a <= b
  PROVE  d * a <= d * b
BY SMT

\* Rounded is the nearest integer: within half a unit on both sides.
LEMMA RoundedNearest ==
  ASSUME NEW n \in Nat, NEW d \in Nat \ {0}
  PROVE  /\ Rounded(n, d) \in Int
         /\ 2 * (d * Rounded(n, d)) <= 2 * n + d
         /\ 2 * (d * Rounded(n, d)) >= 2 * n - d
<1> DEFINE q == n \div d
           r == n % d
<1>1. q \in Int /\ r \in Int /\ 0 <= r /\ r < d /\ n = d * q + r
  BY SMT
<1>2. Rounded(n, d) = q \/ Rounded(n, d) = q + 1
  BY DEF Rounded
<1>3. CASE Rounded(n, d) = q
  <2>1. 2 * r <= d
    BY <1>1, <1>3 DEF Rounded
  <2> HIDE DEF q, r
  <2> QED BY <1>1, <1>3, <2>1
<1>4. CASE Rounded(n, d) = q + 1
  <2>1. 2 * r >= d
    BY <1>1, <1>4 DEF Rounded
  <2>2. d * (q + 1) = d * q + d
    BY <1>1 DEF q
  <2> HIDE DEF q, r
  <2> QED BY <1>1, <1>4, <2>1, <2>2
<1> QED BY <1>2, <1>3, <1>4

\* Both sides of OverlapExact, from what OverlapFrom says of the target.
LEMMA OverlapNearest ==
  ASSUME NEW s \in Nat, NEW e \in Nat, NEW c \in Nat, s <= e
  PROVE  /\ e - c >= Target(e - s) => Scaled(e - c) >= Threshold(s, e)
         /\ e - c < Target(e - s) => Scaled(e - c) <= Threshold(s, e)
<1> DEFINE n == (e - s) * OverlapNum
           t == Rounded(n, OverlapDen)
<1>1. OverlapDen \in Nat \ {0} /\ OverlapNum \in Nat
  BY RatioBelowOne
<1>2. n \in Nat
  BY <1>1, SMT
<1>3. /\ t \in Int
      /\ 2 * (OverlapDen * t) <= 2 * n + OverlapDen
      /\ 2 * (OverlapDen * t) >= 2 * n - OverlapDen
  BY <1>1, <1>2, RoundedNearest
<1>4. Target(e - s) = t
  BY DEF Target
<1>5. Threshold(s, e) = 2 * n - OverlapDen
  BY <1>1, SMT DEF Threshold
<1>6. Scaled(e - c) = 2 * (OverlapDen * (e - c))
  BY <1>1, SMT DEF Scaled
<1> HIDE DEF n, t
<1>7. ASSUME e - c >= t PROVE Scaled(e - c) >= Threshold(s, e)
  <2>1. OverlapDen * t <= OverlapDen * (e - c)
    BY <1>1, <1>3, <1>7, Monotone
  <2>2. OverlapDen * t \in Int /\ OverlapDen * (e - c) \in Int
    BY <1>1, <1>3
  <2> QED BY <1>1, <1>2, <1>3, <1>5, <1>6, <2>1, <2>2
<1>8. ASSUME e - c < t PROVE Scaled(e - c) <= Threshold(s, e)
  <2>1. OverlapDen * (e - c) <= OverlapDen * (t - 1)
    BY <1>1, <1>3, <1>8, Monotone
  <2>2. OverlapDen * (t - 1) = OverlapDen * t - OverlapDen
    BY <1>1, <1>3
  <2>3. OverlapDen * t \in Int /\ OverlapDen * (e - c) \in Int
    BY <1>1, <1>3
  <2> QED BY <1>1, <1>2, <1>3, <1>5, <1>6, <2>1, <2>2, <2>3
<1> QED BY <1>4, <1>7, <1>8

-----------------------------------------------------------------------------
(* Each action keeps the invariant *)

LEMMA InitInv == Init => IInv
<1> SUFFICES ASSUME Init PROVE IInv
  OBVIOUS
<1>1. PICK paragraphs \in SUBSET Positions, sentences \in SUBSET Positions :
        Length \in paragraphs /\ cuts = Cuts(paragraphs, sentences)
  BY DEF Init
<1>2. cuts \subseteq Positions /\ {0, Length} \subseteq cuts
  <2>1. 0 \in Positions
    BY LengthPositive DEF Positions
  <2>2. \A c \in Cuts(paragraphs, sentences) : c \in Positions
    BY <2>1, Zenon DEF Cuts
  <2>3. 0 \in Cuts(paragraphs, sentences) /\ Length \in Cuts(paragraphs, sentences)
    BY <1>1, Zenon DEF Cuts
  <2> QED BY <1>1, <2>2, <2>3
<1>3. segments = <<>> /\ Len(segments) = 0 /\ <<>> \in Seq([start : cuts, end : cuts])
  BY DEF Init
<1>4. TypeOK
  BY <1>2, <1>3 DEF Init, TypeOK
<1>5. Next0 = 0
  BY <1>3 DEF Next0, From
<1>6. CoveredOn
  BY <1>3, <1>5, LengthPositive DEF Init, CoveredOn, Covered, Next0
<1>7. OverlapOn /\ OnlyLastShort /\ LongOn
  BY <1>3 DEF Init, OverlapOn, OverlapExact, OnlyLastShort, LongOn, LongByOneUnit
<1> QED BY <1>4, <1>6, <1>7 DEF IInv

\* What the types say of positions.
LEMMA Numbers ==
  ASSUME TypeOK
  PROVE  /\ cuts \subseteq Int /\ cursor \in Int /\ start \in Int /\ Length \in Int
         /\ \A c \in cuts : 0 <= c /\ c <= Length
         /\ Len(segments) \in Nat
         /\ \A k \in 1..Len(segments) :
              /\ segments[k] \in [start : cuts, end : cuts]
              /\ segments[k].start \in Int /\ segments[k].end \in Int
         /\ \A k \in 1..(Len(segments) + 1) : From(k) \in Int
         /\ Next0 \in Int
<1>1. Length \in Nat /\ cuts \subseteq 0..Length
  BY LengthPositive DEF TypeOK, Positions
<1>2. /\ \A k \in 1..Len(segments) : segments[k] \in [start : cuts, end : cuts]
      /\ Len(segments) \in Nat
  <2> DEFINE R == [start : cuts, end : cuts]
  <2>1. segments \in Seq(R)
    BY DEF TypeOK
  <2> HIDE DEF R
  <2>2. \A k \in 1..Len(segments) : segments[k] \in R
    BY <2>1
  <2>3. Len(segments) \in Nat
    BY <2>1
  <2> QED BY <2>2, <2>3 DEF R
<1>3. \A k \in 1..Len(segments) : segments[k].start \in Int /\ segments[k].end \in Int
  <2> TAKE k \in 1..Len(segments)
  <2>1. segments[k].start \in cuts /\ segments[k].end \in cuts
    BY <1>2
  <2>2. cuts \subseteq Int
    BY <1>1
  <2> QED BY <2>1, <2>2
<1>4. \A k \in 1..(Len(segments) + 1) : From(k) \in Int
  <2>1. TAKE k \in 1..(Len(segments) + 1)
  <2>2. CASE k = 1
    BY <2>2 DEF From
  <2>3. CASE k # 1
    <3>1. k - 1 \in 1..Len(segments)
      BY <1>2, <2>3
    <3> QED BY <1>3, <2>3, <3>1 DEF From
  <2> QED BY <2>2, <2>3
<1>5. Next0 \in Int
  BY <1>2, <1>4 DEF Next0
<1>6. cursor \in Int /\ start \in Int /\ cuts \subseteq Int
  BY <1>1 DEF TypeOK
<1> QED BY <1>1, <1>2, <1>3, <1>4, <1>5, <1>6

LEMMA TakeInv == IInv /\ Take => IInv'
<1> SUFFICES ASSUME IInv, Take PROVE IInv'
  OBVIOUS
<1>0. TypeOK
  BY DEF IInv
<1>n. USE Numbers, <1>0
<1>1. PICK e \in cuts : Unit(cursor, e) /\ Takes(e) /\ cursor' = e
  BY DEF Take
<1>2. UNCHANGED <<cuts, start, segments, pc>> /\ fresh' = FALSE /\ pc = "pack"
  BY DEF Take
<1>3. cursor < e /\ e \in Int
  BY <1>1 DEF Unit
<1>4. Next0' = Next0 /\ (\A k \in Nat : From(k)' = From(k))
  BY <1>2 DEF Next0, From
<1>5. TypeOK'
  <2>1. start' <= cursor'
    BY <1>1, <1>2, <1>3 DEF TypeOK
  <2>2. segments' \in Seq([start : cuts', end : cuts'])
    BY <1>2 DEF TypeOK
  <2> QED BY <1>1, <1>2, <2>1, <2>2 DEF TypeOK
<1>6. Next0 <= cursor
  BY DEF IInv, CoveredOn, Covered, Next0
<1>7. CoveredOn'
  BY <1>2, <1>1, <1>3, <1>4, <1>6 DEF IInv, CoveredOn, Covered, Next0, From
<1>8. OverlapOn' /\ OnlyLastShort'
  BY <1>2 DEF IInv, OverlapOn, OverlapExact, OnlyLastShort, Scaled, Threshold
<1>9. LongOn'
  <2>1. LongByOneUnit'
    BY <1>2 DEF IInv, LongOn, LongByOneUnit, Unit, From
  <2>2. ASSUME e - start > MaxTokens
        PROVE  cursor = Next0 \/ cursor - start < MinTokens
    <3>1. CASE fresh
      BY <3>1 DEF IInv, CoveredOn, Covered, Next0
    <3>2. CASE ~fresh
      BY <3>2, <2>2, <1>1, BoundsOrdered DEF Takes
    <3> QED BY <3>1, <3>2
  <2>3. cursor \in cuts' /\ Unit(cursor, cursor')
    BY <1>1, <1>2 DEF TypeOK
  <2>4. cursor' - start' > MaxTokens =>
          \E b \in cuts' : Unit(b, cursor)' /\ (b = Next0' \/ b - start' < MinTokens)
    BY <2>2, <2>3, <1>1, <1>2, <1>4 DEF Unit
  <2> QED BY <2>1, <2>4 DEF LongOn
<1> QED BY <1>5, <1>7, <1>8, <1>9 DEF IInv

LEMMA CloseInv == IInv /\ Close => IInv'
<1> SUFFICES ASSUME IInv, Close PROVE IInv'
  OBVIOUS
<1> DEFINE n == Len(segments)
           seg == [start |-> start, end |-> cursor]
<1>0. TypeOK
  BY DEF IInv
<1>n. USE Numbers, <1>0
<1>1. PICK c \in cuts : OverlapFrom(c, start, cursor) /\ start' = c
  BY DEF Close
<1>2. /\ segments' = Append(segments, seg) /\ UNCHANGED <<cuts, cursor>>
      /\ fresh' = TRUE /\ pc' = (IF cursor = Length THEN "done" ELSE "pack")
      /\ pc = "pack" /\ Full
  BY DEF Close
<1>3. ~fresh
  BY <1>2 DEF IInv, CoveredOn, Full, Takes
<1>4. seg \in [start : cuts, end : cuts]
  BY DEF TypeOK
<1>5. /\ segments' \in Seq([start : cuts, end : cuts])
      /\ Len(segments') = n + 1
      /\ segments'[n + 1] = seg
      /\ \A k \in 1..n : segments'[k] = segments[k]
  <2> DEFINE R == [start : cuts, end : cuts]
  <2>1. segments \in Seq(R) /\ seg \in R
    BY <1>4 DEF TypeOK
  <2>2. segments' = Append(segments, seg)
    BY <1>2
  <2> HIDE DEF R, seg
  <2>3. segments' \in Seq(R)
    BY <2>1, <2>2
  <2>4. Len(segments') = Len(segments) + 1 /\ segments'[Len(segments) + 1] = seg
    BY <2>1, <2>2
  <2>5. \A k \in 1..Len(segments) : segments'[k] = segments[k]
    BY <2>1, <2>2
  <2> QED BY <2>3, <2>4, <2>5 DEF R
<1>6. seg.start = start /\ seg.end = cursor /\ n \in Nat
  OBVIOUS
<1> HIDE DEF n, seg
<1>7. /\ \A k \in 1..(n + 1) : From(k)' = From(k)
      /\ Next0 = From(n + 1) /\ Next0' = cursor
  <2>1. ASSUME NEW k \in 1..(n + 1) PROVE From(k)' = From(k)
    <3>1. CASE k = 1
      BY <3>1 DEF From
    <3>2. CASE k # 1
      <4>1. k - 1 \in 1..n
        BY <1>6, <3>2
      <4> QED BY <1>5, <4>1, <3>2 DEF From
    <3> QED BY <3>1, <3>2
  <2>2. Next0' = segments'[n + 1].end
    BY <1>5, <1>6 DEF Next0, From
  <2> QED BY <1>5, <1>6, <2>1, <2>2 DEF Next0, n
<1>8. start <= c /\ c <= cursor
  BY <1>1 DEF OverlapFrom
<1>9. start <= Next0 /\ Next0 < cursor /\ \A k \in 1..n : segments[k].start <= start
  BY <1>3 DEF IInv, CoveredOn, Covered, Next0, n
<1>10. TypeOK'
  BY <1>1, <1>2, <1>5, <1>8 DEF TypeOK
<1>11. CoveredOn'
  <2>1. ASSUME NEW k \in 1..(n + 1)
        PROVE  /\ segments'[k].start <= From(k) /\ From(k) < segments'[k].end
               /\ segments'[k].start <= c
               /\ k # 1 => segments'[k - 1].start <= segments'[k].start
    <3>1. CASE k = n + 1
      <4>1. k # 1 => segments'[k - 1].start <= start
        <5>1. k # 1 => k - 1 \in 1..n
          BY <1>6, <3>1
        <5> QED BY <1>5, <1>9, <5>1
      <4> QED BY <1>5, <1>6, <1>7, <1>8, <1>9, <3>1, <4>1
    <3>2. CASE k # n + 1
      <4>1. k \in 1..n /\ (k # 1 => k \in 2..n /\ k - 1 \in 1..n)
        BY <1>6, <3>2
      <4>2. segments[k].start <= From(k) /\ From(k) < segments[k].end
        BY <4>1 DEF IInv, CoveredOn, Covered, n
      <4>3. k # 1 => segments[k - 1].start <= segments[k].start
        BY <4>1 DEF IInv, CoveredOn, Covered, n
      <4>4. segments[k].start <= c
        BY <1>8, <1>9, <4>1, <1>1 DEF n
      <4> QED BY <1>5, <4>1, <4>2, <4>3, <4>4
    <3> QED BY <3>1, <3>2
  <2>2. \A k \in 1..(n + 1) :
          segments'[k].start <= From(k)' /\ From(k)' < segments'[k].end
    BY <1>7, <2>1
  <2>3. \A k \in 2..(n + 1) : segments'[k - 1].start <= segments'[k].start
    BY <1>6, <2>1
  <2>4. From(Len(segments) + 1)' = cursor'
    BY <1>2, <1>7 DEF Next0
  <2>5. Covered'
    BY <1>2, <1>5, <2>2, <2>3, <2>4 DEF Covered
  <2>6. \A k \in 1..(n + 1) : segments'[k].start <= start'
    BY <1>1, <2>1
  <2> QED BY <1>1, <1>2, <1>5, <1>7, <1>8, <2>5, <2>6 DEF CoveredOn
<1>12. OverlapOn'
  <2> DEFINE Ok(prev, first) ==
        /\ Scaled(prev.end - first) >= Threshold(prev.start, prev.end)
        /\ \A d \in cuts :
             first < d /\ d <= prev.end =>
               Scaled(prev.end - d) <= Threshold(prev.start, prev.end)
  <2>1. \A k \in 2..n : Ok(segments[k - 1], segments[k].start)
    BY DEF IInv, OverlapOn, OverlapExact, n
  <2>2. n > 0 => Ok(segments[n], start)
    BY DEF IInv, OverlapOn, n
  <2>3. Ok(seg, c)
    <3>1. start \in Nat /\ cursor \in Nat /\ c \in Nat /\ start <= cursor
      BY DEF TypeOK
    <3>2. Scaled(cursor - c) >= Threshold(start, cursor)
      BY <1>1, <3>1, OverlapNearest DEF OverlapFrom
    <3>3. ASSUME NEW d \in cuts, c < d, d <= cursor
          PROVE  Scaled(cursor - d) <= Threshold(start, cursor)
      <4>1. d \in Nat /\ cursor - d < Target(cursor - start)
        BY <1>1, <3>3 DEF OverlapFrom
      <4> QED BY <3>1, <4>1, OverlapNearest
    <3> QED BY <1>6, <3>2, <3>3
  <2> HIDE DEF Ok
  <2>4. ASSUME NEW k \in 2..(n + 1) PROVE Ok(segments'[k - 1], segments'[k].start)
    <3>1. CASE k = n + 1
      <4>1. k - 1 = n /\ n > 0 /\ n \in 1..n
        BY <1>6, <3>1
      <4> QED BY <1>5, <1>6, <2>2, <3>1, <4>1
    <3>2. CASE k # n + 1
      <4>1. k \in 2..n /\ k \in 1..n /\ k - 1 \in 1..n
        BY <1>6, <3>2
      <4> QED BY <1>5, <2>1, <4>1
    <3> QED BY <3>1, <3>2
  <2>5. Ok(segments'[n + 1], start')
    BY <1>1, <1>5, <2>3
  <2>6. OverlapExact'
    BY <1>2, <1>5, <2>4 DEF Ok, OverlapExact, Scaled, Threshold
  <2> QED BY <1>2, <1>5, <2>5, <2>6 DEF Ok, OverlapOn, Scaled, Threshold
<1>13. OnlyLastShort'
  <2>1. cursor < Length => cursor - start >= MinTokens
    BY <1>2, <1>3, BoundsOrdered DEF Full, Takes
  <2>2. ASSUME NEW k \in 1..(n + 1), segments'[k].end < Length
        PROVE  segments'[k].end - segments'[k].start >= MinTokens
    <3>1. CASE k = n + 1
      BY <1>5, <1>6, <2>1, <2>2, <3>1
    <3>2. CASE k # n + 1
      <4>1. k \in 1..n
        BY <1>6, <3>2
      <4> QED BY <1>5, <2>2, <4>1 DEF IInv, OnlyLastShort, n
    <3> QED BY <3>1, <3>2
  <2> QED BY <1>5, <2>2 DEF OnlyLastShort
<1>14. LongOn'
  <2>1. \A b, e : Unit(b, e)' <=> Unit(b, e)
    BY <1>2 DEF Unit
  <2>2. ASSUME NEW k \in 1..(n + 1), segments'[k].end - segments'[k].start > MaxTokens
        PROVE  \E b \in cuts :
                 /\ Unit(b, segments'[k].end)
                 /\ b = From(k) \/ b - segments'[k].start < MinTokens
    <3>1. CASE k = n + 1
      BY <1>3, <1>5, <1>6, <1>7, <2>2, <3>1 DEF IInv, LongOn
    <3>2. CASE k # n + 1
      <4>1. k \in 1..n
        BY <1>6, <3>2
      <4> QED BY <1>5, <2>2, <4>1 DEF IInv, LongOn, LongByOneUnit, n
    <3> QED BY <3>1, <3>2
  <2>3. LongByOneUnit'
    BY <1>2, <1>5, <1>7, <2>2 DEF LongByOneUnit, Unit
  <2> QED BY <1>2, <2>3 DEF LongOn
<1> QED BY <1>10, <1>11, <1>12, <1>13, <1>14 DEF IInv

-----------------------------------------------------------------------------
(* The theorems *)

\* IInv holds throughout, for every text, bounds and ratio.
THEOREM Invariance == Spec => []IInv
<1>1. Init => IInv
  BY InitInv
<1>2. IInv /\ [Next]_vars => IInv'
  <2> SUFFICES ASSUME IInv, [Next]_vars PROVE IInv'
    OBVIOUS
  <2>1. CASE Take
    BY <2>1, TakeInv
  <2>2. CASE Close
    BY <2>2, CloseInv
  <2>3. CASE UNCHANGED vars
    BY <2>3 DEF vars, IInv, TypeOK, CoveredOn, Covered, Next0, From, OverlapOn,
                OverlapExact, Scaled, Threshold, OnlyLastShort, LongOn,
                LongByOneUnit, Unit
  <2> QED BY <2>1, <2>2, <2>3 DEF Next
<1> QED BY <1>1, <1>2, PTL DEF Spec

\* The chunker's state keeps its types (HybridChunker._assemble_segments).
THEOREM TypeCorrect == Spec => []TypeOK
<1>1. IInv => TypeOK
  BY DEF IInv
<1> QED BY <1>1, Invariance, PTL

\* No token of a text is left out of its segments, and each segment brings
\* some of its own (HybridChunker._assemble_segments).
THEOREM Coverage == Spec => []Covered
<1>1. IInv => Covered
  BY DEF IInv, CoveredOn
<1> QED BY <1>1, Invariance, PTL

\* Neighbours overlap by the ratio, to the nearest token, and by no unit more
\* (HybridChunker._trailing_overlap).
THEOREM Overlap == Spec => []OverlapExact
<1>1. IInv => OverlapExact
  BY DEF IInv, OverlapOn
<1> QED BY <1>1, Invariance, PTL

\* A segment shorter than min_tokens ends the text
\* (HybridChunker._assemble_segments).
THEOREM OnlyLastIsShort == Spec => []OnlyLastShort
<1>1. IInv => OnlyLastShort
  BY DEF IInv
<1> QED BY <1>1, Invariance, PTL

\* A segment longer than max_tokens is so by one unit, which it could not do
\* without (HybridChunker._assemble_segments).
THEOREM Sizes == Spec => []LongByOneUnit
<1>1. IInv => LongByOneUnit
  BY DEF IInv, LongOn
<1> QED BY <1>1, Invariance, PTL
=============================================================================
