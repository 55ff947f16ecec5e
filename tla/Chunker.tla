------------------------------ MODULE Chunker ------------------------------
(***************************************************************************)
(* HybridChunker.chunk: a text is cut into units (paragraphs; sentences of *)
(* a paragraph that is too long; pieces of a sentence that is too long),   *)
(* and the units are packed in order into overlapping segments.            *)
(*                                                                         *)
(* A text is abstracted to the token positions where its paragraphs and    *)
(* sentences end, and a run of tokens to its two ends: the tokens of a     *)
(* unit are counted the same whether it stands alone or in the text.       *)
(***************************************************************************)
EXTENDS Integers, Sequences

CONSTANTS
  Length,      \* tokens in the text
  MinTokens,
  MaxTokens,
  OverlapNum,  \* overlap_ratio = OverlapNum / OverlapDen
  OverlapDen

ASSUME LengthPositive == Length \in Nat \ {0}
\* The constructor's checks.
ASSUME BoundsOrdered ==
  MinTokens \in Nat \ {0} /\ MaxTokens \in Nat /\ MinTokens < MaxTokens
ASSUME RatioBelowOne == OverlapNum \in Nat /\ OverlapDen \in Nat /\ OverlapNum < OverlapDen

VARIABLES
  cuts,     \* where units begin and end: 0, then the end of each unit
  cursor,   \* global_cursor: where the unit units[index] begins
  start,    \* start_index of the segment being filled
  fresh,    \* first_addition
  segments, \* the spans of the segments so far, in their order
  pc        \* "pack" while the outer loop runs, then "done"

vars == <<cuts, cursor, start, fresh, segments, pc>>

Positions == 0..Length

-----------------------------------------------------------------------------
(* Units *)

Inside(c, p) == p[1] < c /\ c < p[2]

\* The pieces a set of ends divides the text into.
Pieces(ends) ==
  {p \in ({0} \cup ends) \X ends : p[1] < p[2] /\ \A e \in ends : ~Inside(e, p)}

TooLong(p) == p[2] - p[1] > MaxTokens

\* _build_units, _split_paragraph, _hard_split.
Cuts(paragraphs, sentences) ==
  {0} \cup paragraphs
    \cup {c \in sentences : \E p \in Pieces(paragraphs) : Inside(c, p) /\ TooLong(p)}
    \cup {c \in Positions : \E s \in Pieces(sentences) :
            Inside(c, s) /\ (c - s[1]) % MaxTokens = 0}

\* Neighbouring cuts: a unit.
Unit(b, e) == b \in cuts /\ e \in cuts /\ b < e /\ \A c \in cuts : c <= b \/ e <= c

\* A paragraph ends where its last sentence does, the text with both.
Init ==
  /\ \E paragraphs, sentences \in SUBSET Positions :
       /\ paragraphs \subseteq sentences
       /\ 0 \notin sentences /\ Length \in paragraphs
       /\ cuts = Cuts(paragraphs, sentences)
  /\ cursor = 0 /\ start = 0 /\ fresh = TRUE
  /\ segments = <<>> /\ pc = "pack"

-----------------------------------------------------------------------------
(* _assemble_segments: the inner loop is Take, its end Close *)

\* Mistakes: no look at the maximum, or at the minimum, before a unit is taken.
TakesOverflowing(e) == fresh \/ cursor - start < MaxTokens

TakesIfItFits(e) == fresh \/ e - start <= MaxTokens

\* The inner loop goes on with the unit that ends at e.
Takes(e) ==
  \/ fresh
  \/ /\ cursor - start < MaxTokens
     /\ e - start <= MaxTokens \/ cursor - start < MinTokens

\* Mistake: the index is not moved on.
TakeAgain ==
  /\ pc = "pack"
  /\ \E e \in cuts : Unit(cursor, e) /\ Takes(e)
  /\ fresh' = FALSE
  /\ UNCHANGED <<cuts, cursor, start, segments, pc>>

Take ==
  /\ pc = "pack"
  /\ \E e \in cuts : Unit(cursor, e) /\ Takes(e) /\ cursor' = e
  /\ fresh' = FALSE
  /\ UNCHANGED <<cuts, start, segments, pc>>

\* round(): the nearest integer, the even one of two.
Rounded(n, d) ==
  LET q == n \div d
      r == n % d
  IN IF 2 * r < d \/ (2 * r = d /\ q % 2 = 0) THEN q ELSE q + 1

Target(tokens) == Rounded(tokens * OverlapNum, OverlapDen)

\* Mistake: one unit more than the target takes.
OverlapBeyond(c, s, e) ==
  /\ c \in cuts /\ s <= c /\ c <= e
  /\ c = s \/ e - c > Target(e - s)
  /\ \A d \in cuts : c < d /\ d <= e => e - d <= Target(e - s)

\* _trailing_overlap of the segment s..e: its shortest run of last units that
\* has the target's tokens begins at c.
OverlapFrom(c, s, e) ==
  /\ c \in cuts /\ s <= c /\ c <= e
  /\ e - c >= Target(e - s)
  /\ \A d \in cuts : c < d /\ d <= e => e - d < Target(e - s)

\* Nothing is left, or the segment is not to take the next unit.
Full == cursor = Length \/ \E e \in cuts : Unit(cursor, e) /\ ~Takes(e)

\* Mistakes: the unit that did not fit is passed over; a span ends where the
\* next one begins.
CloseSkipping ==
  /\ pc = "pack"
  /\ Full
  /\ segments' = Append(segments, [start |-> start, end |-> cursor])
  /\ \E c \in cuts : OverlapFrom(c, start, cursor) /\ start' = c
  /\ \E e \in cuts : (Unit(cursor, e) \/ (e = cursor /\ e = Length)) /\ cursor' = e
  /\ fresh' = TRUE
  /\ pc' = IF cursor = Length THEN "done" ELSE "pack"
  /\ UNCHANGED cuts

CloseShifted ==
  /\ pc = "pack"
  /\ Full
  /\ segments' = Append(segments, [start |-> start, end |-> cursor + 1])
  /\ \E c \in cuts : OverlapFrom(c, start, cursor) /\ start' = c
  /\ fresh' = TRUE
  /\ pc' = IF cursor = Length THEN "done" ELSE "pack"
  /\ UNCHANGED <<cuts, cursor>>

Close ==
  /\ pc = "pack"
  /\ Full
  /\ segments' = Append(segments, [start |-> start, end |-> cursor])
  /\ \E c \in cuts : OverlapFrom(c, start, cursor) /\ start' = c
  /\ fresh' = TRUE
  /\ pc' = IF cursor = Length THEN "done" ELSE "pack"
  /\ UNCHANGED <<cuts, cursor>>

Next == Take \/ Close

Spec == Init /\ [][Next]_vars
FairSpec == Spec /\ WF_vars(Next)

-----------------------------------------------------------------------------
(* Properties *)

TypeOK ==
  /\ cuts \subseteq Positions /\ {0, Length} \subseteq cuts
  /\ cursor \in cuts /\ start \in cuts /\ start <= cursor
  /\ fresh \in BOOLEAN /\ pc \in {"pack", "done"}
  /\ segments \in Seq([start : cuts, end : cuts])

\* Where the part of segment k that no earlier segment has begins.
From(k) == IF k = 1 THEN 0 ELSE segments[k - 1].end

\* Every token is in some segment, in the text's order: a segment begins
\* within or right after the one before it, never before that one's
\* beginning, and brings tokens of its own.
Covered ==
  /\ \A k \in 1..Len(segments) :
       segments[k].start <= From(k) /\ From(k) < segments[k].end
  /\ \A k \in 2..Len(segments) : segments[k - 1].start <= segments[k].start
  /\ IF fresh THEN From(Len(segments) + 1) = cursor ELSE From(Len(segments) + 1) < cursor
  /\ pc = "done" => cursor = Length /\ fresh

\* Neighbours share at least the overlap ratio of the first, rounded to a token,
\* and without the first unit they share it would be less (RF-05: 20% of overlap).
Scaled(tokens) == 2 * OverlapDen * tokens
Threshold(s, e) == 2 * OverlapNum * (e - s) - OverlapDen

OverlapExact ==
  \A k \in 2..Len(segments) :
    LET prev == segments[k - 1]
        first == segments[k].start
    IN /\ Scaled(prev.end - first) >= Threshold(prev.start, prev.end)
       /\ \A d \in cuts :
            first < d /\ d <= prev.end =>
              Scaled(prev.end - d) <= Threshold(prev.start, prev.end)

\* Only the last segment is shorter than min_tokens.
OnlyLastShort ==
  \A k \in 1..Len(segments) :
    segments[k].end < Length => segments[k].end - segments[k].start >= MinTokens

\* A segment exceeds max_tokens by one unit at most: by the first it brings, on
\* top of the overlap, or by one that the minimum made it take.
LongByOneUnit ==
  \A k \in 1..Len(segments) :
    segments[k].end - segments[k].start > MaxTokens =>
      \E b \in cuts :
        /\ Unit(b, segments[k].end)
        /\ b = From(k) \/ b - segments[k].start < MinTokens

\* chunk() returns.
Terminates == <>(pc = "done")
=============================================================================
