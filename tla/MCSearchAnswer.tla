--------------------------- MODULE MCSearchAnswer ---------------------------
(***************************************************************************)
(* An instance of Catalog for TLC: two texts that may be found, each       *)
(* the nearer one to a segment of the query, and one of another tenant     *)
(* that is nearer to both.                                                 *)
(***************************************************************************)
EXTENDS Catalog, TLC

CONSTANTS t1, t2, t3, w

ThreeTexts == {t1, t2, t3}
OneOrder == {0}
TwoDocs == {1, 2}
OneProcess == {w}
Language == {"language"}

NothingFails == [k \in Topologies |-> {}]

Law == <<3, 1>>

\* Words are numbers.
QueryText == [chars |-> 20, guesses |-> <<"es", "pt">>, vector |-> Law, institution |-> {"UNI"},
              words |-> <<1, 2, 3>>]
AQuery == [tenant |-> "a", text |-> QueryText]

Says(words) == [QueryText EXCEPT !.words = words]
Brings(tenant, text, provided) ==
  [tenant |-> tenant, text |-> text, provided |-> provided, chunks |-> [o \in Orders |-> text.words]]

\* A text that holds the query, the query itself, and another tenant's.
ThreeRequests ==
     t1 :> Brings("a", Says(<<4, 1, 2, 3>>), [entity |-> "Uni"])
  @@ t2 :> Brings("a", QueryText, [language |-> "es"])
  @@ t3 :> Brings("b", Says(<<1, 2, 4>>), <<>>)

Seeds == << [domain |-> "law", vectors |-> << <<1, 0>>, <<1, 1>> >>],
            [domain |-> "medicine", vectors |-> << <<0, 1>> >>] >>
Canonical == "UNI" :> "Uni"
LowerCase(name) == IF name \in {"UNI", "Uni"} THEN "uni" ELSE name

Number(s) == IF Len(s) = 1 THEN s[1] ELSE 5 * s[1] + s[2]
Place(p, s) == (Number(s) * (p + 1)) % 17
Bits(s) == {b \in 0..2 : (Number(s) \div 2^b) % 2 = 1}

\* A text is like itself by every measure, and MinHash and SimHash do not tell
\* which of two texts is the query.
Shorts == UNION {[1..n -> 1..2] : n \in 1..4}
ASSUME MeasuresSound ==
  \A a, b \in Shorts :
    LET l == Likeness(a, b)  r == Likeness(b, a)
    IN /\ \A n \in Textual : l[n] \in 0..100 /\ (a = b => l[n] = 100)
       /\ l.minhash = r.minhash /\ l.simhash = r.simhash

TwoSegments ==
  << t1 :> 90 @@ t2 :> 50 @@ t3 :> 99, t1 :> 60 @@ t2 :> 80 @@ t3 :> 99 >>
=============================================================================
