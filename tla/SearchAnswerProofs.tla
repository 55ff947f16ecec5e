------------------------- MODULE SearchAnswerProofs -------------------------
(***************************************************************************)
(* Theorems about SearchAnswer: what a search answers while documents come *)
(* and go under it, for every query, number of segments and TopK, and for  *)
(* every set of texts and documents.                                       *)
(***************************************************************************)
EXTENDS SearchAnswer, IndexingSagaProofs, FiniteSetTheorems, SequenceTheorems

-----------------------------------------------------------------------------
(* The inductive invariant *)

\* A document's row says what its id was drawn for.
DocsAsAsked == \A d \in DOMAIN docs : docs[d] = asked[d]

\* The filter lets through nothing but documents that had a row and match.
FilterHolds ==
  /\ \A d \in wanted : d \in known /\ asked[d] \in Matching
  /\ \A c \in allowed : c.doc \in known /\ asked[c.doc] \in Matching

\* What each call of the search leaves to the ones after it.
CallsInOrder ==
  /\ call \in {"documents", "chunks"} => searched = 0 /\ DOMAIN best = {}
  /\ call = "index" => searched < Cardinality(Segments)
  /\ call = "owners" => searched = Cardinality(Segments)
  /\ call \in {"documents", "chunks", "index", "owners"} => documents = {} /\ matches = {}

\* A document of the answer has no match left to describe.
DescribedOnce ==
  /\ \A r \in documents : r.chunks \subseteq DOMAIN best /\ MatchOf(r.doc) = {}
  /\ \A r, s \in documents : r.doc = s.doc => r = s

\* The signals are those of the whole text that matched.
SignalsWhole ==
  call = "best" /\ found \notin deleting =>
    \E candidate \in Joined(MatchOf(found)) :
      signals = Signals(found, MaxScore(found), candidate)

\* For the segment s, TopK of the other chunks allowed are as near as c.
Outdone(s, c) ==
  Cardinality({e \in allowed \ {c} : Nearness(s, e) >= Nearness(s, c)}) >= TopK

\* What is steady is still there, and on its way into the answer.
SteadyOnItsWay ==
  /\ steady \subseteq Findable
  /\ \A d \in steady :
       /\ call = "chunks" => d \in wanted
       /\ call \in {"index", "owners", "document", "signals", "best"} => Chunks(d) \subseteq allowed
       /\ \A c \in Chunks(d) :
            /\ call \in {"index", "owners"} =>
                 c \in DOMAIN best \/ \A s \in 1..searched : Outdone(s, c)
            /\ call \in {"document", "signals", "best"} =>
                 \/ c \in matches
                 \/ \E r \in documents : r.doc = d /\ c \in r.chunks
                 \/ \A s \in Segments : Outdone(s, c)

SInv ==
  /\ IInv /\ SearchTypeOK
  /\ DocsAsAsked /\ FilterHolds /\ CallsInOrder /\ DescribedOnce
  /\ SignalsWhole /\ WholeUnlessDeleting /\ SteadyOnItsWay /\ SteadyFound
-----------------------------------------------------------------------------
(* Numbers *)

\* A finite set of integers that is not empty has a greatest element.
LEMMA GreatestExists ==
  ASSUME NEW S \in SUBSET Int, IsFiniteSet(S), S # {}
  PROVE  \E m \in S : \A x \in S : m >= x
<1> DEFINE Lacks(A) == A # {} /\ ~ \E m \in A : \A x \in A : m >= x
           Bad == {A \in FiniteSubsetsOf(S) : Lacks(A)}
<1> SUFFICES ASSUME Lacks(S) PROVE FALSE
  OBVIOUS
<1>1. Bad \subseteq FiniteSubsetsOf(S) /\ S \in Bad
  BY FS_FiniteSubsetsOfFinite
<1>2. PICK A \in Bad : \A B \in Bad : ~(<<B, A>> \in StrictSubsetOrdering(S))
  <2> HIDE DEF Bad
  <2> QED  BY <1>1, WFMin, FS_StrictSubsetOrderingWellFounded
<1>3. PICK x \in A : TRUE
  OBVIOUS
<1>4. /\ A \subseteq S /\ IsFiniteSet(A) /\ x \in Int
      /\ A \ {x} \subseteq S /\ IsFiniteSet(A \ {x}) /\ A \ {x} # A
  <2>1. A \subseteq S
    BY FS_FiniteSubsetsOfFinite
  <2>2. IsFiniteSet(A)
    BY <2>1, FS_Subset
  <2>3. IsFiniteSet(A \ {x})
    BY <2>2, FS_RemoveElement
  <2> QED  BY <1>3, <2>1, <2>2, <2>3
<1>5. A \ {x} \in FiniteSubsetsOf(S) /\ <<A \ {x}, A>> \in StrictSubsetOrdering(S)
  BY <1>4, FS_FiniteSubsetsOfFinite DEF StrictSubsetOrdering
<1>6. ~Lacks(A \ {x})
  BY <1>2, <1>5
<1>7. CASE A \ {x} = {}
  BY <1>3, <1>4, <1>7
<1>8. CASE A \ {x} # {}
  <2>1. PICK m \in A \ {x} : \A y \in A \ {x} : m >= y
    BY <1>6, <1>8
  <2>2. (m >= x => \A y \in A : m >= y) /\ (x >= m => \A y \in A : x >= y)
    BY <1>4, <2>1
  <2>3. m \in Int
    BY <1>4
  <2> QED  BY <1>4, <2>1, <2>2, <2>3
<1> QED  BY <1>7, <1>8

LEMMA LeastExists ==
  ASSUME NEW S \in SUBSET Int, IsFiniteSet(S), S # {}
  PROVE  \E m \in S : \A x \in S : m <= x
<1> DEFINE T == {0 - x : x \in S}
           f == [x \in S |-> 0 - x]
<1>1. f \in Surjection(S, T)
  BY DEF Surjection
<1>2. IsFiniteSet(T)
  <2> HIDE DEF f, T
  <2> QED  BY <1>1, FS_Surjection
<1>3. T \in SUBSET Int /\ T # {}
  <2>1. \A x \in S : 0 - x \in Int
    OBVIOUS
  <2> QED  BY <2>1
<1>4. PICK n \in T : \A y \in T : n >= y
  <2> HIDE DEF T
  <2> QED  BY <1>2, <1>3, GreatestExists
<1>5. PICK m \in S : n = 0 - m
  OBVIOUS
<1>6. \A x \in S : 0 - m >= 0 - x
  BY <1>4, <1>5
<1>7. \A x \in S : m <= x
  BY <1>6
<1> QED  BY <1>7

-----------------------------------------------------------------------------
(* The score is a mean *)

\* A quotient rounded to the nearest stays between whole bounds of the quotient.
LEMMA RoundedBetween ==
  ASSUME NEW n \in Nat, NEW d \in Nat \ {0}, NEW low \in Nat, NEW high \in Nat,
         low * d <= Unit * n, Unit * n <= high * d
  PROVE  Rounded(n, d) \in Nat /\ low <= Rounded(n, d) /\ Rounded(n, d) <= high
<1> DEFINE m == Unit * n
           q == (2 * m + d) \div (2 * d)
           r == (2 * m + d) % (2 * d)
<1>1. m \in Nat /\ low * d <= m /\ m <= high * d /\ Rounded(n, d) = (2 * m + d) \div (2 * d)
  BY DEF Unit, Rounded
<1> HIDE DEF m
<1>2. 2 * m + d \in Nat /\ 2 * d \in Nat \ {0}
  BY <1>1
<1>3. q \in Nat /\ r \in Nat /\ r < 2 * d /\ 2 * m + d = q * (2 * d) + r
  BY <1>2
<1> HIDE DEF q, r
<1>4. q * (2 * d) = 2 * (q * d) /\ q * d \in Nat
  BY <1>3
<1>5. ASSUME q < low PROVE FALSE
  <2>1. q + 1 <= low
    BY <1>3, <1>5
  <2>2. (q + 1) * d <= low * d /\ (q + 1) * d = q * d + d
    BY <1>3, <2>1
  <2> QED  BY <1>1, <1>3, <1>4, <2>2
<1>6. ASSUME high < q PROVE FALSE
  <2>1. high + 1 <= q
    BY <1>3, <1>6
  <2>2. (high + 1) * d <= q * d /\ (high + 1) * d = high * d + d
    BY <1>3, <2>1
  <2> QED  BY <1>1, <1>3, <1>4, <2>2
<1>7. q = Rounded(n, d)
  BY <1>1 DEF q
<1> QED  BY <1>3, <1>5, <1>6, <1>7

\* Each signal's share of the sum, with its weight.
LEMMA WeightsType ==
  ASSUME NEW s, RerankSignals(s), NEW n \in SignalNames
  PROVE  /\ Weights(s)[n] \in Nat /\ Weighted(s)[n] \in Nat
         /\ n \in DOMAIN s => Weights(s)[n] # 0
         /\ n \in DOMAIN s => Weighted(s)[n] = Weights(s)[n] * s[n] /\ s[n] \in 0..100
         /\ n \notin DOMAIN s => Weights(s)[n] = 0 /\ Weighted(s)[n] = 0
<1>1. SOTA_WEIGHTS[n] \in Nat \ {0}
  BY DEF SOTA_WEIGHTS, SignalNames, Textual
<1>2. CASE n \in DOMAIN s
  <2>1. s[n] \in 0..100
    BY <1>2 DEF RerankSignals
  <2>2. SOTA_WEIGHTS[n] * s[n] \in Nat
    BY <1>1, <2>1
  <2> QED  BY <1>1, <1>2, <2>1, <2>2 DEF Weights, Weighted
<1>3. CASE n \notin DOMAIN s
  BY <1>3 DEF Weights, Weighted
<1> QED  BY <1>2, <1>3

LEMMA TotalsType ==
  ASSUME NEW s, RerankSignals(s)
  PROVE  /\ Total(Weights(s)) \in Nat /\ Total(Weighted(s)) \in Nat
         /\ DOMAIN s # {} => Total(Weights(s)) # 0
<1> DEFINE w(n) == Weights(s)[n]
           x(n) == Weighted(s)[n]
<1>1. \A n \in SignalNames :
        w(n) \in Nat /\ x(n) \in Nat /\ (n \in DOMAIN s => w(n) # 0)
  BY WeightsType
<1>2. /\ Total(Weights(s)) = w("embedding") + w("topic") + w("language") + w("minhash")
                               + w("simhash") + w("entity") + w("exact")
      /\ Total(Weighted(s)) = x("embedding") + x("topic") + x("language") + x("minhash")
                               + x("simhash") + x("entity") + x("exact")
  BY DEF Total
<1> HIDE DEF w, x
<1>3. /\ w("embedding") \in Nat /\ w("topic") \in Nat /\ w("language") \in Nat
      /\ w("minhash") \in Nat /\ w("simhash") \in Nat /\ w("entity") \in Nat /\ w("exact") \in Nat
      /\ x("embedding") \in Nat /\ x("topic") \in Nat /\ x("language") \in Nat
      /\ x("minhash") \in Nat /\ x("simhash") \in Nat /\ x("entity") \in Nat /\ x("exact") \in Nat
  BY <1>1 DEF SignalNames, Textual
<1>4. ASSUME NEW n \in DOMAIN s PROVE n \in SignalNames /\ w(n) # 0
  BY <1>1 DEF RerankSignals
<1>5. DOMAIN s # {} => Total(Weights(s)) # 0
  <2>1. Total(Weights(s)) = 0 =>
          /\ w("embedding") = 0 /\ w("topic") = 0 /\ w("language") = 0
          /\ w("minhash") = 0 /\ w("simhash") = 0 /\ w("entity") = 0 /\ w("exact") = 0
    BY <1>2, <1>3
  <2>2. Total(Weights(s)) = 0 => \A n \in SignalNames : w(n) = 0
    BY <2>1 DEF SignalNames, Textual
  <2> QED  BY <1>4, <2>2
<1> QED  BY <1>2, <1>3, <1>5

\* Bounds of the signals are bounds of their weighted sum.
LEMMA SumBetween ==
  ASSUME NEW s, RerankSignals(s), NEW low \in Nat, NEW high \in Nat
  PROVE  /\ (\A n \in DOMAIN s : low <= Unit * s[n])
               => low * Total(Weights(s)) <= Unit * Total(Weighted(s))
         /\ (\A n \in DOMAIN s : Unit * s[n] <= high)
               => Unit * Total(Weighted(s)) <= high * Total(Weights(s))
<1> DEFINE w(n) == Weights(s)[n]
           x(n) == Weighted(s)[n]
<1>1. ASSUME NEW n \in SignalNames
      PROVE  /\ w(n) \in Nat /\ x(n) \in Nat
             /\ n \in DOMAIN s => x(n) = w(n) * s[n] /\ s[n] \in 0..100
             /\ n \notin DOMAIN s => w(n) = 0 /\ x(n) = 0
  BY WeightsType
<1>2. /\ Total(Weights(s)) = w("embedding") + w("topic") + w("language") + w("minhash")
                               + w("simhash") + w("entity") + w("exact")
      /\ Total(Weighted(s)) = x("embedding") + x("topic") + x("language") + x("minhash")
                               + x("simhash") + x("entity") + x("exact")
  BY DEF Total
<1> HIDE DEF w, x
<1>3. ASSUME \A n \in DOMAIN s : low <= Unit * s[n], NEW n \in SignalNames
      PROVE  low * w(n) <= Unit * x(n)
  <2>1. CASE n \in DOMAIN s
    <3> DEFINE u == Unit * s[n]
    <3>1. low <= u /\ u \in Nat /\ w(n) \in Nat /\ Unit * x(n) = w(n) * u
      BY <1>1, <1>3, <2>1 DEF Unit
    <3> HIDE DEF u
    <3>2. low * w(n) <= w(n) * u
      BY <3>1
    <3> QED  BY <3>1, <3>2
  <2>2. CASE n \notin DOMAIN s
    BY <1>1, <2>2 DEF Unit
  <2> QED  BY <2>1, <2>2
<1>4. ASSUME \A n \in DOMAIN s : Unit * s[n] <= high, NEW n \in SignalNames
      PROVE  Unit * x(n) <= high * w(n)
  <2>1. CASE n \in DOMAIN s
    <3> DEFINE u == Unit * s[n]
    <3>1. u <= high /\ u \in Nat /\ w(n) \in Nat /\ Unit * x(n) = w(n) * u
      BY <1>1, <1>4, <2>1 DEF Unit
    <3> HIDE DEF u
    <3>2. w(n) * u <= high * w(n)
      BY <3>1
    <3> QED  BY <3>1, <3>2
  <2>2. CASE n \notin DOMAIN s
    BY <1>1, <2>2 DEF Unit
  <2> QED  BY <2>1, <2>2
<1>5. /\ w("embedding") \in Nat /\ w("topic") \in Nat /\ w("language") \in Nat
      /\ w("minhash") \in Nat /\ w("simhash") \in Nat /\ w("entity") \in Nat /\ w("exact") \in Nat
      /\ x("embedding") \in Nat /\ x("topic") \in Nat /\ x("language") \in Nat
      /\ x("minhash") \in Nat /\ x("simhash") \in Nat /\ x("entity") \in Nat /\ x("exact") \in Nat
  BY <1>1 DEF SignalNames, Textual
<1>6. ASSUME \A n \in DOMAIN s : low <= Unit * s[n]
      PROVE  low * Total(Weights(s)) <= Unit * Total(Weighted(s))
  <2>1. \A n \in SignalNames : low * w(n) <= Unit * x(n)
    BY <1>3, <1>6
  <2>2. /\ low * w("embedding") <= Unit * x("embedding") /\ low * w("topic") <= Unit * x("topic")
        /\ low * w("language") <= Unit * x("language") /\ low * w("minhash") <= Unit * x("minhash")
        /\ low * w("simhash") <= Unit * x("simhash") /\ low * w("entity") <= Unit * x("entity")
        /\ low * w("exact") <= Unit * x("exact")
    BY <2>1 DEF SignalNames, Textual
  <2> QED  BY <1>2, <1>5, <2>2 DEF Unit
<1>7. ASSUME \A n \in DOMAIN s : Unit * s[n] <= high
      PROVE  Unit * Total(Weighted(s)) <= high * Total(Weights(s))
  <2>1. \A n \in SignalNames : Unit * x(n) <= high * w(n)
    BY <1>4, <1>7
  <2>2. /\ Unit * x("embedding") <= high * w("embedding") /\ Unit * x("topic") <= high * w("topic")
        /\ Unit * x("language") <= high * w("language") /\ Unit * x("minhash") <= high * w("minhash")
        /\ Unit * x("simhash") <= high * w("simhash") /\ Unit * x("entity") <= high * w("entity")
        /\ Unit * x("exact") <= high * w("exact")
    BY <2>1 DEF SignalNames, Textual
  <2> QED  BY <1>2, <1>5, <2>2 DEF Unit
<1> QED  BY <1>6, <1>7

\* A missing signal neither caps the score nor lifts it: whatever the weights
\* that are left, it stays between the least and the greatest signal.
LEMMA ScoreBetween ==
  ASSUME NEW s, RerankSignals(s)
  PROVE  Between(s) /\ Score(s) \in 0..100 * Unit
<1>1. ASSUME DOMAIN s # {}, NEW low \in Nat, NEW high \in Nat
      PROVE  /\ (\A n \in DOMAIN s : low <= Unit * s[n] /\ Unit * s[n] <= high)
                   => Score(s) \in Nat /\ low <= Score(s) /\ Score(s) <= high
  BY <1>1, SumBetween, TotalsType, RoundedBetween DEF Score
<1>2. \A n \in DOMAIN s : s[n] \in 0..100 /\ 0 <= Unit * s[n] /\ Unit * s[n] <= 100 * Unit
                           /\ Unit * s[n] \in Nat
  BY DEF RerankSignals, Unit
<1>3. 100 * Unit \in Nat
  BY DEF Unit
<1>4. DOMAIN s # {} => Score(s) \in Nat /\ Score(s) <= 100 * Unit
  BY <1>1, <1>2, <1>3
<1>5. ASSUME DOMAIN s # {}, \A n \in DOMAIN s : ~(Unit * s[n] <= Score(s)) PROVE FALSE
  <2>1. \A n \in DOMAIN s : Score(s) + 1 <= Unit * s[n] /\ Unit * s[n] <= 100 * Unit
    BY <1>2, <1>4, <1>5
  <2>2. Score(s) + 1 <= Score(s)
    BY <1>1, <1>3, <1>4, <1>5, <2>1
  <2> QED  BY <1>4, <1>5, <2>2
<1>6. ASSUME DOMAIN s # {}, \A n \in DOMAIN s : ~(Score(s) <= Unit * s[n]) PROVE FALSE
  <2>1. Score(s) # 0
    BY <1>2, <1>6
  <2>2. Score(s) - 1 \in Nat /\ \A n \in DOMAIN s : 0 <= Unit * s[n] /\ Unit * s[n] <= Score(s) - 1
    BY <1>2, <1>4, <1>6, <2>1
  <2>3. Score(s) <= Score(s) - 1
    BY <1>1, <1>6, <2>2
  <2> QED  BY <1>4, <1>6, <2>3
<1>7. DOMAIN s = {} => Score(s) = 0
  BY DEF Score
<1>8. Between(s)
  BY <1>5, <1>6 DEF Between
<1>9. Score(s) \in 0..100 * Unit
  <2>1. CASE DOMAIN s = {}
    <3>1. 0 \in 0..100 * Unit
      BY <1>3
    <3> QED  BY <1>7, <2>1, <3>1
  <2>2. CASE DOMAIN s # {}
    BY <1>3, <1>4, <2>2
  <2> QED  BY <2>1, <2>2
<1> QED  BY <1>8, <1>9

-----------------------------------------------------------------------------
(* The measures and the signals *)

LEMMA ShareInRange ==
  ASSUME NEW part \in Nat, NEW of \in Nat \ {0}, part <= of
  PROVE  Share(part, of) \in 0..100
<1> DEFINE q == (100 * part) \div of
           r == (100 * part) % of
<1>1. 100 * part \in Nat /\ 100 * part <= 100 * of
  OBVIOUS
<1>2. q \in Nat /\ r \in Nat /\ 100 * part = q * of + r
  BY <1>1
<1> HIDE DEF q, r
<1>3. ASSUME 100 < q PROVE FALSE
  <2>1. 101 <= q
    BY <1>2, <1>3
  <2>2. 101 * of <= q * of
    BY <1>2, <2>1
  <2> QED  BY <1>1, <1>2, <2>2
<1>4. Share(part, of) = q
  BY DEF Share, q
<1> QED  BY <1>2, <1>3, <1>4

\* Some of a finite set, as a share of it.
LEMMA ShareOfSet ==
  ASSUME NEW S, IsFiniteSet(S), NEW T \in SUBSET S, NEW n, n = Cardinality(S), n # 0
  PROVE  Share(Cardinality(T), n) \in 0..100
BY FS_CardinalityType, FS_Subset, ShareInRange

\* A query that has words has shingles, and not infinitely many.
LEMMA ShinglesOfQuery ==
  LET words == SearchRequest.text.words
      shingles == word_shingles(words, NGRAM_SIZE)
  IN IsFiniteSet(shingles) /\ (words # <<>> => shingles # {})
<1> DEFINE words == SearchRequest.text.words
           shingles == word_shingles(words, NGRAM_SIZE)
           D == 1..(Len(words) - NGRAM_SIZE + 1)
           Runs == {SubSeq(words, i, i + NGRAM_SIZE - 1) : i \in D}
           Short == IF Len(words) \in 1..(NGRAM_SIZE - 1) THEN {words} ELSE {}
<1>1. Len(words) \in Nat /\ (words # <<>> => Len(words) # 0)
  BY WordsInOrder, EmptySeq
<1>2. NGRAM_SIZE \in Nat \ {0}
  BY SizesPositive
<1> HIDE DEF words
<1>3. shingles = Runs \cup Short
  BY DEF word_shingles
<1>4. IsFiniteSet(D)
  BY <1>1, <1>2, FS_Interval
<1>5. IsFiniteSet(Runs)
  <2> DEFINE f == [i \in D |-> SubSeq(words, i, i + NGRAM_SIZE - 1)]
  <2>1. f \in Surjection(D, Runs)
    BY DEF Surjection
  <2> HIDE DEF D, Runs, f
  <2> QED  BY <1>4, <2>1, FS_Surjection
<1>6. IsFiniteSet(Short)
  BY FS_EmptySet, FS_Singleton
<1>7. IsFiniteSet(shingles)
  <2> HIDE DEF shingles, Runs, Short
  <2> QED  BY <1>3, <1>5, <1>6, FS_Union
<1>8. ASSUME Len(words) # 0 PROVE shingles # {}
  <2>1. 1 \in D \/ Len(words) \in 1..(NGRAM_SIZE - 1)
    BY <1>1, <1>2, <1>8
  <2>2. 1 \in D => Runs # {}
    OBVIOUS
  <2> QED  BY <1>3, <2>1, <2>2
<1> HIDE DEF shingles
<1> QED  BY <1>1, <1>7, <1>8 DEF words, shingles

\* Every measure is a share, whatever the text a document's chunks make up.
LEMMA LikenessInRange ==
  ASSUME NEW candidate
  PROVE  LET likeness == Likeness(SearchRequest.text.words, candidate)
         IN DOMAIN likeness \subseteq Textual /\ \A n \in DOMAIN likeness : likeness[n] \in 0..100
<1> DEFINE words == SearchRequest.text.words
<1>1. Len(words) \in Nat
  BY WordsInOrder
<1> HIDE DEF words
<1>2. exact_ngram_overlap(words, candidate) \in 0..100
  <2> DEFINE shingles == word_shingles(words, NGRAM_SIZE)
  <2>1. IsFiniteSet(shingles)
    BY ShinglesOfQuery DEF words
  <2>2. shingles # {} => Cardinality(shingles) # 0
    BY <2>1, FS_EmptySet
  <2>3. exact_ngram_overlap(words, candidate) =
          IF shingles = {} THEN 0
          ELSE Share(Cardinality(shingles \cap word_shingles(candidate, NGRAM_SIZE)), Cardinality(shingles))
    BY DEF exact_ngram_overlap
  <2> HIDE DEF shingles
  <2> QED  BY <2>1, <2>2, <2>3, ShareOfSet
<1>3. minhash_similarity(words, candidate) \in 0..100
  <2>1. IsFiniteSet(1..NUM_PERM) /\ Cardinality(1..NUM_PERM) = NUM_PERM /\ NUM_PERM # 0
    BY SizesPositive, FS_Interval
  <2>2. \E T \in SUBSET (1..NUM_PERM) :
          minhash_similarity(words, candidate) \in {0, Share(Cardinality(T), NUM_PERM)}
    BY DEF minhash_similarity
  <2>3. \A T \in SUBSET (1..NUM_PERM) : Share(Cardinality(T), NUM_PERM) \in 0..100
    BY <2>1, ShareOfSet
  <2>4. 0 \in 0..100
    OBVIOUS
  <2> QED  BY <2>2, <2>3, <2>4
<1>4. simhash_similarity(words, candidate) \in 0..100
  <2> DEFINE differing ==
        (simhash(words) \ simhash(candidate)) \cup (simhash(candidate) \ simhash(words))
  <2>0. BITS \in Nat \ {0} /\ 0 \in Int /\ BITS-1 \in Int /\ ~ (0 > BITS-1)
    BY SizesPositive
  <2>1. IsFiniteSet(0..BITS-1) /\ Cardinality(0..BITS-1) = BITS
    <3>1. Cardinality(0..BITS-1) = (BITS-1) - 0 + 1 /\ IsFiniteSet(0..BITS-1)
      BY <2>0, FS_Interval
    <3> QED  BY <2>0, <3>1
  <2>2. differing \in SUBSET (0..BITS-1)
    BY DEF simhash
  <2>3. simhash_similarity(words, candidate) = Share(BITS - Cardinality(differing), BITS)
    BY DEF simhash_similarity
  <2> HIDE DEF differing
  <2>4. Cardinality(differing) \in Nat /\ Cardinality(differing) <= BITS
    BY <2>1, <2>2, FS_Subset, FS_CardinalityType
  <2>5. BITS - Cardinality(differing) \in Nat /\ BITS - Cardinality(differing) <= BITS
    BY <2>0, <2>4
  <2> QED  BY <2>0, <2>3, <2>5, ShareInRange
<1>5. Likeness(words, candidate) =
        IF candidate = <<>> THEN <<>>
        ELSE [minhash |-> minhash_similarity(words, candidate),
              simhash |-> simhash_similarity(words, candidate),
              exact |-> exact_ngram_overlap(words, candidate)]
  BY DEF Likeness
<1>6. /\ DOMAIN Likeness(words, candidate) \subseteq Textual
      /\ \A n \in DOMAIN Likeness(words, candidate) : Likeness(words, candidate)[n] \in 0..100
  <2>1. CASE candidate = <<>>
    BY <1>5, <2>1
  <2>2. CASE candidate # <<>>
    <3> DEFINE l == Likeness(words, candidate)
    <3>1. /\ DOMAIN l = {"minhash", "simhash", "exact"}
          /\ l["minhash"] = minhash_similarity(words, candidate)
          /\ l["simhash"] = simhash_similarity(words, candidate)
          /\ l["exact"] = exact_ngram_overlap(words, candidate)
      BY <1>5, <2>2
    <3> HIDE DEF l
    <3>2. \A n \in DOMAIN l : l[n] \in 0..100
      BY <1>2, <1>3, <1>4, <3>1
    <3> QED  BY <3>1, <3>2 DEF Textual, l
  <2> QED  BY <2>1, <2>2
<1> QED  BY <1>6 DEF words

LEMMA FactsOfDocuments ==
  ASSUME NEW t \in Texts
  PROVE  DOMAIN About[t].facts \subseteq SignalNames \ ({"embedding"} \cup Textual)
<1>1. DOMAIN IndexCommands[t].provided \subseteq {"language", "topic", "entity"}
  BY RequestsValid DEF IndexRequest
<1>2. About[t].facts = DocumentFacts(IndexCommands[t].text, IndexCommands[t].provided)
  BY DEF About
<1> QED  BY <1>1, <1>2 DEF DocumentFacts, Detected, SignalNames, Textual

\* Whatever matched, each signal is a share.
LEMMA SignalsInRange ==
  ASSUME NEW d, asked[d] \in Texts, NEW m \in 0..100, NEW candidate
  PROVE  RerankSignals(Signals(d, m, candidate))
<1> DEFINE likeness == Likeness(SearchRequest.text.words, candidate)
           facts == About[asked[d]].facts
           known2 == Query.facts
<1>1. DOMAIN likeness \subseteq Textual /\ \A n \in DOMAIN likeness : likeness[n] \in 0..100
  BY LikenessInRange
<1>2. DOMAIN facts \subseteq SignalNames \ ({"embedding"} \cup Textual)
  BY FactsOfDocuments
<1>3. Signals(d, m, candidate) = compute_signals(m, known2, facts, likeness)
  BY DEF Signals
<1> HIDE DEF likeness, facts, known2
<1>4. \A a, b : categorical_match(a, b) \in 0..100
  BY DEF categorical_match
<1> HIDE DEF categorical_match
<1> QED  BY <1>1, <1>2, <1>3, <1>4 DEF compute_signals, Comparable, RerankSignals, SignalNames, Textual

LEMMA SegmentsCounted == Cardinality(Segments) \in Nat \ {0} /\ Segments = 1..Cardinality(Segments)
BY CosineOfTexts, FS_CardinalityType, FS_EmptySet

-----------------------------------------------------------------------------
(* Texts put together *)

\* All the words there are.
Vocabulary ==
  UNION {{words[i] : i \in DOMAIN words} :
           words \in {SearchRequest.text.words} \cup {IndexCommands[t].chunks[o] : t \in Texts, o \in Orders}}

LEMMA TextsOfWords ==
  /\ SearchRequest.text.words \in Seq(Vocabulary)
  /\ \A t \in Texts, o \in Orders :
       IndexCommands[t].chunks[o] \in Seq(Vocabulary) /\ IndexCommands[t].chunks[o] # <<>>
<1>1. ASSUME NEW words \in {SearchRequest.text.words} \cup {IndexCommands[t].chunks[o] : t \in Texts, o \in Orders}
      PROVE  words \in Seq(Vocabulary)
  <2>1. {words[i] : i \in DOMAIN words} \subseteq Vocabulary
    BY DEF Vocabulary
  <2>2. words \in Seq({words[i] : i \in DOMAIN words})
    BY WordsInOrder
  <2> QED  BY <2>1, <2>2, SeqMonotonic
<1>2. \A t \in Texts, o \in Orders : IndexCommands[t].chunks[o] # <<>>
  BY RequestsValid DEF IndexRequest
<1> QED  BY <1>1, <1>2

\* The words of `part' are those of `text' after the first `off'.
HoldsAfter(text, part, off) ==
  off + Len(part) <= Len(text) /\ \A j \in 1..Len(part) : text[off + j] = part[j]

LEMMA HoldsByWords ==
  ASSUME NEW V, NEW text \in Seq(V), NEW part \in Seq(V)
  PROVE  Holds(text, part) <=> \E off \in Nat : HoldsAfter(text, part, off)
<1>1. /\ Len(text) \in Nat /\ Len(part) \in Nat
      /\ \A i \in 1..Len(text) : text[i] \in V
  OBVIOUS
<1>2. ASSUME NEW i \in 1..(Len(text) - Len(part) + 1)
      PROVE  LET s == SubSeq(text, i, i + Len(part) - 1)
             IN s \in Seq(V) /\ Len(s) = Len(part) /\ \A j \in 1..Len(part) : s[j] = text[i + j - 1]
  <2>1. i \in Int /\ i + Len(part) - 1 \in Int /\ \A j \in i..(i + Len(part) - 1) : text[j] \in V
    BY <1>1
  <2>2. (i + Len(part) - 1) - i + 1 = Len(part)
    BY <1>1, <2>1
  <2>3. IF i <= i + Len(part) - 1 THEN TRUE ELSE Len(part) = 0
    BY <1>1, <2>1
  <2> QED  BY <2>1, <2>2, <2>3, SubSeqProperties
<1>3. ASSUME Holds(text, part) PROVE \E off \in Nat : HoldsAfter(text, part, off)
  <2>1. PICK i \in 1..(Len(text) - Len(part) + 1) : SubSeq(text, i, i + Len(part) - 1) = part
    BY <1>3 DEF Holds
  <2>2. i - 1 \in Nat /\ (i - 1) + Len(part) <= Len(text)
    BY <1>1
  <2>3. \A j \in 1..Len(part) : text[i + j - 1] = part[j] /\ i + j - 1 = (i - 1) + j
    BY <1>1, <1>2, <2>1
  <2>4. HoldsAfter(text, part, i - 1)
    BY <2>2, <2>3 DEF HoldsAfter
  <2> QED  BY <2>2, <2>4
<1>4. ASSUME NEW off \in Nat, HoldsAfter(text, part, off) PROVE Holds(text, part)
  <2>1. off + 1 \in 1..(Len(text) - Len(part) + 1)
    BY <1>1, <1>4 DEF HoldsAfter
  <2> DEFINE s == SubSeq(text, off + 1, (off + 1) + Len(part) - 1)
  <2>2. s \in Seq(V) /\ Len(s) = Len(part) /\ \A j \in 1..Len(part) : s[j] = text[(off + 1) + j - 1]
    BY <1>2, <2>1
  <2>3. \A j \in 1..Len(part) : (off + 1) + j - 1 = off + j /\ text[off + j] = part[j]
    BY <1>1, <1>4 DEF HoldsAfter
  <2> HIDE DEF s
  <2>4. s = part
    BY <2>2, <2>3, SeqEqual
  <2> QED  BY <2>1, <2>4 DEF Holds, s
<1> QED  BY <1>3, <1>4

\* Two texts one after the other hold what either holds.
LEMMA HeldByBoth ==
  ASSUME NEW V, NEW first \in Seq(V), NEW second \in Seq(V), NEW part \in Seq(V),
         Holds(first, part) \/ Holds(second, part)
  PROVE  Holds(first \o second, part)
<1>1. /\ first \o second \in Seq(V) /\ Len(first \o second) = Len(first) + Len(second)
      /\ Len(first) \in Nat /\ Len(second) \in Nat /\ Len(part) \in Nat
      /\ \A i \in 1 .. Len(first) + Len(second) :
           (first \o second)[i] = IF i <= Len(first) THEN first[i] ELSE second[i - Len(first)]
  BY ConcatProperties
<1>2. CASE Holds(first, part)
  <2>1. PICK off \in Nat : HoldsAfter(first, part, off)
    BY <1>2, HoldsByWords
  <2>2. HoldsAfter(first \o second, part, off)
    BY <1>1, <2>1 DEF HoldsAfter
  <2> QED  BY <1>1, <2>2, HoldsByWords
<1>3. CASE Holds(second, part)
  <2>1. PICK off \in Nat : HoldsAfter(second, part, off)
    BY <1>3, HoldsByWords
  <2>2. HoldsAfter(first \o second, part, Len(first) + off)
    <3>1. (Len(first) + off) + Len(part) <= Len(first \o second)
      BY <1>1, <2>1 DEF HoldsAfter
    <3>2. ASSUME NEW j \in 1..Len(part) PROVE (first \o second)[(Len(first) + off) + j] = part[j]
      <4>1. second[off + j] = part[j] /\ off + j <= Len(second) /\ off + j > 0 /\ off + j \in Int
        BY <1>1, <2>1 DEF HoldsAfter
      <4>2. /\ (Len(first) + off) + j \in 1 .. Len(first) + Len(second)
            /\ ~((Len(first) + off) + j <= Len(first))
            /\ ((Len(first) + off) + j) - Len(first) = off + j
        BY <1>1, <4>1
      <4> QED  BY <1>1, <4>1, <4>2
    <3> QED  BY <3>1, <3>2 DEF HoldsAfter
  <2>3. Len(first) + off \in Nat
    BY <1>1
  <2> QED  BY <1>1, <2>2, <2>3, HoldsByWords
<1> QED  BY <1>2, <1>3

\* What FlattenSeq computes, text by text.
Joins(f, texts, n) ==
  f = [i \in 1..n |-> IF i = 1 THEN texts[i] ELSE f[i - 1] \o texts[i]]

LEMMA JoinsExist ==
  ASSUME NEW texts, NEW n \in Nat
  PROVE  \E f : Joins(f, texts, n)
<1> DEFINE Bad == {k \in 0..n : ~ \E f : Joins(f, texts, k)}
<1> SUFFICES ASSUME n \in Bad PROVE FALSE
  OBVIOUS
<1>1. PICK k \in Bad : \A x \in Bad : k <= x
  <2>1. 0 \in Int /\ n \in Int
    OBVIOUS
  <2>2. IsFiniteSet(0..n)
    BY <2>1, FS_Interval
  <2>3. Bad \in SUBSET (0..n) /\ Bad \subseteq Int /\ Bad # {}
    OBVIOUS
  <2> HIDE DEF Bad
  <2>4. IsFiniteSet(Bad)
    BY <2>2, <2>3, FS_Subset
  <2> QED  BY <2>3, <2>4, LeastExists
<1>2. k \in Nat /\ k <= n
  OBVIOUS
<1>3. CASE k = 0
  <2>1. Joins([i \in 1..0 |-> texts[i]], texts, 0)
    BY DEF Joins
  <2> QED  BY <1>3, <2>1
<1>4. CASE k # 0
  <2>1. k - 1 \in 0..n /\ ~(k <= k - 1) /\ k \in Nat \ {0}
    BY <1>2, <1>4
  <2>2. PICK g : Joins(g, texts, k - 1)
    BY <1>1, <2>1
  <2> DEFINE f == [i \in 1..k |-> IF i = 1 THEN texts[i] ELSE g[i - 1] \o texts[i]]
  <2>3. ASSUME NEW i \in 1..k, i # 1 PROVE f[i - 1] = g[i - 1]
    <3>1. i - 1 \in 1..(k - 1) /\ i - 1 \in 1..k
      BY <2>1, <2>3
    <3>2. g[i - 1] = IF i - 1 = 1 THEN texts[i - 1] ELSE g[(i - 1) - 1] \o texts[i - 1]
      BY <2>2, <3>1 DEF Joins
    <3> QED  BY <3>1, <3>2
  <2>4. Joins(f, texts, k)
    BY <2>3 DEF Joins
  <2> QED  BY <2>4
<1> QED  BY <1>3, <1>4

\* The whole holds what any of its texts holds.
LEMMA FlattenHolds ==
  ASSUME NEW V, NEW texts, NEW n \in Nat \ {0}, Len(texts) = n,
         \A i \in 1..n : texts[i] \in Seq(V)
  PROVE  /\ Seqs!FlattenSeq(texts) \in Seq(V)
         /\ n = 1 => Seqs!FlattenSeq(texts) = texts[1]
         /\ \A k \in 1..n, part \in Seq(V) :
              Holds(texts[k], part) => Holds(Seqs!FlattenSeq(texts), part)
<1> DEFINE f == CHOOSE f : f = [i \in 1..Len(texts) |-> IF i = 1 THEN texts[i] ELSE f[i - 1] \o texts[i]]
<1>1. Seqs!FlattenSeq(texts) = f[n] /\ Joins(f, texts, n)
  <2>1. Seqs!FlattenSeq(texts) = f[n]
    BY DEF Seqs!FlattenSeq
  <2>2. Joins(f, texts, n)
    BY JoinsExist DEF Joins
  <2> QED  BY <2>1, <2>2
<1> HIDE DEF f
<1>2. /\ 1 \in 1..n /\ n \in 1..n /\ f[1] = texts[1]
      /\ \A i \in 1..n : i # 1 => i - 1 \in 1..n /\ f[i] = f[i - 1] \o texts[i] /\ ~(i <= i - 1)
  <2>1. \A i \in 1..n : f[i] = IF i = 1 THEN texts[i] ELSE f[i - 1] \o texts[i]
    BY <1>1 DEF Joins
  <2>2. 1 \in 1..n /\ n \in 1..n /\ \A i \in 1..n : i # 1 => i - 1 \in 1..n /\ ~(i <= i - 1)
    OBVIOUS
  <2> QED  BY <2>1, <2>2
<1> DEFINE Good(i) == /\ f[i] \in Seq(V)
                      /\ \A k \in 1..i, part \in Seq(V) : Holds(texts[k], part) => Holds(f[i], part)
           Bad == {i \in 1..n : ~Good(i)}
<1>3. Bad = {}
  <2> SUFFICES ASSUME Bad # {} PROVE FALSE
    OBVIOUS
  <2>1. PICK i \in Bad : \A x \in Bad : i <= x
    <3>1. 1 \in Int /\ n \in Int
      OBVIOUS
    <3>2. IsFiniteSet(1..n)
      BY <3>1, FS_Interval
    <3>3. Bad \in SUBSET (1..n) /\ Bad \subseteq Int
      OBVIOUS
    <3> HIDE DEF Bad
    <3>4. IsFiniteSet(Bad)
      BY <3>2, <3>3, FS_Subset
    <3> QED  BY <3>3, <3>4, LeastExists
  <2>2. i \in 1..n /\ ~Good(i)
    OBVIOUS
  <2>3. CASE i = 1
    BY <1>2, <2>2, <2>3
  <2>4. CASE i # 1
    <3>1. i - 1 \in 1..n /\ f[i] = f[i - 1] \o texts[i] /\ ~(i <= i - 1)
      BY <1>2, <2>2, <2>4
    <3>2. Good(i - 1)
      BY <2>1, <3>1
    <3>3. f[i - 1] \in Seq(V) /\ texts[i] \in Seq(V)
      BY <2>2, <3>2
    <3>4. f[i] \in Seq(V)
      BY <3>1, <3>3, ConcatProperties
    <3>5. ASSUME NEW k \in 1..i, NEW part \in Seq(V), Holds(texts[k], part) PROVE Holds(f[i], part)
      <4>1. k = i \/ k \in 1..(i - 1)
        BY <2>2
      <4>2. Holds(f[i - 1], part) \/ Holds(texts[i], part)
        BY <3>2, <3>5, <4>1
      <4> QED  BY <3>1, <3>3, <4>2, HeldByBoth
    <3> QED  BY <2>2, <3>4, <3>5
  <2> QED  BY <2>3, <2>4
<1>4. Good(n)
  BY <1>2, <1>3
<1> QED  BY <1>1, <1>2, <1>4

\* A whole is all of itself.
LEMMA WholeShare == ASSUME NEW n \in Nat \ {0} PROVE Share(n, n) = 100
<1>1. (100 * n) \div n = 100
  OBVIOUS
<1> QED  BY <1>1 DEF Share

\* A text that holds the query holds its n-grams.
LEMMA HeldQueryIsExact ==
  ASSUME NEW text \in Seq(Vocabulary), Len(SearchRequest.text.words) >= NGRAM_SIZE,
         Holds(text, SearchRequest.text.words)
  PROVE  text # <<>> /\ exact_ngram_overlap(SearchRequest.text.words, text) = 100
<1> DEFINE words == SearchRequest.text.words
           N == NGRAM_SIZE
           shingles == word_shingles(words, N)
<1>1. words \in Seq(Vocabulary) /\ N \in Nat \ {0} /\ Len(words) >= N
      /\ Len(words) \in Nat /\ Len(text) \in Nat
  BY TextsOfWords, SizesPositive
<1>2. IsFiniteSet(shingles) /\ shingles # {}
  <2>1. words # <<>>
    BY <1>1, EmptySeq
  <2> QED  BY <2>1, ShinglesOfQuery
<1>3. Holds(text, words)
  OBVIOUS
<1> HIDE DEF words, N
<1>4. PICK off \in Nat : HoldsAfter(text, words, off)
  BY <1>1, <1>3, HoldsByWords
<1>5. shingles = {SubSeq(words, i, i + N - 1) : i \in 1..(Len(words) - N + 1)}
  <2>1. ~(Len(words) \in 1..(N - 1))
    BY <1>1
  <2> QED  BY <2>1 DEF word_shingles
<1>6. ASSUME NEW i \in 1..(Len(words) - N + 1)
      PROVE  SubSeq(words, i, i + N - 1) \in word_shingles(text, N)
  <2>1. /\ i \in Int /\ i + N - 1 \in Int /\ i <= i + N - 1 /\ (i + N - 1) - i + 1 = N
        /\ \A j \in i..(i + N - 1) : j \in 1..Len(words)
    BY <1>1
  <2> PICK o \in Int : o = off + i
    BY <2>1
  <2>2. /\ o \in Int /\ o + N - 1 \in Int /\ o <= o + N - 1 /\ (o + N - 1) - o + 1 = N
        /\ o \in 1..(Len(text) - N + 1)
        /\ \A j \in o..(o + N - 1) : j \in 1..Len(text)
    BY <1>1, <1>4, <2>1 DEF HoldsAfter
  <2> DEFINE s == SubSeq(words, i, i + N - 1)
             t == SubSeq(text, o, o + N - 1)
  <2>3. s \in Seq(Vocabulary) /\ Len(s) = N /\ \A j \in 1..N : s[j] = words[i + j - 1]
    <3>1. \A j \in i..(i + N - 1) : words[j] \in Vocabulary
      BY <1>1, <2>1
    <3> QED  BY <2>1, <3>1, SubSeqProperties
  <2>4. t \in Seq(Vocabulary) /\ Len(t) = N /\ \A j \in 1..N : t[j] = text[o + j - 1]
    <3>1. \A j \in o..(o + N - 1) : text[j] \in Vocabulary
      BY <1>1, <2>2
    <3> QED  BY <2>2, <3>1, SubSeqProperties
  <2>5. \A j \in 1..N : words[i + j - 1] = text[o + j - 1]
    <3> TAKE j \in 1..N
    <3>1. i + j - 1 \in 1..Len(words) /\ o + j - 1 = off + (i + j - 1)
      BY <1>1, <2>1
    <3> QED  BY <1>4, <3>1 DEF HoldsAfter
  <2> HIDE DEF s, t
  <2>6. s = t
    BY <2>3, <2>4, <2>5, SeqEqual
  <2> QED  BY <2>2, <2>6 DEF s, t, word_shingles
<1>7. shingles \cap word_shingles(text, N) = shingles
  BY <1>5, <1>6
<1>8. exact_ngram_overlap(words, text) = Share(Cardinality(shingles), Cardinality(shingles))
  BY <1>2, <1>7 DEF exact_ngram_overlap, N
<1>9. Cardinality(shingles) \in Nat \ {0}
  <2> HIDE DEF shingles
  <2> QED  BY <1>2, FS_CardinalityType, FS_EmptySet
<1>10. exact_ngram_overlap(words, text) = 100
  <2> HIDE DEF shingles
  <2> QED  BY <1>8, <1>9, WholeShare
<1>11. text # <<>>
  <2>1. Len(text) # 0
    BY <1>1, <1>4 DEF HoldsAfter
  <2> QED  BY <2>1, EmptySeq
<1> QED  BY <1>10, <1>11 DEF words

\* A text is like itself by every measure.
LEMMA QueryIsItself ==
  ASSUME SearchRequest.text.words # <<>>
  PROVE  LET likeness == Likeness(SearchRequest.text.words, SearchRequest.text.words)
         IN DOMAIN likeness = Textual /\ \A n \in Textual : likeness[n] = 100
<1> DEFINE words == SearchRequest.text.words
           shingles == word_shingles(words, NGRAM_SIZE)
<1>1. IsFiniteSet(shingles) /\ shingles # {} /\ words # <<>>
  BY ShinglesOfQuery
<1> HIDE DEF words
<1>2. exact_ngram_overlap(words, words) = 100
  <2>1. exact_ngram_overlap(words, words) = Share(Cardinality(shingles), Cardinality(shingles))
    <3>1. shingles \cap shingles = shingles
      OBVIOUS
    <3> QED  BY <1>1, <3>1 DEF exact_ngram_overlap
  <2> HIDE DEF shingles
  <2>2. Cardinality(shingles) \in Nat \ {0}
    BY <1>1, FS_CardinalityType, FS_EmptySet
  <2> QED  BY <2>1, <2>2, WholeShare
<1>3. minhash_similarity(words, words) = 100
  <2>1. NUM_PERM \in Nat \ {0} /\ 1 \in Int /\ NUM_PERM \in Int /\ ~(1 > NUM_PERM) /\ NUM_PERM - 1 + 1 = NUM_PERM
    BY SizesPositive
  <2>2. Cardinality(1..NUM_PERM) = NUM_PERM
    BY <2>1, FS_Interval
  <2>3. minhash_similarity(words, words) = Share(Cardinality(1..NUM_PERM), NUM_PERM)
    <3>1. {p \in 1..NUM_PERM : Min({Rank(p, s) : s \in word_shingles(words, MINHASH_SIZE)})
                                 = Min({Rank(p, s) : s \in word_shingles(words, MINHASH_SIZE)})} = 1..NUM_PERM
      OBVIOUS
    <3> QED  BY <1>1, <3>1 DEF minhash_similarity
  <2> QED  BY <2>1, <2>2, <2>3, WholeShare
<1>4. simhash_similarity(words, words) = 100
  <2>1. BITS \in Nat \ {0} /\ BITS - 0 = BITS
    BY SizesPositive
  <2>2. (simhash(words) \ simhash(words)) \cup (simhash(words) \ simhash(words)) = {}
    OBVIOUS
  <2>3. simhash_similarity(words, words) = Share(BITS - 0, BITS)
    BY <2>2, FS_EmptySet DEF simhash_similarity
  <2> QED  BY <2>1, <2>3, WholeShare
<1>5. Likeness(words, words) =
        [minhash |-> minhash_similarity(words, words), simhash |-> simhash_similarity(words, words),
         exact |-> exact_ngram_overlap(words, words)]
  BY <1>1 DEF Likeness
<1> DEFINE l == Likeness(words, words)
<1>6. /\ DOMAIN l = {"minhash", "simhash", "exact"}
      /\ l["minhash"] = 100 /\ l["simhash"] = 100 /\ l["exact"] = 100
  BY <1>2, <1>3, <1>4, <1>5
<1> HIDE DEF l
<1>7. DOMAIN l = Textual /\ \A n \in Textual : l[n] = 100
  BY <1>6 DEF Textual
<1> QED  BY <1>7 DEF l, words

-----------------------------------------------------------------------------
(* The worker's steps under the search *)

\* What is asked for, known and being deleted only grows.
LEMMA SagaGrows ==
  ASSUME IInv, [Next]_vars
  PROVE  /\ IInv'
         /\ DOMAIN asked \subseteq DOMAIN asked' /\ \A d \in DOMAIN asked : asked'[d] = asked[d]
         /\ known \subseteq known' /\ deleting \subseteq deleting'
<1>1. IInv'
  BY IInvStep
<1>2. ASSUME NEW p \in running, Works(p)
      PROVE  /\ DOMAIN asked \subseteq DOMAIN asked' /\ \A d \in DOMAIN asked : asked'[d] = asked[d]
             /\ known \subseteq known' /\ deleting \subseteq deleting'
  <2>1. Write(p) /\ Move(p) /\ Footprint(p)
    BY <1>2, CallSummary, WriteFootprint DEF IInv
  <2>2. known \subseteq known'
    BY <1>2, CallFacts DEF IInv
  <2> QED  BY <2>1, <2>2, RequestType DEF IInv
<1>3. ASSUME Restart \/ (\E p \in running : Recycle(p)) \/ UNCHANGED vars
      PROVE  asked' = asked /\ known' = known /\ deleting' = deleting
  BY <1>3 DEF Restart, Recycle, vars, history
<1> QED  BY <1>1, <1>2, <1>3 DEF Next

LEMMA DocsAsAskedStep ==
  ASSUME IInv, DocsAsAsked, [Next]_vars
  PROVE  DocsAsAsked'
<1>1. \A d \in DOMAIN asked : asked'[d] = asked[d]
  BY SagaGrows
<1>2. DOMAIN docs \subseteq DOMAIN asked
  BY DEF IInv, TypeOK
<1>3. ASSUME NEW p \in running, Works(p), NEW d \in DOMAIN docs' PROVE docs'[d] = asked'[d]
  <2>1. CASE d \in DOMAIN docs /\ docs'[d] = docs[d]
    BY <1>1, <1>2, <2>1 DEF DocsAsAsked
  <2>2. CASE d = request[p].doc /\ Indexing(p) /\ docs'[d] = request[p].text
    <3>1. p \in Processes
      BY DEF IInv, TypeOK
    <3>2. d \in DOMAIN asked /\ request[p].text = asked[d]
      BY <2>2, <3>1 DEF IInv, TypeOK, Indexing, Steps, SqlSteps
    <3> QED  BY <1>1, <2>2, <3>2
  <2> QED  BY <1>3, <2>1, <2>2, RowsAdded
<1>4. CASE Restart
  BY <1>4 DEF Restart, DocsAsAsked
<1>5. ASSUME NEW p \in running, Recycle(p) PROVE UNCHANGED <<asked, docs>>
  BY <1>5 DEF Recycle
<1>6. CASE UNCHANGED vars
  BY <1>6 DEF vars, stores, DocsAsAsked
<1> QED  BY <1>3, <1>4, <1>5, <1>6 DEF Next, DocsAsAsked

\* So a chunk the filter let through stays as near as it was, and what was
\* read of its text stays what it says.
LEMMA AllowedStays ==
  ASSUME SInv, [Next]_vars, allowed' = allowed
  PROVE  /\ \A c \in allowed : c.doc \in known /\ asked'[c.doc] = asked[c.doc]
         /\ \A c \in allowed : \A s : Nearness(s, c)' = Nearness(s, c)
         /\ \A c \in allowed : \A s : Outdone(s, c)' = Outdone(s, c)
         /\ \A C \in SUBSET allowed : Joined(C)' = Joined(C)
         /\ \A c \in allowed : \A m, text : Signals(c.doc, m, text)' = Signals(c.doc, m, text)
<1>1. \A c \in allowed : c.doc \in known /\ asked'[c.doc] = asked[c.doc]
  BY SagaGrows DEF SInv, FilterHolds, IInv, TypeOK
<1>2. \A c \in allowed : \A s : Nearness(s, c)' = Nearness(s, c)
  BY <1>1 DEF Nearness
<1>3. ASSUME NEW c \in allowed, NEW s PROVE Outdone(s, c)' = Outdone(s, c)
  <2>1. {e \in allowed \ {c} : Nearness(s, e) >= Nearness(s, c)}'
          = {e \in allowed \ {c} : Nearness(s, e) >= Nearness(s, c)}
    BY <1>2
  <2> QED  BY <2>1 DEF Outdone
<1>4. ASSUME NEW C \in SUBSET allowed PROVE Joined(C)' = Joined(C)
  <2>1. ASSUME NEW s \in Seqs!SetToSeqs(C)
        PROVE  [i \in DOMAIN s |-> Words(s[i])]' = [i \in DOMAIN s |-> Words(s[i])]
    <3>1. \A i \in DOMAIN s : s[i] \in allowed
      BY DEF Seqs!SetToSeqs
    <3>2. \A i \in DOMAIN s : Words(s[i])' = Words(s[i])
      BY <1>1, <3>1 DEF Words
    <3> QED  BY <3>2
  <2> QED  BY <2>1 DEF Joined
<1>5. \A c \in allowed : \A m, text : Signals(c.doc, m, text)' = Signals(c.doc, m, text)
  BY <1>1 DEF Signals
<1> QED  BY <1>1, <1>2, <1>3, <1>4, <1>5

\* An answer that is not there satisfies everything about answers.
LEMMA NoAnswerInv ==
  ASSUME IInv', DocsAsAsked', published' \subseteq Chunk, steady' \subseteq Findable',
         call' = "none" => steady' = {},
         call' \notin {"chunks", "index", "owners", "document", "signals", "best"},
         wanted' = {}, allowed' = {}, searched' = 0, best' = <<>>, matches' = {},
         found' = None, signals' = <<>>, documents' = {}
  PROVE  SInv'
<1> USE DEF SInv
<1>1. DOMAIN best' = {} /\ DOMAIN signals' = {} /\ 0 \in 0..Cardinality(Segments)
      /\ best' \in [DOMAIN best' -> 0..100] /\ signals' \in [DOMAIN signals' -> 0..100]
  BY SegmentsCounted
<1>2. SearchTypeOK'
  BY <1>1 DEF SearchTypeOK, IInv, RerankSignals, Findable
<1>3. FilterHolds' /\ CallsInOrder' /\ DescribedOnce'
  BY DEF FilterHolds, CallsInOrder, DescribedOnce
<1>4. SignalsWhole' /\ WholeUnlessDeleting' /\ SteadyOnItsWay' /\ SteadyFound'
  BY DEF SignalsWhole, WholeUnlessDeleting, SteadyOnItsWay, SteadyFound
<1> QED  BY <1>2, <1>3, <1>4

LEMMA SInvInit == SearchInit => SInv
<1> SUFFICES ASSUME SearchInit PROVE SInv
  OBVIOUS
<1>1. IInv /\ DocsAsAsked
  BY IInvInit DEF SearchInit, Init, DocsAsAsked
<1>2. DOMAIN best = {} /\ DOMAIN signals = {} /\ 0 \in 0..Cardinality(Segments)
      /\ best \in [DOMAIN best -> 0..100] /\ signals \in [DOMAIN signals -> 0..100]
  BY SegmentsCounted DEF SearchInit
<1>3. SearchTypeOK
  BY <1>1, <1>2 DEF SearchInit, SearchTypeOK, IInv, RerankSignals
<1>4. FilterHolds /\ CallsInOrder /\ DescribedOnce
  BY DEF SearchInit, FilterHolds, CallsInOrder, DescribedOnce
<1>5. SignalsWhole /\ WholeUnlessDeleting /\ SteadyOnItsWay /\ SteadyFound
  BY DEF SearchInit, SignalsWhole, WholeUnlessDeleting, SteadyOnItsWay, SteadyFound
<1> QED  BY <1>1, <1>3, <1>4, <1>5 DEF SInv

\* Whatever else happens, a search in the middle of its calls stays as good as
\* it was.
LEMMA SInvKept ==
  ASSUME SInv, [Next]_vars, published' \subseteq Chunk, call' = call, UNCHANGED answer,
         steady' = steady \cap Findable', call # "none" \/ asked' = asked
  PROVE  SInv'
<1>1. /\ wanted' = wanted /\ allowed' = allowed /\ searched' = searched /\ best' = best
      /\ matches' = matches /\ found' = found /\ signals' = signals /\ documents' = documents
      /\ steady' = steady \cap Findable'
  BY DEF answer
<1>2. IInv' /\ DocsAsAsked' /\ known \subseteq known' /\ deleting \subseteq deleting'
  BY SagaGrows, DocsAsAskedStep DEF SInv
<1>3. /\ \A c \in allowed : c.doc \in known /\ asked'[c.doc] = asked[c.doc]
      /\ \A c \in allowed : \A s : Outdone(s, c)' = Outdone(s, c)
      /\ \A c \in allowed : \A s : Nearness(s, c)' = Nearness(s, c)
      /\ \A C \in SUBSET allowed : Joined(C)' = Joined(C)
      /\ \A c \in allowed : \A m, text : Signals(c.doc, m, text)' = Signals(c.doc, m, text)
  BY <1>1, AllowedStays
<1>4. DOMAIN best \subseteq allowed /\ matches \subseteq allowed
  BY DEF SInv, SearchTypeOK
<1>5. SearchTypeOK'
  <2>1. TypeOK' /\ steady' \subseteq DOMAIN docs'
    BY <1>2, <1>1 DEF IInv, Findable
  <2>2. \A d : MatchOf(d)' = MatchOf(d)
    BY <1>1 DEF MatchOf
  <2> QED  BY <1>2, <1>1, <2>1, <2>2 DEF SInv, SearchTypeOK
<1>6. FilterHolds'
  <2>1. \A d \in wanted : asked'[d] = asked[d]
    BY SagaGrows DEF SInv, FilterHolds, IInv, TypeOK
  <2> QED  BY <1>2, <1>1, <1>3, <2>1 DEF SInv, FilterHolds
<1>7. CallsInOrder' /\ DescribedOnce'
  BY <1>1 DEF SInv, CallsInOrder, DescribedOnce, MatchOf
<1>8. SignalsWhole'
  <2> SUFFICES ASSUME call = "best", found \notin deleting
               PROVE  \E text \in Joined(MatchOf(found))' :
                        signals = Signals(found, MaxScore(found), text)'
    BY <1>2, <1>1 DEF SignalsWhole
  <2>1. PICK C \in SUBSET allowed : C = MatchOf(found) /\ C # {}
    BY <1>4 DEF MatchOf, SInv, SearchTypeOK
  <2>2. PICK c \in C : c.doc = found
    BY <2>1 DEF MatchOf
  <2>3. MatchOf(found)' = C /\ MaxScore(found)' = MaxScore(found)
    BY <1>1, <2>1 DEF MatchOf, MaxScore
  <2>4. PICK text \in Joined(C) : signals = Signals(found, MaxScore(found), text)
    BY <2>1 DEF SInv, SignalsWhole
  <2>5. Joined(MatchOf(found))' = Joined(C)
    BY <1>3, <2>3 DEF Joined
  <2>6. Signals(found, MaxScore(found), text)' = Signals(found, MaxScore(found), text)
    BY <1>1, <1>3, <2>2, <2>3 DEF Signals
  <2> QED  BY <2>4, <2>5, <2>6
<1>9. WholeUnlessDeleting'
  <2> SUFFICES ASSUME NEW r \in documents, r.doc \notin deleting
               PROVE  /\ r.quoted
                      /\ \E text \in Joined(r.chunks)' :
                           r.similaridad = Score(Signals(r.doc, Max({best[c] : c \in r.chunks}), text)')
    BY <1>2, <1>1 DEF WholeUnlessDeleting
  <2>1. r.chunks \in SUBSET allowed
    BY <1>4 DEF SInv, DescribedOnce
  <2>2. PICK c \in r.chunks : c.doc = r.doc
    BY DEF SInv, SearchTypeOK, Chunks
  <2> DEFINE m == Max({best[e] : e \in r.chunks})
  <2>3. r.quoted /\ \E text \in Joined(r.chunks) : r.similaridad = Score(Signals(r.doc, m, text))
    BY DEF SInv, WholeUnlessDeleting
  <2>4. Joined(r.chunks)' = Joined(r.chunks)
    BY <1>3, <2>1
  <2>5. \A text : Signals(r.doc, m, text)' = Signals(r.doc, m, text)
    BY <1>1, <1>3, <2>1, <2>2 DEF Signals
  <2> QED  BY <2>3, <2>4, <2>5
<1>10. SteadyOnItsWay'
  BY <1>1, <1>3 DEF SInv, SteadyOnItsWay
<1>11. SteadyFound'
  BY <1>1, <1>2 DEF SInv, SteadyFound, Nearness
<1> QED  BY <1>2, <1>5, <1>6, <1>7, <1>8, <1>9, <1>10, <1>11 DEF SInv

\* A step of the worker, a checkpoint or its reload.
LEMMA SInvWorker ==
  ASSUME SInv, WorkerStep, Steady
  PROVE  SInv'
<1>1. [Next]_vars /\ call' = call
  BY DEF WorkerStep, Publish
<1>2. published' \subseteq Chunk
  BY DEF WorkerStep, Publish, SInv, SearchTypeOK, IInv, TypeOK
<1>3. CASE call = "none"
  <2>1. NoAnswer /\ steady' = {} /\ IInv' /\ DocsAsAsked'
    BY <1>1, <1>3, SagaGrows, DocsAsAskedStep DEF WorkerStep, Steady, SInv
  <2> QED  BY <1>1, <1>2, <1>3, <2>1, NoAnswerInv DEF NoAnswer
<1>4. CASE call # "none"
  <2>1. UNCHANGED answer /\ steady' = steady \cap Findable'
    BY <1>4 DEF WorkerStep, Steady
  <2> QED  BY <1>1, <1>2, <1>4, <2>1, SInvKept
<1> QED  BY <1>3, <1>4

-----------------------------------------------------------------------------
(* The calls of the search *)

\* A call of the search changes nothing that the worker works on.
LEMMA Quiet ==
  ASSUME SInv, UNCHANGED <<vars, published>>
  PROVE  /\ IInv' /\ TypeOK' /\ DocsAsAsked' /\ published' = published
         /\ rows' = rows /\ docs' = docs /\ asked' = asked /\ known' = known
         /\ deleting' = deleting /\ Findable' = Findable
         /\ \A s, c : Nearness(s, c)' = Nearness(s, c)
         /\ \A C : Joined(C)' = Joined(C)
         /\ \A d, m, text : Signals(d, m, text)' = Signals(d, m, text)
         /\ Steady /\ call # "none" => steady' = steady
<1>1. IInv' /\ DocsAsAsked'
  BY SagaGrows, DocsAsAskedStep DEF SInv
<1>2. /\ published' = published /\ rows' = rows /\ docs' = docs /\ asked' = asked
      /\ known' = known /\ deleting' = deleting
  BY DEF vars, stores, history
<1>3. Findable' = Findable
  BY <1>2 DEF Findable
<1>4. \A s, c : Nearness(s, c)' = Nearness(s, c)
  BY <1>2 DEF Nearness
<1>5. \A C : Joined(C)' = Joined(C)
  BY <1>2 DEF Joined, Words
<1>6. \A d, m, text : Signals(d, m, text)' = Signals(d, m, text)
  BY <1>2 DEF Signals
<1>7. Steady /\ call # "none" => steady' = steady
  BY <1>3 DEF Steady, SInv, SteadyOnItsWay
<1> QED  BY <1>1, <1>2, <1>3, <1>4, <1>5, <1>6, <1>7 DEF IInv

\* What the answer already says of a document stays true of it.
LEMMA WholeStays ==
  ASSUME SInv, UNCHANGED <<vars, published>>, best' = best, documents' = documents
  PROVE  WholeUnlessDeleting'
<1> SUFFICES ASSUME NEW r \in documents, r.doc \notin deleting
             PROVE  /\ r.quoted
                    /\ \E text \in Joined(r.chunks)' :
                         r.similaridad = Score(Signals(r.doc, Max({best[c] : c \in r.chunks}), text)')
  BY Quiet DEF WholeUnlessDeleting
<1> DEFINE m == Max({best[e] : e \in r.chunks})
<1>1. r.quoted /\ \E text \in Joined(r.chunks) : r.similaridad = Score(Signals(r.doc, m, text))
  BY DEF SInv, WholeUnlessDeleting
<1>2. Joined(r.chunks)' = Joined(r.chunks)
  BY Quiet
<1>3. \A text : Signals(r.doc, m, text)' = Signals(r.doc, m, text)
  BY Quiet DEF Signals
<1> QED  BY <1>1, <1>2, <1>3

LEMMA SInvStartSearch ==
  ASSUME SInv, StartSearch, UNCHANGED <<vars, published>>, Steady
  PROVE  SInv'
<1>1. call = "none" /\ call' = "documents" /\ NoAnswer /\ steady' = Findable'
  BY DEF StartSearch, Steady
<1>2. published' \subseteq Chunk
  BY Quiet DEF SInv, SearchTypeOK
<1> QED  BY <1>1, <1>2, Quiet, NoAnswerInv DEF NoAnswer

LEMMA SInvFilterDocuments ==
  ASSUME SInv, FilterDocuments, UNCHANGED <<vars, published>>, Steady
  PROVE  SInv'
<1>1. /\ call = "documents" /\ wanted' = {d \in DOMAIN docs : docs[d] \in Matching}
      /\ call' = IF wanted' = {} THEN "none" ELSE "chunks"
      /\ allowed' = allowed /\ searched' = searched /\ best' = best /\ matches' = matches
      /\ found' = found /\ signals' = signals /\ documents' = documents
  BY DEF FilterDocuments
<1>2. /\ IInv' /\ TypeOK' /\ DocsAsAsked' /\ published' = published /\ docs' = docs
      /\ asked' = asked /\ known' = known /\ Findable' = Findable /\ steady' = steady
  BY <1>1, Quiet
<1>3. documents = {} /\ matches = {} /\ searched = 0 /\ DOMAIN best = {}
  BY <1>1 DEF SInv, CallsInOrder
<1>4. steady \subseteq wanted'
  BY <1>1 DEF SInv, SteadyOnItsWay, Findable
<1>5. SearchTypeOK'
  <2>1. wanted' \subseteq Docs
    BY <1>1 DEF SInv, IInv, TypeOK
  <2> QED  BY <1>1, <1>2, <1>3, <2>1 DEF SInv, SearchTypeOK
<1>6. FilterHolds'
  BY <1>1, <1>2 DEF SInv, FilterHolds, IInv, TypeOK, DocsAsAsked
<1>7. CallsInOrder' /\ DescribedOnce' /\ SignalsWhole' /\ WholeUnlessDeleting'
  BY <1>1, <1>3 DEF CallsInOrder, DescribedOnce, SignalsWhole, WholeUnlessDeleting
<1>8. SteadyOnItsWay'
  BY <1>1, <1>2, <1>4 DEF SInv, SteadyOnItsWay
<1>9. SteadyFound'
  BY <1>1, <1>2, <1>4 DEF SteadyFound
<1> QED  BY <1>2, <1>5, <1>6, <1>7, <1>8, <1>9 DEF SInv

LEMMA SInvFilterChunks ==
  ASSUME SInv, FilterChunks, UNCHANGED <<vars, published>>, Steady
  PROVE  SInv'
<1>1. /\ call = "chunks" /\ wanted' = {} /\ allowed' = {c \in rows : c.doc \in wanted}
      /\ call' = IF allowed' = {} THEN "none" ELSE "index"
      /\ searched' = searched /\ best' = best /\ matches' = matches
      /\ found' = found /\ signals' = signals /\ documents' = documents
  BY DEF FilterChunks
<1>2. /\ IInv' /\ TypeOK' /\ DocsAsAsked' /\ published' = published /\ docs' = docs
      /\ asked' = asked /\ known' = known /\ Findable' = Findable /\ steady' = steady
  BY <1>1, Quiet
<1>3. documents = {} /\ matches = {} /\ searched = 0 /\ DOMAIN best = {}
  BY <1>1 DEF SInv, CallsInOrder
<1>4. \A d \in steady : Chunks(d) \subseteq allowed'
  <2> SUFFICES ASSUME NEW d \in steady, NEW c \in Chunks(d) PROVE c \in rows /\ c.doc \in wanted
    BY <1>1
  <2>1. d \in wanted /\ Chunks(d) \subseteq rows /\ c.doc = d
    BY <1>1 DEF SInv, SteadyOnItsWay, Findable, Chunks
  <2> QED  BY <2>1
<1>5. SearchTypeOK'
  <2>1. allowed' \subseteq Chunk
    BY <1>1 DEF SInv, IInv, TypeOK
  <2> QED  BY <1>1, <1>2, <1>3, <2>1 DEF SInv, SearchTypeOK
<1>6. FilterHolds'
  BY <1>1, <1>2 DEF SInv, FilterHolds
<1>7. CallsInOrder' /\ DescribedOnce' /\ SignalsWhole' /\ WholeUnlessDeleting'
  BY <1>1, <1>3, SegmentsCounted DEF CallsInOrder, DescribedOnce, SignalsWhole, WholeUnlessDeleting
<1>8. SteadyOnItsWay'
  <2>1. 1..searched' = {}
    BY <1>1, <1>3
  <2> QED  BY <1>1, <1>2, <1>4, <2>1 DEF SInv, SteadyOnItsWay
<1>9. SteadyFound'
  BY <1>1, <1>2, <1>4 DEF SteadyFound
<1> QED  BY <1>2, <1>5, <1>6, <1>7, <1>8, <1>9 DEF SInv

\* There are finitely many chunks, and how near one is to a segment is a share.
LEMMA ChunksCounted == IsFiniteSet(Chunk)
<1> DEFINE f == [x \in Docs \X Orders |-> [doc |-> x[1], order |-> x[2]]]
<1>1. f \in Surjection(Docs \X Orders, Chunk)
  <2>1. f \in [Docs \X Orders -> Chunk]
    BY DEF Chunk
  <2>2. ASSUME NEW c \in Chunk PROVE \E x \in Docs \X Orders : f[x] = c
    <3>1. <<c.doc, c.order>> \in Docs \X Orders /\ f[<<c.doc, c.order>>] = c
      BY DEF Chunk
    <3> QED  BY <3>1
  <2> QED  BY <2>1, <2>2 DEF Surjection
<1>2. IsFiniteSet(Docs \X Orders)
  BY ChunksFinite, FS_Product
<1> HIDE DEF f
<1> QED  BY <1>1, <1>2, FS_Surjection

LEMMA NearnessInRange ==
  ASSUME SInv, NEW s \in Segments, NEW c \in allowed
  PROVE  Nearness(s, c) \in 0..100
<1>1. asked[c.doc] \in Texts
  BY DEF SInv, FilterHolds, Matching
<1> QED  BY <1>1, CosineOfTexts DEF Nearness

\* A chunk the index had and did not give is outdone by those it gave.
LEMMA LeftOut ==
  ASSUME SInv, NEW s, NEW h \in Nearest(s, published \cap allowed),
         NEW c \in published \cap allowed, c \notin h
  PROVE  Outdone(s, c)
<1> DEFINE P == published \cap allowed
           E == {e \in allowed \ {c} : Nearness(s, e) >= Nearness(s, c)}
<1>1. h \subseteq P /\ \A e \in h : Nearness(s, e) >= Nearness(s, c)
  BY DEF Nearest
<1>2. Cardinality(h) = IF Cardinality(P) < TopK THEN Cardinality(P) ELSE TopK
  BY DEF Nearest
<1>3. IsFiniteSet(P) /\ IsFiniteSet(E)
  <2>1. P \in SUBSET Chunk /\ E \in SUBSET Chunk
    BY DEF SInv, SearchTypeOK
  <2> QED  BY <2>1, ChunksCounted, FS_Subset
<1>4. Cardinality(h) = TopK
  <2>1. Cardinality(h) = Cardinality(P) => h = P
    BY <1>1, <1>3, FS_Subset
  <2> QED  BY <1>2, <2>1
<1>5. h \in SUBSET E
  BY <1>1
<1>6. Cardinality(h) <= Cardinality(E)
  BY <1>3, <1>5, FS_Subset
<1>7. Cardinality(E) \in Nat
  BY <1>3, FS_CardinalityType
<1> QED  BY <1>4, <1>6, <1>7, TopKPositive DEF Outdone

LEMMA SInvSearchIndex ==
  ASSUME SInv, SearchIndex, UNCHANGED <<vars, published>>, Steady
  PROVE  SInv'
<1> DEFINE s == searched + 1
<1>1. /\ call = "index" /\ searched' = s
      /\ call' = IF s = Cardinality(Segments) THEN "owners" ELSE "index"
      /\ wanted' = wanted /\ allowed' = allowed /\ matches' = matches
      /\ found' = found /\ signals' = signals /\ documents' = documents
  BY DEF SearchIndex
<1>2. /\ IInv' /\ TypeOK' /\ DocsAsAsked' /\ published' = published /\ docs' = docs
      /\ asked' = asked /\ known' = known /\ Findable' = Findable /\ steady' = steady
  BY <1>1, Quiet
<1>3. documents = {} /\ matches = {} /\ searched < Cardinality(Segments)
  BY <1>1 DEF SInv, CallsInOrder
<1>4. s \in Segments /\ s \in 0..Cardinality(Segments) /\ searched \in Nat /\ 1..s = 1..searched \cup {s}
  BY <1>3, SegmentsCounted DEF SInv, SearchTypeOK
<1>5. PICK h \in Nearest(s, published \cap allowed) : best' = Merged(s, h)
  BY <1>1 DEF SearchIndex
<1>6. h \subseteq published \cap allowed
  BY DEF Nearest
<1>7. DOMAIN best \subseteq allowed /\ \A c \in DOMAIN best : best[c] \in 0..100
  BY DEF SInv, SearchTypeOK
<1>8. DOMAIN best' = DOMAIN best \cup h /\ \A c \in DOMAIN best' : best'[c] \in 0..100
  <2>1. \A c \in h : Nearness(s, c) \in 0..100
    BY <1>4, <1>6, NearnessInRange
  <2> QED  BY <1>5, <1>7, <2>1 DEF Merged
<1>9. best' \in [DOMAIN best' -> 0..100]
  <2>1. best' = [c \in DOMAIN best' |-> best'[c]]
    BY <1>5 DEF Merged
  <2> QED  BY <1>8, <2>1
<1>10. SearchTypeOK'
  BY <1>1, <1>2, <1>3, <1>4, <1>6, <1>7, <1>8, <1>9 DEF SInv, SearchTypeOK
<1>11. FilterHolds'
  BY <1>1, <1>2 DEF SInv, FilterHolds
<1>12. CallsInOrder'
  BY <1>1, <1>3, <1>4, SegmentsCounted DEF CallsInOrder
<1>13. DescribedOnce' /\ SignalsWhole' /\ WholeUnlessDeleting'
  BY <1>1, <1>3 DEF DescribedOnce, SignalsWhole, WholeUnlessDeleting
<1>14. SteadyOnItsWay'
  <2>1. \A x, c : Outdone(x, c)' = Outdone(x, c)
    BY <1>1, <1>2, Quiet DEF Outdone
  <2>2. ASSUME NEW d \in steady, NEW c \in Chunks(d)
        PROVE  c \in DOMAIN best' \/ \A x \in 1..s : Outdone(x, c)
    <3>1. c \in published \cap allowed
      BY <1>1 DEF SInv, SteadyOnItsWay, Findable
    <3>2. c \in DOMAIN best \/ \A x \in 1..searched : Outdone(x, c)
      BY <1>1 DEF SInv, SteadyOnItsWay
    <3>3. c \in h \/ Outdone(s, c)
      BY <3>1, LeftOut
    <3> QED  BY <1>4, <1>8, <3>2, <3>3
  <2>3. \A d \in steady : Chunks(d) \subseteq allowed
    BY <1>1 DEF SInv, SteadyOnItsWay
  <2>4. steady \subseteq Findable
    BY DEF SInv, SteadyOnItsWay
  <2> QED  BY <1>1, <1>2, <2>1, <2>2, <2>3, <2>4 DEF SteadyOnItsWay
<1>15. SteadyFound'
  BY <1>1 DEF SteadyFound
<1> QED  BY <1>2, <1>10, <1>11, <1>12, <1>13, <1>14, <1>15 DEF SInv

LEMMA SInvResolveOwners ==
  ASSUME SInv, ResolveOwners, UNCHANGED <<vars, published>>, Steady
  PROVE  SInv'
<1>1. /\ call = "owners" /\ matches' = DOMAIN best \cap rows
      /\ call' = IF matches' = {} THEN "none" ELSE "document"
      /\ wanted' = wanted /\ allowed' = allowed /\ searched' = searched /\ best' = best
      /\ found' = found /\ signals' = signals /\ documents' = documents
  BY DEF ResolveOwners
<1>2. /\ IInv' /\ TypeOK' /\ DocsAsAsked' /\ published' = published /\ docs' = docs
      /\ asked' = asked /\ known' = known /\ Findable' = Findable /\ steady' = steady
  BY <1>1, Quiet
<1>3. documents = {} /\ 1..searched = Segments
  BY <1>1, SegmentsCounted DEF SInv, CallsInOrder
<1>4. ASSUME NEW d \in steady, NEW c \in Chunks(d)
      PROVE  c \in matches' \/ \A s \in Segments : Outdone(s, c)'
  <2>1. c \in rows
    BY DEF SInv, SteadyOnItsWay, Findable
  <2>2. c \in DOMAIN best \/ \A s \in Segments : Outdone(s, c)
    BY <1>1, <1>3 DEF SInv, SteadyOnItsWay
  <2>3. \A s : Outdone(s, c)' = Outdone(s, c)
    BY <1>1, Quiet DEF Outdone
  <2> QED  BY <1>1, <2>1, <2>2, <2>3
<1>5. SearchTypeOK'
  BY <1>1, <1>2, <1>3 DEF SInv, SearchTypeOK
<1>6. FilterHolds'
  BY <1>1, <1>2 DEF SInv, FilterHolds
<1>7. CallsInOrder' /\ DescribedOnce' /\ SignalsWhole' /\ WholeUnlessDeleting'
  BY <1>1, <1>3 DEF CallsInOrder, DescribedOnce, SignalsWhole, WholeUnlessDeleting
<1>8. SteadyOnItsWay'
  <2>1. \A d \in steady : Chunks(d) \subseteq allowed
    BY <1>1 DEF SInv, SteadyOnItsWay
  <2>2. steady \subseteq Findable
    BY DEF SInv, SteadyOnItsWay
  <2> QED  BY <1>1, <1>2, <1>4, <2>1, <2>2 DEF SteadyOnItsWay
<1>9. SteadyFound'
  BY <1>1, <1>2, <1>4 DEF SteadyFound, Outdone
<1> QED  BY <1>2, <1>5, <1>6, <1>7, <1>8, <1>9 DEF SInv

\* The best score of a document's matches is a share.
LEMMA MaxScoreInRange ==
  ASSUME SInv, NEW d, MatchOf(d) # {}
  PROVE  /\ d \in known /\ asked[d] \in Texts /\ MatchOf(d) \subseteq Chunks(d)
         /\ MaxScore(d) \in 0..100
<1> DEFINE scores == {best[c] : c \in MatchOf(d)}
<1>1. MatchOf(d) \subseteq DOMAIN best /\ MatchOf(d) \subseteq allowed /\ MatchOf(d) \subseteq Chunk
  BY DEF SInv, SearchTypeOK, MatchOf
<1>2. d \in known /\ asked[d] \in Texts
  BY <1>1 DEF SInv, FilterHolds, Matching, MatchOf
<1>3. MatchOf(d) \subseteq Chunks(d)
  BY <1>1, ChunkFacts DEF MatchOf
<1>4. scores \subseteq 0..100 /\ scores # {}
  BY <1>1 DEF SInv, SearchTypeOK
<1> HIDE DEF scores
<1>5. IsFiniteSet(scores) /\ scores \subseteq Int
  <2>1. 0 \in Int /\ 100 \in Int
    OBVIOUS
  <2>2. IsFiniteSet(0..100)
    BY <2>1, FS_Interval
  <2>3. IsFiniteSet(scores)
    BY <1>4, <2>2, FS_Subset
  <2> QED  BY <1>4, <2>3
<1>6. \E m \in scores : \A x \in scores : m >= x
  BY <1>4, <1>5, GreatestExists
<1>7. Max(scores) \in scores
  BY <1>6 DEF Max
<1> QED  BY <1>2, <1>3, <1>4, <1>7 DEF MaxScore, scores

LEMMA SInvLookUpGone ==
  ASSUME SInv, LookUpGone, UNCHANGED <<vars, published>>, Steady
  PROVE  SInv'
<1>1. PICK gone1 \in Docs \ DOMAIN docs : matches' = Without(gone1)
  BY DEF LookUpGone
<1>2. /\ call = "document" /\ call' = IF matches' = {} THEN "none" ELSE "document"
      /\ wanted' = wanted /\ allowed' = allowed /\ searched' = searched /\ best' = best
      /\ found' = found /\ signals' = signals /\ documents' = documents
  BY DEF LookUpGone
<1>3. /\ IInv' /\ TypeOK' /\ DocsAsAsked' /\ published' = published /\ docs' = docs
      /\ asked' = asked /\ known' = known /\ deleting' = deleting /\ Findable' = Findable
      /\ steady' = steady
  BY <1>2, Quiet
<1>4. matches' \subseteq matches /\ \A c \in matches : c.doc # gone1 => c \in matches'
  BY <1>1 DEF Without, MatchOf
<1>5. ASSUME NEW d \in steady, NEW c \in Chunks(d)
      PROVE  \/ c \in matches'
             \/ \E r \in documents : r.doc = d /\ c \in r.chunks
             \/ \A s \in Segments : Outdone(s, c)'
  <2>1. c.doc = d /\ d \in DOMAIN docs
    BY DEF SInv, SearchTypeOK, Chunks
  <2>2. \A s : Outdone(s, c)' = Outdone(s, c)
    BY <1>2, <1>3, Quiet DEF Outdone
  <2>3. \/ c \in matches
        \/ \E r \in documents : r.doc = d /\ c \in r.chunks
        \/ \A s \in Segments : Outdone(s, c)
    BY <1>2 DEF SInv, SteadyOnItsWay
  <2> QED  BY <1>4, <2>1, <2>2, <2>3
<1>6. SearchTypeOK'
  BY <1>2, <1>3, <1>4 DEF SInv, SearchTypeOK
<1>7. FilterHolds' /\ CallsInOrder' /\ SignalsWhole'
  BY <1>2, <1>3 DEF SInv, FilterHolds, CallsInOrder, SignalsWhole
<1>8. DescribedOnce'
  <2>1. \A d : MatchOf(d)' \subseteq MatchOf(d)
    BY <1>4 DEF MatchOf
  <2> QED  BY <1>2, <2>1 DEF SInv, DescribedOnce
<1>9. WholeUnlessDeleting'
  BY <1>2, WholeStays
<1>10. SteadyOnItsWay'
  <2>1. \A d \in steady : Chunks(d) \subseteq allowed
    BY <1>2 DEF SInv, SteadyOnItsWay
  <2>2. steady \subseteq Findable
    BY DEF SInv, SteadyOnItsWay
  <2> QED  BY <1>2, <1>3, <1>5, <2>1, <2>2 DEF SteadyOnItsWay
<1>11. SteadyFound'
  BY <1>2, <1>3, <1>5 DEF SteadyFound, Outdone
<1> QED  BY <1>3, <1>6, <1>7, <1>8, <1>9, <1>10, <1>11 DEF SInv

LEMMA SInvLookUp ==
  ASSUME SInv, LookUp, UNCHANGED <<vars, published>>, Steady
  PROVE  SInv'
<1>1. /\ call = "document" /\ call' = "signals" /\ MatchOf(found') # {}
      /\ wanted' = wanted /\ allowed' = allowed /\ searched' = searched /\ best' = best
      /\ matches' = matches /\ signals' = signals /\ documents' = documents
  BY DEF LookUp, IsNext
<1>2. /\ IInv' /\ TypeOK' /\ DocsAsAsked' /\ published' = published /\ docs' = docs
      /\ asked' = asked /\ known' = known /\ deleting' = deleting /\ Findable' = Findable
      /\ steady' = steady
  BY <1>1, Quiet
<1>3. SearchTypeOK'
  BY <1>1, <1>2 DEF SInv, SearchTypeOK, MatchOf
<1>4. FilterHolds' /\ CallsInOrder' /\ SignalsWhole' /\ DescribedOnce'
  BY <1>1, <1>2 DEF SInv, FilterHolds, CallsInOrder, SignalsWhole, DescribedOnce, MatchOf
<1>5. WholeUnlessDeleting'
  BY <1>1, WholeStays
<1>6. SteadyOnItsWay'
  <2>1. \A s, c : Outdone(s, c)' = Outdone(s, c)
    BY <1>1, <1>2, Quiet DEF Outdone
  <2> QED  BY <1>1, <1>2, <2>1 DEF SInv, SteadyOnItsWay
<1>7. SteadyFound'
  BY <1>1 DEF SteadyFound
<1> QED  BY <1>2, <1>3, <1>4, <1>5, <1>6, <1>7 DEF SInv

LEMMA SInvComputeSignals ==
  ASSUME SInv, ComputeSignals, UNCHANGED <<vars, published>>, Steady
  PROVE  SInv'
<1>1. /\ call = "signals" /\ call' = "best"
      /\ wanted' = wanted /\ allowed' = allowed /\ searched' = searched /\ best' = best
      /\ matches' = matches /\ found' = found /\ documents' = documents
  BY DEF ComputeSignals
<1>2. /\ IInv' /\ TypeOK' /\ DocsAsAsked' /\ published' = published /\ docs' = docs
      /\ asked' = asked /\ known' = known /\ deleting' = deleting /\ Findable' = Findable
      /\ steady' = steady
  BY <1>1, Quiet
<1>3. PICK text \in Joined(MatchOf(found) \cap rows) :
        signals' = Signals(found, MaxScore(found), text)
  BY DEF ComputeSignals
<1>4. MatchOf(found) # {}
  BY <1>1 DEF SInv, SearchTypeOK
<1>5. MatchOf(found)' = MatchOf(found) /\ MaxScore(found)' = MaxScore(found)
  BY <1>1 DEF MatchOf, MaxScore
<1>6. RerankSignals(signals')
  BY <1>3, <1>4, MaxScoreInRange, SignalsInRange
<1>7. SearchTypeOK'
  BY <1>1, <1>2, <1>4, <1>5, <1>6 DEF SInv, SearchTypeOK
<1>8. FilterHolds' /\ CallsInOrder' /\ DescribedOnce'
  BY <1>1, <1>2 DEF SInv, FilterHolds, CallsInOrder, DescribedOnce, MatchOf
<1>9. SignalsWhole'
  <2> SUFFICES ASSUME found \notin deleting
               PROVE  \E other \in Joined(MatchOf(found))' :
                        signals' = Signals(found, MaxScore(found), other)'
    BY <1>1, <1>2 DEF SignalsWhole
  <2>1. MatchOf(found) \cap rows = MatchOf(found)
    BY <1>4, MaxScoreInRange DEF SInv, IInv, KnownWhole
  <2>2. Joined(MatchOf(found))' = Joined(MatchOf(found))
    <3>1. PICK C : C = MatchOf(found)
      OBVIOUS
    <3> QED  BY <1>5, <3>1, Quiet
  <2>3. Signals(found, MaxScore(found), text)' = Signals(found, MaxScore(found), text)
    <3>1. PICK d, m : d = found /\ m = MaxScore(found)
      OBVIOUS
    <3>2. Signals(d, m, text)' = Signals(d, m, text)
      BY Quiet
    <3> QED  BY <1>1, <1>5, <3>1, <3>2
  <2> QED  BY <1>3, <2>1, <2>2, <2>3
<1>10. WholeUnlessDeleting'
  BY <1>1, WholeStays
<1>11. SteadyOnItsWay'
  <2>1. \A s, c : Outdone(s, c)' = Outdone(s, c)
    BY <1>1, <1>2, Quiet DEF Outdone
  <2> QED  BY <1>1, <1>2, <2>1 DEF SInv, SteadyOnItsWay
<1>12. SteadyFound'
  BY <1>1 DEF SteadyFound
<1> QED  BY <1>2, <1>7, <1>8, <1>9, <1>10, <1>11, <1>12 DEF SInv

LEMMA SInvQuoteBest ==
  ASSUME SInv, QuoteBest, UNCHANGED <<vars, published>>, Steady
  PROVE  SInv'
<1>1. /\ call = "best" /\ matches' = Without(found)
      /\ call' = IF matches' = {} THEN "none" ELSE "document"
      /\ wanted' = wanted /\ allowed' = allowed /\ searched' = searched /\ best' = best
      /\ found' = None /\ signals' = <<>>
  BY DEF QuoteBest
<1>2. /\ IInv' /\ TypeOK' /\ DocsAsAsked' /\ published' = published /\ docs' = docs
      /\ asked' = asked /\ known' = known /\ deleting' = deleting /\ Findable' = Findable
      /\ steady' = steady
  BY <1>1, Quiet
<1>3. PICK c \in MatchOf(found) :
        documents' = documents \cup
          {[doc |-> found, chunks |-> MatchOf(found), similaridad |-> Score(signals),
            quoted |-> c \in rows]}
  BY DEF QuoteBest
<1> DEFINE r0 == [doc |-> found, chunks |-> MatchOf(found), similaridad |-> Score(signals),
                  quoted |-> c \in rows]
<1>4. PICK r \in {r0} : documents' = documents \cup {r}
  BY <1>3
<1>5. /\ r.doc = found /\ r.chunks = MatchOf(found) /\ r.similaridad = Score(signals)
      /\ r.quoted = (c \in rows)
      /\ r = [doc |-> r.doc, chunks |-> r.chunks, similaridad |-> r.similaridad, quoted |-> r.quoted]
  OBVIOUS
<1> HIDE DEF r0
<1>6. MatchOf(found) # {} /\ c.doc = found /\ c \in MatchOf(found)
  BY DEF MatchOf
<1>7. found \in known /\ asked[found] \in Texts /\ MatchOf(found) \subseteq Chunks(found)
  BY <1>6, MaxScoreInRange
<1>8. MatchOf(found) \subseteq DOMAIN best /\ MatchOf(found) \subseteq Chunk
  BY DEF SInv, SearchTypeOK, MatchOf
<1>9. RerankSignals(signals) /\ Score(signals) \in 0..100 * Unit
  BY ScoreBetween DEF SInv, SearchTypeOK
<1>10. matches' \subseteq matches /\ \A e \in matches : e.doc # found => e \in matches'
  BY <1>1 DEF Without, MatchOf
<1>11. \A d : MatchOf(d)' \subseteq MatchOf(d)
  BY <1>10 DEF MatchOf
<1>12. \A d : d = found => MatchOf(d)' = {}
  BY <1>1 DEF Without, MatchOf
<1>13. r \in DocumentMatch
  <2>1. r.doc \in Docs
    BY <1>5, <1>7 DEF SInv, IInv, TypeOK
  <2>2. r.quoted \in BOOLEAN
    BY <1>5
  <2>3. r.chunks \in SUBSET Chunk /\ r.similaridad \in 0..100 * Unit
    BY <1>5, <1>8, <1>9
  <2> QED  BY <1>5, <2>1, <2>2, <2>3 DEF DocumentMatch
<1>14. SearchTypeOK'
  <2>1. RerankSignals(signals')
    <3>1. DOMAIN signals' = {} /\ signals' = [n \in {} |-> 0]
      BY <1>1
    <3> QED  BY <3>1 DEF RerankSignals
  <2>2. documents' \subseteq DocumentMatch /\ \A x \in documents' : x.chunks \subseteq Chunks(x.doc) /\ x.chunks # {}
    BY <1>4, <1>5, <1>6, <1>7, <1>13 DEF SInv, SearchTypeOK
  <2> QED  BY <1>1, <1>2, <1>10, <2>1, <2>2 DEF SInv, SearchTypeOK
<1>15. FilterHolds' /\ CallsInOrder' /\ SignalsWhole'
  BY <1>1, <1>2 DEF SInv, FilterHolds, CallsInOrder, SignalsWhole
<1>16. DescribedOnce'
  <2>1. \A x \in documents : x.doc # found
    BY <1>6 DEF SInv, DescribedOnce
  <2>2. ASSUME NEW x \in documents'
        PROVE  x.chunks \subseteq DOMAIN best /\ \A d : d = x.doc => MatchOf(d)' = {}
    <3>1. CASE x \in documents
      BY <1>11, <3>1 DEF SInv, DescribedOnce
    <3>2. CASE x = r
      BY <1>5, <1>8, <1>12, <3>2
    <3> QED  BY <1>4, <3>1, <3>2
  <2>3. \A x, y \in documents' : x.doc = y.doc => x = y
    BY <1>4, <1>5, <2>1 DEF SInv, DescribedOnce
  <2> QED  BY <1>1, <2>2, <2>3 DEF DescribedOnce
<1>17. WholeUnlessDeleting'
  <2>1. ASSUME NEW x \in documents, x.doc \notin deleting
        PROVE  /\ x.quoted
               /\ \E text \in Joined(x.chunks) :
                    x.similaridad = Score(Signals(x.doc, Max({best[e] : e \in x.chunks}), text))
    BY <2>1 DEF SInv, WholeUnlessDeleting
  <2>2. ASSUME found \notin deleting
        PROVE  /\ r.quoted
               /\ \E text \in Joined(r.chunks) :
                    r.similaridad = Score(Signals(r.doc, Max({best[e] : e \in r.chunks}), text))
    <3>1. c \in rows
      BY <1>6, <1>7, <2>2 DEF SInv, IInv, KnownWhole
    <3>2. \E text \in Joined(MatchOf(found)) : signals = Signals(found, MaxScore(found), text)
      BY <1>1, <2>2 DEF SInv, SignalsWhole
    <3>3. MaxScore(found) = Max({best[e] : e \in MatchOf(found)})
      BY DEF MaxScore
    <3> QED  BY <1>5, <3>1, <3>2, <3>3
  <2>3. ASSUME NEW x \in documents', x.doc \notin deleting
        PROVE  /\ x.quoted
               /\ \E text \in Joined(x.chunks)' :
                    x.similaridad = Score(Signals(x.doc, Max({best[e] : e \in x.chunks}), text)')
    <3> DEFINE m == Max({best[e] : e \in x.chunks})
    <3>1. x.quoted /\ \E text \in Joined(x.chunks) : x.similaridad = Score(Signals(x.doc, m, text))
      BY <1>4, <1>5, <2>1, <2>2, <2>3
    <3>2. Joined(x.chunks)' = Joined(x.chunks)
      BY <1>2 DEF Joined, Words
    <3>3. \A text : Signals(x.doc, m, text)' = Signals(x.doc, m, text)
      BY <1>1, <1>2 DEF Signals
    <3> QED  BY <3>1, <3>2, <3>3
  <2> QED  BY <1>1, <1>2, <2>3 DEF WholeUnlessDeleting
<1>18. ASSUME NEW d \in steady, NEW e \in Chunks(d)
       PROVE  \/ e \in matches'
              \/ \E x \in documents' : x.doc = d /\ e \in x.chunks
              \/ \A s \in Segments : Outdone(s, e)'
  <2>1. e.doc = d
    BY DEF Chunks
  <2>2. \A s : Outdone(s, e)' = Outdone(s, e)
    BY <1>1, <1>2, Quiet DEF Outdone
  <2>3. \/ e \in matches
        \/ \E x \in documents : x.doc = d /\ e \in x.chunks
        \/ \A s \in Segments : Outdone(s, e)
    BY <1>1 DEF SInv, SteadyOnItsWay
  <2>4. e \in matches /\ d = found => e \in r.chunks /\ r.doc = d
    BY <1>5, <2>1 DEF MatchOf
  <2> QED  BY <1>4, <1>10, <2>1, <2>2, <2>3, <2>4
<1>19. SteadyOnItsWay'
  <2>1. \A d \in steady : Chunks(d) \subseteq allowed
    BY <1>1 DEF SInv, SteadyOnItsWay
  <2>2. steady \subseteq Findable
    BY DEF SInv, SteadyOnItsWay
  <2> QED  BY <1>1, <1>2, <1>18, <2>1, <2>2 DEF SteadyOnItsWay
<1>20. SteadyFound'
  BY <1>1, <1>2, <1>18 DEF SteadyFound, Outdone
<1> QED  BY <1>2, <1>14, <1>15, <1>16, <1>17, <1>19, <1>20 DEF SInv

LEMMA SInvStep ==
  SInv /\ SearchNext => SInv'
BY SInvWorker, SInvStartSearch, SInvFilterDocuments, SInvFilterChunks, SInvSearchIndex,
   SInvResolveOwners, SInvLookUpGone, SInvLookUp, SInvComputeSignals, SInvQuoteBest
   DEF SearchNext, SearchStep

LEMMA SInvStutter ==
  SInv /\ UNCHANGED <<vars, published, search, steady>> => SInv'
<1> SUFFICES ASSUME SInv, UNCHANGED <<vars, published, search, steady>> PROVE SInv'
  OBVIOUS
<1>1. UNCHANGED <<vars, published>> /\ call' = call /\ UNCHANGED answer /\ steady' = steady
  BY DEF search
<1>2. steady' = steady \cap Findable' /\ published' \subseteq Chunk /\ asked' = asked
  BY <1>1, Quiet DEF SInv, SteadyOnItsWay, SearchTypeOK
<1> QED  BY <1>1, <1>2, SInvKept

-----------------------------------------------------------------------------
(* What the text of a match shows *)

\* Put together in any order, the chunks of a match hold what each holds.
LEMMA JoinedHolds ==
  ASSUME NEW C \in SUBSET Chunk, C # {}, \A c \in C : asked[c.doc] \in Texts,
         NEW text \in Joined(C), NEW c \in C
  PROVE  /\ text \in Seq(Vocabulary) /\ Words(c) \in Seq(Vocabulary) /\ Words(c) # <<>>
         /\ \A part \in Seq(Vocabulary) : Holds(Words(c), part) => Holds(text, part)
         /\ C = {c} => text = Words(c)
<1>1. PICK order \in Seqs!SetToSeqs(C) : text = Seqs!FlattenSeq([i \in DOMAIN order |-> Words(order[i])])
  BY DEF Joined
<1> DEFINE n == Cardinality(C)
           texts == [i \in 1..n |-> Words(order[i])]
<1>2. IsFiniteSet(C) /\ n \in Nat \ {0}
  <2>1. IsFiniteSet(C)
    BY ChunksCounted, FS_Subset
  <2> QED  BY <2>1, FS_CardinalityType, FS_EmptySet
<1> HIDE DEF n
<1>3. order \in [1..n -> C] /\ \A i, j \in 1..n : i # j => order[i] # order[j]
  <2>1. Seqs!SetToSeqs(C) = {f \in [1..n -> C] : \A i, j \in 1..n : i # j => f[i] # f[j]}
    <3>1. Seqs!Cardinality(C) = n
      BY DEF Seqs!Cardinality, Cardinality, n
    <3> QED  BY <3>1 DEF Seqs!SetToSeqs
  <2> QED  BY <1>1, <2>1
<1>4. \A e \in C : e.order \in Orders /\ Words(e) \in Seq(Vocabulary) /\ Words(e) # <<>>
  BY TextsOfWords DEF Words, Chunk
<1>5. /\ texts \in Seq(Seq(Vocabulary)) /\ Len(texts) = n
      /\ \A i \in 1..n : texts[i] = Words(order[i]) /\ texts[i] \in Seq(Vocabulary)
  BY <1>2, <1>3, <1>4
<1>6. text = Seqs!FlattenSeq(texts)
  BY <1>1, <1>3
<1> HIDE DEF texts
<1>7. PICK k \in 1..n : order[k] = c
  <2>1. order \in Injection(1..n, C)
    BY <1>3 DEF Injection, IsInjective
  <2>2. Cardinality(1..n) = n
    <3>1. 1 \in Int /\ n \in Int /\ ~(1 > n) /\ n - 1 + 1 = n
      BY <1>2
    <3> QED  BY <3>1, FS_Interval
  <2>3. order \in Surjection(1..n, C)
    BY <1>2, <2>1, <2>2, FS_Injection DEF n
  <2> QED  BY <2>3 DEF Surjection
<1>8. text \in Seq(Vocabulary)
  BY <1>2, <1>5, <1>6, FlattenHolds
<1>9. \A part \in Seq(Vocabulary) : Holds(Words(c), part) => Holds(text, part)
  <2>1. \A j \in 1..n, part \in Seq(Vocabulary) : Holds(texts[j], part) => Holds(text, part)
    BY <1>2, <1>5, <1>6, FlattenHolds
  <2>2. texts[k] = Words(c)
    BY <1>5, <1>7
  <2> QED  BY <1>7, <2>1, <2>2
<1>10. ASSUME C = {c} PROVE text = Words(c)
  <2>1. n = 1
    BY <1>10, FS_Singleton DEF n
  <2>2. text = texts[1]
    BY <1>2, <1>5, <1>6, <2>1, FlattenHolds
  <2> QED  BY <1>5, <1>7, <2>1, <2>2
<1> QED  BY <1>4, <1>8, <1>9, <1>10

\* So a copied query shows in the signals of a match nothing takes apart.
LEMMA SignalsShowCopies == SInv => CopyShows
<1> DEFINE query == SearchRequest.text.words
<1> SUFFICES ASSUME SInv, call = "best", found \notin deleting, NEW c \in MatchOf(found)
             PROVE  /\ Len(query) >= NGRAM_SIZE /\ Holds(Words(c), query) =>
                         "exact" \in DOMAIN signals /\ signals["exact"] = 100
                    /\ MatchOf(found) = {c} /\ Words(c) = query =>
                         \A n \in Textual : n \in DOMAIN signals /\ signals[n] = 100
  BY DEF CopyShows
<1>1. PICK text \in Joined(MatchOf(found)) : signals = Signals(found, MaxScore(found), text)
  BY DEF SInv, SignalsWhole
<1>2. /\ MatchOf(found) \in SUBSET Chunk /\ MatchOf(found) # {}
      /\ \A e \in MatchOf(found) : asked[e.doc] \in Texts
  <2>1. \A e \in MatchOf(found) : e \in allowed /\ e \in Chunk
    BY DEF SInv, SearchTypeOK, MatchOf
  <2> QED  BY <2>1 DEF SInv, FilterHolds, Matching
<1>3. /\ text \in Seq(Vocabulary) /\ Words(c) # <<>>
      /\ Holds(Words(c), query) => Holds(text, query)
      /\ MatchOf(found) = {c} => text = Words(c)
  <2>1. PICK C : C = MatchOf(found)
    OBVIOUS
  <2> QED  BY <1>1, <1>2, <2>1, JoinedHolds, TextsOfWords
<1> DEFINE likeness == Likeness(query, text)
<1>4. \A n \in Textual \cap DOMAIN likeness : n \in DOMAIN signals /\ signals[n] = likeness[n]
  <2> HIDE DEF likeness
  <2>1. signals = compute_signals(MaxScore(found), Query.facts, About[asked[found]].facts, likeness)
    BY <1>1 DEF Signals, likeness
  <2> QED  BY <2>1 DEF compute_signals, Textual
<1>5. ASSUME Len(query) >= NGRAM_SIZE, Holds(Words(c), query)
      PROVE  "exact" \in DOMAIN signals /\ signals["exact"] = 100
  <2>1. text # <<>> /\ exact_ngram_overlap(query, text) = 100
    BY <1>3, <1>5, HeldQueryIsExact
  <2>2. "exact" \in DOMAIN likeness /\ likeness["exact"] = 100
    BY <2>1 DEF Likeness
  <2> QED  BY <1>4, <2>2 DEF Textual
<1>6. ASSUME MatchOf(found) = {c}, Words(c) = query
      PROVE  \A n \in Textual : n \in DOMAIN signals /\ signals[n] = 100
  <2>1. text = query /\ query # <<>>
    BY <1>3, <1>6
  <2>2. DOMAIN likeness = Textual /\ \A n \in Textual : likeness[n] = 100
    BY <2>1, QueryIsItself
  <2> HIDE DEF likeness
  <2> QED  BY <1>4, <2>2
<1> QED  BY <1>5, <1>6

LEMMA SInvImplies ==
  SInv => SearchTypeOK /\ OnlyMatching /\ SteadyFound /\ WholeUnlessDeleting /\ CopyShows /\ NeverCapped
<1> SUFFICES ASSUME SInv PROVE OnlyMatching /\ NeverCapped
  BY SignalsShowCopies DEF SInv
<1>1. OnlyMatching
  <2>1. ASSUME NEW r \in documents PROVE asked[r.doc] \in Matching
    <3>1. PICK c \in r.chunks : c.doc = r.doc
      BY DEF SInv, SearchTypeOK, Chunks
    <3>2. c \in allowed
      BY DEF SInv, SearchTypeOK, DescribedOnce
    <3> QED  BY <3>1, <3>2 DEF SInv, FilterHolds
  <2> QED  BY <2>1 DEF SInv, DescribedOnce, OnlyMatching
<1>2. NeverCapped
  BY ScoreBetween DEF SInv, SearchTypeOK, NeverCapped
<1> QED  BY <1>1, <1>2

-----------------------------------------------------------------------------
(* The theorems *)

\* The invariant of the search, inductive over the worker's steps, checkpoints
\* and reloads that come between its calls.
THEOREM InductiveSInv == SearchSpec => []SInv
<1>1. SInv /\ [SearchNext]_<<vars, published, search, steady>> => SInv'
  BY SInvStep, SInvStutter
<1> QED  BY <1>1, SInvInit, PTL DEF SearchSpec
=============================================================================
