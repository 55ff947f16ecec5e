------------------------------ MODULE Analysis ------------------------------
(***************************************************************************)
(* What the program makes of a text, that of a query or that of a          *)
(* document: LangDetectAdapter and EmbeddingCentroidTopicClassifier say    *)
(* its language and topic, InstitutionNormalizer the institution it names, *)
(* and three measures say how alike the words of two texts are.            *)
(*                                                                         *)
(* A text is a record: how many characters it has, the languages           *)
(* langdetect finds in it (none when that raises), its embedding, the      *)
(* institution guess_institution finds in it, if any, and its words.       *)
(* Shares are in hundredths, rounded down.                                 *)
(***************************************************************************)
EXTENDS Integers, Sequences, FiniteSets, TLC
LOCAL INSTANCE FiniteSetsExt
LOCAL INSTANCE Functions

CONSTANTS
  TopicSeeds,      \* sequence of domains, each with the embeddings of its seed texts
  TOPIC_THRESHOLD, \* topic_confidence_threshold, in hundredths
  Gazetteer,       \* institution as a text names it |-> the name normalize() makes of it
  NGRAM_SIZE, MINHASH_SIZE, SIMHASH_SIZE, \* words of a shingle
  NUM_PERM,        \* permutations of a MinHash
  BITS,            \* bits of a SimHash
  Rank(_, _),      \* permutation, shingle |-> the place of the shingle in it
  Digest(_)        \* shingle |-> the bits its hash has set

ASSUME SeedTexts == TopicSeeds # <<>> /\ \A i \in DOMAIN TopicSeeds : TopicSeeds[i].vectors # <<>>
ASSUME ThresholdInRange == TOPIC_THRESHOLD \in 0..100
ASSUME SizesPositive == {NGRAM_SIZE, MINHASH_SIZE, SIMHASH_SIZE, NUM_PERM, BITS} \subseteq Nat \ {0}

-----------------------------------------------------------------------------
(* Language, topic, institution *)

\* Too short a text, or one langdetect finds nothing in, counts as English.
detect(text) ==
  IF text.chars < 3 \/ text.guesses = <<>> THEN "en" ELSE Head(text.guesses)

Dot(u, v) == SumFunction([i \in DOMAIN u |-> u[i] * v[i]])
Norm2(v) == IF Dot(v, v) = 0 THEN 1 ELSE Dot(v, v)
SignedSquare(x) == IF x < 0 THEN -x * x ELSE x * x

\* cosine_similarity, compared with another of u's, and with a share, without
\* the square roots. A null vector's cosines are 0.
AsNear(u, v, w) ==
  SignedSquare(Dot(u, v)) * Norm2(w) >= SignedSquare(Dot(u, w)) * Norm2(v)
CosineAtLeast(u, v, share) ==
  10000 * SignedSquare(Dot(u, v)) >= SignedSquare(share) * Norm2(u) * Norm2(v)

\* The mean of the seeds, but for its length, which no cosine depends on.
average(seeds) ==
  [k \in DOMAIN seeds[1] |-> SumFunction([i \in DOMAIN seeds |-> seeds[i][k]])]

Centroids == [i \in DOMAIN TopicSeeds |-> average(TopicSeeds[i].vectors)]

\* The nearest centroid, the first of several. Its confidence, (cosine + 1) / 2,
\* matters for whether it reaches the threshold.
classify(text) ==
  LET closest == {i \in DOMAIN Centroids :
                    \A j \in DOMAIN Centroids : AsNear(text.vector, Centroids[i], Centroids[j])}
      topic == Min(closest)
  IN [domain |-> TopicSeeds[topic].domain,
      sure |-> CosineAtLeast(text.vector, Centroids[topic], 2 * TOPIC_THRESHOLD - 100)]

Detected(text) == [language |-> detect(text), topic |-> classify(text).domain]

\* What is known of a query: an institution it names, by its canonical name.
QueryFacts(text) ==
  Detected(text) @@ [e \in {"entity" : i \in text.institution} |->
                       Gazetteer[CHOOSE i \in text.institution : TRUE]]

\* What is known of a document: what the request said, as it said it, and what
\* is detected in place of a language or topic it did not give.
DocumentFacts(text, provided) ==
  [f \in DOMAIN provided \cup DOMAIN Detected(text) |->
     IF f \in DOMAIN provided THEN provided[f] ELSE Detected(text)[f]]

-----------------------------------------------------------------------------
(* Likeness of two texts, as sequences of words *)

\* Mistake: range() stops one shingle early.
ShinglesButLast(words, size) ==
  {SubSeq(words, i, i + size - 1) : i \in 1..(Len(words) - size)}
    \cup (IF Len(words) \in 1..size THEN {words} ELSE {})

word_shingles(words, size) ==
  {SubSeq(words, i, i + size - 1) : i \in 1..(Len(words) - size + 1)}
    \cup (IF Len(words) \in 1..(size - 1) THEN {words} ELSE {})

Share(part, of) == (100 * part) \div of

exact_ngram_overlap(query, candidate) ==
  LET shingles == word_shingles(query, NGRAM_SIZE)
  IN IF shingles = {} THEN 0
     ELSE Share(Cardinality(shingles \cap word_shingles(candidate, NGRAM_SIZE)), Cardinality(shingles))

\* The share of the permutations that put the same shingle of either first.
minhash_similarity(a, b) ==
  LET first(p, words) == Min({Rank(p, s) : s \in word_shingles(words, MINHASH_SIZE)})
  IN IF a = <<>> \/ b = <<>> THEN 0
     ELSE Share(Cardinality({p \in 1..NUM_PERM : first(p, a) = first(p, b)}), NUM_PERM)

\* A bit is set when more shingles set it than not.
simhash(words) ==
  LET shingles == word_shingles(words, SIMHASH_SIZE)
  IN {bit \in 0..BITS-1 :
        2 * Cardinality({s \in shingles : bit \in Digest(s)}) > Cardinality(shingles)}

simhash_similarity(a, b) ==
  LET differing == (simhash(a) \ simhash(b)) \cup (simhash(b) \ simhash(a))
  IN Share(BITS - Cardinality(differing), BITS)

\* None of them when there is no text to compare with.
Likeness(query, candidate) ==
  IF candidate = <<>> THEN <<>>
  ELSE [minhash |-> minhash_similarity(query, candidate),
        simhash |-> simhash_similarity(query, candidate),
        exact |-> exact_ngram_overlap(query, candidate)]

-----------------------------------------------------------------------------
\* A text holds another, word by word.
Holds(text, part) ==
  \E i \in 1..(Len(text) - Len(part) + 1) : SubSeq(text, i, i + Len(part) - 1) = part
=============================================================================
