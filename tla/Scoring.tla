------------------------------ MODULE Scoring ------------------------------
(***************************************************************************)
(* How alike a query and a document are: the signals that                  *)
(* Reranker.compute_signals finds for a match, and what PlagiarismScorer   *)
(* makes of them, a weighted mean over the signals that are there.         *)
(*                                                                         *)
(* Signals are in hundredths, and a percentage in units of its fourth      *)
(* decimal place, where round() leaves it.                                 *)
(***************************************************************************)
EXTENDS Integers

Textual == {"minhash", "simhash", "exact"}
SignalNames == {"embedding", "topic", "language", "entity"} \cup Textual

\* A signal that is None is not in the domain; one out of range is refused.
RerankSignals(s) == DOMAIN s \subseteq SignalNames /\ s \in [DOMAIN s -> 0..100]

SOTA_WEIGHTS ==
  [embedding |-> 35, topic |-> 20, language |-> 15, minhash |-> 10, simhash |-> 10,
   entity |-> 5, exact |-> 5]

-----------------------------------------------------------------------------
(* Reranker *)

categorical_match(asked, of) == IF asked = of THEN 100 ELSE 0

\* What the query and the document both say something about: the topic, the
\* language, and for _entity_match the institution.
Comparable(query, facts) == DOMAIN query \cap DOMAIN facts

\* The textual signals are there when the matched chunks have a text to compare.
compute_signals(max_score, query, facts, likeness) ==
  [n \in {"embedding"} \cup Comparable(query, facts) \cup DOMAIN likeness |->
     CASE n = "embedding" -> max_score
       [] n \in Textual   -> likeness[n]
       [] OTHER           -> categorical_match(query[n], facts[n])]

-----------------------------------------------------------------------------
(* PlagiarismScorer *)

Unit == 10000
Total(f) == f.embedding + f.topic + f.language + f.minhash + f.simhash + f.entity + f.exact

Weights(signals) == [n \in SignalNames |-> IF n \in DOMAIN signals THEN SOTA_WEIGHTS[n] ELSE 0]

Weighted(signals) ==
  [n \in SignalNames |-> IF n \in DOMAIN signals THEN SOTA_WEIGHTS[n] * signals[n] ELSE 0]

\* round(x, 4), but for ties.
Rounded(numerator, denominator) == (2 * Unit * numerator + denominator) \div (2 * denominator)

\* Mistake: the weights are not normalized over the signals that are there.
ScoreCapped(signals) ==
  IF DOMAIN signals = {} THEN 0 ELSE Rounded(Total(Weighted(signals)), 100)

Score(signals) ==
  IF DOMAIN signals = {} THEN 0
  ELSE Rounded(Total(Weighted(signals)), Total(Weights(signals)))

-----------------------------------------------------------------------------
\* The score is between the least and the greatest of the signals that are there.
Between(signals) ==
  DOMAIN signals # {} =>
    /\ \E n \in DOMAIN signals : Unit * signals[n] <= Score(signals)
    /\ \E n \in DOMAIN signals : Score(signals) <= Unit * signals[n]
=============================================================================
