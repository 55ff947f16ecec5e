---------------------------- MODULE SearchAnswer ----------------------------
(***************************************************************************)
(* A search answered by a web replica while the indexer worker writes:     *)
(* CandidateFilter, SearchPipeline, ResultAggregator and SearchService     *)
(* read the database, statement by statement, and the index the worker     *)
(* last published, with nothing that holds the two together.               *)
(*                                                                         *)
(* A statement sees what is committed when it runs. How near a segment of  *)
(* the query is to a chunk is data.                                        *)
(***************************************************************************)
EXTENDS IndexingSaga, Analysis, Scoring, FiniteSetsExt
Seqs == INSTANCE SequencesExt

CONSTANTS
  SearchRequest, \* its tenant and its text
  IndexCommands, \* text |-> the request that brings it: the tenant, the text, the
                 \* facts provided with it and the words of its chunks
  Cosine,        \* segment of the query |-> text |-> how near its chunks are
  TopK           \* top_k_per_segment

Segments == DOMAIN Cosine

\* What the requests are checked for.
IndexRequest(r) ==
  /\ DOMAIN r.provided \subseteq {"language", "topic", "entity"}
  /\ r.text.chars > 0 /\ DOMAIN r.chunks = Orders /\ \A o \in Orders : r.chunks[o] # <<>>

ASSUME RequestsValid ==
  /\ DOMAIN IndexCommands = Texts /\ \A t \in Texts : IndexRequest(IndexCommands[t])
  /\ SearchRequest.text.chars > 0
\* A query that has no segment is answered before anything is read.
ASSUME CosineOfTexts ==
  /\ IsFiniteSet(Segments) /\ Segments # {} /\ Segments = 1..Cardinality(Segments)
  /\ Cosine \in [Segments -> [Texts -> 0..100]]
ASSUME TopKPositive == TopK \in Nat \ {0}
ASSUME ChunksFinite == IsFiniteSet(Docs) /\ IsFiniteSet(Orders)
ASSUME WordsInOrder ==
  \A words \in {SearchRequest.text.words} \cup {IndexCommands[t].chunks[o] : t \in Texts, o \in Orders} :
    words \in Seq({words[i] : i \in DOMAIN words})

\* What SearchService and CandidateFilter know of the query, and the documents
\* table of a text.
Query ==
  [tenant |-> SearchRequest.tenant, facts |-> QueryFacts(SearchRequest.text),
   sure |-> classify(SearchRequest.text).sure]
About ==
  [t \in Texts |->
     [tenant |-> IndexCommands[t].tenant,
      facts |-> DocumentFacts(IndexCommands[t].text, IndexCommands[t].provided)]]

\* A document of the answer: its chunks, its percentage, whether the best of the
\* chunks is quoted.
DocumentMatch ==
  [doc : Docs, chunks : SUBSET Chunk, similaridad : 0..100 * Unit, quoted : BOOLEAN]

VARIABLES
  published, \* chunk ids in the index the replica serves
  call,      \* what the reader does next: a call, or "none"
  wanted,    \* document_ids of the filter
  allowed,   \* the allowlist
  searched,  \* segments searched
  best,      \* chunk id among the hits |-> its best score
  matches,   \* matched chunk ids of the documents not yet described
  found,     \* the document being described
  signals,   \* its signals
  documents, \* the documents of the answer
  steady     \* history: documents there to be found from the start until now

answer == <<wanted, allowed, searched, best, matches, found, signals, documents>>
search == <<call, answer>>

SearchInit ==
  /\ Init
  /\ published = {} /\ call = "none" /\ steady = {}
  /\ wanted = {} /\ allowed = {} /\ searched = 0 /\ best = <<>> /\ matches = {}
  /\ found = None /\ signals = <<>> /\ documents = {}

-----------------------------------------------------------------------------
(* The search *)

\* Mistake: the matches of the search before are kept.
StartSearchKeeping ==
  /\ call = "none" /\ call' = "documents"
  /\ UNCHANGED answer

NoAnswer ==
  /\ wanted' = {} /\ allowed' = {} /\ searched' = 0 /\ best' = <<>> /\ matches' = {}
  /\ found' = None /\ signals' = <<>> /\ documents' = {}

StartSearch == call = "none" /\ call' = "documents" /\ NoAnswer

\* The texts of the candidates: the tenant's, in the query's language, and on its
\* topic when the classifier was sure of it.
Matching ==
  {t \in Texts :
     /\ About[t].tenant = Query.tenant
     /\ \A f \in {"language"} \cup (IF Query.sure THEN {"topic"} ELSE {}) :
          About[t].facts[f] = Query.facts[f]}

\* Mistake: an empty list of documents is taken for no filter.
FilterDocumentsOrAll ==
  /\ call = "documents"
  /\ LET matching == {d \in DOMAIN docs : docs[d] \in Matching}
     IN wanted' = IF matching = {} THEN DOMAIN docs ELSE matching
  /\ call' = "chunks"
  /\ UNCHANGED <<allowed, searched, best, matches, found, signals, documents>>

\* ids_matching. An empty result ends the search: it does not lift the filter.
FilterDocuments ==
  /\ call = "documents"
  /\ wanted' = {d \in DOMAIN docs : docs[d] \in Matching}
  /\ call' = IF wanted' = {} THEN "none" ELSE "chunks"
  /\ UNCHANGED <<allowed, searched, best, matches, found, signals, documents>>

\* ids_for_documents.
FilterChunks ==
  /\ call = "chunks"
  /\ allowed' = {c \in rows : c.doc \in wanted} /\ wanted' = {}
  /\ call' = IF allowed' = {} THEN "none" ELSE "index"
  /\ UNCHANGED <<searched, best, matches, found, signals, documents>>

Nearness(s, c) == Cosine[s][asked[c.doc]]

\* The TopK nearest of a set of chunks, or all there are.
Nearest(s, chunks) ==
  {h \in SUBSET chunks :
     /\ Cardinality(h) = IF Cardinality(chunks) < TopK THEN Cardinality(chunks) ELSE TopK
     /\ \A c \in h, e \in chunks \ h : Nearness(s, c) >= Nearness(s, e)}

\* _dedupe_best_per_chunk.
Merged(s, h) ==
  [c \in DOMAIN best \cup h |->
     IF c \notin h THEN best[c]
     ELSE IF c \in DOMAIN best /\ best[c] >= Nearness(s, c) THEN best[c] ELSE Nearness(s, c)]

\* Mistake: the filter comes after the search.
SearchThenFilter ==
  /\ call = "index"
  /\ searched' = searched + 1
  /\ \E h \in Nearest(searched', published) : best' = Merged(searched', h \cap allowed)
  /\ call' = IF searched' = Cardinality(Segments) THEN "owners" ELSE "index"
  /\ UNCHANGED <<wanted, allowed, matches, found, signals, documents>>

\* One segment. The index may be reloaded between two.
SearchIndex ==
  /\ call = "index"
  /\ searched' = searched + 1
  /\ \E h \in Nearest(searched', published \cap allowed) : best' = Merged(searched', h)
  /\ call' = IF searched' = Cardinality(Segments) THEN "owners" ELSE "index"
  /\ UNCHANGED <<wanted, allowed, matches, found, signals, documents>>

\* _resolve_document_ids: a chunk that has no row any more is skipped.
ResolveOwners ==
  /\ call = "owners"
  /\ matches' = DOMAIN best \cap rows
  /\ call' = IF matches' = {} THEN "none" ELSE "document"
  /\ UNCHANGED <<wanted, allowed, searched, best, found, signals, documents>>

MatchOf(d) == {c \in matches : c.doc = d}
Without(d) == matches \ MatchOf(d)

\* The matches come in the order of their best scores.
IsNext(d) == \E c \in MatchOf(d) : \A e \in matches : best[c] >= best[e]

\* by_id of the next match: its document may be gone.
LookUpGone ==
  /\ call = "document"
  /\ \E d \in Docs \ DOMAIN docs : IsNext(d) /\ matches' = Without(d)
  /\ call' = IF matches' = {} THEN "none" ELSE "document"
  /\ UNCHANGED <<wanted, allowed, searched, best, found, signals, documents>>

LookUp ==
  /\ call = "document" /\ call' = "signals"
  /\ \E d \in DOMAIN docs : IsNext(d) /\ found' = d
  /\ UNCHANGED <<wanted, allowed, searched, best, matches, signals, documents>>

MaxScore(d) == Max({best[c] : c \in MatchOf(d)})

Words(c) == IndexCommands[asked[c.doc]].chunks[c.order]

\* The texts of chunks one after the other: by_ids gives them in any order.
Joined(chunks) == {Seqs!FlattenSeq([i \in DOMAIN s |-> Words(s[i])]) : s \in Seqs!SetToSeqs(chunks)}

Signals(d, max_score, candidate) ==
  compute_signals(max_score, Query.facts, About[asked[d]].facts,
                  Likeness(SearchRequest.text.words, candidate))

ComputeSignals ==
  /\ call = "signals" /\ call' = "best"
  /\ \E candidate \in Joined(MatchOf(found) \cap rows) :
       signals' = Signals(found, MaxScore(found), candidate)
  /\ UNCHANGED <<wanted, allowed, searched, best, matches, found, documents>>

\* The score, and the text and page of the best chunk, empty when that has no
\* row any more.
QuoteBest ==
  /\ call = "best"
  /\ \E c \in MatchOf(found) :
       /\ best[c] = MaxScore(found)
       /\ documents' = documents \cup
            {[doc |-> found, chunks |-> MatchOf(found), similaridad |-> Score(signals),
              quoted |-> c \in rows]}
  /\ matches' = Without(found)
  /\ call' = IF matches' = {} THEN "none" ELSE "document"
  /\ found' = None /\ signals' = <<>>
  /\ UNCHANGED <<wanted, allowed, searched, best>>

SearchStep ==
  \/ StartSearch \/ FilterDocuments \/ FilterChunks \/ SearchIndex \/ ResolveOwners
  \/ LookUpGone \/ LookUp \/ ComputeSignals \/ QuoteBest

-----------------------------------------------------------------------------
(* The search among the worker's steps and its checkpoints *)

Findable ==
  {d \in DOMAIN docs : docs[d] \in Matching /\ Chunks(d) \subseteq rows \cap published}

\* A checkpoint, and the reload that follows it before the next search.
Publish == \E p \in running : published' = vectors[p] /\ UNCHANGED vars

\* An answer is gone with the next step.
WorkerStep ==
  /\ Publish \/ (Next /\ UNCHANGED published)
  /\ IF call = "none" THEN NoAnswer ELSE UNCHANGED answer
  /\ UNCHANGED call

Steady ==
  steady' = IF call # "none" THEN steady \cap Findable'
            ELSE IF call' = "documents" THEN Findable' ELSE {}

SearchNext ==
  /\ WorkerStep \/ (SearchStep /\ UNCHANGED <<vars, published>>)
  /\ Steady

SearchSpec == SearchInit /\ [][SearchNext]_<<vars, published, search, steady>>

-----------------------------------------------------------------------------
(* Properties *)

SearchTypeOK ==
  /\ TypeOK
  /\ published \subseteq Chunk
  /\ wanted \subseteq Docs /\ allowed \subseteq Chunk /\ searched \in 0..Cardinality(Segments)
  /\ DOMAIN best \subseteq allowed /\ best \in [DOMAIN best -> 0..100]
  /\ matches \subseteq DOMAIN best
  /\ call \in {"signals", "best"} => MatchOf(found) # {}
  /\ RerankSignals(signals) /\ steady \subseteq DOMAIN docs
  /\ documents \subseteq DocumentMatch
  /\ \A r \in documents : r.chunks \subseteq Chunks(r.doc) /\ r.chunks # {}

\* Whatever is indexed or deleted meanwhile, the answer has each document once,
\* and none that the filter leaves out (vector_index_repository.py:3-8: an
\* allowlist of nothing is not an unrestricted search), least of all another
\* tenant's.
OnlyMatching ==
  \A r, s \in documents :
    /\ asked[r.doc] \in Matching
    /\ r.doc = s.doc => r = s

\* Filter first (ADR-004): a document that is whole, in the index and in the
\* database, all along a search is found with all its chunks, unless for every
\* segment TopK of the allowed chunks are at least as near.
SteadyFound ==
  call = "none" =>
    \A d \in steady : \A c \in Chunks(d) :
      \/ \E r \in documents : r.doc = d /\ c \in r.chunks
      \/ \A s \in Segments :
           Cardinality({e \in allowed \ {c} : Nearness(s, e) >= Nearness(s, c)}) >= TopK

\* A document of the answer was scored over the signals of its text and is
\* quoted, unless a deletion began to take it apart: no other document's coming
\* or going moves its percentage.
WholeUnlessDeleting ==
  \A r \in documents :
    r.doc \notin deleting =>
      /\ r.quoted
      /\ \E candidate \in Joined(r.chunks) :
           r.similaridad = Score(Signals(r.doc, Max({best[c] : c \in r.chunks}), candidate))

\* A copy shows: when a matched chunk holds the query word for word, and the
\* query has an n-gram, all its n-grams are found, whatever chunks come with it
\* and in which order; and a match that is the query is like it by every measure.
CopyShows ==
  LET query == SearchRequest.text.words
      certain(measures) == \A n \in measures : n \in DOMAIN signals /\ signals[n] = 100
  IN call = "best" /\ found \notin deleting =>
       \A c \in MatchOf(found) :
         /\ Len(query) >= NGRAM_SIZE /\ Holds(Words(c), query) => certain({"exact"})
         /\ MatchOf(found) = {c} /\ Words(c) = query => certain(Textual)

\* A missing signal never caps the score (plagiarism_scorer.py:6-9), nor lifts
\* it: whichever of its signals a document has, its percentage is between the
\* least and the greatest of them.
NeverCapped == Between(signals)
=============================================================================
