# Verification of xplagiax_genuine in TLA+

TLA+ modules of the plagiarism-detection service, TLC configurations that check
them on small instances, and TLAPS proofs of their safety properties.

The repository holds a base (`app/`) and a later state of part of it
(`cambios/files/`), laid over the base. The program modelled is the result:
`cambios/files/app/...` where the file exists there, `app/...` otherwise. Paths
below are relative to `src/`; `P` is `cambios/files/app`.

## 1. The system

| Component | State | Operations | Talks to |
|---|---|---|---|
| `VersionedIndexWriter` (`P/infrastructure/persistence/versioned_index_writer.py`, `wal.py`, `index_manifest.py`) | the log `index.wal`, `manifest.json`, files `index.v{N}`; in memory the index, `_version`, `_ops_since_checkpoint` | construction (recovery), `add`, `remove`, `snapshot`/`checkpoint`, pruning | the indexer worker, its only owner |
| `HotReloadingVectorIndex` (`P/infrastructure/persistence/hot_reloading_index.py`) | `_index`, `_loaded_version` | construction, `search` (reloads first) | web replicas; reads the writer's directory with no lock |
| Jobs: `JobService`, `Job`, `RedisJobRepository`, `RedisStreamJobQueue/Consumer`, `run_worker_loop` | a status per job under a TTL, the stream, the consumer group's pending list | submit, claim, read, execute, ack | API processes submit, one worker executes |
| `RedisSearchCache`, `InMemorySearchCache` and the search route | a generation per tenant, entries under a generation with a TTL | `get`, `put`, `invalidate_tenant` | Redis: every web process and the worker; in memory: one web process |
| `IndexingPipeline`, `DocumentDeleter` | the vector index, tables `chunks` and `documents` | `index`, `delete` | the worker, or the web process in local mode |
| Metadata repositories, SQLAlchemy session | two tables, the session | statements of the two use cases | pipeline, deleter, search |
| `SearchService`: pipeline, candidate filter, aggregator, reranker, scorer | none | `run` | index and tables, statement by statement |
| Catalog routes | none | list page by page, detail, statistics | the two tables |
| Pure algorithms: chunker, scorer, topic and language detection, shingles, MinHash, SimHash | none | functions | pipeline and search |
| Inline job backend; embedding cache and batch encoder (not wired) | dicts | `enqueue`; get, put | search, indexing |
| HTTP API, configuration, deployment | none | routes, settings, gunicorn | all |

Two topologies (`docs/SCALING.md` in `cambios/files`): **worker** (one indexer
worker writes, web replicas read and hot-reload, Redis carries jobs and cache)
and **local** (every web process writes its own index and saves it with `snapshot()`
over one file; gunicorn forks them, `WEB_CONCURRENCY` of them, two by default, from a
preloaded master).

What is hard here: crashes between the calls of a checkpoint or of a use case
that writes three stores without a transaction; appends cut short; a reader that
looks at a directory several times while the writer changes it; redelivery of
jobs that already ran in part; cache fills racing invalidations; the delay
between a change and its publication; web processes that each hold an index or a
cache nobody else reaches; answers put together from several statements; sessions left broken by a failed
statement. `PROJECT.json` lists each hazard at its line with the properties that
cover it.

What makes each component correct: the index loses nothing acknowledged and
never changes what it published; a replica serves whole versions and moves
forward; a job runs at most once, is not dropped and ends; the cache forgets
what an invalidation covers; metadata and vectors stay related so that
re-indexing and deleting remain possible; a search shows the documents the filter
lets through, scored over all that is known of them; the catalog shows what is there.

## 2. Modules

| Module | Models | Extends |
|---|---|---|
| `VersionedIndex` | the writer, its log, manifest and snapshot files | |
| `DurableIndex` | what the writer promises: an index that dies and comes back | |
| `VersionedIndexProofs` | theorems about `VersionedIndex`, and that it implements `DurableIndex` | `VersionedIndex` |
| `HotReloadingIndex` | a replica composed with the writer over one directory | `VersionedIndex` |
| `HotReloadingIndexProofs` | theorems about `HotReloadingIndex` | `HotReloadingIndex`, `VersionedIndexProofs` |
| `JobExecution` | submission, stream, worker loop, job entity | |
| `JobExecutionProofs` | theorems about `JobExecution` | `JobExecution` |
| `SearchCache` | the cache of one tenant and query, in Redis or in each process, the route, the invalidations | |
| `SearchCacheProofs` | theorems about `SearchCache` | `SearchCache` |
| `IndexingSaga` | `index` and `delete` over index and database, both topologies, several processes | |
| `IndexingSagaProofs` | theorems about `IndexingSaga` | `IndexingSaga` |
| `Analysis` | language, topic and institution of a text, likeness of two texts | |
| `Scoring` | the reranker's signals and their weighted mean | |
| `SearchAnswer` | a replica's search among the worker's steps | `IndexingSaga`, `Analysis`, `Scoring` |
| `SearchAnswerProofs` | the invariant of a search, what its scores and texts are | `SearchAnswer`, `IndexingSagaProofs` |
| `Catalog` | lists, detail and statistics, by the same reader | `SearchAnswer` |
| `CatalogProofs` | theorems about the reader, search or catalog | `Catalog`, `SearchAnswerProofs` |
| `Chunker` | the packing of a text into overlapping segments | |
| `ChunkerProofs` | theorems about `Chunker` | `Chunker` |
| `MC*` | instances for TLC | the module they name |

Each operator's comment says what code it stands for; `PROJECT.json` maps every
one to its lines. Operators introduced by a comment `Mistake` are plausible bugs
of the operator that follows them: substituted for it, they make the property
they are listed with fail. No specification uses them.

**VersionedIndex.** A line of the log is the operation it holds, or a line that
does not decode: a torn one, or two glued together. `Replay` says declaratively
what the readable lines do to a snapshot (the last line about an id decides);
`ReplayIsFold` says that this is the loop of `_replay_wal`. `checkpoint` is one
action per call (`Write`, `Commit`, `Truncate`, `Prune`), because a crash or an
exception may fall between any two; `CheckpointFails` is the exception that leaves
`checkpoint` through `add` or `remove`. `LogFails` and `CrashInLog` leave part of a
line, the line without its newline, or the whole line. `want` and `doubt` are
history: the effect of every operation applied, and the ids of operations that
failed or were cut short, about which nothing is promised until the next
truncation. Vectors are left out: an id is in the index or not. Adding an id
the index already holds is taken to change nothing; what the native
`IdMapIndex` does with it is outside the repository.

**DurableIndex.** `Accept` makes an operation durable before `Acknowledge` makes
it served; `Refuse` may leave a refused operation to come back with the next
process; `Publish` forgets such operations and no other. The promise is off
(`intact`) from an append to an unfinished line until the next publication, the
one fault the writer cannot survive. `ImplementsDurableIndex` maps `durable` to what
a restart would recover now, with every fault in the run.

**HotReloadingIndex.** The two readings of the manifest, the existence test and
the opening of the file are separate steps, interleaved with every step of the
writer. A query searches once per segment. `Recycle` is gunicorn replacing a
worker by a fork of the preloaded master (`gunicorn.conf.py`), which carries the
view the master loaded at boot.

**JobExecution.** One action per Redis call of the worker. A message is its
position in the stream. `LoadRefused` is `job.start()` raising outside the `try`:
the process ends with the message pending. `Ripen` is the idle time that lets
`XAUTOCLAIM` take a message, `Expire` the TTL of a job key. The content of a job is
not here: it ends DONE or FAILED.

**SearchCache.** A result is the set of changes it takes into account. `get` and `put`
each read the generation before their own call. There are three deployments:
`worker`, where one process changes documents and a search sees what `Publish` made
visible; `shared`, local topology with Redis; and `own`, local topology without, where
each web process has a cache and a generation that only it reaches
(`InMemorySearchCache`). `Sees` is what a search of a process takes into account: its
index, and every deletion at once, because the rows of a deleted document are gone for
all. `Abandon` is an exception between any two calls, `Recycle` gunicorn replacing a
process, and `Expire` the TTL or the LRU bound, which drop an entry at any time.

**IndexingSaga.** Each process of `running` does one request at a time, a step per read
or write of the use cases. Any may raise, and a commit or an index operation that
raises may have taken effect (`Raises`). `topology` is what `bootstrap.py` and `wsgi.py`
wire: one worker with durability per operation and a session as long as the process,
or web processes with an index each (`vectors`) over one file (`saved`) and a session
per request. `Restart` is a new start of the whole service; `Recycle` is gunicorn
replacing a web process by a fork of its preloaded master, whose index is as old as
the boot (`master`). History: `owner` is the only process that saved its index since,
or "several"; `raced` the texts two processes indexed at once. A refused operation
that waits in the worker's log and comes back at the next restart
(`DurableIndex!Refuse`) appears here at once, among the effects a raising step may
have.

**Analysis.** A text is its length, the languages langdetect finds, its embedding, the
institution it names and its words. `classify` picks the nearest centroid and whether
the confidence reaches the threshold, comparing cosines exactly, without square roots.
The two use cases treat facts differently and so do `QueryFacts` and `DocumentFacts`: a
document keeps what its request said, as it said it; a query's institution is
normalized. `word_shingles`, `exact_ngram_overlap`, `minhash_similarity` and `simhash`
follow the code over words; the order a permutation gives to shingles and the bits of
a hash are constants (`Rank`, `Digest`).

**Scoring.** `compute_signals` has a signal in its domain when the code's is not `None`;
`Score` divides by the weights of those that are there. Integers throughout: hundredths
for signals and units of the fourth decimal for a percentage.

**SearchAnswer.** Filter, searches of the segments, aggregation and the three readings
that describe each match are steps of one search, interleaved with every step of
`IndexingSaga` in the worker topology and with `Publish`, a checkpoint followed by the
reload that each search of the index begins with. A statement sees what is committed
when it runs (SQLite and PostgreSQL as the code opens them). How near a segment is to
a chunk is data; what the query and the documents say is put through `Analysis`, and
`matches` are described in the order of their best scores and scored by `Scoring` over
the texts of the chunks that still have rows, joined in any order. `steady` is history:
the documents whole in database and index since the search began. The reload that
finds its version pruned (`HotReloadingIndex`) is not part of it.

**Catalog.** The reader of `SearchAnswer` may instead walk the pages of `GET /documents`
until one is empty, ask for a document, or for the statistics, statement by statement
among the same steps of the worker. Document ids are numbers, in the order the list
gives them; a new one may fall anywhere, as a uuid does. `began`, `came` and `lost` are
history: what was there to be listed, or counted, when the request began, and what came
and went since; while the statistics are read these are all the tenant's documents,
since no filter of the list applies to them. The list compares institutions in lower case
(`Lower`), language and topic as they are; its filter by country is left out, being a
fact of a document like the institution.

**Chunker.** A text is the set of token positions at which its units end, so a run of
tokens is a pair of positions and no text is put together. `Cuts` is
`_build_units` with its three levels; `Take` and `Close` are the inner loop's
iteration and its end. `round()` is modelled as it rounds, half to even. A text
without a token, for which `chunk()` returns no segment, is not an instance.

## 3. Runs

Bounds are the constants of the `.cfg`. Deadlock is checked in every run
but `Chunker`, whose `chunk()` returns.

| Run | Shows |
|---|---|
| `VersionedIndex` | safety of the writer, and that it implements `DurableIndex`: two ids, threshold 2, 3 log lines, 3 versions, every fault but a failing `truncate()` |
| `HotReloadingIndex` | one replica, one id, 4 versions, queries of 2 segments: what it serves, and that it catches up |
| `JobExecution` | two jobs, two crashes, expiry: safety and liveness of the queue |
| `SearchCache` | the three deployments: two searchers, two changes, late snapshots: freshness, and the TTL's clean-up |
| `IndexingSaga` | both topologies: two texts, two document ids, two processes in the local one; every step of the worker failing, in the local topology the snapshots; processes that die at any step, restarts, recycling |
| `SearchAnswer` | one search of two segments, `top_k` 1, or one request of the catalog, pages of 1, among two documents of three texts, two of them the tenant's |
| `Chunker` | every division of ten tokens into paragraphs and sentences, segments of 3 to 5 tokens, overlap 1/5 |

Why the bounds are enough. Three versions let a file be written, superseded and
pruned while another is being written; a fourth is needed for a replica to be two
checkpoints behind. Three log lines exceed the threshold of two, so a checkpoint
is due, fails and is due again. Two ids tell an operation from its neighbour. Two
messages give one abandoned and one new; the second crash hits the redelivery of
the first (the theorems cover any number of jobs and crashes). Two searchers and
two changes let one fill straddle both an invalidation and another fill. Two
document ids let a failed attempt and its retry, or a document and the one that
follows its deletion, share a text, and two texts tell them from other documents. Two web processes
are enough for one index to be written over another and for a text to be indexed twice
at once, and two caches for one to miss what the other was told.
A search of two segments meets a reload between them, and `top_k` 1
makes two matching documents compete: one text holds the query, one is the query, one
is another tenant's and nearer than both. N-grams of three words and shingles of two
tell these texts apart. A document has one chunk in
this run, so the order in which the chunks of a match are joined is not met here: with
two chunks each the instance outgrows TLC, and that `CopyShows` holds in every order is
what theorem `CopiesShow` adds. Pages of one document put a border between any two. The search
runs with no failing step: each of its readings is a single statement, and what a
failed step of the worker leaves behind is a state that a crash of the worker leaves
too. `MeasuresSound`, an assumption TLC evaluates in this run, checks the three measures
over all pairs of texts of up to four words: a text is like itself by each, and MinHash
and SimHash are symmetric. Ten tokens hold two segments of the maximum
length, units shorter than the minimum and longer than the overlap, and sentences
longer than the maximum.

### Runs that end in a violation

Each checks one statement of a document, comment or test that the code does not
keep. `PROJECT.json` quotes the statement under `findings`.

| Run | What happens |
|---|---|
| `VersionedIndexTorn` | an append raises with part of its line written, or a crash cuts it short; the next append continues the torn line, and operations acknowledged from then on are lost at the following restart |
| `JobExecutionRedelivery` | a redelivered job kills the worker until its key expires |
| `SearchCacheRace` | a result that shows a deleted document is cached under the generation that follows its deletion |
| `IndexingSagaRecycled` | in the local topology a web process recycled by gunicorn starts from the master's index and saves it over the file: documents answered as indexed are lost |
| `IndexingSagaForeignKeys` | on PostgreSQL no document can be indexed: chunks are committed before their document |

The passing runs state what does hold around each: `DurableWhileIntact`,
`QueuedAcked`, `ReachableIsFreshUnlessOverlapped`, `SurvivesWithOneOwner`, and, for
`IndexingSaga`, a database that does not enforce foreign keys (SQLite by default).

The models also contain the following behaviours, which no property forbids:

* `truncate()` raising after the flip leaves `_version` behind, and the next
  checkpoint writes over the file the manifest names: `PublishedImmutable` is checked
  and proved with `truncate` outside `FailingSteps`;
* recovery never checkpoints, so repeated crashes let the log outgrow
  `checkpoint_every_ops`;
* two checkpoints between a replica's reading of the manifest and its opening of the
  file prune that file, and the replica serves an empty index until its next search
  (`ServesPublishedOrPruned`);
* the searches of one query may be answered by two versions;
* in the worker topology a tenant is invalidated before the change is published, and
  a search in between caches a result without it for the TTL: freshness is
  therefore stated of what was visible at the invalidation;
* in the local topology a crash between the commit of the metadata and `snapshot()`
  strands a row without vectors, or revives vectors without a row, and the retry of
  a deletion then reports "deleted" and leaves vectors behind:
  `CommittedComplete`, `VectorsStayOwned` and the vectors' part of `DeletedIsGone`
  speak of the worker;
* two web processes that index the same text at once both save it, and from then on
  `by_hash` raises for it: `OneRowPerText` says it happens to such texts only;
* two web processes of the local topology write their indexes over the same file, and
  the documents of one are lost by the snapshot of the other: `SurvivesWithOneOwner`
  promises the vectors until then, and the metadata in any case;
* without Redis a process that made no change itself serves what it cached before
  another one's change, for the TTL: freshness is stated of each cache and of what the
  process saw when that cache was last invalidated;
* in the worker one failed statement breaks the process-long session, and later jobs
  are recorded FAILED;
* a failed indexing leaves vectors that no row names, and its retry adds them again
  under new ids; `VectorsStayOwned` says such vectors belong to failed attempts only;
* a document whose chunk rows are deleted during a search is scored without its text,
  over fewer signals, and quoted empty (`WholeUnlessDeleting`);
* a client that walks the pages while documents come and go sees some twice or never,
  and the statistics may count the chunks of one moment and the documents of another:
  `WalkComplete` and `CountsAgree` say when;
* a passage of the query cut in two by a chunk's border is not found by the exact
  measure if only one of the chunks matched, or if the database returns them in another
  order: `CopyShows` speaks of a copy inside one chunk;
* a segment may be longer than `max_tokens`, although RF-05 (`docs/ARCHITECTURE.md:62`)
  gives 300 to 500 tokens: below the minimum a segment takes the next unit whatever its
  length; and the first unit comes on top of the overlap, which is whole units, so two
  units of 500 tokens make a segment of 1000, which contains the segment before it.
  `LongByOneUnit` and `OverlapExact` say how far it goes.

### Fairness

`JobExecution`: the worker takes its next step (the container has a restart
policy and Redis calls return), an idle message ripens, a key under a TTL expires.
No client need submit and nothing need crash. `HotReloadingIndex`: requests keep
coming and the replica's local calls return; the writer owes nothing, and
`FollowsManifest` holds for behaviours in which the process is recycled only
finitely often. `SearchCache`: a request's calls return and entries of every cache expire; there
is none for `Publish`, since the code publishes only after `checkpoint_every_ops`
operations. `EventuallyFresh` also needs documents to stop changing, which the
bound on changes gives. `Chunker`: the loop goes on, being sequential code.

## 4. Proofs

Every safety invariant and action property that a passing run checks is also proved, for
all values of the constants under their `ASSUME`s. Eight modules hold the theorems; an
inductive invariant of each was checked by TLC on the run's instance before it was proved.

`VersionedIndexProofs` (any set of ids, threshold, bounds and faults):

* `TypeCorrect`: `Spec => []TypeOK`.
* `RecoveryIsTheLoop`: `ReplayIsFold`. The closed form `Replay`, which everything below
  reasons with, is the fold of `_replay_wal` over the readable lines, for every log and
  snapshot (`ReplayIsLoop`). `LoopLeaves` is the induction, over the shortest prefix on
  which the two would differ.
* `Durability` (`DurableWhileIntact`), `ManifestAlwaysWhole`, `PreviousAlwaysKept`,
  `Immutability` (`PublishedImmutable`) and `Refinement` (`ImplementsDurableIndex`),
  assuming `TruncateReturns`: `truncate` is not a failing step. `IInv` adds to the types
  `Coherent` (in memory the index is `want`; the manifest is `_version`, or one ahead
  between the flip and the truncation; the file about to be named is whole and equals the
  index; a torn line is the last one, and open) and the wholeness of every published
  file. Three lemmas carry the argument: `ReplayAppend` (a line added to a log that
  decodes is applied last), `ReplayTorn` (a torn line changes nothing) and
  `CommitKeepsDurable` (replaying a log over a snapshot that already contains it changes
  nothing, which is why flipping the manifest before truncating is safe). `PromiseStep`
  maps each step to the step of `DurableIndex` the caller sees, or to a stutter.

`TruncateReturns` is needed: with `truncate` in `FailingSteps` TLC finds a published file
written over. It also stands in the theorems of the replica, which reads those files.

`HotReloadingIndexProofs` (any number of versions and of segments, under
`TruncateReturns`): `ReplicaTypeCorrect`, `WholeVersionsServed`
(`ServesPublishedOrPruned`), `LabelsStayHonest` (`LabelHonest`) and `ReadsStayMonotone`
(`ReadsMonotone`). The writer's `IInv` says what the replica finds in the directory; `RInv`
adds that every file up to the manifest is what was published under its name, that the
view a process serves and the one its master carries are the version they are labelled
with, or empty after a pruning, and that within a reload the two readings of the manifest
come in order, both after the version last answered from.

`JobExecutionProofs` (any set of jobs, any number of crashes): `TypeCorrect`,
`AtMostOnce` (`RunsOnce`), `NothingDropped` (`AckedIsSettled`) and `Lifecycle`
(`NoResurrection`). They rest on `InHand`: what the worker knows of the job in hand at
each call (for instance that at `save_outcome` its status is RUNNING or expired and it ran
once), that a job has one message, and that a PENDING job never ran. The key may expire
between any two calls, so each clause says what holds in that case too.

`SearchCacheProofs` (any searchers, any number of changes): `TypeCorrect`,
`FreshUnlessOverlapped` (`ReachableIsFreshUnlessOverlapped`) and `OwnCacheIsFresh`, the
promise of `search_result_cache.py:3-7` as it stands for the deployment without Redis.
`IInv` adds what a request in flight carries: the generations it read are not ahead of the
cache (`RequestsBehind`), its result has what its process saw at the last invalidation
unless one overtook it (`ResultsFresh`), and changes still to be announced are counted
(`MovesCounted`).

`IndexingSagaProofs` (both topologies, any processes, texts, documents and failing steps,
with or without foreign keys): `TypeCorrect`, `RowsNeverStrand` (`CommittedComplete`),
`VectorsAreOwned` (`VectorsStayOwned`), `DeletionIsFinal` (`DeletedIsGone`),
`AnsweredSurvivesWithOneOwner` (`SurvivesWithOneOwner`) and `OneRowUnlessRaced`
(`OneRowPerText`). `IInv` says what each call leaves to the next: an indexing leaves its
chunks behind it store by store (`ChunksFollow`), a deletion nothing (`NothingFollows`);
in the worker the vectors a deletion has still to remove are in its list
(`VectorsFirst`); a document nobody deletes is whole (`KnownWhole`); who owns the file has
every answered document in memory (`OwnerHasAll`). A step is reduced first to what it may
write and where its request goes (`Write`, `Move`, `Report`), then each conjunct is
shown to survive.

`SearchAnswerProofs` and `CatalogProofs` (any query, number of segments, `top_k`, page
size, texts, hash functions and likeness): for the reader among the worker's steps,
`CatalogTypeCorrect`, `NothingElseIsAnswered` (`OnlyMatching`), `WhatStaysIsFound`
(`SteadyFound`), `AnswersAreWhole` (`WholeUnlessDeleting`), `ScoresAreMeans`
(`NeverCapped`), `CopiesShow` (`CopyShows`), `WalksAreComplete` (`WalkComplete`) and
`CountsAreRight` (`CountsAgree`). `SInv` extends the worker's `IInv` by what each call of
a search leaves to the next; its heart is `SteadyOnItsWay`, which follows a document that
stays from the filter to the answer, and lets a chunk drop out only where `top_k` others
outdo it. `CInv` adds the catalog: what is listed or counted is what was there, with what
came and without what went (`ComesAndGoes`), and where the next document stands before the
offset of the next page (`StillToCome`, `ListedOnce`). The lemmas behind them: a weighted
mean, rounded, lies between its least and greatest value (`SumBetween`, `ScoreBetween`); a
listing has no gap (`NoGap`); the concatenation of texts holds what each holds
(`FlattenHolds`, `JoinedHolds`), so all n-grams of a copied query are found
(`HeldQueryIsExact`); a text is wholly like itself by each measure (`QueryIsItself`).
Besides what requests are checked for, these theorems assume that documents and the chunks
of a document are finitely many (`ChunksFinite`), that the query has at least one segment
and finitely many (`CosineOfTexts`), and that the words of texts are sequences
(`WordsInOrder`).

`ChunkerProofs` (any text, limits with 0 < min < max, any ratio below one):
`TypeCorrect`, `Coverage` (`Covered`), `Overlap` (`OverlapExact`), `OnlyLastIsShort`
(`OnlyLastShort`) and `Sizes` (`LongByOneUnit`). A segment's properties are fixed when it
is closed, so the strengthening says the same of the segment being filled: `CoveredOn`
that it begins within the last one, `OverlapOn` that its start is the overlap of the last
one, `LongOn` that if it is too long by now, its last unit is the one allowed.
`RoundedNearest` is the arithmetic of `round()`: at most half a unit off. It needs no
induction over the text, because the text is a set of positions.

Where a proof needs induction over data it takes the least counterexample, from the
well-foundedness of natural numbers or of finite sets, since the library's induction
theorems cannot be instantiated (`LeastNatural`, `GreatestExists`, `LeastExists`,
`JoinsExist`).

Only model-checked: liveness (`FollowsManifest`, `QueuedAcked`, `EventuallyFresh`,
`Terminates`), which is out of this prover's reach, and `MeasuresSound`, of which
`QueryIsItself` proves the first part, for the words of the query.

## 5. Not modelled, and the plan

Done, in this order: the durable index, the job queue, hot reload, the cache, the
two use cases, the search, the chunker; then the local topology with several processes,
the in-process cache, what is made of a text, the score, and the catalog; then the
theorems of section 4. What follows:

1. A composition of worker, pipeline and writer: a redelivered indexing job over the
   durable index. Today the pieces meet at their promises: `IndexingSaga` takes from
   `DurableIndex` that an operation is durable when it returns, and from `JobExecution`
   that the worker runs one job at a time.

Not modelled:

* the inline job backend: `enqueue` executes the job at once, in the same process, by
  the `execute` that `JobExecution` models, with nothing in between. Its job is in the
  memory of one web process, so polling another one answers 404, although
  `P/infrastructure/jobs/in_memory.py:5-6` says "switching backends never changes the API
  contract";
* `GET /jobs/{id}`, one read of a status whose life `JobExecution` models;
* the embedding cache and the batch encoder, which `bootstrap.py` does not wire, and
  the PDF and GROBID parsers, which no entry point calls;
* the neural models, langdetect and the tokenization of a text into words (numerical or
  textual, without state); rounding of floating point numbers, and with it a cosine a
  little above 1, which the signals' validator would refuse;
* request validation beyond what an action's guard states, and response formats;
* what the file system keeps of unsynced data after a power failure; the native index
  library.
