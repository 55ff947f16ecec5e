---------------------------- MODULE SearchCache ----------------------------
(***************************************************************************)
(* The search-result cache of one tenant and one query: the search route   *)
(* reads it, searches and fills it, while whoever changes a document       *)
(* invalidates it by moving the tenant to a new generation.                *)
(*                                                                         *)
(* With Redis all processes share one cache (RedisSearchCache), and every  *)
(* Redis call is one step. Without it each web process has its own         *)
(* (InMemorySearchCache) and nobody else touches that one. A web process   *)
(* serves one request at a time.                                           *)
(*                                                                         *)
(* A result is abstracted to the changes it takes into account.            *)
(***************************************************************************)
EXTENDS Integers

CONSTANTS
  Searchers,   \* the web processes
  Worker,      \* the indexer worker
  Shared,      \* the cache in Redis
  Deployments, \* "worker": the worker changes documents; "shared": local
               \* topology, with Redis; "own": local topology, without
  MaxChanges   \* bound: documents indexed or deleted

ASSUME DeploymentsKnown == Deployments \subseteq {"worker", "shared", "own"}
ASSUME MaxChangesNat == MaxChanges \in Nat
ASSUME NamesApart == Worker \notin Searchers /\ Shared \notin Searchers

VARIABLES
  deployment,
  changes,    \* changes made to the tenant's documents, numbered
  deletions,  \* which of them deleted a document
  published,  \* changes in the worker's published snapshot
  applied,    \* process |-> the changes it made to its own index
  generation, \* cache |-> the tenant's generation
  cache,      \* cache |-> generation |-> the entry under it
  request,    \* process |-> the call it makes next, and what it needs
  invalidated \* history: process |-> changes it saw when its cache was last
              \* invalidated

vars == <<deployment, changes, deletions, published, applied, generation, cache, request,
          invalidated>>

Processes == Searchers \cup {Worker}
Caches == Searchers \cup {Shared}
CacheOf(p) == IF deployment = "own" THEN p ELSE Shared
Changers == IF deployment = "worker" THEN {Worker} ELSE Searchers

\* gen: the generation the call will use; began: that of the request's start.
Idle == [step |-> "idle", gen |-> 0, began |-> 0, result |-> {}]

Init ==
  /\ deployment \in Deployments
  /\ changes = 0 /\ deletions = {} /\ published = {}
  /\ applied = [p \in Searchers |-> {}]
  /\ generation = [c \in Caches |-> 0] /\ cache = [c \in Caches |-> <<>>]
  /\ request = [p \in Processes |-> Idle]
  /\ invalidated = [p \in Searchers |-> {}]

\* What a search of p takes into account: the documents in the index it reads,
\* and every deletion, because a deleted document's rows are gone for all.
Sees(p) == deletions \cup (IF deployment = "worker" THEN published ELSE applied[p])

-----------------------------------------------------------------------------
(* The search route *)

Go(p, from, next) ==
  /\ request[p].step = from
  /\ request' = [request EXCEPT ![p] = next]
  /\ UNCHANGED <<deployment, changes, deletions, published, applied, generation, invalidated>>

Then(p, step) == [request[p] EXCEPT !.step = step]
Reads(p, step) == [Then(p, step) EXCEPT !.gen = generation[CacheOf(p)]]

\* get: _full_key reads the generation ...
GetGeneration(p) ==
  /\ Go(p, "idle", [Reads(p, "get") EXCEPT !.began = generation[CacheOf(p)]])
  /\ UNCHANGED cache

\* ... and the entry is read under it. A hit is the response.
GetHit(p) ==
  /\ request[p].gen \in DOMAIN cache[CacheOf(p)]
  /\ Go(p, "get", Idle)
  /\ UNCHANGED cache

GetMiss(p) ==
  /\ request[p].gen \notin DOMAIN cache[CacheOf(p)]
  /\ Go(p, "get", Then(p, "run"))
  /\ UNCHANGED cache

\* SearchService.run
Compute(p) ==
  /\ Go(p, "run", [Then(p, "put") EXCEPT !.result = Sees(p)])
  /\ UNCHANGED cache

\* put: _full_key reads the generation anew ...
PutGeneration(p) == Go(p, "put", Reads(p, "set")) /\ UNCHANGED cache

\* ... and the entry is set under it.
PutSet(p) ==
  LET r == request[p]
      entry == [result |-> r.result, began |-> r.began, by |-> p]
  IN /\ Go(p, "set", Idle)
     /\ cache' = [cache EXCEPT ![CacheOf(p)] =
                    [g \in DOMAIN @ \cup {r.gen} |-> IF g = r.gen THEN entry ELSE @[g]]]

\* The request raises before the next call: a search, or a change that was made
\* and is not announced.
Abandon(p) ==
  /\ request[p].step # "idle"
  /\ Go(p, request[p].step, Idle)
  /\ UNCHANGED cache

-----------------------------------------------------------------------------
(* Changing a document: index or delete, then invalidate_tenant *)

Change(p) ==
  /\ request[p].step = "idle" /\ changes < MaxChanges
  /\ changes' = changes + 1
  /\ \/ deletions' = deletions \cup {changes'}
     \/ UNCHANGED deletions
  /\ applied' = IF p = Worker THEN applied ELSE [applied EXCEPT ![p] = @ \cup {changes'}]
  /\ request' = [request EXCEPT ![p] = Then(p, "invalidate")]
  /\ UNCHANGED <<deployment, published, generation, cache, invalidated>>

SeenAt(c) ==
  invalidated' = [q \in Searchers |-> IF CacheOf(q) = c THEN Sees(q) ELSE invalidated[q]]

\* Mistakes: the call is made over again, or the generation is left alone.
InvalidateAgain(p) ==
  /\ request[p].step = "invalidate"
  /\ generation' = [generation EXCEPT ![CacheOf(p)] = @ + 1]
  /\ SeenAt(CacheOf(p))
  /\ UNCHANGED <<deployment, changes, deletions, published, applied, cache, request>>

InvalidateInVain(p) ==
  /\ request[p].step = "invalidate"
  /\ request' = [request EXCEPT ![p] = Idle]
  /\ SeenAt(CacheOf(p))
  /\ UNCHANGED <<deployment, changes, deletions, published, applied, cache, generation>>

Invalidate(p) ==
  /\ request[p].step = "invalidate"
  /\ generation' = [generation EXCEPT ![CacheOf(p)] = @ + 1]
  /\ request' = [request EXCEPT ![p] = Idle]
  /\ SeenAt(CacheOf(p))
  /\ UNCHANGED <<deployment, changes, deletions, published, applied, cache>>

\* The worker's next checkpoint. A replica looks for it in every search.
Publish ==
  /\ deployment = "worker" /\ published # 1..changes
  /\ published' = 1..changes
  /\ UNCHANGED <<deployment, changes, deletions, applied, generation, cache, request,
                 invalidated>>

\* A web process dies and gunicorn forks another: its own cache is gone, and so,
\* in the local topology, are its changes from the index it searches.
Recycle(p) ==
  /\ applied' = [applied EXCEPT ![p] = {}]
  /\ request' = [request EXCEPT ![p] = Idle]
  /\ cache' = [cache EXCEPT ![p] = <<>>] /\ generation' = [generation EXCEPT ![p] = 0]
  /\ invalidated' = [invalidated EXCEPT ![p] = IF deployment = "worker" THEN @ ELSE @ \cap deletions]
  /\ UNCHANGED <<deployment, changes, deletions, published>>

\* Mistake: only what nobody can read any more expires.
ExpirePast(c, g) ==
  /\ g \in DOMAIN cache[c] /\ g < generation[c]
  /\ cache' = [cache EXCEPT ![c] = [h \in DOMAIN @ \ {g} |-> @[h]]]
  /\ UNCHANGED <<deployment, changes, deletions, published, applied, generation, request,
                 invalidated>>

\* The TTL of an entry ends, or the LRU of a process drops it.
Expire(c, g) ==
  /\ g \in DOMAIN cache[c]
  /\ cache' = [cache EXCEPT ![c] = [h \in DOMAIN @ \ {g} |-> @[h]]]
  /\ UNCHANGED <<deployment, changes, deletions, published, applied, generation, request,
                 invalidated>>

-----------------------------------------------------------------------------
Route(p) ==
  \/ GetGeneration(p) \/ GetHit(p) \/ GetMiss(p)
  \/ Compute(p) \/ PutGeneration(p) \/ PutSet(p)

Next ==
  \/ \E p \in Searchers : Route(p) \/ Recycle(p)
  \/ \E p \in Changers : Change(p) \/ Invalidate(p)
  \/ \E p \in Processes : Abandon(p)
  \/ Publish
  \/ \E c \in Caches : \E g \in DOMAIN cache[c] : Expire(c, g)

Spec == Init /\ [][Next]_vars

\* Each call of a request returns and every entry has a TTL. Nothing says when
\* the next snapshot is published: no fairness for Publish.
FairSpec ==
  /\ Spec
  /\ \A p \in Searchers : WF_vars(Route(p))
  /\ \A c \in Caches, g \in 0..MaxChanges : WF_vars(Expire(c, g))

-----------------------------------------------------------------------------
(* Properties *)

Entry == [result : SUBSET (1..changes), began : 0..changes, by : Searchers]
Steps == {"idle", "get", "run", "put", "set", "invalidate"}

TypeOK ==
  /\ deployment \in Deployments /\ changes \in 0..MaxChanges
  /\ deletions \subseteq 1..changes /\ published \subseteq 1..changes
  /\ applied \in [Searchers -> SUBSET (1..changes)]
  /\ generation \in [Caches -> 0..changes]
  /\ DOMAIN cache = Caches
  /\ \A c \in Caches :
       DOMAIN cache[c] \subseteq 0..generation[c] /\ cache[c] \in [DOMAIN cache[c] -> Entry]
  /\ request \in [Processes ->
       [step : Steps, gen : 0..changes, began : 0..changes, result : SUBSET (1..changes)]]
  /\ \A p \in Processes : request[p].step = "invalidate" => p \in Changers
  /\ invalidated \in [Searchers -> SUBSET (1..changes)]

\* The entries that a get would find now.
Reachable(c) == {cache[c][g] : g \in DOMAIN cache[c] \cap {generation[c]}}

\* Indexing or deleting makes every older result unreachable at once
\* (search_result_cache.py:3-7): what a get would find now takes into account
\* every change that a search of the process it comes from saw when the tenant
\* was invalidated.
ReachableIsFresh ==
  \A c \in Caches : \A e \in Reachable(c) : invalidated[e.by] \subseteq e.result

\* The same, but for a result whose request was under way when another process
\* invalidated the cache they share: put files it under the generation it finds
\* then. In its own cache a process that indexed never serves what it found
\* before (in_memory_search_cache.py:6-12).
ReachableIsFreshUnlessOverlapped ==
  \A c \in Caches : \A e \in Reachable(c) :
    \/ invalidated[e.by] \subseteq e.result
    \/ c = Shared /\ e.began < generation[c]

\* Whatever races, deaths, lag or processes that nobody told left behind, the
\* TTL cleans up: once documents stop changing and snapshots stop coming, what a
\* cache can return is what a search of the process it comes from would find.
EventuallyFresh ==
  <>[](\A c \in Caches : \A e \in Reachable(c) : e.result = Sees(e.by))
=============================================================================
