-------------------------- MODULE SearchCacheProofs --------------------------
(***************************************************************************)
(* Theorems about SearchCache, for every deployment, every set of web      *)
(* processes and every number of changes.                                  *)
(***************************************************************************)
EXTENDS SearchCache, FiniteSetTheorems, TLAPS

-----------------------------------------------------------------------------
(* The inductive invariant *)

\* The processes that made a change and have still to announce it in cache c.
Pending(c) == {p \in Changers : request[p].step = "invalidate" /\ CacheOf(p) = c}

\* A change moves a tenant on by one generation, or by none.
MovesCounted ==
  \A c \in Caches :
    IsFiniteSet(Pending(c)) /\ generation[c] + Cardinality(Pending(c)) <= changes

\* A request knows no generation that its cache has not reached.
RequestsBehind ==
  \A p \in Searchers :
    /\ request[p].gen <= generation[CacheOf(p)]
    /\ request[p].began <= generation[CacheOf(p)]

\* An entry comes from a process that uses the cache it is in.
EntriesAtHome ==
  \A c \in Caches : \A g \in DOMAIN cache[c] : CacheOf(cache[c][g].by) = c

\* What a process saw when its cache was invalidated it still sees.
SightKept == \A p \in Searchers : invalidated[p] \subseteq Sees(p)

\* A result on its way to the cache has it too, unless its request has been
\* overtaken by an invalidation of the cache in Redis.
ResultsFresh ==
  \A p \in Searchers : request[p].step \in {"put", "set"} =>
    \/ invalidated[p] \subseteq request[p].result
    \/ CacheOf(p) = Shared /\ request[p].began < generation[Shared]

IInv ==
  /\ TypeOK /\ MovesCounted /\ RequestsBehind /\ EntriesAtHome /\ SightKept /\ ResultsFresh
  /\ ReachableIsFreshUnlessOverlapped

-----------------------------------------------------------------------------
(* What a call of the search route does *)

Requests == [step : Steps, gen : 0..changes, began : 0..changes, result : SUBSET (1..changes)]

\* The cache of a process that searches or changes documents is one there is.
LEMMA CachesFacts ==
  ASSUME TypeOK
  PROVE  /\ \A p \in Searchers \cup Changers : CacheOf(p) \in Caches
         /\ Searchers \subseteq Processes /\ Changers \subseteq Processes
         /\ \A p \in Searchers : deployment # "own" => CacheOf(p) = Shared
         /\ \A p \in Searchers : deployment = "own" => CacheOf(p) = p
         /\ deployment = "own" => Changers = Searchers
         /\ changes \in Nat /\ \A c \in Caches : generation[c] \in Nat
         /\ \A p \in Processes : request[p] \in Requests
         /\ \A p \in Searchers : Sees(p) \subseteq 1..changes
<1>1. changes \in Nat /\ \A c \in Caches : generation[c] \in Nat
  BY MaxChangesNat DEF TypeOK
<1>2. \A p \in Processes : request[p] \in Requests
  BY DEF TypeOK, Requests
<1>3. \A p \in Searchers : Sees(p) \subseteq 1..changes
  BY DEF TypeOK, Sees
<1> QED
  BY <1>1, <1>2, <1>3, DeploymentsKnown DEF TypeOK, Caches, CacheOf, Changers, Processes

\* Replacing one field of a request.
LEMMA OneField ==
  ASSUME NEW r \in Requests
  PROVE  /\ Idle.step = "idle" /\ (changes \in Nat => Idle \in Requests)
            /\ Idle.gen = 0 /\ Idle.began = 0
         /\ \A s \in Steps :
              LET n == [r EXCEPT !.step = s]
              IN /\ n \in Requests /\ n.step = s
                 /\ n.gen = r.gen /\ n.began = r.began /\ n.result = r.result
         /\ \A g \in 0..changes :
              LET n == [r EXCEPT !.gen = g]
              IN /\ n \in Requests /\ n.gen = g
                 /\ n.step = r.step /\ n.began = r.began /\ n.result = r.result
         /\ \A g \in 0..changes :
              LET n == [r EXCEPT !.began = g]
              IN /\ n \in Requests /\ n.began = g
                 /\ n.step = r.step /\ n.gen = r.gen /\ n.result = r.result
         /\ \A x \in SUBSET (1..changes) :
              LET n == [r EXCEPT !.result = x]
              IN /\ n \in Requests /\ n.result = x
                 /\ n.step = r.step /\ n.gen = r.gen /\ n.began = r.began
BY DEF Requests, Idle, Steps

\* What becomes of the request of a searcher: its generations stay behind the
\* cache, and a result is what the process sees, or is kept.
Routed(p) ==
  LET r == request[p]
      n == request'[p]
  IN /\ UNCHANGED <<deployment, changes, deletions, published, applied, generation, invalidated>>
     /\ r.step # "invalidate" /\ n.step # "invalidate" /\ n \in Requests
     /\ request' \in [Processes -> Requests]
     /\ \A q \in Processes \ {p} : request'[q] = request[q]
     /\ n.gen <= generation[CacheOf(p)] /\ n.began <= generation[CacheOf(p)]
     /\ n.step \in {"put", "set"} =>
          \/ r.step = "run" /\ n.result = Sees(p)
          \/ r.step = "put" /\ n.result = r.result /\ n.began = r.began
     /\ cache' = cache \/ (r.step = "set" /\ PutSet(p))

\* Every call of the search route is of that form.
LEMMA RouteSummary ==
  ASSUME TypeOK, RequestsBehind, NEW p \in Searchers, Route(p)
  PROVE  Routed(p)
<1> DEFINE g0 == generation[CacheOf(p)]
<1>1. /\ p \in Processes /\ request[p] \in Requests /\ g0 \in 0..changes
      /\ Sees(p) \in SUBSET (1..changes) /\ changes \in Nat
      /\ request[p].gen <= g0 /\ request[p].began <= g0
      /\ request \in [Processes -> Requests]
  BY CachesFacts DEF TypeOK, RequestsBehind, Requests
<1>2. /\ Idle.step = "idle" /\ Idle \in Requests /\ Idle.gen = 0 /\ Idle.began = 0
  BY <1>1, OneField
<1>3. \A s \in Steps : /\ Then(p, s) \in Requests /\ Then(p, s).step = s
                       /\ Then(p, s).gen = request[p].gen
                       /\ Then(p, s).began = request[p].began
                       /\ Then(p, s).result = request[p].result
  BY <1>1, OneField DEF Then
<1>4. \A s \in Steps : /\ Reads(p, s) \in Requests /\ Reads(p, s).step = s
                       /\ Reads(p, s).gen = g0
                       /\ Reads(p, s).began = request[p].began
                       /\ Reads(p, s).result = request[p].result
  BY <1>1, <1>3, OneField DEF Reads
<1>5. UNCHANGED <<deployment, changes, deletions, published, applied, generation, invalidated>>
      /\ request[p].step # "invalidate"
  BY DEF Route, GetGeneration, GetHit, GetMiss, Compute, PutGeneration, PutSet, Go
<1>14. ASSUME NEW n \in Requests, request' = [request EXCEPT ![p] = n]
       PROVE  request' \in [Processes -> Requests] /\ request'[p] = n
              /\ \A q \in Processes \ {p} : request'[q] = request[q]
  BY <1>1, <1>14
<1>6. "idle" \in Steps /\ "get" \in Steps /\ "run" \in Steps /\ "put" \in Steps /\ "set" \in Steps
  BY DEF Steps
<1>7. g0 <= g0 /\ 0 <= g0
  BY <1>1
<1>8. CASE GetGeneration(p)
  <2>1. /\ [Reads(p, "get") EXCEPT !.began = g0] \in Requests
        /\ [Reads(p, "get") EXCEPT !.began = g0].step = "get"
        /\ [Reads(p, "get") EXCEPT !.began = g0].gen = g0
        /\ [Reads(p, "get") EXCEPT !.began = g0].began = g0
    BY <1>1, <1>4, <1>6, OneField
  <2>2. request' = [request EXCEPT ![p] = [Reads(p, "get") EXCEPT !.began = g0]]
        /\ cache' = cache
    BY <1>8 DEF GetGeneration, Go
  <2> QED  BY <1>5, <1>7, <1>8, <1>14, <2>1, <2>2 DEF Routed
<1>9. CASE GetHit(p)
  <2>1. request' = [request EXCEPT ![p] = Idle]
        /\ cache' = cache
    BY <1>9 DEF GetHit, Go
  <2> QED  BY <1>2, <1>5, <1>7, <1>9, <1>14, <2>1 DEF Routed
<1>10. CASE GetMiss(p)
  <2>1. request' = [request EXCEPT ![p] = Then(p, "run")]
        /\ cache' = cache
    BY <1>10 DEF GetMiss, Go
  <2> QED  BY <1>1, <1>3, <1>5, <1>6, <1>10, <1>14, <2>1 DEF Routed
<1>11. CASE Compute(p)
  <2>1. /\ [Then(p, "put") EXCEPT !.result = Sees(p)] \in Requests
        /\ [Then(p, "put") EXCEPT !.result = Sees(p)].step = "put"
        /\ [Then(p, "put") EXCEPT !.result = Sees(p)].result = Sees(p)
        /\ [Then(p, "put") EXCEPT !.result = Sees(p)].gen = request[p].gen
        /\ [Then(p, "put") EXCEPT !.result = Sees(p)].began = request[p].began
    BY <1>1, <1>3, <1>6, OneField
  <2>2. request' = [request EXCEPT ![p] = [Then(p, "put") EXCEPT !.result = Sees(p)]]
        /\ request[p].step = "run"
        /\ cache' = cache
    BY <1>11 DEF Compute, Go
  <2> QED  BY <1>1, <1>5, <1>11, <1>14, <2>1, <2>2 DEF Routed
<1>12. CASE PutGeneration(p)
  <2>1. request' = [request EXCEPT ![p] = Reads(p, "set")] /\ request[p].step = "put"
        /\ cache' = cache
    BY <1>12 DEF PutGeneration, Go
  <2> QED  BY <1>1, <1>4, <1>5, <1>6, <1>7, <1>12, <1>14, <2>1 DEF Routed
<1>13. CASE PutSet(p)
  <2>1. request' = [request EXCEPT ![p] = Idle] /\ request[p].step = "set"
    BY <1>13 DEF PutSet, Go
  <2> QED  BY <1>2, <1>5, <1>7, <1>13, <1>14, <2>1 DEF Routed
<1> QED
  BY <1>8, <1>9, <1>10, <1>11, <1>12, <1>13 DEF Route

\* What put leaves in the cache.
LEMMA PutEntry ==
  ASSUME TypeOK, NEW p \in Searchers, PutSet(p)
  PROVE  LET c0 == CacheOf(p)
             r == request[p]
         IN /\ DOMAIN cache' = Caches /\ c0 \in Caches
            /\ \A c \in Caches : c # c0 => cache'[c] = cache[c]
            /\ DOMAIN cache'[c0] = DOMAIN cache[c0] \cup {r.gen}
            /\ cache'[c0] \in [DOMAIN cache'[c0] -> Entry]
            /\ cache'[c0][r.gen] = [result |-> r.result, began |-> r.began, by |-> p]
            /\ \A g \in DOMAIN cache[c0] : g # r.gen => cache'[c0][g] = cache[c0][g]
<1> DEFINE c0 == CacheOf(p)
           r == request[p]
           e0 == [result |-> r.result, began |-> r.began, by |-> p]
<1>1. c0 \in Caches /\ request[p] \in Requests
  BY CachesFacts
<1>2. e0 \in Entry
  BY <1>1 DEF Requests, Entry
<1>3. cache' = [cache EXCEPT ![c0] =
                  [g \in DOMAIN cache[c0] \cup {r.gen} |-> IF g = r.gen THEN e0 ELSE cache[c0][g]]]
  BY DEF PutSet
<1>4. cache'[c0] = [g \in DOMAIN cache[c0] \cup {r.gen} |-> IF g = r.gen THEN e0 ELSE cache[c0][g]]
      /\ DOMAIN cache' = Caches /\ \A c \in Caches : c # c0 => cache'[c] = cache[c]
  BY <1>1, <1>3 DEF TypeOK
<1>5. cache[c0] \in [DOMAIN cache[c0] -> Entry]
  BY <1>1 DEF TypeOK
<1> QED  BY <1>1, <1>2, <1>4, <1>5

-----------------------------------------------------------------------------
(* Type correctness, with the count of moves it rests on *)

\* Nobody has changed or asked for anything yet.
LEMMA IInvInit == Init => IInv
<1> SUFFICES ASSUME Init PROVE IInv
  OBVIOUS
<1>1. \A p \in Processes : request[p].step = "idle" /\ request[p].gen = 0 /\ request[p].began = 0
  BY DEF Init, Idle
<1>2. \A c \in Caches : /\ Pending(c) = {} /\ generation[c] = 0 /\ cache[c] = <<>>
                        /\ DOMAIN cache[c] = {}
  BY <1>1 DEF Init, Pending, Changers, Processes
<1>3. TypeOK
  <2>1. request \in [Processes ->
          [step : Steps, gen : 0..changes, began : 0..changes, result : SUBSET (1..changes)]]
    BY DEF Init, Idle, Steps
  <2> QED  BY <1>1, <1>2, <2>1, MaxChangesNat DEF Init, TypeOK
<1>4. MovesCounted
  <2>1. \A c \in Caches : IsFiniteSet(Pending(c)) /\ Cardinality(Pending(c)) = 0
    BY <1>2, FS_EmptySet
  <2>2. changes = 0
    BY DEF Init
  <2> QED  BY <1>2, <2>1, <2>2 DEF MovesCounted
<1>5. \A p \in Searchers : CacheOf(p) \in Caches /\ p \in Processes
  BY DEF CacheOf, Caches, Processes
<1>6. RequestsBehind /\ EntriesAtHome /\ SightKept /\ ResultsFresh
  BY <1>1, <1>2, <1>5 DEF Init, RequestsBehind, EntriesAtHome, SightKept, ResultsFresh
<1>7. ReachableIsFreshUnlessOverlapped
  BY <1>2 DEF ReachableIsFreshUnlessOverlapped, Reachable
<1> QED  BY <1>3, <1>4, <1>6, <1>7 DEF IInv

\* A request that ends, or goes on, without announcing a change leaves no more
\* changes to announce than there were.
LEMMA FewerPending ==
  ASSUME TypeOK, MovesCounted, NEW p, UNCHANGED <<deployment, changes>>,
         \A q \in Changers \ {p} : request'[q] = request[q],
         p \in Changers => request'[p].step # "invalidate" \/ request[p].step = "invalidate",
         \A c \in Caches : generation'[c] \in Nat /\ generation'[c] <= generation[c]
  PROVE  MovesCounted'
<1>1. ASSUME NEW c \in Caches
      PROVE  IsFiniteSet(Pending(c)') /\ generation'[c] + Cardinality(Pending(c)') <= changes'
  <2>1. Pending(c)' \subseteq Pending(c)
    BY DEF Pending, Changers, CacheOf
  <2>2. IsFiniteSet(Pending(c)) /\ generation[c] + Cardinality(Pending(c)) <= changes
    BY DEF MovesCounted
  <2>3. /\ IsFiniteSet(Pending(c)') /\ Cardinality(Pending(c)') <= Cardinality(Pending(c))
        /\ Cardinality(Pending(c)) \in Nat /\ Cardinality(Pending(c)') \in Nat
    BY <2>1, <2>2, FS_Subset, FS_CardinalityType
  <2>4. generation[c] \in Nat /\ changes \in Nat
    BY CachesFacts
  <2> QED  BY <2>2, <2>3, <2>4
<1> QED  BY <1>1 DEF MovesCounted, Caches

\* A change made and not yet announced is counted as pending.
LEMMA MovesCountedChange ==
  ASSUME TypeOK, MovesCounted, NEW p \in Changers, Change(p)
  PROVE  MovesCounted'
<1>1. /\ changes' = changes + 1 /\ changes \in Nat /\ p \in Processes
      /\ UNCHANGED <<deployment, generation>>
      /\ \A q \in Processes \ {p} : request'[q] = request[q]
      /\ \A c \in Caches : generation[c] \in Nat
  BY CachesFacts DEF Change, TypeOK
<1>2. ASSUME NEW c \in Caches
      PROVE  IsFiniteSet(Pending(c)') /\ generation'[c] + Cardinality(Pending(c)') <= changes'
  <2>1. IsFiniteSet(Pending(c)) /\ generation[c] + Cardinality(Pending(c)) <= changes
    BY DEF MovesCounted
  <2>2. Pending(c)' \subseteq Pending(c) \cup {p}
    BY <1>1, CachesFacts DEF Pending, Changers, CacheOf
  <2>5. Cardinality(Pending(c)) \in Nat
    BY <2>1, FS_CardinalityType
  <2>6. IsFiniteSet(Pending(c) \cup {p})
        /\ Cardinality(Pending(c) \cup {p})
             = IF p \in Pending(c) THEN Cardinality(Pending(c)) ELSE Cardinality(Pending(c)) + 1
    BY <2>1, FS_AddElement
  <2>3. IsFiniteSet(Pending(c) \cup {p})
        /\ Cardinality(Pending(c) \cup {p}) \in Nat
        /\ Cardinality(Pending(c) \cup {p}) <= Cardinality(Pending(c)) + 1
    BY <2>5, <2>6
  <2>4. /\ IsFiniteSet(Pending(c)') /\ Cardinality(Pending(c)') \in Nat
        /\ Cardinality(Pending(c)') <= Cardinality(Pending(c) \cup {p})
    BY <2>2, <2>3, FS_Subset, FS_CardinalityType
  <2> QED  BY <1>1, <2>1, <2>3, <2>4, <2>5
<1> QED  BY <1>2 DEF MovesCounted, Caches

\* Announcing it moves the generation on in its place.
LEMMA MovesCountedInvalidate ==
  ASSUME TypeOK, MovesCounted, NEW p \in Changers, Invalidate(p)
  PROVE  MovesCounted'
<1>1. /\ changes \in Nat /\ p \in Processes /\ CacheOf(p) \in Caches
      /\ UNCHANGED <<deployment, changes>>
      /\ \A q \in Processes \ {p} : request'[q] = request[q]
      /\ request[p].step = "invalidate" /\ request'[p].step = "idle"
      /\ \A c \in Caches : generation[c] \in Nat
      /\ generation'[CacheOf(p)] = generation[CacheOf(p)] + 1
      /\ \A c \in Caches : c # CacheOf(p) => generation'[c] = generation[c]
  BY CachesFacts DEF Invalidate, TypeOK, Idle
<1>2. ASSUME NEW c \in Caches
      PROVE  IsFiniteSet(Pending(c)') /\ generation'[c] + Cardinality(Pending(c)') <= changes'
  <2>1. IsFiniteSet(Pending(c)) /\ generation[c] + Cardinality(Pending(c)) <= changes
        /\ Cardinality(Pending(c)) \in Nat
    BY FS_CardinalityType DEF MovesCounted
  <2>2. Pending(c)' \subseteq Pending(c) \ {p}
    BY <1>1, CachesFacts DEF Pending, Changers, CacheOf
  <2>3. IsFiniteSet(Pending(c) \ {p})
        /\ Cardinality(Pending(c) \ {p})
             = IF p \in Pending(c) THEN Cardinality(Pending(c)) - 1 ELSE Cardinality(Pending(c))
    BY <2>1, FS_RemoveElement
  <2>4. /\ IsFiniteSet(Pending(c)') /\ Cardinality(Pending(c)') \in Nat
        /\ Cardinality(Pending(c)') <= Cardinality(Pending(c) \ {p})
        /\ Cardinality(Pending(c) \ {p}) \in Nat
    BY <2>2, <2>3, FS_Subset, FS_CardinalityType
  <2>5. c = CacheOf(p) => p \in Pending(c)
    BY <1>1 DEF Pending
  <2> QED  BY <1>1, <2>1, <2>3, <2>4, <2>5
<1> QED  BY <1>2 DEF MovesCounted, Caches

\* The types that depend on how many changes there were still hold when there
\* are more.
LEMMA TypesGrow ==
  ASSUME TypeOK, changes' = changes + 1, changes < MaxChanges
  PROVE  /\ changes' \in 0..MaxChanges /\ 1..changes \subseteq 1..changes'
         /\ 0..changes \subseteq 0..changes' /\ changes' \in 1..changes'
         /\ Entry \subseteq Entry' /\ Requests \subseteq Requests'
<1>1. changes \in Nat
  BY CachesFacts
<1>2. 1..changes \subseteq 1..changes' /\ 0..changes \subseteq 0..changes' /\ changes' \in 1..changes'
      /\ changes' \in 0..MaxChanges
  BY <1>1, MaxChangesNat
<1>3. Entry \subseteq Entry' /\ Requests \subseteq Requests'
  BY <1>2 DEF Entry, Requests
<1> QED  BY <1>2, <1>3

\* Making a change.
LEMMA TypeOKChange == ASSUME TypeOK, NEW p \in Changers, Change(p) PROVE TypeOK'
<1>1. /\ changes' = changes + 1 /\ changes < MaxChanges /\ p \in Processes
      /\ UNCHANGED <<deployment, published, generation, cache, invalidated>>
      /\ request[p] \in Requests
  BY CachesFacts DEF Change
<1>2. /\ changes' \in 0..MaxChanges /\ 1..changes \subseteq 1..changes'
      /\ 0..changes \subseteq 0..changes' /\ changes' \in 1..changes'
      /\ Entry \subseteq Entry' /\ Requests \subseteq Requests'
  BY <1>1, TypesGrow
<1>3. deletions' \subseteq 1..changes'
  BY <1>2 DEF Change, TypeOK
<1>4. applied' \in [Searchers -> SUBSET (1..changes')]
  BY <1>1, <1>2, NamesApart DEF Change, TypeOK, Processes
<1>5. Then(p, "invalidate") \in Requests /\ Then(p, "invalidate").step = "invalidate"
  BY <1>1, OneField DEF Then, Steps
<1>6. request' \in [Processes -> Requests'] /\ request'[p].step = "invalidate"
      /\ \A q \in Processes \ {p} : request'[q] = request[q]
  BY <1>1, <1>2, <1>5 DEF Change, TypeOK, Requests
<1>7. \A c \in Caches :
        DOMAIN cache'[c] \subseteq 0..generation'[c] /\ cache'[c] \in [DOMAIN cache'[c] -> Entry']
  BY <1>1, <1>2 DEF TypeOK
<1>8. \A q \in Processes : request'[q].step = "invalidate" => q \in Changers'
  BY <1>1, <1>6 DEF TypeOK, Changers
<1>9. generation' \in [Caches -> 0..changes'] /\ invalidated' \in [Searchers -> SUBSET (1..changes')]
      /\ published' \subseteq 1..changes'
  BY <1>1, <1>2 DEF TypeOK
<1> QED
  BY <1>1, <1>2, <1>3, <1>4, <1>6, <1>7, <1>8, <1>9 DEF TypeOK, Requests

\* Announcing a change; that it is counted keeps the generation in its bound.
LEMMA TypeOKInvalidate ==
  ASSUME TypeOK, MovesCounted, NEW p \in Changers, Invalidate(p)
  PROVE  TypeOK'
<1>1. /\ p \in Processes /\ CacheOf(p) \in Caches /\ changes \in Nat
      /\ UNCHANGED <<deployment, changes, deletions, published, applied, cache>>
      /\ generation' = [generation EXCEPT ![CacheOf(p)] = generation[CacheOf(p)] + 1]
      /\ request' = [request EXCEPT ![p] = Idle]
      /\ Idle \in Requests /\ Idle.step = "idle"
      /\ \A c \in Caches : generation[c] \in Nat
  BY CachesFacts, OneField DEF Invalidate
<1>2. \A c \in Caches : generation'[c] \in Nat /\ generation'[c] <= changes
  <2>1. MovesCounted'
    BY MovesCountedInvalidate
  <2>2. ASSUME NEW c \in Caches PROVE generation'[c] \in Nat /\ generation'[c] <= changes
    <3>1. IsFiniteSet(Pending(c)') /\ generation'[c] + Cardinality(Pending(c)') <= changes
      BY <1>1, <2>1 DEF MovesCounted, Caches
    <3>2. Cardinality(Pending(c)') \in Nat
      BY <3>1, FS_CardinalityType
    <3>3. generation'[c] \in Nat
      BY <1>1 DEF TypeOK
    <3> QED  BY <1>1, <3>1, <3>2, <3>3
  <2> QED  BY <2>2
<1>3. generation' \in [Caches -> 0..changes]
  BY <1>1, <1>2 DEF TypeOK
<1>4. \A c \in Caches : DOMAIN cache'[c] \subseteq 0..generation'[c]
  BY <1>1 DEF TypeOK
<1>5. request' \in [Processes -> Requests]
      /\ \A q \in Processes : request'[q].step = "invalidate" => request[q].step = "invalidate"
  BY <1>1 DEF TypeOK, Requests
<1>6. invalidated' \in [Searchers -> SUBSET (1..changes)]
  BY CachesFacts DEF Invalidate, SeenAt, TypeOK
<1>7. Entry' = Entry /\ Requests' = Requests
  BY <1>1 DEF Entry, Requests
<1> QED
  BY <1>1, <1>3, <1>4, <1>5, <1>6, <1>7 DEF TypeOK, Requests, Changers

\* A call of the search route.
LEMMA TypeOKRoute ==
  ASSUME TypeOK, NEW p \in Searchers, Routed(p), request[p].gen <= generation[CacheOf(p)]
  PROVE  TypeOK'
<1>1. UNCHANGED <<deployment, changes, deletions, published, applied, generation, invalidated>>
      /\ request' \in [Processes -> Requests] /\ request'[p].step # "invalidate"
      /\ \A q \in Processes \ {p} : request'[q] = request[q]
  BY DEF Routed
<1>2. Entry' = Entry /\ Requests' = Requests
  BY <1>1 DEF Entry, Requests
<1>3. CacheOf(p) \in Caches /\ request[p] \in Requests /\ changes \in Nat
      /\ \A c \in Caches : generation[c] \in Nat
  BY CachesFacts DEF Processes
<1>4. DOMAIN cache' = Caches
      /\ \A c \in Caches :
           DOMAIN cache'[c] \subseteq 0..generation[c] /\ cache'[c] \in [DOMAIN cache'[c] -> Entry]
  <2>1. CASE cache' = cache
    BY <2>1 DEF TypeOK
  <2>2. CASE PutSet(p)
    <3>1. request[p].gen \in 0..generation[CacheOf(p)]
      BY <1>3 DEF Requests
    <3>2. /\ DOMAIN cache' = Caches
          /\ \A c \in Caches : c # CacheOf(p) => cache'[c] = cache[c]
          /\ DOMAIN cache'[CacheOf(p)] = DOMAIN cache[CacheOf(p)] \cup {request[p].gen}
          /\ cache'[CacheOf(p)] \in [DOMAIN cache'[CacheOf(p)] -> Entry]
      BY <2>2, PutEntry
    <3> QED  BY <1>3, <3>1, <3>2 DEF TypeOK
  <2> QED  BY <2>1, <2>2 DEF Routed
<1> QED
  BY <1>1, <1>2, <1>4 DEF TypeOK, Requests, Changers

\* The steps that only take away, and the worker's checkpoint.
LEMMA TypeOKOthers ==
  ASSUME TypeOK,
         \/ \E p \in Searchers : Recycle(p)
         \/ \E p \in Processes : Abandon(p)
         \/ Publish
         \/ \E c \in Caches : \E g \in DOMAIN cache[c] : Expire(c, g)
         \/ UNCHANGED vars
  PROVE  TypeOK'
<1>1. /\ changes \in Nat /\ Searchers \subseteq Processes
      /\ Idle \in Requests /\ Idle.step = "idle"
  BY CachesFacts, OneField DEF Idle, Requests, Steps
<1>2. ASSUME NEW p \in Searchers, Recycle(p) PROVE TypeOK'
  <2>1. /\ request' \in [Processes -> Requests]
        /\ \A q \in Processes : request'[q].step = "invalidate" => request[q].step = "invalidate"
    BY <1>1, <1>2 DEF Recycle, TypeOK, Requests
  <2>2. /\ \A c \in Caches : c # p => cache'[c] = cache[c] /\ generation'[c] = generation[c]
        /\ DOMAIN cache' = Caches
        /\ cache'[p] = <<>> /\ DOMAIN cache'[p] = {} /\ generation'[p] = 0
    BY <1>2 DEF Recycle, TypeOK, Caches
  <2>6. generation' \in [Caches -> 0..changes]
    <3>1. 0 \in 0..changes
      BY <1>1
    <3> QED  BY <1>2, <3>1 DEF Recycle, TypeOK
  <2>7. invalidated' \in [Searchers -> SUBSET (1..changes)]
    BY <1>2 DEF Recycle, TypeOK
  <2>3. generation' \in [Caches -> 0..changes] /\ applied' \in [Searchers -> SUBSET (1..changes)]
        /\ invalidated' \in [Searchers -> SUBSET (1..changes)]
        /\ UNCHANGED <<deployment, changes, deletions, published>>
    BY <1>2, <2>6, <2>7 DEF Recycle, TypeOK
  <2>4. Entry' = Entry /\ Requests' = Requests
    BY <2>3 DEF Entry, Requests
  <2>8. <<>> \in [DOMAIN <<>> -> Entry] /\ DOMAIN <<>> = {}
    OBVIOUS
  <2>5. \A c \in Caches :
          DOMAIN cache'[c] \subseteq 0..generation'[c] /\ cache'[c] \in [DOMAIN cache'[c] -> Entry]
    BY <2>2, <2>8 DEF TypeOK
  <2> QED  BY <2>1, <2>2, <2>3, <2>4, <2>5 DEF TypeOK, Requests, Changers
<1>3. ASSUME NEW p \in Processes, Abandon(p) PROVE TypeOK'
  <2>1. /\ request' \in [Processes -> Requests]
        /\ \A q \in Processes : request'[q].step = "invalidate" => request[q].step = "invalidate"
        /\ UNCHANGED <<deployment, changes, deletions, published, applied, generation,
                       invalidated, cache>>
    BY <1>1, <1>3 DEF Abandon, Go, TypeOK, Requests
  <2>2. Entry' = Entry /\ Requests' = Requests
    BY <2>1 DEF Entry, Requests
  <2> QED  BY <2>1, <2>2 DEF TypeOK, Requests, Changers
<1>4. CASE Publish
  BY <1>1, <1>4 DEF Publish, TypeOK, Changers, Entry
<1>5. ASSUME NEW c \in Caches, NEW g \in DOMAIN cache[c], Expire(c, g) PROVE TypeOK'
  <2>1. /\ UNCHANGED <<deployment, changes, deletions, published, applied, generation, request,
                       invalidated>>
        /\ cache' = [cache EXCEPT ![c] = [h \in DOMAIN cache[c] \ {g} |-> cache[c][h]]]
    BY <1>5 DEF Expire
  <2>2. /\ DOMAIN cache' = Caches /\ \A b \in Caches : b # c => cache'[b] = cache[b]
        /\ cache'[c] = [h \in DOMAIN cache[c] \ {g} |-> cache[c][h]]
    BY <2>1 DEF TypeOK
  <2>3. Entry' = Entry
    BY <2>1 DEF Entry
  <2>4. \A b \in Caches :
          DOMAIN cache'[b] \subseteq 0..generation[b] /\ cache'[b] \in [DOMAIN cache'[b] -> Entry]
    BY <2>2 DEF TypeOK
  <2> QED  BY <2>1, <2>2, <2>3, <2>4 DEF TypeOK, Changers
<1>6. CASE UNCHANGED vars
  BY <1>6 DEF vars, TypeOK, Changers, Entry
<1> QED
  BY <1>2, <1>3, <1>4, <1>5, <1>6

-----------------------------------------------------------------------------
(* Freshness: one lemma for each kind of step *)

\* What a get would find, entry by entry.
LEMMA ReachableEntries ==
  ReachableIsFreshUnlessOverlapped <=>
    \A c \in Caches : generation[c] \in DOMAIN cache[c] =>
      \/ invalidated[cache[c][generation[c]].by] \subseteq cache[c][generation[c]].result
      \/ c = Shared /\ cache[c][generation[c]].began < generation[c]
BY DEF ReachableIsFreshUnlessOverlapped, Reachable

Fresh ==
  /\ RequestsBehind /\ EntriesAtHome /\ SightKept /\ ResultsFresh
  /\ ReachableIsFreshUnlessOverlapped

\* The search route: a put files what its request found.
LEMMA FreshRoute ==
  ASSUME TypeOK, Fresh, NEW p \in Searchers, Routed(p)
  PROVE  Fresh'
<1>1. /\ UNCHANGED <<deployment, changes, deletions, published, applied, generation, invalidated>>
      /\ \A q \in Processes \ {p} : request'[q] = request[q]
      /\ request'[p].gen <= generation[CacheOf(p)] /\ request'[p].began <= generation[CacheOf(p)]
  BY DEF Routed
<1>2. CacheOf(p) \in Caches /\ p \in Processes /\ Searchers \subseteq Processes
  BY CachesFacts
<1>3. RequestsBehind' /\ SightKept'
  BY <1>1, <1>2 DEF Fresh, RequestsBehind, SightKept, CacheOf, Sees
<1>4. ResultsFresh'
  <2>1. request'[p].step \in {"put", "set"} =>
          \/ invalidated[p] \subseteq request'[p].result
          \/ CacheOf(p) = Shared /\ request'[p].began < generation[Shared]
    BY DEF Routed, Fresh, SightKept, ResultsFresh
  <2> QED  BY <1>1, <1>2, <2>1 DEF Fresh, ResultsFresh, CacheOf
<1>5. CASE cache' = cache
  <2>1. EntriesAtHome' /\ ReachableIsFreshUnlessOverlapped'
    BY <1>1, <1>5 DEF Fresh, EntriesAtHome, ReachableIsFreshUnlessOverlapped, Reachable, CacheOf
  <2> QED  BY <1>3, <1>4, <2>1 DEF Fresh
<1>6. CASE request[p].step = "set" /\ PutSet(p)
  <2> DEFINE c0 == CacheOf(p)
             r == request[p]
  <2>1. /\ \A c \in Caches : c # c0 => cache'[c] = cache[c]
        /\ DOMAIN cache'[c0] = DOMAIN cache[c0] \cup {r.gen}
        /\ cache'[c0][r.gen] = [result |-> r.result, began |-> r.began, by |-> p]
        /\ \A g \in DOMAIN cache[c0] : g # r.gen => cache'[c0][g] = cache[c0][g]
    BY <1>6, PutEntry
  <2>2. EntriesAtHome'
    BY <1>1, <2>1 DEF Fresh, EntriesAtHome, CacheOf
  <2>3. \/ invalidated[p] \subseteq r.result
        \/ c0 = Shared /\ r.began < generation[Shared]
    BY <1>6 DEF Fresh, ResultsFresh
  <2>4. \A c \in Caches : generation[c] \in DOMAIN cache'[c] =>
          \/ invalidated[cache'[c][generation[c]].by] \subseteq cache'[c][generation[c]].result
          \/ c = Shared /\ cache'[c][generation[c]].began < generation[c]
    <3>1. SUFFICES ASSUME NEW c \in Caches, generation[c] \in DOMAIN cache'[c]
                   PROVE  \/ invalidated[cache'[c][generation[c]].by]
                               \subseteq cache'[c][generation[c]].result
                          \/ c = Shared /\ cache'[c][generation[c]].began < generation[c]
      OBVIOUS
    <3>2. CASE c = c0 /\ generation[c] = r.gen
      BY <2>1, <2>3, <3>2
    <3>3. CASE c # c0 \/ generation[c] # r.gen
      <4>1. generation[c] \in DOMAIN cache[c] /\ cache'[c][generation[c]] = cache[c][generation[c]]
        BY <2>1, <3>1, <3>3
      <4> QED  BY <4>1, ReachableEntries DEF Fresh
    <3> QED  BY <3>2, <3>3
  <2>5. ReachableIsFreshUnlessOverlapped'
    <3>1. \A c \in Caches : generation'[c] \in DOMAIN cache'[c] =>
            \/ invalidated'[cache'[c][generation'[c]].by] \subseteq cache'[c][generation'[c]].result
            \/ c = Shared /\ cache'[c][generation'[c]].began < generation'[c]
      BY <1>1, <2>4
    <3> QED  BY <3>1 DEF ReachableIsFreshUnlessOverlapped, Reachable, Caches
  <2> QED  BY <1>3, <1>4, <2>2, <2>5 DEF Fresh
<1> QED  BY <1>5, <1>6 DEF Routed

\* A change only adds to what a process sees.
LEMMA FreshChange == ASSUME TypeOK, Fresh, NEW p \in Changers, Change(p) PROVE Fresh'
<1>1. /\ UNCHANGED <<deployment, published, generation, cache, invalidated>>
      /\ p \in Processes /\ Searchers \subseteq Processes /\ deletions \subseteq deletions'
      /\ \A q \in Processes \ {p} : request'[q] = request[q]
      /\ request[p] \in Requests
  BY CachesFacts DEF Change, TypeOK
<1>2. /\ request'[p].step = "invalidate" /\ request'[p].gen = request[p].gen
      /\ request'[p].began = request[p].began
  <2>1. /\ Then(p, "invalidate").step = "invalidate" /\ Then(p, "invalidate").gen = request[p].gen
        /\ Then(p, "invalidate").began = request[p].began
    BY <1>1, OneField DEF Then, Steps
  <2> QED  BY <1>1, <2>1 DEF Change, TypeOK
<1>3. \A q \in Searchers : applied[q] \subseteq applied'[q]
  BY DEF Change, TypeOK
<1>4. RequestsBehind' /\ SightKept' /\ ResultsFresh'
  BY <1>1, <1>2, <1>3 DEF Fresh, RequestsBehind, SightKept, ResultsFresh, CacheOf, Sees
<1>5. EntriesAtHome' /\ ReachableIsFreshUnlessOverlapped'
  BY <1>1 DEF Fresh, EntriesAtHome, ReachableIsFreshUnlessOverlapped, Reachable, CacheOf
<1> QED  BY <1>4, <1>5 DEF Fresh

\* The new generation of an invalidated cache has no entry, and a request of
\* another process that is under way began in an older one.
LEMMA FreshInvalidate == ASSUME TypeOK, Fresh, NEW p \in Changers, Invalidate(p) PROVE Fresh'
<1> DEFINE c0 == CacheOf(p)
<1>1. /\ p \in Processes /\ c0 \in Caches /\ Searchers \subseteq Processes
      /\ UNCHANGED <<deployment, changes, deletions, published, applied, cache>>
      /\ \A q \in Processes \ {p} : request'[q] = request[q]
      /\ request'[p].step = "idle" /\ request'[p].gen = 0 /\ request'[p].began = 0
      /\ generation'[c0] = generation[c0] + 1
      /\ \A c \in Caches : c # c0 => generation'[c] = generation[c]
      /\ \A c \in Caches : generation[c] \in Nat
      /\ \A q \in Searchers : CacheOf(q) \in Caches /\ request[q] \in Requests
  BY CachesFacts DEF Invalidate, TypeOK, Idle
<1>2. \A q \in Searchers : invalidated'[q] = IF CacheOf(q) = c0 THEN Sees(q) ELSE invalidated[q]
  BY DEF Invalidate, SeenAt
<1>3. \A q \in Searchers : request[q].gen \in Nat /\ request[q].began \in Nat
  BY <1>1 DEF Requests
<1>4. RequestsBehind'
  BY <1>1, <1>3 DEF Fresh, RequestsBehind, CacheOf
<1>5. EntriesAtHome' /\ SightKept'
  BY <1>1, <1>2 DEF Fresh, EntriesAtHome, SightKept, CacheOf, Sees
<1>6. ResultsFresh'
  <2>1. ASSUME NEW q \in Searchers \ {p}, CacheOf(q) = c0
        PROVE  c0 = Shared /\ request[q].began < generation'[Shared]
    <3>1. c0 = Shared
      BY <2>1, CachesFacts
    <3> QED  BY <1>1, <1>3, <2>1, <3>1 DEF Fresh, RequestsBehind
  <2>2. \A q \in Searchers : CacheOf(q) # c0 => generation'[CacheOf(q)] = generation[CacheOf(q)]
    BY <1>1
  <2> QED  BY <1>1, <1>2, <2>1, <2>2 DEF Fresh, ResultsFresh, CacheOf
<1>7. ReachableIsFreshUnlessOverlapped'
  <2>1. generation'[c0] \notin DOMAIN cache[c0]
    BY <1>1 DEF TypeOK
  <2>2. ASSUME NEW c \in Caches \ {c0}, generation[c] \in DOMAIN cache[c]
        PROVE  \/ invalidated'[cache[c][generation[c]].by] \subseteq cache[c][generation[c]].result
               \/ c = Shared /\ cache[c][generation[c]].began < generation[c]
    <3>1. CacheOf(cache[c][generation[c]].by) = c /\ cache[c][generation[c]] \in Entry
      BY <2>2 DEF Fresh, EntriesAtHome, TypeOK
    <3>2. cache[c][generation[c]].by \in Searchers
      BY <3>1 DEF Entry
    <3> QED  BY <1>2, <2>2, <3>1, <3>2, ReachableEntries DEF Fresh
  <2>3. \A c \in Caches : generation'[c] \in DOMAIN cache'[c] =>
          \/ invalidated'[cache'[c][generation'[c]].by] \subseteq cache'[c][generation'[c]].result
          \/ c = Shared /\ cache'[c][generation'[c]].began < generation'[c]
    BY <1>1, <2>1, <2>2
  <2> QED  BY <2>3 DEF ReachableIsFreshUnlessOverlapped, Reachable, Caches
<1> QED  BY <1>4, <1>5, <1>6, <1>7 DEF Fresh

\* A process forked anew has, without Redis, an empty cache of its own.
LEMMA FreshRecycle == ASSUME TypeOK, Fresh, NEW p \in Searchers, Recycle(p) PROVE Fresh'
<1>1. /\ p \in Processes /\ Searchers \subseteq Processes
      /\ UNCHANGED <<deployment, changes, deletions, published>>
      /\ \A q \in Processes \ {p} : request'[q] = request[q]
      /\ request'[p].step = "idle" /\ request'[p].gen = 0 /\ request'[p].began = 0
      /\ \A c \in Caches : c # p => generation'[c] = generation[c] /\ cache'[c] = cache[c]
      /\ generation'[p] = 0 /\ cache'[p] = <<>>
      /\ \A c \in Caches : generation[c] \in Nat
      /\ \A q \in Searchers : CacheOf(q) \in Caches
      /\ Shared # p
  BY CachesFacts, NamesApart DEF Recycle, TypeOK, Idle, Caches
<1>2. \A q \in Searchers \ {p} : invalidated'[q] = invalidated[q] /\ applied'[q] = applied[q]
  BY DEF Recycle, TypeOK
<1>3. invalidated'[p] \subseteq invalidated[p]
      /\ (deployment # "worker" => invalidated'[p] \subseteq deletions)
  BY DEF Recycle, TypeOK
<1>4. \A q \in Searchers \ {p} : CacheOf(q) # p
  BY <1>1 DEF CacheOf
<1>5. RequestsBehind' /\ ResultsFresh'
  BY <1>1, <1>2, <1>4 DEF Fresh, RequestsBehind, ResultsFresh, CacheOf
<1>6. SightKept'
  BY <1>1, <1>2, <1>3 DEF Fresh, SightKept, Sees
<1>7. EntriesAtHome' /\ ReachableIsFreshUnlessOverlapped'
  <2>1. DOMAIN cache'[p] = {}
    BY <1>1
  <2>2. \A q \in Searchers : invalidated'[q] \subseteq invalidated[q]
    BY <1>2, <1>3
  <2>3. \A c \in Caches \ {p} : \A g \in DOMAIN cache[c] : cache[c][g].by \in Searchers
    BY DEF TypeOK, Entry
  <2>4. EntriesAtHome'
    BY <1>1, <2>1 DEF Fresh, EntriesAtHome, CacheOf
  <2>5. \A c \in Caches : generation'[c] \in DOMAIN cache'[c] =>
          \/ invalidated'[cache'[c][generation'[c]].by] \subseteq cache'[c][generation'[c]].result
          \/ c = Shared /\ cache'[c][generation'[c]].began < generation'[c]
    BY <1>1, <2>1, <2>2, <2>3, ReachableEntries DEF Fresh
  <2> QED  BY <2>4, <2>5 DEF ReachableIsFreshUnlessOverlapped, Reachable, Caches
<1> QED  BY <1>5, <1>6, <1>7 DEF Fresh

\* The remaining steps: a request is abandoned, a snapshot published, an entry
\* expires.
LEMMA FreshOthers ==
  ASSUME TypeOK, Fresh,
         \/ \E p \in Processes : Abandon(p)
         \/ Publish
         \/ \E c \in Caches : \E g \in DOMAIN cache[c] : Expire(c, g)
         \/ UNCHANGED vars
  PROVE  Fresh'
<1>1. ASSUME NEW p \in Processes, Abandon(p) PROVE Fresh'
  <2>1. /\ UNCHANGED <<deployment, changes, deletions, published, applied, generation, invalidated,
                       cache>>
        /\ \A q \in Processes \ {p} : request'[q] = request[q]
        /\ request'[p].step = "idle" /\ request'[p].gen = 0 /\ request'[p].began = 0
    BY <1>1 DEF Abandon, Go, TypeOK, Idle
  <2>2. Searchers \subseteq Processes
        /\ \A q \in Searchers : 0 <= generation[CacheOf(q)] /\ CacheOf(q)' = CacheOf(q)
    BY <2>1, CachesFacts DEF CacheOf
  <2>3. RequestsBehind' /\ ResultsFresh'
    BY <2>1, <2>2 DEF Fresh, RequestsBehind, ResultsFresh, CacheOf
  <2>4. EntriesAtHome' /\ SightKept' /\ ReachableIsFreshUnlessOverlapped'
    BY <2>1 DEF Fresh, EntriesAtHome, SightKept, ReachableIsFreshUnlessOverlapped, Reachable,
       CacheOf, Sees
  <2> QED  BY <2>3, <2>4 DEF Fresh
<1>2. CASE Publish
  <2>1. /\ UNCHANGED <<deployment, changes, deletions, applied, generation, cache, request,
                       invalidated>>
        /\ published \subseteq published'
    BY <1>2 DEF Publish, TypeOK
  <2> QED  BY <2>1 DEF Fresh, RequestsBehind, EntriesAtHome, SightKept, ResultsFresh,
             ReachableIsFreshUnlessOverlapped, Reachable, CacheOf, Sees
<1>3. ASSUME NEW c \in Caches, NEW g \in DOMAIN cache[c], Expire(c, g) PROVE Fresh'
  <2>1. /\ UNCHANGED <<deployment, changes, deletions, published, applied, generation, request,
                       invalidated>>
        /\ \A b \in Caches : b # c => cache'[b] = cache[b]
        /\ cache'[c] = [h \in DOMAIN cache[c] \ {g} |-> cache[c][h]]
    BY <1>3 DEF Expire, TypeOK
  <2>2. \A b \in Caches : \A h \in DOMAIN cache'[b] : h \in DOMAIN cache[b]
                                                      /\ cache'[b][h] = cache[b][h]
    BY <2>1
  <2>3. RequestsBehind' /\ SightKept' /\ ResultsFresh' /\ EntriesAtHome'
    BY <2>1, <2>2 DEF Fresh, RequestsBehind, SightKept, ResultsFresh, EntriesAtHome, CacheOf, Sees
  <2>4. ReachableIsFreshUnlessOverlapped'
    BY <2>1, <2>2 DEF Fresh, ReachableIsFreshUnlessOverlapped, Reachable
  <2> QED  BY <2>3, <2>4 DEF Fresh
<1>4. CASE UNCHANGED vars
  BY <1>4 DEF vars, Fresh, RequestsBehind, EntriesAtHome, SightKept, ResultsFresh,
     ReachableIsFreshUnlessOverlapped, Reachable, CacheOf, Sees
<1> QED  BY <1>1, <1>2, <1>3, <1>4

-----------------------------------------------------------------------------
(* The theorems *)

\* Every step keeps the invariant.
LEMMA IInvStep == IInv /\ [Next]_vars => IInv'
<1> SUFFICES ASSUME IInv, [Next]_vars PROVE IInv'
  OBVIOUS
<1>1. TypeOK /\ MovesCounted /\ Fresh
  BY DEF IInv, Fresh
<1>2. changes \in Nat /\ Searchers \subseteq Processes /\ Changers \subseteq Processes
      /\ \A c \in Caches : generation[c] \in Nat
  BY <1>1, CachesFacts
<1>3. ASSUME NEW p \in Searchers, Route(p) PROVE IInv'
  <2>1. Routed(p)
    BY <1>1, <1>3, RouteSummary DEF Fresh
  <2>2. TypeOK'
    BY <1>1, <2>1, TypeOKRoute DEF Fresh, RequestsBehind
  <2>3. MovesCounted'
    BY <1>1, <1>2, <2>1, FewerPending DEF Routed
  <2>4. Fresh'
    BY <1>1, <2>1, FreshRoute
  <2> QED  BY <2>2, <2>3, <2>4 DEF IInv, Fresh
<1>4. ASSUME NEW p \in Changers, Change(p) PROVE IInv'
  BY <1>1, <1>4, TypeOKChange, MovesCountedChange, FreshChange DEF IInv, Fresh
<1>5. ASSUME NEW p \in Changers, Invalidate(p) PROVE IInv'
  BY <1>1, <1>5, TypeOKInvalidate, MovesCountedInvalidate, FreshInvalidate DEF IInv, Fresh
<1>6. ASSUME NEW p \in Searchers, Recycle(p) PROVE IInv'
  <2>1. TypeOK' /\ Fresh'
    BY <1>1, <1>6, TypeOKOthers, FreshRecycle
  <2>2. /\ UNCHANGED <<deployment, changes>>
        /\ \A q \in Processes \ {p} : request'[q] = request[q]
        /\ request'[p].step = "idle"
        /\ \A c \in Caches : generation'[c] \in Nat /\ generation'[c] <= generation[c]
    BY <1>1, <1>2, <1>6 DEF Recycle, TypeOK, Idle
  <2>3. MovesCounted'
    BY <1>1, <1>2, <2>2, FewerPending
  <2> QED  BY <2>1, <2>3 DEF IInv, Fresh
<1>7. ASSUME NEW p \in Processes, Abandon(p) PROVE IInv'
  <2>1. TypeOK' /\ Fresh'
    BY <1>1, <1>7, TypeOKOthers, FreshOthers
  <2>2. /\ UNCHANGED <<deployment, changes, generation>>
        /\ \A q \in Processes \ {p} : request'[q] = request[q]
        /\ request'[p].step = "idle"
    BY <1>1, <1>7 DEF Abandon, Go, TypeOK, Idle
  <2>3. MovesCounted'
    BY <1>1, <1>2, <2>2, FewerPending
  <2> QED  BY <2>1, <2>3 DEF IInv, Fresh
<1>8. ASSUME \/ Publish
             \/ \E c \in Caches : \E g \in DOMAIN cache[c] : Expire(c, g)
             \/ UNCHANGED vars
      PROVE  IInv'
  <2>1. TypeOK' /\ Fresh'
    BY <1>1, <1>8, TypeOKOthers, FreshOthers
  <2>2. UNCHANGED <<deployment, changes, generation, request>>
    BY <1>8 DEF Publish, Expire, vars
  <2>3. MovesCounted'
    BY <1>1, <1>2, <2>2, FewerPending
  <2> QED  BY <2>1, <2>3 DEF IInv, Fresh
<1> QED
  BY <1>3, <1>4, <1>5, <1>6, <1>7, <1>8 DEF Next

\* The strengthening holds in every reachable state.
THEOREM InductiveIInv == Spec => []IInv
BY IInvInit, IInvStep, PTL DEF Spec

\* Every value of the caches and of the requests has its type: in particular no
\* entry is under a generation that its cache has not reached, and a cache moves
\* on once for a change at most.
THEOREM TypeCorrect == Spec => []TypeOK
<1>1. IInv => TypeOK
  BY DEF IInv
<1> QED  BY <1>1, InductiveIInv, PTL

\* What a get would find takes into account all that its process saw when the
\* cache was invalidated last, unless the request that put it there was under
\* way then, on the cache in Redis.
THEOREM FreshUnlessOverlapped == Spec => []ReachableIsFreshUnlessOverlapped
<1>1. IInv => ReachableIsFreshUnlessOverlapped
  BY DEF IInv
<1> QED  BY <1>1, InductiveIInv, PTL

\* Without Redis the promise of search_result_cache.py:3-7 holds as it stands: a
\* process never finds in its own cache what a change of its own made stale.
THEOREM OwnCacheIsFresh == Spec => [](deployment = "own" => ReachableIsFresh)
<1>1. IInv => (deployment = "own" => ReachableIsFresh)
  <2>1. SUFFICES ASSUME IInv, deployment = "own", NEW c \in Caches, NEW e \in Reachable(c)
                 PROVE  invalidated[e.by] \subseteq e.result
    BY DEF ReachableIsFresh
  <2>2. CacheOf(e.by) = c /\ e.by \in Searchers
    BY <2>1 DEF IInv, EntriesAtHome, Reachable, TypeOK, Entry
  <2>3. c # Shared
    BY <2>1, <2>2, NamesApart DEF CacheOf
  <2> QED  BY <2>1, <2>3 DEF IInv, ReachableIsFreshUnlessOverlapped
<1> QED  BY <1>1, InductiveIInv, PTL
=============================================================================
