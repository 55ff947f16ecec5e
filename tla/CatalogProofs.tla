---------------------------- MODULE CatalogProofs ----------------------------
(***************************************************************************)
(* Theorems about Catalog: what searches, walks through the pages of the   *)
(* listing and statistics say while documents come and go, for every page  *)
(* size and filter, every query, and every set of texts and documents.     *)
(***************************************************************************)
EXTENDS Catalog, SearchAnswerProofs

-----------------------------------------------------------------------------
(* The inductive invariant *)

CatalogCalls == {"page", "by_document", "count_for_tenant"}

ViewTypeOK ==
  /\ page \in 0..Cardinality(Docs) + 1
  /\ DOMAIN listed \subseteq DOMAIN asked /\ listed \in [DOMAIN listed -> Nat \ {0}]
  /\ shown \in Docs \cup {None} /\ chunks \in 0..Cardinality(Chunk)
  /\ counted \in 0..Cardinality(Docs)

\* The reader has one request at a time: while it asks for one thing it has
\* nothing of the others.
OneRequest ==
  /\ call \in CatalogCalls =>
       /\ wanted = {} /\ allowed = {} /\ searched = 0 /\ best = <<>> /\ matches = {}
       /\ found = None /\ signals = <<>> /\ documents = {} /\ steady = {}
  /\ call # "none" => chunks = 0
  /\ call \notin {"none", "page"} => page = 0 /\ listed = <<>>
  /\ call \notin {"none", "by_document"} => shown = None
  /\ call \notin {"none", "count_for_tenant"} => counted = 0
  /\ call = "page" => page > 0
  /\ call = "by_document" => shown \in known /\ Owned(asked[shown])

\* What a request is about is what was there when it began and what came since,
\* without what was lost. No document comes twice.
ComesAndGoes ==
  /\ began \cap came = {} /\ lost \subseteq began \cup came /\ began \cup came \subseteq known
  /\ call = "page" => Listing = (began \cup came) \ lost
  /\ call = "count_for_tenant" =>
       /\ Catalogue = (began \cup came) \ lost
       /\ counted = Cardinality(began) /\ \A d \in began : Owned(asked[d])

\* Before the next page, what is still to be listed is not on an earlier page,
\* unless a document before it went.
StillToCome ==
  call = "page" =>
    \A d \in began \ lost :
      \/ d \in DOMAIN listed \/ \E e \in lost : e < d
      \/ (page - 1) * PAGE_SIZE <= Before(d, Listing)

\* And what was listed is, unless a document before it came.
ListedOnce ==
  \A d \in DOMAIN listed :
    /\ asked[d] \in Listable
    /\ \/ \E e \in came : e < d
       \/ listed[d] = 1 /\ (call = "page" => Before(d, Listing) < (page - 1) * PAGE_SIZE)

CInv ==
  /\ SInv /\ ViewTypeOK /\ OneRequest /\ ComesAndGoes /\ StillToCome /\ ListedOnce
  /\ WalkComplete /\ CountsAgree

-----------------------------------------------------------------------------
(* Places in a listing *)

LEMMA DocsCounted ==
  ASSUME NEW ids \in SUBSET Docs
  PROVE  /\ IsFiniteSet(ids) /\ Cardinality(ids) \in Nat /\ Cardinality(ids) <= Cardinality(Docs)
         /\ ids \subseteq Int /\ Cardinality(Docs) \in Nat
BY ChunksFinite, DocsOrdered, FS_Subset, FS_CardinalityType

\* How many documents come before one in a listing: a number of documents other
\* than it, the more the more of them there are.
LEMMA BeforeBounds ==
  ASSUME NEW ids \in SUBSET Docs, NEW d \in Docs
  PROVE  /\ Before(d, ids) \in Nat /\ Before(d, ids) + 1 <= Cardinality(Docs)
         /\ \A other \in SUBSET Docs :
              (\A e \in ids : e < d => e \in other) => Before(d, ids) <= Before(d, other)
<1> DEFINE below(s) == {e \in s : e < d}
<1>1. \A s \in SUBSET Docs : Before(d, s) = Cardinality(below(s)) /\ below(s) \in SUBSET Docs
  BY DEF Before
<1>2. d \in Int /\ d \notin below(ids)
  BY DocsOrdered
<1>3. \A s \in SUBSET Docs : IsFiniteSet(below(s)) /\ Cardinality(below(s)) \in Nat
  BY <1>1, DocsCounted
<1>4. Cardinality(below(ids)) + 1 <= Cardinality(Docs)
  <2>1. Cardinality(below(ids) \cup {d}) = Cardinality(below(ids)) + 1
    BY <1>2, <1>3, FS_AddElement
  <2>2. below(ids) \cup {d} \in SUBSET Docs
    BY <1>1
  <2>3. Cardinality(below(ids) \cup {d}) <= Cardinality(Docs)
    BY <2>2, DocsCounted
  <2> QED  BY <2>1, <2>3
<1>5. ASSUME NEW other \in SUBSET Docs, \A e \in ids : e < d => e \in other
      PROVE  Before(d, ids) <= Before(d, other)
  <2>1. below(ids) \in SUBSET below(other)
    BY <1>5
  <2> HIDE DEF below
  <2> QED  BY <1>1, <1>3, <2>1, FS_Subset
<1> QED  BY <1>1, <1>3, <1>4, <1>5

\* A listing has no gap: where there is a document at a place or after it,
\* there is one at that place.
LEMMA NoGap ==
  ASSUME NEW ids \in SUBSET Docs, NEW d \in ids, NEW k \in Nat, k <= Before(d, ids)
  PROVE  \E x \in ids : Before(x, ids) = k
<1> DEFINE After == {x \in ids : k <= Before(x, ids)}
           below(x) == {e \in ids : e < x}
<1>1. \A x \in ids : /\ x \in Int /\ Before(x, ids) \in Nat /\ Before(x, ids) = Cardinality(below(x))
                     /\ IsFiniteSet(below(x)) /\ below(x) \subseteq Int
  <2> TAKE x \in ids
  <2>1. below(x) \in SUBSET Docs /\ x \in Docs
    OBVIOUS
  <2>2. IsFiniteSet(below(x)) /\ below(x) \subseteq Int
    BY <2>1, DocsCounted
  <2> QED  BY <2>1, <2>2, BeforeBounds, DocsOrdered DEF Before
<1>2. PICK x \in After : \A y \in After : x <= y
  <2>1. After \in SUBSET Docs /\ After # {}
    OBVIOUS
  <2>2. After \in SUBSET Int /\ IsFiniteSet(After)
    BY <2>1, DocsCounted
  <2> HIDE DEF After
  <2> QED  BY <2>1, <2>2, LeastExists
<1>3. x \in ids /\ k <= Before(x, ids)
  OBVIOUS
<1>4. CASE below(x) = {}
  <2>1. Before(x, ids) = 0
    BY <1>1, <1>3, <1>4, FS_EmptySet
  <2> QED  BY <1>3, <2>1
<1>5. CASE below(x) # {}
  <2>1. PICK y \in below(x) : \A z \in below(x) : y >= z
    <3>1. below(x) \in SUBSET Int /\ IsFiniteSet(below(x))
      BY <1>1, <1>3
    <3> HIDE DEF below
    <3> QED  BY <1>5, <3>1, GreatestExists
  <2>2. y \in ids /\ y < x /\ y \in Int /\ x \in Int
    BY <1>1, <1>3
  <2>3. below(x) = below(y) \cup {y} /\ y \notin below(y)
    <3>1. ASSUME NEW z \in ids PROVE z < x <=> z < y \/ z = y
      <4>1. z \in Int /\ (z < x => y >= z)
        BY <1>1, <2>1
      <4> QED  BY <2>2, <4>1
    <3>2. ~(y < y)
      BY <2>2
    <3> QED  BY <2>2, <3>1, <3>2
  <2>4. Before(x, ids) = Before(y, ids) + 1
    <3>1. IsFiniteSet(below(y)) /\ Before(y, ids) = Cardinality(below(y)) /\ Before(x, ids) = Cardinality(below(x))
      BY <1>1, <1>3, <2>2
    <3>2. PICK B : B = below(y)
      OBVIOUS
    <3>3. below(x) = B \cup {y} /\ y \notin B /\ IsFiniteSet(B)
      BY <2>3, <3>1, <3>2
    <3>4. Cardinality(B \cup {y}) = IF y \in B THEN Cardinality(B) ELSE Cardinality(B) + 1
      BY <3>3, FS_AddElement
    <3> HIDE DEF below
    <3> QED  BY <3>1, <3>2, <3>3, <3>4
  <2>5. ~(k <= Before(y, ids))
    <3>1. y \notin After
      BY <1>2, <2>2
    <3> QED  BY <2>2, <3>1
  <2>6. Before(x, ids) \in Nat /\ Before(y, ids) \in Nat
    BY <1>1, <1>3, <2>2
  <2>7. Before(x, ids) = k
    <3> HIDE DEF After, below
    <3>1. k <= Before(y, ids) + 1 /\ ~(k <= Before(y, ids))
      BY <1>3, <2>4, <2>5
    <3> QED  BY <2>4, <2>6, <3>1
  <2> QED  BY <1>3, <2>7
<1> QED  BY <1>4, <1>5

\* So many documents have so many chunks.
LEMMA ChunksOfDocs ==
  ASSUME NEW ids \in SUBSET Docs
  PROVE  LET theirs == {c \in Chunk : c.doc \in ids}
         IN IsFiniteSet(theirs) /\ Cardinality(theirs) = Cardinality(ids) * Cardinality(Orders)
<1> DEFINE theirs == {c \in Chunk : c.doc \in ids}
           f == [x \in ids \X Orders |-> [doc |-> x[1], order |-> x[2]]]
<1>1. IsFiniteSet(ids \X Orders) /\ Cardinality(ids \X Orders) = Cardinality(ids) * Cardinality(Orders)
  BY DocsCounted, ChunksFinite, FS_Product
<1>2. f \in [ids \X Orders -> theirs]
  BY DEF Chunk
<1>3. ASSUME NEW c \in theirs PROVE \E x \in ids \X Orders : f[x] = c
  <2>1. <<c.doc, c.order>> \in ids \X Orders /\ f[<<c.doc, c.order>>] = c
    BY DEF Chunk
  <2> QED  BY <2>1
<1>4. ASSUME NEW x \in ids \X Orders, NEW y \in ids \X Orders, f[x] = f[y] PROVE x = y
  <2>1. f[x].doc = x[1] /\ f[x].order = x[2] /\ f[y].doc = y[1] /\ f[y].order = y[2]
    OBVIOUS
  <2> QED  BY <1>4, <2>1
<1> HIDE DEF f, theirs
<1>5. f \in Surjection(ids \X Orders, theirs) /\ f \in Injection(ids \X Orders, theirs)
  BY <1>2, <1>3, <1>4 DEF Surjection, Injection, IsInjective
<1> HIDE DEF f, theirs
<1>6. IsFiniteSet(theirs) /\ Cardinality(theirs) = Cardinality(ids \X Orders)
  BY <1>1, <1>5, FS_Surjection
<1> QED  BY <1>1, <1>6 DEF theirs

-----------------------------------------------------------------------------
(* What comes and goes under a request *)

\* A document that comes to be listed, or counted, had no row before.
LEMMA OnlyNewCome ==
  ASSUME IInv, DocsAsAsked, [Next]_vars
  PROVE  /\ Catalogue' \cap known \subseteq Catalogue /\ Listing' \cap known \subseteq Listing
         /\ Catalogue' \subseteq known' /\ Listing' \subseteq known'
<1>1. /\ DOMAIN docs \subseteq known /\ known \subseteq DOMAIN asked /\ DOMAIN docs' \subseteq known'
      /\ \A d \in DOMAIN asked : asked'[d] = asked[d]
      /\ \A d \in DOMAIN docs : docs[d] = asked[d]
      /\ \A d \in DOMAIN docs' : docs'[d] = asked'[d]
  BY SagaGrows, DocsAsAskedStep DEF IInv, TypeOK, DocsAsAsked
<1>2. ASSUME NEW d \in DOMAIN docs', d \in known PROVE d \in DOMAIN docs
  <2>1. ASSUME NEW p \in running, Works(p) PROVE d \in DOMAIN docs
    <3>1. p \in Processes
      BY DEF IInv, TypeOK
    <3>2. d = request[p].doc /\ Indexing(p) => d \notin known
      BY <3>1 DEF IInv, FreshDocument
    <3> QED  BY <1>2, <2>1, <3>2, RowsAdded
  <2>2. ASSUME Restart \/ (\E p \in running : Recycle(p)) \/ UNCHANGED vars PROVE docs' = docs
    BY <2>2 DEF Restart, Recycle, vars, stores
  <2> QED  BY <2>1, <2>2 DEF Next
<1>3. \A d \in DOMAIN docs' : d \in known => d \in DOMAIN docs /\ docs'[d] = docs[d]
  BY <1>1, <1>2
<1> QED  BY <1>1, <1>3 DEF Catalogue, Listing

\* So what a request is about stays what it began with and what came, without
\* what went, and nothing comes that was there before.
LEMMA MovesKeep ==
  ASSUME NEW before, NEW now, NEW b, NEW c, NEW l, NEW ever, NEW c2, NEW l2,
         b \cap c = {}, l \subseteq b \cup c, b \cup c \subseteq ever, before = (b \cup c) \ l,
         now \cap ever \subseteq before, c2 = c \cup (now \ before), l2 = l \cup (before \ now)
  PROVE  /\ b \cap c2 = {} /\ l2 \subseteq b \cup c2 /\ b \cup c2 \subseteq ever \cup now
         /\ now = (b \cup c2) \ l2
OBVIOUS

LEMMA CInvImplies ==
  CInv => /\ CatalogTypeOK /\ OnlyMatching /\ SteadyFound /\ WholeUnlessDeleting /\ CopyShows /\ NeverCapped
          /\ WalkComplete /\ CountsAgree
BY SInvImplies DEF CInv, CatalogTypeOK, ViewTypeOK, ComesAndGoes

\* A reader that has no view.
LEMMA NoViewInv ==
  ASSUME SInv', NoView, call' \notin CatalogCalls, began' = {}, came' = {}, lost' = {}
  PROVE  CInv'
<1>1. Cardinality(Docs) \in Nat /\ Cardinality(Chunk) \in Nat /\ Cardinality(Orders) \in Nat
  BY DocsCounted, ChunksCounted, ChunksFinite, FS_CardinalityType
<1>2. DOMAIN listed' = {} /\ listed' \in [DOMAIN listed' -> Nat \ {0}]
  BY DEF NoView
<1>3. 0 \in 0..Cardinality(Docs) + 1 /\ 0 \in 0..Cardinality(Chunk) /\ 0 \in 0..Cardinality(Docs)
  BY <1>1
<1>4. ViewTypeOK'
  BY <1>2, <1>3 DEF NoView, ViewTypeOK
<1>5. OneRequest' /\ ComesAndGoes' /\ StillToCome' /\ ListedOnce'
  BY <1>2 DEF NoView, CatalogCalls, OneRequest, ComesAndGoes, StillToCome, ListedOnce
<1>6. WalkComplete'
  BY <1>2 DEF NoView, WalkComplete
<1>7. CountsAgree'
  <2>1. 0 * Cardinality(Orders) = 0 /\ ~(0 > 0) /\ ~(0 < 0)
    BY <1>1
  <2> QED  BY <2>1 DEF NoView, CountsAgree
<1> QED  BY <1>4, <1>5, <1>6, <1>7 DEF CInv

LEMMA CInvInit == CatalogInit => CInv
<1> SUFFICES ASSUME CatalogInit PROVE CInv
  OBVIOUS
<1>1. SInv /\ call = "none"
  BY SInvInit DEF CatalogInit, SearchInit
<1>2. Cardinality(Docs) \in Nat /\ Cardinality(Chunk) \in Nat /\ Cardinality(Orders) \in Nat
  BY DocsCounted, ChunksCounted, ChunksFinite, FS_CardinalityType
<1>3. DOMAIN listed = {} /\ listed \in [DOMAIN listed -> Nat \ {0}]
  BY DEF CatalogInit
<1>4. 0 \in 0..Cardinality(Docs) + 1 /\ 0 \in 0..Cardinality(Chunk) /\ 0 \in 0..Cardinality(Docs)
  BY <1>2
<1>5. ViewTypeOK
  BY <1>3, <1>4 DEF CatalogInit, ViewTypeOK
<1>6. OneRequest /\ ComesAndGoes /\ StillToCome /\ ListedOnce
  BY <1>1, <1>3 DEF CatalogInit, CatalogCalls, OneRequest, ComesAndGoes, StillToCome, ListedOnce
<1>7. WalkComplete
  BY <1>3 DEF CatalogInit, WalkComplete
<1>8. CountsAgree
  <2>1. 0 * Cardinality(Orders) = 0 /\ ~(0 > 0) /\ ~(0 < 0)
    BY <1>2
  <2> QED  BY <2>1 DEF CatalogInit, CountsAgree
<1> QED  BY <1>1, <1>5, <1>6, <1>7, <1>8 DEF CInv

-----------------------------------------------------------------------------
(* The steps *)

\* While the reader is idle or searches, it has no view.
LEMMA CInvSearching ==
  ASSUME CInv, SearchNext, Since, call \notin CatalogCalls,
         IF call = "none" THEN NoView ELSE UNCHANGED view
  PROVE  CInv'
<1>1. SInv'
  BY SInvStep DEF CInv
<1>2. call' \notin CatalogCalls
  BY DEF CatalogCalls, SearchNext, WorkerStep, SearchStep, StartSearch, FilterDocuments, FilterChunks,
         SearchIndex, ResolveOwners, LookUpGone, LookUp, ComputeSignals, QuoteBest
<1>3. began' = {} /\ came' = {} /\ lost' = {}
  BY <1>2 DEF Since, CatalogCalls
<1>4. NoView
  BY DEF NoView, view, CInv, OneRequest, CatalogCalls
<1> QED  BY <1>1, <1>2, <1>3, <1>4, NoViewInv

\* A step of the worker, a checkpoint or its reload, between two statements of
\* a request for the catalog.
LEMMA CInvWorker ==
  ASSUME CInv, SearchNext, Since, call \in CatalogCalls, UNCHANGED view
  PROVE  CInv'
<1>1. /\ WorkerStep /\ Steady /\ call' = call /\ UNCHANGED answer /\ steady' = steady \cap Findable'
      /\ [Next]_vars
  BY DEF CatalogCalls, SearchNext, WorkerStep, Publish, Steady, SearchStep, StartSearch, FilterDocuments,
         FilterChunks, SearchIndex, ResolveOwners, LookUpGone, LookUp, ComputeSignals, QuoteBest
<1>2. /\ page' = page /\ listed' = listed /\ shown' = shown /\ chunks' = chunks /\ counted' = counted
  BY DEF view
<1>3. SInv' /\ IInv' /\ DocsAsAsked' /\ IInv /\ DocsAsAsked
  BY SInvStep DEF CInv, SInv
<1>4. /\ DOMAIN asked \subseteq DOMAIN asked' /\ \A d \in DOMAIN asked : asked'[d] = asked[d]
      /\ known \subseteq known' /\ known \subseteq DOMAIN asked
      /\ Catalogue' \cap known \subseteq Catalogue /\ Listing' \cap known \subseteq Listing
      /\ Catalogue' \subseteq known' /\ Listing' \subseteq known'
  BY <1>1, <1>3, SagaGrows, OnlyNewCome DEF IInv, TypeOK
<1>5. ViewTypeOK'
  BY <1>2, <1>4 DEF CInv, ViewTypeOK
<1>6. OneRequest'
  <2>1. steady' = {}
    BY <1>1 DEF CInv, OneRequest
  <2>2. Owned(asked[shown]) /\ shown \in known => Owned(asked'[shown])
    BY <1>4
  <2> QED  BY <1>1, <1>2, <1>4, <2>1, <2>2 DEF CInv, OneRequest, answer
<1>7. CASE call = "page"
  <2>1. began' = began /\ came' = came \cup (Listing' \ Listing) /\ lost' = lost \cup (Listing \ Listing')
    BY <1>7 DEF Since
  <2>2. /\ began \cap came = {} /\ lost \subseteq began \cup came /\ began \cup came \subseteq known
        /\ Listing = (began \cup came) \ lost
    BY <1>7 DEF CInv, ComesAndGoes
  <2>3. /\ began \cap came' = {} /\ lost' \subseteq began \cup came' /\ began \cup came' \subseteq known'
        /\ Listing' = (began \cup came') \ lost'
    BY <1>4, <2>1, <2>2, MovesKeep
  <2>4. ComesAndGoes'
    BY <1>1, <1>7, <2>1, <2>3 DEF ComesAndGoes
  <2>5. Listing \subseteq Docs /\ Listing' \subseteq Docs /\ DOMAIN listed \subseteq Docs /\ began \subseteq Docs
    BY <1>3, <1>4, <2>2 DEF IInv, TypeOK, Listing, Catalogue, CInv, ViewTypeOK
  <2>6. PICK L, M : L = Listing /\ M = Listing'
    OBVIOUS
  <2>7. \A d : Before(d, Listing)' = Before(d, M)
    BY <2>6 DEF Before
  <2>8. /\ page \in Nat /\ page > 0 /\ PAGE_SIZE \in Nat
    BY <1>7, PageSizePositive DEF CInv, ViewTypeOK, OneRequest
  <2>9. (page - 1) * PAGE_SIZE \in Nat
    BY <2>8
  <2>10. StillToCome'
    <3> SUFFICES ASSUME NEW d \in began \ lost', d \notin DOMAIN listed, ~ \E e \in lost' : e < d
                 PROVE  (page - 1) * PAGE_SIZE <= Before(d, M)
      BY <1>2, <2>1, <2>7 DEF StillToCome
    <3>1. (page - 1) * PAGE_SIZE <= Before(d, L)
      BY <1>7, <2>1, <2>6 DEF CInv, StillToCome
    <3>2. \A e \in L : e < d => e \in M
      BY <2>1, <2>6
    <3>3. Before(d, L) <= Before(d, M) /\ Before(d, L) \in Nat /\ Before(d, M) \in Nat
      BY <2>5, <2>6, <3>2, BeforeBounds
    <3> QED  BY <2>9, <3>1, <3>3
  <2>11. ListedOnce'
    <3> SUFFICES ASSUME NEW d \in DOMAIN listed
                 PROVE  /\ asked'[d] \in Listable
                        /\ \/ \E e \in came' : e < d
                           \/ listed[d] = 1 /\ Before(d, M) < (page - 1) * PAGE_SIZE
      BY <1>1, <1>2, <1>7, <2>7 DEF ListedOnce
    <3>1. asked'[d] = asked[d] /\ asked[d] \in Listable
      BY <1>4 DEF CInv, ViewTypeOK, ListedOnce
    <3>2. \/ \E e \in came : e < d
          \/ listed[d] = 1 /\ Before(d, L) < (page - 1) * PAGE_SIZE
      BY <1>7, <2>6 DEF CInv, ListedOnce
    <3>3. CASE ~ \E e \in came' : e < d
      <4>1. \A e \in M : e < d => e \in L
        BY <2>1, <2>6, <3>3
      <4>2. Before(d, M) <= Before(d, L) /\ Before(d, L) \in Nat /\ Before(d, M) \in Nat
        BY <2>5, <2>6, <4>1, BeforeBounds
      <4>3. listed[d] = 1 /\ Before(d, L) < (page - 1) * PAGE_SIZE
        BY <2>1, <3>2, <3>3
      <4> QED  BY <2>9, <3>1, <4>2, <4>3
    <3> QED  BY <3>1, <3>3
  <2>12. WalkComplete' /\ CountsAgree'
    <3>1. \A d \in DOMAIN listed' : asked'[d] \in Listable /\ (listed'[d] > 1 => \E e \in came' : e < d)
      <4>1. ~(1 > 1)
        OBVIOUS
      <4> QED  BY <2>11, <4>1 DEF ListedOnce
    <3> QED  BY <1>1, <1>7, <3>1 DEF WalkComplete, CountsAgree
  <2> QED  BY <1>3, <1>5, <1>6, <2>4, <2>10, <2>11, <2>12 DEF CInv
<1>8. CASE call = "count_for_tenant"
  <2>1. began' = began /\ came' = came \cup (Catalogue' \ Catalogue) /\ lost' = lost \cup (Catalogue \ Catalogue')
    BY <1>8 DEF Since
  <2>2. /\ began \cap came = {} /\ lost \subseteq began \cup came /\ began \cup came \subseteq known
        /\ Catalogue = (began \cup came) \ lost
        /\ counted = Cardinality(began) /\ \A d \in began : Owned(asked[d])
    BY <1>8 DEF CInv, ComesAndGoes
  <2>3. /\ began \cap came' = {} /\ lost' \subseteq began \cup came' /\ began \cup came' \subseteq known'
        /\ Catalogue' = (began \cup came') \ lost'
    BY <1>4, <2>1, <2>2, MovesKeep
  <2>4. ComesAndGoes'
    <3>1. \A d \in began : Owned(asked'[d])
      BY <1>4, <2>2
    <3> QED  BY <1>1, <1>2, <1>8, <2>1, <2>2, <2>3, <3>1 DEF ComesAndGoes
  <2>5. listed = <<>>
    BY <1>8 DEF CInv, OneRequest
  <2>6. StillToCome' /\ ListedOnce' /\ WalkComplete' /\ CountsAgree'
    BY <1>1, <1>2, <1>8, <2>5 DEF StillToCome, ListedOnce, WalkComplete, CountsAgree
  <2> QED  BY <1>3, <1>5, <1>6, <2>4, <2>6 DEF CInv
<1>9. CASE call = "by_document"
  <2>1. began' = {} /\ came' = {} /\ lost' = {}
    BY <1>1, <1>9 DEF Since
  <2>2. listed = <<>>
    BY <1>9 DEF CInv, OneRequest
  <2>3. ComesAndGoes' /\ StillToCome' /\ ListedOnce' /\ WalkComplete' /\ CountsAgree'
    BY <1>1, <1>2, <1>9, <2>1, <2>2 DEF ComesAndGoes, StillToCome, ListedOnce, WalkComplete, CountsAgree
  <2> QED  BY <1>3, <1>5, <1>6, <2>3 DEF CInv
<1> QED  BY <1>7, <1>8, <1>9 DEF CatalogCalls

\* A statement of a request for the catalog changes nothing that the worker or
\* a search works on.
LEMMA CatalogQuiet ==
  ASSUME CInv, CatalogStep, Since, UNCHANGED <<vars, published>>
  PROVE  /\ SInv' /\ SInv /\ IInv /\ rows' = rows /\ docs' = docs /\ asked' = asked /\ known' = known
         /\ deleting' = deleting /\ Listing' = Listing /\ Catalogue' = Catalogue
         /\ wanted' = {} /\ allowed' = {} /\ searched' = 0 /\ best' = <<>> /\ matches' = {}
         /\ found' = None /\ signals' = <<>> /\ documents' = {} /\ steady' = {}
         /\ Listing \subseteq Catalogue /\ Catalogue \subseteq known /\ known \subseteq Docs
         /\ \A d \in Catalogue : Owned(asked[d])
         /\ \A d \in Listing : asked[d] \in Listable
         /\ call' \in CatalogCalls \cup {"none"}
<1>1. SInv /\ IInv /\ DocsAsAsked
  BY DEF CInv, SInv
<1>2. /\ IInv' /\ DocsAsAsked' /\ published' = published
      /\ rows' = rows /\ docs' = docs /\ asked' = asked /\ known' = known /\ deleting' = deleting
  BY <1>1, Quiet
<1>3. Listing' = Listing /\ Catalogue' = Catalogue
  BY <1>2 DEF Listing, Catalogue
<1>4. call \in CatalogCalls \cup {"none"} /\ call' \in CatalogCalls \cup {"none"}
  BY DEF CatalogStep, CatalogCalls, StartList, ListPage, GetDocument, CountOwnChunks,
         CountDocuments, CountTenantChunks
<1>5. /\ wanted' = {} /\ allowed' = {} /\ searched' = 0 /\ best' = <<>> /\ matches' = {}
      /\ found' = None /\ signals' = <<>> /\ documents' = {} /\ steady' = {}
  <2>1. CASE call = "none"
    BY <2>1 DEF CatalogStep, NoAnswer
  <2>2. CASE call \in CatalogCalls
    <3>1. UNCHANGED <<answer, steady>>
      BY <2>2 DEF CatalogStep, CatalogCalls
    <3> QED  BY <2>2, <3>1 DEF CInv, OneRequest, answer
  <2> QED  BY <1>4, <2>1, <2>2
<1>6. SInv'
  <2>1. published' \subseteq Chunk
    BY <1>1, <1>2 DEF SInv, SearchTypeOK
  <2>2. call' \notin {"chunks", "index", "owners", "document", "signals", "best"}
    BY <1>4 DEF CatalogCalls
  <2> QED  BY <1>2, <1>5, <2>1, <2>2, NoAnswerInv
<1>7. /\ Listing \subseteq Catalogue /\ Catalogue \subseteq known /\ known \subseteq Docs
      /\ \A d \in Catalogue : Owned(asked[d])
      /\ \A d \in Listing : asked[d] \in Listable
  BY <1>1 DEF Listing, Catalogue, IInv, TypeOK, DocsAsAsked
<1> QED  BY <1>1, <1>2, <1>3, <1>4, <1>5, <1>6, <1>7

LEMMA Naturals ==
  /\ Cardinality(Docs) \in Nat /\ Cardinality(Chunk) \in Nat /\ Cardinality(Orders) \in Nat
  /\ 0 \in 0..Cardinality(Docs) + 1 /\ 1 \in 0..Cardinality(Docs) + 1
  /\ 0 \in 0..Cardinality(Chunk) /\ 0 \in 0..Cardinality(Docs)
  /\ 0 * Cardinality(Orders) = 0
<1>1. Cardinality(Docs) \in Nat /\ Cardinality(Chunk) \in Nat /\ Cardinality(Orders) \in Nat
  BY DocsCounted, ChunksCounted, ChunksFinite, FS_CardinalityType
<1> QED  BY <1>1

LEMMA CInvStartList ==
  ASSUME CInv, CatalogStep, StartList, Since, UNCHANGED <<vars, published>>
  PROVE  CInv'
<1>1. /\ call = "none" /\ call' = "page" /\ page' = 1 /\ listed' = <<>> /\ shown' = None
      /\ chunks' = 0 /\ counted' = 0 /\ began' = Listing' /\ came' = {} /\ lost' = {}
  BY DEF StartList, Since
<1>2. DOMAIN listed' = {} /\ listed' \in [DOMAIN listed' -> Nat \ {0}]
  BY <1>1
<1>3. ViewTypeOK'
  BY <1>1, <1>2, Naturals DEF ViewTypeOK
<1>4. OneRequest'
  BY <1>1, CatalogQuiet DEF OneRequest
<1>5. ComesAndGoes'
  BY <1>1, CatalogQuiet DEF ComesAndGoes
<1>6. StillToCome'
  <2> SUFFICES ASSUME NEW d \in Listing PROVE (1 - 1) * PAGE_SIZE <= Before(d, Listing)'
    BY <1>1, CatalogQuiet DEF StillToCome
  <2>1. PICK L \in SUBSET Docs : L = Listing
    BY CatalogQuiet
  <2>2. Before(d, L) \in Nat /\ Before(d, Listing)' = Before(d, L)
    BY <2>1, BeforeBounds, CatalogQuiet DEF Before
  <2>3. (1 - 1) * PAGE_SIZE = 0
    BY PageSizePositive
  <2> QED  BY <2>2, <2>3
<1>7. ListedOnce' /\ WalkComplete' /\ CountsAgree'
  BY <1>1, <1>2 DEF ListedOnce, WalkComplete, CountsAgree
<1> QED  BY <1>3, <1>4, <1>5, <1>6, <1>7, CatalogQuiet DEF CInv

\* A document of the tenant, or none.
LEMMA CInvGetDocument ==
  ASSUME CInv, CatalogStep, NEW d \in Docs, GetDocument(d), Since, UNCHANGED <<vars, published>>
  PROVE  CInv'
<1>1. /\ call = "none" /\ page' = 0 /\ listed' = <<>> /\ chunks' = 0 /\ counted' = 0
      /\ \/ d \in Catalogue /\ call' = "by_document" /\ shown' = d
         \/ call' = "none" /\ shown' = None
  BY DEF GetDocument
<1>2. began' = {} /\ came' = {} /\ lost' = {}
  BY <1>1 DEF Since
<1>3. DOMAIN listed' = {} /\ listed' \in [DOMAIN listed' -> Nat \ {0}]
  BY <1>1
<1>4. ViewTypeOK'
  BY <1>1, <1>3, Naturals DEF ViewTypeOK
<1>5. OneRequest'
  BY <1>1, CatalogQuiet DEF OneRequest
<1>6. ComesAndGoes' /\ StillToCome' /\ ListedOnce' /\ WalkComplete'
  BY <1>1, <1>2, <1>3 DEF ComesAndGoes, StillToCome, ListedOnce, WalkComplete
<1>7. CountsAgree'
  <2>1. ~(0 > 0) /\ ~(0 < 0)
    OBVIOUS
  <2> QED  BY <1>1, <2>1, Naturals DEF CountsAgree
<1> QED  BY <1>4, <1>5, <1>6, <1>7, CatalogQuiet DEF CInv

\* A document that no deletion touches has all its chunks in the table.
LEMMA CInvCountOwnChunks ==
  ASSUME CInv, CatalogStep, CountOwnChunks, Since, UNCHANGED <<vars, published>>
  PROVE  CInv'
<1>1. /\ call = "by_document" /\ call' = "none" /\ chunks' = Cardinality(RowsOf(shown))
      /\ page' = page /\ listed' = listed /\ shown' = shown /\ counted' = counted
  BY DEF CountOwnChunks
<1>2. began' = {} /\ came' = {} /\ lost' = {}
  BY <1>1 DEF Since
<1>3. listed = <<>> /\ shown \in known /\ Owned(asked[shown]) /\ page = 0
  BY <1>1 DEF CInv, OneRequest
<1>4. shown \in Docs /\ rows \subseteq Chunk
  BY <1>3, CatalogQuiet DEF IInv, TypeOK
<1>5. ViewTypeOK'
  <2>1. RowsOf(shown) \in SUBSET Chunk
    BY <1>4 DEF RowsOf
  <2>2. Cardinality(RowsOf(shown)) \in Nat /\ Cardinality(RowsOf(shown)) <= Cardinality(Chunk)
    BY <2>1, ChunksCounted, FS_Subset, FS_CardinalityType
  <2>3. chunks' \in 0..Cardinality(Chunk)
    BY <1>1, <2>2, Naturals
  <2> QED  BY <1>1, <2>3, CatalogQuiet DEF CInv, ViewTypeOK
<1>6. OneRequest'
  BY <1>1, CatalogQuiet DEF OneRequest, CatalogCalls
<1>7. DOMAIN listed' = {}
  BY <1>1, <1>3
<1>8. ComesAndGoes' /\ StillToCome' /\ ListedOnce' /\ WalkComplete'
  BY <1>1, <1>2, <1>3, <1>7 DEF ComesAndGoes, StillToCome, ListedOnce, WalkComplete
<1>9. CountsAgree'
  <2>1. ASSUME shown \notin deleting PROVE Cardinality(RowsOf(shown)) = Cardinality(Orders)
    <3>1. Chunks(shown) \subseteq rows
      BY <1>3, <2>1, CatalogQuiet DEF IInv, KnownWhole
    <3>2. RowsOf(shown) = {c \in Chunk : c.doc \in {shown}}
      BY <1>4, <3>1, ChunkFacts DEF RowsOf
    <3>3. Cardinality(RowsOf(shown)) = Cardinality({shown}) * Cardinality(Orders)
      BY <1>4, <3>2, ChunksOfDocs
    <3>4. Cardinality({shown}) = 1
      BY FS_Singleton
    <3> QED  BY <3>3, <3>4, Naturals
  <2>2. shown # None
    BY <1>4, NoneApart
  <2> QED  BY <1>1, <1>3, <2>1, <2>2, CatalogQuiet DEF CountsAgree
<1> QED  BY <1>5, <1>6, <1>8, <1>9, CatalogQuiet DEF CInv

LEMMA CInvCountDocuments ==
  ASSUME CInv, CatalogStep, CountDocuments, Since, UNCHANGED <<vars, published>>
  PROVE  CInv'
<1>1. /\ call = "none" /\ call' = "count_for_tenant" /\ counted' = Cardinality(Catalogue)
      /\ page' = 0 /\ listed' = <<>> /\ shown' = None /\ chunks' = 0
  BY DEF CountDocuments
<1>2. began' = Catalogue /\ came' = {} /\ lost' = {}
  BY <1>1, CatalogQuiet DEF Since
<1>3. DOMAIN listed' = {} /\ listed' \in [DOMAIN listed' -> Nat \ {0}]
  BY <1>1
<1>4. counted' \in 0..Cardinality(Docs)
  <2>1. Catalogue \in SUBSET Docs
    BY CatalogQuiet
  <2>2. Cardinality(Catalogue) \in Nat /\ Cardinality(Catalogue) <= Cardinality(Docs)
    BY <2>1, DocsCounted
  <2> QED  BY <1>1, <2>2, Naturals
<1>5. ViewTypeOK'
  BY <1>1, <1>3, <1>4, Naturals DEF ViewTypeOK
<1>6. OneRequest'
  BY <1>1, CatalogQuiet DEF OneRequest
<1>7. ComesAndGoes'
  BY <1>1, <1>2, CatalogQuiet DEF ComesAndGoes
<1>8. StillToCome' /\ ListedOnce' /\ WalkComplete' /\ CountsAgree'
  BY <1>1, <1>3 DEF StillToCome, ListedOnce, WalkComplete, CountsAgree
<1> QED  BY <1>5, <1>6, <1>7, <1>8, CatalogQuiet DEF CInv

\* The chunks of the documents that have a row: at most those of all that were
\* counted and came, and at least those of all that were, when none is being
\* deleted.
LEMMA CInvCountTenantChunks ==
  ASSUME CInv, CatalogStep, CountTenantChunks, Since, UNCHANGED <<vars, published>>
  PROVE  CInv'
<1> DEFINE joined == {c \in rows : c.doc \in Catalogue}
           of(ids) == {c \in Chunk : c.doc \in ids}
<1>1. /\ call = "count_for_tenant" /\ call' = "none" /\ chunks' = Cardinality(joined)
      /\ page' = page /\ listed' = listed /\ shown' = shown /\ counted' = counted
  BY DEF CountTenantChunks
<1>2. began' = began /\ came' = came /\ lost' = lost
  BY <1>1, CatalogQuiet DEF Since
<1>3. /\ listed = <<>> /\ page = 0 /\ shown = None
      /\ began \cap came = {} /\ lost \subseteq began \cup came /\ began \cup came \subseteq known
      /\ Catalogue = (began \cup came) \ lost
      /\ counted = Cardinality(began) /\ \A d \in began : Owned(asked[d])
  BY <1>1 DEF CInv, OneRequest, ComesAndGoes
<1>4. rows \subseteq Chunk /\ began \in SUBSET Docs /\ Catalogue \in SUBSET Docs
  BY <1>3, CatalogQuiet DEF IInv, TypeOK
<1>5. joined \in SUBSET Chunk /\ joined \in SUBSET of(Catalogue)
  BY <1>4
<1>6. IsFiniteSet(joined) /\ Cardinality(joined) \in Nat /\ Cardinality(joined) <= Cardinality(Chunk)
  <2> HIDE DEF joined
  <2> QED  BY <1>5, ChunksCounted, FS_Subset, FS_CardinalityType
<1>7. /\ IsFiniteSet(of(began)) /\ Cardinality(of(began)) = counted * Cardinality(Orders)
      /\ Cardinality(of(began)) \in Nat
  <2>1. IsFiniteSet(of(began)) /\ Cardinality(of(began)) = Cardinality(began) * Cardinality(Orders)
    BY <1>4, ChunksOfDocs
  <2> HIDE DEF of
  <2> QED  BY <1>3, <2>1, FS_CardinalityType
<1>8. ViewTypeOK'
  <2>1. chunks' \in 0..Cardinality(Chunk)
    BY <1>1, <1>6, Naturals
  <2> QED  BY <1>1, <2>1, CatalogQuiet DEF CInv, ViewTypeOK
<1>9. OneRequest'
  BY <1>1, CatalogQuiet DEF OneRequest, CatalogCalls
<1>10. DOMAIN listed' = {}
  BY <1>1, <1>3
<1>11. ComesAndGoes' /\ StillToCome' /\ ListedOnce' /\ WalkComplete'
  BY <1>1, <1>2, <1>3, <1>10, CatalogQuiet DEF ComesAndGoes, StillToCome, ListedOnce, WalkComplete
<1>12. ASSUME came = {} PROVE ~(chunks' > counted * Cardinality(Orders))
  <2>1. joined \in SUBSET of(began)
    BY <1>3, <1>4, <1>12
  <2>2. Cardinality(joined) <= Cardinality(of(began))
    <3> HIDE DEF joined, of
    <3> QED  BY <1>7, <2>1, FS_Subset
  <2>3. ~(Cardinality(joined) > Cardinality(of(began)))
    <3> HIDE DEF joined, of
    <3> QED  BY <1>6, <1>7, <2>2
  <2> QED  BY <1>1, <1>7, <2>3
<1>13. ASSUME deleting = {} PROVE ~(chunks' < counted * Cardinality(Orders))
  <2>1. \A d \in known : d \in DOMAIN docs /\ Chunks(d) \subseteq rows
    BY <1>13, CatalogQuiet DEF IInv, KnownWhole
  <2>2. began \subseteq Catalogue
    <3>1. \A d \in DOMAIN docs : docs[d] = asked[d]
      BY DEF CInv, SInv, DocsAsAsked
    <3> QED  BY <1>3, <2>1, <3>1 DEF Catalogue
  <2>3. of(began) \in SUBSET joined
    <3> SUFFICES ASSUME NEW c \in Chunk, c.doc \in began PROVE c \in rows
      BY <2>2
    <3>1. c \in Chunks(c.doc)
      BY ChunkFacts
    <3> QED  BY <1>3, <2>1, <3>1
  <2>4. Cardinality(of(began)) <= Cardinality(joined)
    <3> HIDE DEF joined, of
    <3> QED  BY <1>6, <2>3, FS_Subset
  <2>5. ~(Cardinality(joined) < Cardinality(of(began)))
    <3> HIDE DEF joined, of
    <3> QED  BY <1>6, <1>7, <2>4
  <2> QED  BY <1>1, <1>7, <2>5
<1>14. CountsAgree'
  BY <1>1, <1>2, <1>3, <1>12, <1>13, CatalogQuiet DEF CountsAgree
<1> QED  BY <1>8, <1>9, <1>11, <1>14, CatalogQuiet DEF CInv

\* A page lists those at its places, and there is no page after one that is empty.
LEMMA CInvListPage ==
  ASSUME CInv, CatalogStep, ListPage, Since, UNCHANGED <<vars, published>>
  PROVE  CInv'
<1> DEFINE ids == PageOf(page)
           times(d) == IF d \in DOMAIN listed THEN listed[d] ELSE 0
           k == (page - 1) * PAGE_SIZE
<1>1. /\ call = "page"
      /\ listed' = [d \in DOMAIN listed \cup ids |-> times(d) + (IF d \in ids THEN 1 ELSE 0)]
      /\ \/ ids = {} /\ call' = "none" /\ page' = page
         \/ ids # {} /\ call' = "page" /\ page' = page + 1
      /\ shown' = shown /\ chunks' = chunks /\ counted' = counted
  BY DEF ListPage
<1>2. began' = began /\ came' = came /\ lost' = lost
  BY <1>1, CatalogQuiet DEF Since
<1>3. /\ chunks = 0 /\ shown = None /\ counted = 0 /\ page > 0
      /\ began \cap came = {} /\ lost \subseteq began \cup came /\ began \cup came \subseteq known
      /\ Listing = (began \cup came) \ lost
  BY <1>1 DEF CInv, OneRequest, ComesAndGoes
<1>4. /\ page \in Nat /\ PAGE_SIZE \in Nat /\ PAGE_SIZE > 0
      /\ listed \in [DOMAIN listed -> Nat \ {0}] /\ DOMAIN listed \subseteq DOMAIN asked
      /\ Listing \in SUBSET Docs /\ DOMAIN listed \subseteq Docs
  BY CatalogQuiet, PageSizePositive DEF CInv, ViewTypeOK, IInv, TypeOK
<1>5. k \in Nat /\ page * PAGE_SIZE = k + PAGE_SIZE /\ ((page + 1) - 1) * PAGE_SIZE = k + PAGE_SIZE
  BY <1>3, <1>4
<1>6. PICK L \in SUBSET Docs : L = Listing
  BY <1>4
<1>7. /\ \A d \in Docs : Before(d, L) \in Nat /\ Before(d, L) + 1 <= Cardinality(Docs)
      /\ \A d : Before(d, Listing)' = Before(d, L)
      /\ \A d : d \in ids <=> d \in L /\ k <= Before(d, L) /\ Before(d, L) < k + PAGE_SIZE
  BY <1>5, <1>6, BeforeBounds, CatalogQuiet DEF PageOf, Before
<1> HIDE DEF ids, k
<1>8. /\ DOMAIN listed' = DOMAIN listed \cup ids /\ ids \subseteq Docs /\ ids \subseteq Listing
      /\ \A d \in ids : listed'[d] = times(d) + 1
      /\ \A d \in DOMAIN listed \ ids : listed'[d] = listed[d]
  BY <1>1, <1>4, <1>6, <1>7
<1>9. listed' \in [DOMAIN listed' -> Nat \ {0}]
  <2>1. ASSUME NEW d \in DOMAIN listed' PROVE listed'[d] \in Nat \ {0}
    <3>1. times(d) \in Nat
      BY <1>4
    <3>2. CASE d \in ids
      BY <1>8, <3>1, <3>2
    <3>3. CASE d \in DOMAIN listed \ ids
      BY <1>4, <1>8, <3>3
    <3> QED  BY <1>8, <3>2, <3>3
  <2>2. listed' = [d \in DOMAIN listed' |-> listed'[d]]
    BY <1>1
  <2> QED  BY <2>1, <2>2
<1>10. page' \in 0..Cardinality(Docs) + 1
  <2>1. CASE ids = {}
    BY <1>1, <2>1 DEF CInv, ViewTypeOK
  <2>2. CASE ids # {}
    <3>1. PICK d \in ids : TRUE
      BY <2>2
    <3>2. k <= Before(d, L) /\ Before(d, L) \in Nat /\ Before(d, L) + 1 <= Cardinality(Docs)
      BY <1>7, <1>8, <3>1
    <3>3. page - 1 <= k
      BY <1>3, <1>4 DEF k
    <3>4. page + 1 <= Cardinality(Docs) + 1
      BY <1>4, <1>5, <3>2, <3>3, Naturals
    <3> QED  BY <1>1, <1>4, <2>2, <3>4, Naturals
  <2> QED  BY <2>1, <2>2
<1>11. ViewTypeOK'
  <2>1. DOMAIN listed' \subseteq DOMAIN asked'
    BY <1>4, <1>8, CatalogQuiet DEF IInv, TypeOK
  <2> QED  BY <1>1, <1>9, <1>10, <2>1 DEF CInv, ViewTypeOK
<1>12. OneRequest'
  BY <1>1, <1>3, <1>4, CatalogQuiet DEF OneRequest, CatalogCalls
<1>13. ComesAndGoes'
  BY <1>1, <1>2, <1>3, CatalogQuiet DEF ComesAndGoes
<1>14. ASSUME NEW d \in began \ lost, d \notin DOMAIN listed', ~ \E e \in lost : e < d
       PROVE  ids # {} /\ k + PAGE_SIZE <= Before(d, L)
  <2>1. k <= Before(d, L)
    BY <1>1, <1>6, <1>8, <1>14 DEF CInv, StillToCome, k
  <2>2. d \in L /\ Before(d, L) \in Nat
    BY <1>3, <1>6, <1>7
  <2>3. PICK x \in L : Before(x, L) = k
    BY <1>5, <2>1, <2>2, NoGap
  <2>4. x \in ids
    BY <1>4, <1>5, <1>7, <2>3
  <2>5. ~(Before(d, L) < k + PAGE_SIZE)
    BY <1>7, <1>8, <1>14, <2>1, <2>2
  <2> QED  BY <1>4, <1>5, <2>2, <2>4, <2>5
<1>15. StillToCome'
  BY <1>1, <1>2, <1>5, <1>7, <1>14 DEF StillToCome
<1>16. ListedOnce'
  <2> SUFFICES ASSUME NEW d \in DOMAIN listed'
               PROVE  /\ asked[d] \in Listable
                      /\ \/ \E e \in came : e < d
                         \/ listed'[d] = 1 /\ (call' = "page" => Before(d, L) < k + PAGE_SIZE)
    BY <1>1, <1>2, <1>5, <1>7, CatalogQuiet DEF ListedOnce
  <2>1. CASE d \in DOMAIN listed
    <3>1. asked[d] \in Listable /\ ((\E e \in came : e < d) \/ (listed[d] = 1 /\ Before(d, L) < k))
      BY <1>1, <1>6, <2>1 DEF CInv, ListedOnce, k
    <3>2. CASE \E e \in came : e < d
      BY <3>1, <3>2
    <3>3. CASE listed[d] = 1 /\ Before(d, L) < k
      <4>1. Before(d, L) \in Nat
        BY <1>4, <1>7, <2>1
      <4>2. ~(k <= Before(d, L)) /\ Before(d, L) < k + PAGE_SIZE
        BY <1>4, <1>5, <3>3, <4>1
      <4>3. d \notin ids
        BY <1>7, <4>2
      <4> QED  BY <1>8, <2>1, <3>1, <3>3, <4>2, <4>3
    <3> QED  BY <3>1, <3>2, <3>3
  <2>2. CASE d \in ids /\ d \notin DOMAIN listed
    <3>1. listed'[d] = 1 /\ Before(d, L) < k + PAGE_SIZE /\ asked[d] \in Listable
      BY <1>7, <1>8, <2>2, CatalogQuiet
    <3> QED  BY <3>1
  <2> QED  BY <1>8, <2>1, <2>2
<1>17. WalkComplete'
  <2>1. ASSUME call' = "none", NEW d \in began \ lost, d \notin DOMAIN listed'
        PROVE  \E e \in lost : e < d
    BY <1>1, <1>14, <2>1
  <2>2. ASSUME NEW d \in DOMAIN listed', listed'[d] > 1 PROVE \E e \in came : e < d
    <3>1. ~(1 > 1)
      OBVIOUS
    <3> QED  BY <1>2, <1>16, <2>2, <3>1 DEF ListedOnce
  <2>3. \A d \in DOMAIN listed' : asked'[d] \in Listable
    BY <1>16 DEF ListedOnce
  <2> QED  BY <1>2, <2>1, <2>2, <2>3 DEF WalkComplete
<1>18. CountsAgree'
  BY <1>1, <1>3, <1>4 DEF CountsAgree
<1> QED  BY <1>11, <1>12, <1>13, <1>15, <1>16, <1>17, <1>18, CatalogQuiet DEF CInv

LEMMA CInvStutter ==
  CInv /\ UNCHANGED <<vars, published, search, steady, view, since>> => CInv'
<1> SUFFICES ASSUME CInv, UNCHANGED <<vars, published, search, steady, view, since>> PROVE CInv'
  OBVIOUS
<1>1. /\ call' = call /\ page' = page /\ listed' = listed /\ shown' = shown /\ chunks' = chunks
      /\ counted' = counted /\ began' = began /\ came' = came /\ lost' = lost /\ steady' = steady
      /\ UNCHANGED answer /\ UNCHANGED <<vars, published>>
  BY DEF search, view, since
<1>2. SInv' /\ SInv
  BY SInvStutter DEF CInv
<1>3. asked' = asked /\ docs' = docs /\ rows' = rows /\ known' = known /\ deleting' = deleting
  BY <1>1, <1>2, Quiet
<1>4. Listing' = Listing /\ Catalogue' = Catalogue /\ \A d : Before(d, Listing)' = Before(d, Listing)
  BY <1>3 DEF Listing, Catalogue, Before
<1>5. ViewTypeOK' /\ ComesAndGoes' /\ StillToCome' /\ ListedOnce'
  BY <1>1, <1>3, <1>4 DEF CInv, ViewTypeOK, ComesAndGoes, StillToCome, ListedOnce
<1>6. OneRequest'
  BY <1>1, <1>3 DEF CInv, OneRequest, answer
<1>7. WalkComplete' /\ CountsAgree'
  BY <1>1, <1>3 DEF CInv, WalkComplete, CountsAgree
<1> QED  BY <1>2, <1>5, <1>6, <1>7 DEF CInv

LEMMA CInvStep == CInv /\ CatalogNext => CInv'
<1> SUFFICES ASSUME CInv, CatalogNext PROVE CInv'
  OBVIOUS
<1>1. CASE SearchNext /\ (IF call = "none" THEN NoView ELSE UNCHANGED view)
  <2>1. CASE call \in CatalogCalls
    <3>1. UNCHANGED view
      BY <1>1, <2>1 DEF CatalogCalls
    <3> QED  BY <1>1, <2>1, <3>1, CInvWorker DEF CatalogNext
  <2>2. CASE call \notin CatalogCalls
    BY <1>1, <2>2, CInvSearching DEF CatalogNext
  <2> QED  BY <2>1, <2>2
<1>2. CASE CatalogStep /\ UNCHANGED <<vars, published>>
  <2>1. Since
    BY DEF CatalogNext
  <2> QED  BY <1>2, <2>1, CInvStartList, CInvListPage, CInvGetDocument, CInvCountOwnChunks,
              CInvCountDocuments, CInvCountTenantChunks DEF CatalogStep
<1> QED  BY <1>1, <1>2 DEF CatalogNext

-----------------------------------------------------------------------------
(* The theorems *)

\* The invariant of the reader, whatever it asks for, inductive over its calls
\* and over the worker's steps, checkpoints and reloads between them.
THEOREM InductiveCInv == CatalogSpec => []CInv
<1>1. CInv /\ [CatalogNext]_<<vars, published, search, steady, view, since>> => CInv'
  BY CInvStep, CInvStutter
<1> QED  BY <1>1, CInvInit, PTL DEF CatalogSpec

\* Type correctness: a client that goes from page to page gets at most one page
\* after as many as there can be documents.
THEOREM CatalogTypeCorrect == CatalogSpec => []CatalogTypeOK
<1>1. CInv => CatalogTypeOK
  BY CInvImplies
<1> QED  BY <1>1, InductiveCInv, PTL

\* The filter comes first (vector_index_repository.py:3-8): whatever is indexed
\* or deleted during a search, its answer has no document of another tenant or
\* language, nor of another topic when that was sure, and none twice.
THEOREM NothingElseIsAnswered == CatalogSpec => []OnlyMatching
<1>1. CInv => OnlyMatching
  BY CInvImplies
<1> QED  BY <1>1, InductiveCInv, PTL

\* A document that is there from a search's first call to its last is in the
\* answer with all its chunks, or TopK others outdo the chunk that is not, for
\* every segment: neither a reload between two segments nor another document's
\* deletion loses it.
THEOREM WhatStaysIsFound == CatalogSpec => []SteadyFound
<1>1. CInv => SteadyFound
  BY CInvImplies
<1> QED  BY <1>1, InductiveCInv, PTL

\* What an answer says of a document no deletion began to take apart is what
\* its whole text says, and quotes it.
THEOREM AnswersAreWhole == CatalogSpec => []WholeUnlessDeleting
<1>1. CInv => WholeUnlessDeleting
  BY CInvImplies
<1> QED  BY <1>1, InductiveCInv, PTL

\* The weights are normalized over the signals there are (plagiarism_scorer.py:6-9):
\* a percentage lies between the least and the greatest of its signals.
THEOREM ScoresAreMeans == CatalogSpec => []NeverCapped
<1>1. CInv => NeverCapped
  BY CInvImplies
<1> QED  BY <1>1, InductiveCInv, PTL

\* Copying shows: when a matched chunk holds the query word for word and the
\* query has an n-gram, all its n-grams are found in the text put together, for
\* every order by_ids gives the chunks in and every size of a shingle; and a match
\* that is the query is wholly like it by the three measures, for every hash.
THEOREM CopiesShow == CatalogSpec => []CopyShows
<1>1. CInv => CopyShows
  BY CInvImplies
<1> QED  BY <1>1, InductiveCInv, PTL

\* The walk through the pages, for every page size: it misses a document that
\* was there all along only if one before it went, and lists one twice only if
\* one before it came.
THEOREM WalksAreComplete == CatalogSpec => []WalkComplete
<1>1. CInv => WalkComplete
  BY CInvImplies
<1> QED  BY <1>1, InductiveCInv, PTL

\* The detail and the statistics, each of two statements that no transaction
\* holds together, disagree only when a document came between them or a
\* deletion is at work.
THEOREM CountsAreRight == CatalogSpec => []CountsAgree
<1>1. CInv => CountsAgree
  BY CInvImplies
<1> QED  BY <1>1, InductiveCInv, PTL
=============================================================================
