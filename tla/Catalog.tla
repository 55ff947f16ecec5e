------------------------------ MODULE Catalog ------------------------------
(***************************************************************************)
(* The catalog a web replica serves while the indexer worker writes: the   *)
(* pages of GET /documents, which a client asks for one after the other,   *)
(* GET /documents/<id> and GET /stats. The reader of SearchAnswer asks for *)
(* a search or for one of these at a time.                                 *)
(***************************************************************************)
EXTENDS SearchAnswer

CONSTANTS
  ListFilter, \* what the documents listed have in common with the query
  Lower(_),   \* the lower case of an institution
  PAGE_SIZE

ASSUME FilterOfFacts == ListFilter \subseteq {"language", "topic", "entity"} \cap DOMAIN Query.facts
ASSUME PageSizePositive == PAGE_SIZE \in Nat \ {0}
\* Documents are listed in the order of their ids.
ASSUME DocsOrdered == Docs \subseteq Int

VARIABLES
  page,    \* the page asked for next, 0 when none is
  listed,  \* document id |-> how many times the pages listed it
  shown,   \* the document of the detail, or None
  chunks,  \* chunks of the detail, or of the statistics
  counted, \* documents of the statistics
  began,   \* history: documents to be listed or counted when the request began
  came,    \* history: documents that came to be listed or counted since
  lost     \* history: documents that were to be and then were not

view == <<page, listed, shown, chunks, counted>>
since == <<began, came, lost>>

NoView ==
  page' = 0 /\ listed' = <<>> /\ shown' = None /\ chunks' = 0 /\ counted' = 0

CatalogInit ==
  /\ SearchInit
  /\ page = 0 /\ listed = <<>> /\ shown = None /\ chunks = 0 /\ counted = 0
  /\ began = {} /\ came = {} /\ lost = {}

Owned(t) == IndexCommands[t].tenant = SearchRequest.tenant

\* An institution is the same in any case of its letters.
Same(f, of, asked_for) == of = asked_for \/ (f = "entity" /\ Lower(of) = Lower(asked_for))

\* The texts of the documents listed.
Listable ==
  {t \in Texts :
     /\ Owned(t)
     /\ \A f \in ListFilter :
          f \in DOMAIN About[t].facts /\ Same(f, About[t].facts[f], Query.facts[f])}

\* The documents of the tenant, of which those the filter lets through are listed.
Catalogue == {d \in DOMAIN docs : Owned(docs[d])}
Listing == {d \in Catalogue : docs[d] \in Listable}

-----------------------------------------------------------------------------
(* The requests *)

StartList ==
  /\ call = "none" /\ call' = "page"
  /\ page' = 1 /\ listed' = <<>> /\ shown' = None /\ chunks' = 0 /\ counted' = 0

Before(d, ids) == Cardinality({e \in ids : e < d})

\* Mistake: a page ends one document late.
PageOneMore(n) ==
  {d \in Listing : (n - 1) * PAGE_SIZE <= Before(d, Listing) /\ Before(d, Listing) <= n * PAGE_SIZE}

PageOf(n) ==
  {d \in Listing : (n - 1) * PAGE_SIZE <= Before(d, Listing) /\ Before(d, Listing) < n * PAGE_SIZE}

\* One page. The client goes on until a page is empty.
ListPage ==
  /\ call = "page"
  /\ LET ids == PageOf(page)
         times(d) == IF d \in DOMAIN listed THEN listed[d] ELSE 0
     IN /\ listed' = [d \in DOMAIN listed \cup ids |-> times(d) + (IF d \in ids THEN 1 ELSE 0)]
        /\ IF ids = {} THEN call' = "none" /\ UNCHANGED page
                       ELSE call' = "page" /\ page' = page + 1
  /\ UNCHANGED <<shown, chunks, counted>>

\* by_id of any document id: another tenant's answers 404 like no document's.
GetDocument(d) ==
  /\ call = "none"
  /\ IF d \in Catalogue THEN call' = "by_document" /\ shown' = d
                        ELSE call' = "none" /\ shown' = None
  /\ page' = 0 /\ listed' = <<>> /\ chunks' = 0 /\ counted' = 0

CountOwnChunks ==
  /\ call = "by_document" /\ call' = "none"
  /\ chunks' = Cardinality(RowsOf(shown))
  /\ UNCHANGED <<page, listed, shown, counted>>

CountDocuments ==
  /\ call = "none" /\ call' = "count_for_tenant"
  /\ counted' = Cardinality(Catalogue)
  /\ page' = 0 /\ listed' = <<>> /\ shown' = None /\ chunks' = 0

\* Mistake: the chunks are not joined with the documents.
CountEveryChunk ==
  /\ call = "count_for_tenant" /\ call' = "none"
  /\ chunks' = Cardinality({c \in rows : Owned(asked[c.doc])})
  /\ UNCHANGED <<page, listed, shown, counted>>

\* The join: chunks whose document has a row.
CountTenantChunks ==
  /\ call = "count_for_tenant" /\ call' = "none"
  /\ chunks' = Cardinality({c \in rows : c.doc \in Catalogue})
  /\ UNCHANGED <<page, listed, shown, counted>>

CatalogStep ==
  /\ \/ StartList \/ ListPage \/ CountOwnChunks \/ CountDocuments \/ CountTenantChunks
     \/ \E d \in Docs : GetDocument(d)
  /\ IF call = "none" THEN NoAnswer /\ steady' = {} ELSE UNCHANGED <<answer, steady>>

-----------------------------------------------------------------------------
(* The catalog among the worker's steps *)

\* What comes and goes from the first statement of a request on: of the listing
\* while it is paged, of the tenant's documents while they are counted.
Since ==
  LET Moves(before, now) ==
        /\ came' = came \cup (now \ before) /\ lost' = lost \cup (before \ now)
        /\ UNCHANGED began
  IN \/ call = "page" /\ Moves(Listing, Listing')
     \/ call = "count_for_tenant" /\ Moves(Catalogue, Catalogue')
     \/ /\ call \notin {"page", "count_for_tenant"}
        /\ began' = IF call' = "page" THEN Listing'
                    ELSE IF call' = "count_for_tenant" THEN Catalogue' ELSE {}
        /\ came' = {} /\ lost' = {}

CatalogNext ==
  /\ \/ CatalogStep /\ UNCHANGED <<vars, published>>
     \/ SearchNext /\ IF call = "none" THEN NoView ELSE UNCHANGED view
  /\ Since

CatalogSpec == CatalogInit /\ [][CatalogNext]_<<vars, published, search, steady, view, since>>

-----------------------------------------------------------------------------
(* Properties *)

CatalogTypeOK ==
  /\ SearchTypeOK
  /\ page \in 0..Cardinality(Docs) + 1
  /\ DOMAIN listed \subseteq DOMAIN asked /\ listed \in [DOMAIN listed -> Nat \ {0}]
  /\ shown \in Docs \cup {None} /\ chunks \in 0..Cardinality(Chunk)
  /\ counted \in 0..Cardinality(Docs)
  /\ began \cap came = {} /\ lost \subseteq began \cup came

\* Once through the pages, a client has every document that was there to be
\* listed all along, and none twice, unless documents before it went or came:
\* an offset is no place in the order of the ids (documents are listed in the
\* order of ids that are drawn at random).
WalkComplete ==
  /\ call = "none" /\ page > 0 =>
       \A d \in began \ lost : d \in DOMAIN listed \/ \E e \in lost : e < d
  /\ \A d \in DOMAIN listed :
       /\ asked[d] \in Listable
       /\ listed[d] > 1 => \E e \in came : e < d

\* A document of the tenant shows all its chunks, and the statistics count all
\* the chunks of the documents they count, unless a deletion is at work, or a
\* document came between the two statements. The statements of a request are
\* no transaction, and chunks without a document are nobody's.
CountsAgree ==
  call = "none" =>
    /\ shown # None =>
         /\ Owned(asked[shown])
         /\ chunks # Cardinality(Orders) => shown \in deleting
    /\ shown = None /\ page = 0 =>
         /\ chunks > counted * Cardinality(Orders) => came # {}
         /\ chunks < counted * Cardinality(Orders) => deleting # {}
=============================================================================
