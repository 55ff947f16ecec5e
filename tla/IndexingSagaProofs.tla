------------------------- MODULE IndexingSagaProofs -------------------------
(***************************************************************************)
(* Theorems about IndexingSaga, for both topologies, with or without       *)
(* foreign keys, for every set of processes, texts and documents, and      *)
(* whichever steps may raise.                                              *)
(***************************************************************************)
EXTENDS IndexingSaga, TLAPS

-----------------------------------------------------------------------------
(* The inductive invariant *)

\* The worker topology has one process, and the index it has in memory is the
\* one a restart would find.
OneWorker ==
  topology = "worker" =>
    /\ running # {} /\ \A p, q \in running : p = q
    /\ \A p \in running : vectors[p] = saved
    /\ owner = None
    /\ \A p \in Processes : request[p].step \notin {"save_indexed", "save_deleted"}

\* A document that is being indexed has no row yet, and nobody else indexes it.
FreshDocument ==
  \A p \in Processes :
    Indexing(p) =>
      /\ request[p].doc \notin known
      /\ \A q \in Processes \ {p} : Indexing(q) => request[q].doc # request[p].doc

\* An indexing leaves behind it, store by store, the chunks it has written.
ChunksFollow ==
  \A p \in Processes :
    LET r == request[p]
    IN /\ r.step \in {"rows", "document", "save_indexed"} => Chunks(r.doc) \subseteq vectors[p]
       /\ r.step = "document" => Chunks(r.doc) \subseteq rows
       /\ r.step = "save_indexed" => r.doc \in known

\* A deletion leaves behind it, store by store, nothing.
NothingFollows ==
  \A p \in Processes :
    LET r == request[p]
    IN /\ r.step \in {"remove", "delete_rows", "delete_document", "save_deleted"}
            => r.doc \in deleting
       /\ r.step \in {"delete_document", "save_deleted"} => Chunks(r.doc) \cap rows = {}
       /\ r.step = "save_deleted" => r.doc \notin DOMAIN docs

\* In the worker, what is left of a document's vectors is what the deletion has
\* still to remove, and the metadata stays until there is none.
VectorsFirst ==
  topology = "worker" =>
    \A p \in running :
      LET r == request[p]
      IN /\ r.step = "remove" => Chunks(r.doc) \cap saved \subseteq r.left
         /\ r.step \in {"delete_rows", "delete_document"} => Chunks(r.doc) \cap saved = {}

\* A document that ever had a row, and that no deletion touched, is whole.
KnownWhole ==
  \A d \in known \ deleting :
    /\ d \in DOMAIN docs /\ Chunks(d) \subseteq rows
    /\ topology = "worker" => Chunks(d) \subseteq saved

\* While one process owns the file it has every answered document in memory;
\* while none does, every process and the master have.
OwnerHasAll ==
  \A d \in answered \ deleting :
    /\ owner # "several" => Chunks(d) \subseteq saved
    /\ owner \in Processes => Chunks(d) \subseteq vectors[owner]
    /\ owner = None /\ topology = "local" =>
         Chunks(d) \subseteq master /\ \A p \in running : Chunks(d) \subseteq vectors[p]

\* Two processes on one text have raced, and a text that has a row and an
\* indexing of it too is one of two that raced.
RacesNoted ==
  \A p \in Processes :
    Indexing(p) /\ request[p].text \notin raced =>
      /\ RowsWith(request[p].text) = {}
      /\ \A q \in Processes \ {p} : Indexing(q) => request[q].text # request[p].text

IInv ==
  /\ TypeOK /\ OneWorker /\ FreshDocument /\ ChunksFollow /\ NothingFollows
  /\ VectorsStayOwned /\ VectorsFirst /\ KnownWhole /\ DeletedIsGone /\ OwnerHasAll
  /\ RacesNoted /\ OneRowPerText

-----------------------------------------------------------------------------
(* What one call of a process may do *)

\* What it leaves in the stores, whether it returns or raises.
Write(p) ==
  LET s == request[p].step
  IN \/ NoWrite
     \/ s = "add" /\ AddVectors(p)
     \/ s = "rows" /\ SaveChunks(p)
     \/ s = "document" /\ SaveDocument(p)
     \/ s = "remove" /\ \E c \in request[p].left : RemoveVector(p, c)
     \/ s = "delete_rows" /\ DeleteChunks(p)
     \/ s = "delete_document" /\ DeleteDocument(p)
     \/ s \in {"save_indexed", "save_deleted"} /\ Snapshot(p)

\* Where its request goes from there. It ends, or another begins;
EndsOrStarts(p) ==
  /\ \/ request' = [request EXCEPT ![p] = Idle]
     \/ \E t \in Texts :
          request' = [request EXCEPT ![p] = [step |-> "hash", text |-> t, doc |-> None, left |-> {}]]
     \/ \E d \in known :
          request' = [request EXCEPT ![p] = [step |-> "lookup", text |-> None, doc |-> d, left |-> {}]]
  /\ UNCHANGED <<asked, deleting>>

\* or a document is drawn for a text that has none;
Draws(p) ==
  /\ request[p].step = "hash" /\ RowsWith(request[p].text) = {} /\ NoWrite
  /\ \E d \in Docs \ DOMAIN asked :
       /\ asked' = [e \in DOMAIN asked \cup {d} |-> IF e = d THEN request[p].text ELSE asked[e]]
       /\ request' = [request EXCEPT ![p].step = "add", ![p].doc = d]
  /\ UNCHANGED deleting

\* or the document to delete is found;
Finds(p) ==
  /\ request[p].step = "lookup" /\ request[p].doc \in DOMAIN docs /\ NoWrite
  /\ request' = [request EXCEPT ![p].step = "remove", ![p].left = RowsOf(request[p].doc)]
  /\ deleting' = deleting \cup {request[p].doc}
  /\ UNCHANGED asked

\* or one of its vectors is removed;
Removes(p) ==
  /\ request[p].step = "remove"
  /\ \E c \in request[p].left :
       RemoveVector(p, c) /\ request' = [request EXCEPT ![p].left = request[p].left \ {c}]
  /\ UNCHANGED <<asked, deleting>>

\* or the next step is due.
Advances(p) ==
  LET r == request[p]
  IN /\ \/ /\ r.step = "add" /\ AddVectors(p)
           /\ request' = [request EXCEPT ![p].step = "rows"]
        \/ /\ r.step = "rows" /\ SaveChunks(p)
           /\ request' = [request EXCEPT ![p].step = "document"]
        \/ /\ r.step = "document" /\ topology = "local" /\ SaveDocument(p)
           /\ request' = [request EXCEPT ![p].step = "save_indexed"]
        \/ /\ r.step = "remove" /\ r.left = {} /\ NoWrite
           /\ request' = [request EXCEPT ![p].step = "delete_rows"]
        \/ /\ r.step = "delete_rows" /\ DeleteChunks(p)
           /\ request' = [request EXCEPT ![p].step = "delete_document"]
        \/ /\ r.step = "delete_document" /\ topology = "local" /\ DeleteDocument(p)
           /\ request' = [request EXCEPT ![p].step = "save_deleted"]
     /\ UNCHANGED <<asked, deleting>>

Move(p) == EndsOrStarts(p) \/ Draws(p) \/ Finds(p) \/ Removes(p) \/ Advances(p)

\* What it reports to its caller.
Report(p) ==
  LET r == request[p]
  IN /\ \/ answered' = answered
        \/ /\ answered' = answered \cup {r.doc}
           /\ \/ r.step = "document" /\ topology = "worker" /\ SaveDocument(p)
              \/ r.step = "save_indexed" /\ Snapshot(p)
     /\ \/ gone' = gone
        \/ /\ gone' = gone \cup {r.doc}
           /\ \/ r.step = "delete_document" /\ topology = "worker" /\ DeleteDocument(p)
              \/ r.step = "save_deleted" /\ Snapshot(p)

\* Every call of index() and delete() is one of these, and the races it joins
\* are noted.
LEMMA CallSummary ==
  ASSUME TypeOK, NEW p \in running, Works(p)
  PROVE  /\ Write(p) /\ Move(p) /\ Report(p)
         /\ UNCHANGED <<topology, running, master>>
         /\ session' \in [Processes -> {"clean", "broken"}]
         /\ raced \subseteq raced' /\ raced' \subseteq Texts
         /\ \A q \in Processes \ {p} :
              (Indexing(p))' /\ (Indexing(q))' /\ request'[p].text \in Texts
                /\ request'[q].text = request'[p].text => request'[p].text \in raced'
<1> USE DEF stores, history
<1>1. Index(p) => Write(p) /\ Move(p) /\ Report(p)
  BY TopologiesKnown DEF TypeOK, Index, StartIndex, Duplicate, DrawDocument, IndexVectors, IndexChunks,
     IndexDocument, SnapshotIndexed, Write, Move, EndsOrStarts, Draws, Finds, Removes, Advances, Report, Ends, Goes, Returns
<1>2. Delete(p) => Write(p) /\ Move(p) /\ Report(p)
  BY TopologiesKnown DEF TypeOK, Delete, StartDelete, NotFound, Found, Remove, AllRemoved, DropChunks,
     DropDocument, SnapshotDeleted, Write, Move, EndsOrStarts, Draws, Finds, Removes, Advances, Report, Ends, Goes, Returns
<1>3. Raises(p) \/ StatementRefused(p) => Write(p) /\ Move(p) /\ Report(p)
  BY DEF Raises, StatementRefused, Fails, Write, Move, EndsOrStarts, Draws, Finds, Removes, Advances, Report
<1>4. session' \in [Processes -> {"clean", "broken"}]
  BY DEF TypeOK, Works, Index, StartIndex, Duplicate, DrawDocument, IndexVectors, IndexChunks,
     IndexDocument, SnapshotIndexed, Delete, StartDelete, NotFound, Found, Remove, AllRemoved,
     DropChunks, DropDocument, SnapshotDeleted, Ends, Goes, Returns, Raises, StatementRefused, Fails
<1> QED  BY <1>1, <1>2, <1>3, <1>4 DEF Works, TypeOK

-----------------------------------------------------------------------------
(* Type correctness *)

\* A chunk id belongs to one document, and the rows of a document are the rows
\* among its chunks.
LEMMA ChunkFacts ==
  /\ \A d \in Docs : Chunks(d) \subseteq Chunk
  /\ \A c \in Chunk : c.doc \in Docs /\ \A d : c \in Chunks(d) <=> c.doc = d
  /\ \A d, e : d # e => Chunks(d) \cap Chunks(e) = {}
  /\ rows \subseteq Chunk => \A d : RowsOf(d) = rows \cap Chunks(d)
<1>1. \A d \in Docs : Chunks(d) \subseteq Chunk
  BY DEF Chunk, Chunks
<1>2. \A c \in Chunk : c.doc \in Docs /\ \A d : c \in Chunks(d) <=> c.doc = d
  BY DEF Chunk, Chunks
<1>3. \A d, e : d # e => Chunks(d) \cap Chunks(e) = {}
  BY DEF Chunks
<1> QED  BY <1>1, <1>2, <1>3 DEF RowsOf

\* The service starts with empty stores and idle processes.
LEMMA TypeOKInit == Init => TypeOK
<1> SUFFICES ASSUME Init PROVE TypeOK
  OBVIOUS
<1>1. request \in [Processes -> Request] /\ \A p \in Processes : request[p] = Idle
  BY DEF Init, Idle, Request
<1>2. docs \in [DOMAIN docs -> Texts] /\ asked \in [DOMAIN asked -> Texts]
      /\ DOMAIN docs = {} /\ DOMAIN asked = {}
  BY DEF Init
<1>3. running \subseteq Processes
  BY DEF Init
<1> QED  BY <1>1, <1>2, <1>3 DEF Init, TypeOK, Idle, Steps, SqlSteps

\* What a request works on stays well typed, and so does what has been drawn.
LEMMA RequestType ==
  ASSUME TypeOK, NEW p \in running, Move(p), known \subseteq known'
  PROVE  /\ asked' \in [DOMAIN asked' -> Texts] /\ DOMAIN asked' \subseteq Docs
         /\ DOMAIN asked \subseteq DOMAIN asked'
         /\ \A d \in DOMAIN asked : asked'[d] = asked[d]
         /\ deleting \subseteq deleting' /\ deleting' \subseteq known
         /\ request' \in [Processes -> Request]
         /\ \A q \in Processes \ {p} : request'[q] = request[q]
         /\ LET r == request'[p]
            IN /\ r.step = "hash" => r.text \in Texts /\ r.left = {}
               /\ r.step \in Steps \ {"hash"} => r.doc \in DOMAIN asked'
               /\ r.step \in {"add", "rows", "document"} => r.text = asked'[r.doc]
               /\ r.left \subseteq Chunks(r.doc)
<1>1. p \in Processes /\ request[p] \in Request
  BY DEF TypeOK
<1>2. RowsOf(request[p].doc) \subseteq Chunks(request[p].doc) /\ RowsOf(request[p].doc) \subseteq Chunk
  BY ChunkFacts DEF TypeOK
<1>3. /\ Idle \in Request
      /\ \A t \in Texts : [step |-> "hash", text |-> t, doc |-> None, left |-> {}] \in Request
      /\ \A d \in Docs : [step |-> "lookup", text |-> None, doc |-> d, left |-> {}] \in Request
      /\ Idle.step = "idle" /\ Idle.left = {}
  BY DEF Idle, Request, Steps, SqlSteps
<1>4. \A q \in Processes \ {p} : request'[q] = request[q]
  BY <1>1 DEF TypeOK, Move, EndsOrStarts, Draws, Finds, Removes, Advances
<1>5. CASE EndsOrStarts(p)
  <2> DEFINE Starts(r) ==
        /\ r.left = {} /\ r.step \in {"idle", "hash", "lookup"}
        /\ r.step = "hash" => r.text \in Texts
        /\ r.step = "lookup" => r.doc \in known
  <2>3. /\ Starts(Idle)
        /\ \A t \in Texts : Starts([step |-> "hash", text |-> t, doc |-> None, left |-> {}])
        /\ \A d \in known : Starts([step |-> "lookup", text |-> None, doc |-> d, left |-> {}])
    BY DEF Idle
  <2>4. known \subseteq Docs
    BY DEF TypeOK
  <2> HIDE DEF Starts
  <2>1. PICK r \in Request : request' = [request EXCEPT ![p] = r] /\ Starts(r)
    BY <1>3, <1>5, <2>3, <2>4 DEF EndsOrStarts
  <2>2. request' \in [Processes -> Request] /\ request'[p] = r
    BY <1>1, <2>1 DEF TypeOK
  <2> QED  BY <1>4, <1>5, <2>1, <2>2 DEF Starts, EndsOrStarts, TypeOK, Steps, SqlSteps
<1>6. CASE Draws(p)
  <2>1. PICK d \in Docs \ DOMAIN asked :
          /\ asked' = [e \in DOMAIN asked \cup {d} |-> IF e = d THEN request[p].text ELSE asked[e]]
          /\ request' = [request EXCEPT ![p] = [request[p] EXCEPT !.step = "add", !.doc = d]]
    BY <1>1, <1>6 DEF Draws, TypeOK
  <2>2. request[p].text \in Texts /\ request[p].left = {}
    BY <1>1, <1>6, <2>1 DEF TypeOK, Draws
  <2>3. [request[p] EXCEPT !.step = "add", !.doc = d] \in Request
    BY <1>1, <2>1 DEF Request, Steps, SqlSteps
  <2>4. asked' \in [DOMAIN asked' -> Texts] /\ DOMAIN asked' = DOMAIN asked \cup {d}
        /\ asked'[d] = request[p].text /\ \A e \in DOMAIN asked : asked'[e] = asked[e]
    BY <2>1, <2>2 DEF TypeOK
  <2>5. request' \in [Processes -> Request]
        /\ request'[p] = [request[p] EXCEPT !.step = "add", !.doc = d]
    BY <1>1, <2>1, <2>3 DEF TypeOK
  <2>6. request'[p].step = "add" /\ request'[p].doc = d /\ request'[p].text = request[p].text
        /\ request'[p].left = {}
    BY <1>1, <2>5, <2>2 DEF Request
  <2> QED  BY <1>4, <1>6, <2>1, <2>4, <2>5, <2>6 DEF Draws, TypeOK
<1>7. CASE Finds(p)
  <2>1. request' = [request EXCEPT ![p] = [request[p] EXCEPT !.step = "remove", !.left = RowsOf(request[p].doc)]]
    BY <1>1, <1>7 DEF Finds, TypeOK
  <2>2. [request[p] EXCEPT !.step = "remove", !.left = RowsOf(request[p].doc)] \in Request
    BY <1>1, <1>2 DEF Request, Steps, SqlSteps
  <2> QED  BY <1>1, <1>2, <1>4, <1>7, <2>1, <2>2 DEF Finds, TypeOK, Request
<1>8. CASE Removes(p)
  <2>1. PICK c \in request[p].left :
          request' = [request EXCEPT ![p] = [request[p] EXCEPT !.left = request[p].left \ {c}]]
    BY <1>1, <1>8 DEF Removes, TypeOK
  <2>2. [request[p] EXCEPT !.left = request[p].left \ {c}] \in Request
    BY <1>1 DEF Request
  <2> QED  BY <1>1, <1>4, <1>8, <2>1, <2>2 DEF Removes, TypeOK, Request, Steps
<1>9. CASE Advances(p)
  <2>1. PICK t \in {"rows", "document", "save_indexed", "delete_rows", "delete_document", "save_deleted"} :
          /\ request' = [request EXCEPT ![p] = [request[p] EXCEPT !.step = t]]
          /\ t \in {"rows", "document"} => request[p].step \in {"add", "rows"}
          /\ request[p].step \in Steps \ {"hash"}
    BY <1>1, <1>9 DEF Advances, TypeOK, Steps, SqlSteps
  <2>2. [request[p] EXCEPT !.step = t] \in Request
    BY <1>1 DEF Request, Steps, SqlSteps
  <2> QED  BY <1>1, <1>4, <1>9, <2>1, <2>2 DEF Advances, TypeOK, Request, Steps, SqlSteps
<1> QED
  BY <1>5, <1>6, <1>7, <1>8, <1>9 DEF Move

\* What a call writes is well typed, touches the document of its request and
\* the index of its process only.
Footprint(p) ==
  /\ vectors' \in [Processes -> SUBSET Chunk] /\ saved' \subseteq Chunk
  /\ rows' \subseteq Chunk
  /\ docs' \in [DOMAIN docs' -> Texts] /\ DOMAIN docs' \subseteq known'
  /\ known \subseteq known' /\ known' \subseteq DOMAIN asked
  /\ owner' \in Processes \cup {None, "several"}
  /\ \A q \in Processes \ {p} : vectors'[q] = vectors[q]
  /\ \A d : d # request[p].doc =>
       /\ d \in known' <=> d \in known
       /\ d \in DOMAIN docs' <=> d \in DOMAIN docs
       /\ d \in DOMAIN docs => docs'[d] = docs[d]
  /\ \A c \in Chunk : c.doc # request[p].doc =>
       /\ c \in rows' <=> c \in rows
       /\ c \in vectors'[p] <=> c \in vectors[p]

\* Every write keeps to it.
LEMMA WriteFootprint ==
  ASSUME TypeOK, NEW p \in running, Write(p)
  PROVE  Footprint(p)
<1> USE DEF Footprint
<1> DEFINE d0 == request[p].doc
<1>1. p \in Processes /\ vectors[p] \subseteq Chunk /\ request[p] \in Request
  BY DEF TypeOK
<1>2. /\ \A d \in Docs : Chunks(d) \subseteq Chunk
      /\ \A c \in Chunk : \A d : c \in Chunks(d) <=> c.doc = d
      /\ RowsOf(d0) = rows \cap Chunks(d0)
  BY ChunkFacts DEF TypeOK
<1>3. CASE NoWrite
  BY <1>1, <1>3 DEF NoWrite, stores, TypeOK
<1>4. request[p].step \in Steps \ {"hash"} => d0 \in Docs /\ d0 \in DOMAIN asked
  BY <1>1 DEF TypeOK
<1>5. CASE request[p].step = "add" /\ AddVectors(p)
  <2>1. vectors' = [vectors EXCEPT ![p] = vectors[p] \cup Chunks(d0)] /\ Chunks(d0) \subseteq Chunk
    BY <1>2, <1>4, <1>5 DEF AddVectors, SetVectors, Steps
  <2> QED  BY <1>1, <1>2, <1>5, <2>1 DEF AddVectors, SetVectors, TypeOK
<1>6. CASE request[p].step = "rows" /\ SaveChunks(p)
  <2>1. Chunks(d0) \subseteq Chunk
    BY <1>2, <1>4, <1>6 DEF Steps, SqlSteps
  <2> QED  BY <1>1, <1>2, <1>6, <2>1 DEF SaveChunks, TypeOK
<1>7. CASE request[p].step = "document" /\ SaveDocument(p)
  <2>1. request[p].text \in Texts /\ d0 \in DOMAIN asked
    BY <1>1, <1>4, <1>7 DEF TypeOK, Steps, SqlSteps
  <2>2. docs' = [e \in DOMAIN docs \cup {d0} |-> IF e = d0 THEN request[p].text ELSE docs[e]]
        /\ known' = known \cup {d0} /\ UNCHANGED <<vectors, saved, rows, owner>>
    BY <1>7 DEF SaveDocument
  <2>3. docs' \in [DOMAIN docs' -> Texts] /\ DOMAIN docs' = DOMAIN docs \cup {d0}
        /\ \A d \in DOMAIN docs : d # d0 => docs'[d] = docs[d]
    BY <2>1, <2>2 DEF TypeOK
  <2> QED  BY <1>1, <2>1, <2>2, <2>3 DEF TypeOK
<1>8. CASE \E c \in request[p].left : RemoveVector(p, c)
  <2>1. PICK c \in request[p].left : RemoveVector(p, c)
    BY <1>8
  <2>2. vectors' = [vectors EXCEPT ![p] = vectors[p] \ {c}] /\ c \in Chunks(d0)
    BY <1>1, <2>1 DEF RemoveVector, SetVectors, TypeOK
  <2> QED  BY <1>1, <1>2, <2>1, <2>2 DEF RemoveVector, SetVectors, TypeOK
<1>9. CASE DeleteChunks(p)
  BY <1>1, <1>2, <1>9 DEF DeleteChunks, TypeOK
<1>10. CASE DeleteDocument(p)
  BY <1>1, <1>2, <1>10 DEF DeleteDocument, TypeOK
<1>11. CASE Snapshot(p)
  BY <1>1, <1>2, <1>11 DEF Snapshot, TypeOK
<1> QED
  BY <1>3, <1>5, <1>6, <1>7, <1>8, <1>9, <1>10, <1>11 DEF Write

-----------------------------------------------------------------------------
(* What a call keeps: one lemma for each part of the invariant *)

\* How the request of a call looks afterwards.
Moved(p) ==
  LET r == request[p]
      n == request'[p]
  IN \/ n.step \in {"idle", "hash", "lookup"}
     \/ /\ Draws(p) /\ n.step = "add" /\ n.text = r.text /\ n.doc \notin DOMAIN asked
     \/ /\ Finds(p) /\ n.step = "remove" /\ n.doc = r.doc /\ n.left = RowsOf(r.doc)
     \/ /\ Removes(p) /\ n.step = "remove" /\ n.doc = r.doc
        /\ \E c \in r.left : RemoveVector(p, c) /\ n.left = r.left \ {c}
     \/ /\ n.doc = r.doc /\ n.text = r.text /\ n.left = r.left
        /\ \/ n.step = "rows" /\ r.step = "add" /\ AddVectors(p)
           \/ n.step = "document" /\ r.step = "rows" /\ SaveChunks(p)
           \/ n.step = "save_indexed" /\ r.step = "document" /\ topology = "local"
                /\ SaveDocument(p)
           \/ n.step = "delete_rows" /\ r.step = "remove" /\ r.left = {} /\ NoWrite
           \/ n.step = "delete_document" /\ r.step = "delete_rows" /\ DeleteChunks(p)
           \/ n.step = "save_deleted" /\ r.step = "delete_document" /\ topology = "local"
                /\ DeleteDocument(p)

\* Every move ends that way.
LEMMA RequestAfter ==
  ASSUME TypeOK, NEW p \in running, Move(p)
  PROVE  Moved(p)
<1>1. p \in Processes /\ request[p] \in Request /\ request \in [Processes -> Request]
  BY DEF TypeOK
<1>2. CASE EndsOrStarts(p)
  BY <1>1, <1>2 DEF Moved, EndsOrStarts, Idle
<1>3. CASE Draws(p)
  <2>1. PICK d \in Docs \ DOMAIN asked :
          request' = [request EXCEPT ![p] = [request[p] EXCEPT !.step = "add", !.doc = d]]
    BY <1>1, <1>3 DEF Draws
  <2>2. request'[p] = [request[p] EXCEPT !.step = "add", !.doc = d]
    BY <1>1, <2>1
  <2>3. request'[p].step = "add" /\ request'[p].doc = d /\ request'[p].text = request[p].text
    BY <1>1, <2>2 DEF Request
  <2> QED  BY <1>3, <2>3 DEF Moved
<1>4. CASE Finds(p)
  BY <1>1, <1>4 DEF Moved, Finds, Request
<1>5. CASE Removes(p)
  BY <1>1, <1>5 DEF Moved, Removes, Request
<1>6. CASE Advances(p)
  BY <1>1, <1>6 DEF Moved, Advances, Request
<1> QED
  BY <1>2, <1>3, <1>4, <1>5, <1>6 DEF Move

\* What every call does, in these terms.
LEMMA CallFacts ==
  ASSUME TypeOK, NEW p \in running, Works(p)
  PROVE  /\ p \in Processes /\ request[p] \in Request
         /\ Write(p) /\ Moved(p) /\ Report(p) /\ Footprint(p)
         /\ UNCHANGED <<topology, running, master>>
         /\ \A q \in Processes \ {p} : request'[q] = request[q]
         /\ deleting \subseteq deleting' /\ deleting \subseteq known /\ known \subseteq known'
         /\ raced \subseteq raced'
<1>1. Write(p) /\ Move(p) /\ Report(p)
      /\ UNCHANGED <<topology, running, master>> /\ raced \subseteq raced'
  BY CallSummary
<1>2. Footprint(p)
  BY <1>1, WriteFootprint
<1>3. Moved(p)
  BY <1>1, RequestAfter
<1>4. known \subseteq known'
  BY <1>2 DEF Footprint
<1>5. (\A q \in Processes \ {p} : request'[q] = request[q]) /\ deleting \subseteq deleting'
  BY <1>1, <1>4, RequestType
<1> QED  BY <1>1, <1>2, <1>3, <1>4, <1>5 DEF TypeOK

\* No call breaks a type. That a deletion names a document it has begun to take
\* apart, and a save of an indexing one that has a row, is what this rests on.
LEMMA TypeOKCall ==
  ASSUME TypeOK, ChunksFollow, NothingFollows, NEW p \in running, Works(p)
  PROVE  TypeOK'
<1>1. Write(p) /\ Move(p) /\ Report(p) /\ Footprint(p)
  BY CallSummary, WriteFootprint
<1>2. UNCHANGED <<topology, running, master>> /\ raced' \subseteq Texts
      /\ session' \in [Processes -> {"clean", "broken"}]
  BY CallSummary
<1>3. answered' \subseteq known'
  BY <1>1 DEF Footprint, Report, TypeOK, ChunksFollow, SaveDocument
<1>4. /\ asked' \in [DOMAIN asked' -> Texts] /\ DOMAIN asked' \subseteq Docs
      /\ DOMAIN asked \subseteq DOMAIN asked'
      /\ \A d \in DOMAIN asked : asked'[d] = asked[d]
      /\ deleting \subseteq deleting' /\ deleting' \subseteq known
      /\ request' \in [Processes -> Request]
      /\ \A q \in Processes \ {p} : request'[q] = request[q]
  BY <1>1, RequestType DEF Footprint
<1>5. gone' \subseteq deleting'
  BY <1>1, <1>4 DEF Report, TypeOK, NothingFollows
<1>6. \A q \in Processes :
        LET r == request'[q]
        IN /\ r.step = "hash" => r.text \in Texts /\ r.left = {}
           /\ r.step \in Steps \ {"hash"} => r.doc \in DOMAIN asked'
           /\ r.step \in {"add", "rows", "document"} => r.text = asked'[r.doc]
           /\ r.left \subseteq Chunks(r.doc)
  BY <1>1, <1>4, RequestType DEF Footprint, TypeOK, Steps, SqlSteps
<1> QED
  BY <1>1, <1>2, <1>3, <1>4, <1>5, <1>6 DEF Footprint, TypeOK

\* The worker's memory and its durable index move together.
LEMMA OneWorkerCall ==
  ASSUME IInv, NEW p \in running, Works(p)
  PROVE  OneWorker'
<1>1. /\ p \in Processes /\ request[p] \in Request
      /\ Write(p) /\ Moved(p) /\ Report(p) /\ Footprint(p)
      /\ UNCHANGED <<topology, running, master>>
      /\ \A q \in Processes \ {p} : request'[q] = request[q]
      /\ deleting \subseteq deleting' /\ deleting \subseteq known /\ known \subseteq known'
  BY CallFacts DEF IInv
<1>2. SUFFICES ASSUME topology = "worker"
               PROVE  /\ vectors'[p] = saved' /\ owner' = None
                      /\ request'[p].step \notin {"save_indexed", "save_deleted"}
  BY <1>1 DEF OneWorker, IInv
<1>3. request[p].step \notin {"save_indexed", "save_deleted"} /\ vectors[p] = saved /\ owner = None
  BY <1>1, <1>2 DEF OneWorker, IInv
<1>4. vectors \in [Processes -> SUBSET Chunk]
  BY DEF IInv, TypeOK
<1>5. vectors'[p] = saved' /\ owner' = None
  BY <1>1, <1>2, <1>3, <1>4 DEF Write, NoWrite, stores, AddVectors, RemoveVector,
     SetVectors, SaveChunks, SaveDocument, DeleteChunks, DeleteDocument
<1>6. request'[p].step \notin {"save_indexed", "save_deleted"}
  BY <1>1, <1>2 DEF Moved
<1> QED  BY <1>5, <1>6

\* A document drawn is new, and only its own indexing gives it a row.
LEMMA FreshDocumentCall ==
  ASSUME IInv, NEW p \in running, Works(p)
  PROVE  FreshDocument'
<1>1. /\ p \in Processes /\ request[p] \in Request
      /\ Write(p) /\ Moved(p) /\ Report(p) /\ Footprint(p)
      /\ UNCHANGED <<topology, running, master>>
      /\ \A q \in Processes \ {p} : request'[q] = request[q]
      /\ deleting \subseteq deleting' /\ deleting \subseteq known /\ known \subseteq known'
  BY CallFacts DEF IInv
<1>2. known' = known \/ request[p].step = "document"
  BY <1>1 DEF Write, NoWrite, AddVectors, RemoveVector, SetVectors, SaveChunks, DeleteChunks,
     DeleteDocument, Snapshot
<1>3. \A d \in known' : d \in known \/ d = request[p].doc
  BY <1>1 DEF Footprint
<1>4. \A q \in Processes \ {p} : Indexing(q) => request[q].doc \notin known'
  BY <1>1, <1>2, <1>3 DEF IInv, FreshDocument, Indexing
<1>5. \/ request'[p].step \notin {"add", "rows", "document"}
      \/ request'[p].doc \notin DOMAIN asked /\ known' = known
      \/ Indexing(p) /\ request'[p].doc = request[p].doc /\ known' = known
  BY <1>1, <1>2 DEF Moved, Indexing, Draws, NoWrite
<1>6. \A q \in Processes : Indexing(q) => request[q].doc \in DOMAIN asked
  BY DEF IInv, TypeOK, Indexing, Steps, SqlSteps
<1>7. known \subseteq DOMAIN asked
  BY DEF IInv, TypeOK
<1> QED
  BY <1>1, <1>4, <1>5, <1>6, <1>7 DEF FreshDocument, Indexing, IInv

\* Nobody takes away the chunks of a document that is being indexed.
LEMMA ChunksFollowCall ==
  ASSUME IInv, NEW p \in running, Works(p)
  PROVE  ChunksFollow'
<1>1. /\ p \in Processes /\ request[p] \in Request
      /\ Write(p) /\ Moved(p) /\ Report(p) /\ Footprint(p)
      /\ UNCHANGED <<topology, running, master>>
      /\ \A q \in Processes \ {p} : request'[q] = request[q]
      /\ deleting \subseteq deleting' /\ deleting \subseteq known /\ known \subseteq known'
  BY CallFacts DEF IInv
<1>2. \A d \in Docs : Chunks(d) \subseteq Chunk /\ \A c \in Chunks(d) : c.doc = d
  BY ChunkFacts
<1>3. ASSUME NEW q \in Processes \ {p}, request[q].step = "document"
      PROVE  Chunks(request[q].doc) \subseteq rows'
  <2>1. request[q].doc \in Docs /\ Chunks(request[q].doc) \subseteq rows
    BY <1>3 DEF IInv, TypeOK, ChunksFollow, Steps, SqlSteps
  <2>2. CASE request[q].doc # request[p].doc
    BY <1>1, <1>2, <2>1, <2>2 DEF Footprint
  <2>3. CASE request[q].doc = request[p].doc
    <3>1. request[q].doc \notin known
      BY <1>3 DEF IInv, FreshDocument, Indexing
    <3>2. request[p].step # "delete_rows"
      BY <1>1, <2>3, <3>1 DEF IInv, NothingFollows
    <3> QED  BY <1>1, <2>1, <3>2 DEF Write, NoWrite, stores, AddVectors, RemoveVector, SetVectors,
               SaveChunks, SaveDocument, DeleteDocument, Snapshot
  <2> QED  BY <2>2, <2>3
<1>4. vectors \in [Processes -> SUBSET Chunk]
  BY DEF IInv, TypeOK
<1>5. request'[p].step \in {"rows", "document", "save_indexed"}
        => Chunks(request'[p].doc) \subseteq vectors'[p]
  <2>1. request[p].step \in {"rows", "document"} => Chunks(request[p].doc) \subseteq vectors[p]
    BY <1>1 DEF IInv, ChunksFollow
  <2> QED
    BY <1>1, <1>4, <2>1 DEF Moved, AddVectors, SetVectors, SaveChunks, SaveDocument
<1>6. request'[p].step = "document" => Chunks(request'[p].doc) \subseteq rows'
  BY <1>1 DEF Moved, SaveChunks
<1>7. request'[p].step = "save_indexed" => request'[p].doc \in known'
  BY <1>1 DEF Moved, SaveDocument
<1>8. \A q \in Processes \ {p} : vectors'[q] = vectors[q]
  BY <1>1 DEF Footprint
<1> QED
  BY <1>1, <1>3, <1>5, <1>6, <1>7, <1>8 DEF ChunksFollow, IInv

\* Nobody brings back a document that a deletion takes apart.
LEMMA NothingReturns ==
  ASSUME IInv, NEW p \in running, Works(p), NEW d \in known
  PROVE  /\ Chunks(d) \cap rows' \subseteq rows
         /\ d \notin DOMAIN docs => d \notin DOMAIN docs'
         /\ Chunks(d) \cap vectors'[p] \subseteq vectors[p]
<1>1. /\ p \in Processes /\ request[p] \in Request
      /\ Write(p) /\ Moved(p) /\ Report(p) /\ Footprint(p)
      /\ UNCHANGED <<topology, running, master>>
      /\ \A q \in Processes \ {p} : request'[q] = request[q]
      /\ deleting \subseteq deleting' /\ deleting \subseteq known /\ known \subseteq known'
  BY CallFacts DEF IInv
<1>2. Chunks(d) \subseteq Chunk /\ \A c \in Chunks(d) : c.doc = d
  BY ChunkFacts DEF IInv, TypeOK
<1>3. CASE d # request[p].doc
  BY <1>1, <1>2, <1>3 DEF Footprint
<1>4. CASE d = request[p].doc
  <2>1. request[p].step \notin {"add", "rows", "document"}
    BY <1>1, <1>4 DEF IInv, FreshDocument, Indexing
  <2>2. vectors \in [Processes -> SUBSET Chunk]
    BY DEF IInv, TypeOK
  <2> QED  BY <1>1, <2>1, <2>2 DEF Write, NoWrite, stores, RemoveVector, SetVectors,
             DeleteChunks, DeleteDocument, Snapshot
<1> QED  BY <1>3, <1>4

\* A deletion finds behind it what it left there.
LEMMA NothingFollowsCall ==
  ASSUME IInv, NEW p \in running, Works(p)
  PROVE  NothingFollows'
<1>1. /\ p \in Processes /\ request[p] \in Request
      /\ Write(p) /\ Moved(p) /\ Report(p) /\ Footprint(p)
      /\ UNCHANGED <<topology, running, master>>
      /\ \A q \in Processes \ {p} : request'[q] = request[q]
      /\ deleting \subseteq deleting' /\ deleting \subseteq known /\ known \subseteq known'
  BY CallFacts DEF IInv
<1>2. \A d \in known : /\ Chunks(d) \cap rows' \subseteq rows
                       /\ d \notin DOMAIN docs => d \notin DOMAIN docs'
  BY NothingReturns
<1>3. request'[p].step \in {"remove", "delete_rows", "delete_document", "save_deleted"}
        => request'[p].doc \in deleting'
  BY <1>1 DEF Moved, IInv, NothingFollows, Finds, Removes
<1>4. request'[p].step \in {"delete_document", "save_deleted"}
        => Chunks(request'[p].doc) \cap rows' = {}
  <2>1. RowsOf(request[p].doc) = rows \cap Chunks(request[p].doc)
    BY ChunkFacts DEF IInv, TypeOK
  <2>2. request[p].step = "delete_document" => Chunks(request[p].doc) \cap rows = {}
    BY <1>1 DEF IInv, NothingFollows
  <2> QED  BY <1>1, <2>1, <2>2 DEF Moved, DeleteChunks, DeleteDocument
<1>5. request'[p].step = "save_deleted" => request'[p].doc \notin DOMAIN docs'
  BY <1>1 DEF Moved, DeleteDocument
<1>6. ASSUME NEW q \in Processes \ {p}
      PROVE  /\ request[q].step \in {"remove", "delete_rows", "delete_document", "save_deleted"}
                  => request[q].doc \in deleting'
             /\ request[q].step \in {"delete_document", "save_deleted"}
                  => Chunks(request[q].doc) \cap rows' = {}
             /\ request[q].step = "save_deleted" => request[q].doc \notin DOMAIN docs'
  BY <1>1, <1>2 DEF IInv, NothingFollows
<1> QED
  BY <1>1, <1>3, <1>4, <1>5, <1>6 DEF NothingFollows

\* No call touches a document that has a row and that no deletion began to take
\* apart.
LEMMA UntouchedStays ==
  ASSUME IInv, NEW p \in running, Works(p), NEW d \in known \ deleting
  PROVE  /\ Chunks(d) \cap rows \subseteq rows'
         /\ d \in DOMAIN docs => d \in DOMAIN docs'
         /\ Chunks(d) \cap vectors[p] \subseteq vectors'[p]
<1>1. /\ p \in Processes /\ request[p] \in Request
      /\ Write(p) /\ Moved(p) /\ Report(p) /\ Footprint(p)
      /\ UNCHANGED <<topology, running, master>>
      /\ \A q \in Processes \ {p} : request'[q] = request[q]
      /\ deleting \subseteq deleting' /\ deleting \subseteq known /\ known \subseteq known'
  BY CallFacts DEF IInv
<1>2. Chunks(d) \subseteq Chunk /\ \A c \in Chunks(d) : c.doc = d
  BY ChunkFacts DEF IInv, TypeOK
<1>3. CASE d # request[p].doc
  BY <1>1, <1>2, <1>3 DEF Footprint
<1>4. CASE d = request[p].doc
  <2>1. request[p].step \notin {"remove", "delete_rows", "delete_document"}
    BY <1>1, <1>4 DEF IInv, NothingFollows
  <2>2. vectors \in [Processes -> SUBSET Chunk]
    BY DEF IInv, TypeOK
  <2> QED  BY <1>1, <2>1, <2>2 DEF Write, NoWrite, stores, AddVectors, SetVectors, SaveChunks,
             SaveDocument, Snapshot
<1> QED  BY <1>3, <1>4

\* A document is whole when its indexing gives it a row.
LEMMA KnownWholeCall ==
  ASSUME IInv, NEW p \in running, Works(p)
  PROVE  KnownWhole'
<1>1. /\ p \in Processes /\ request[p] \in Request
      /\ Write(p) /\ Moved(p) /\ Report(p) /\ Footprint(p)
      /\ UNCHANGED <<topology, running, master>>
      /\ \A q \in Processes \ {p} : request'[q] = request[q]
      /\ deleting \subseteq deleting' /\ deleting \subseteq known /\ known \subseteq known'
  BY CallFacts DEF IInv
<1>2. topology = "worker" => vectors[p] = saved /\ vectors'[p] = saved'
  BY <1>1, OneWorkerCall DEF IInv, OneWorker
<1>3. ASSUME NEW d \in known \ deleting
      PROVE  /\ d \in DOMAIN docs' /\ Chunks(d) \subseteq rows'
             /\ topology = "worker" => Chunks(d) \subseteq saved'
  BY <1>2, UntouchedStays DEF IInv, KnownWhole
<1>4. ASSUME NEW d \in known', d \notin known
      PROVE  /\ d \in DOMAIN docs' /\ Chunks(d) \subseteq rows'
             /\ topology = "worker" => Chunks(d) \subseteq saved'
  <2>1. d = request[p].doc /\ request[p].step = "document" /\ SaveDocument(p)
    BY <1>1, <1>4 DEF Footprint, Write, NoWrite, AddVectors, RemoveVector, SetVectors, SaveChunks,
       DeleteChunks, DeleteDocument, Snapshot
  <2>2. Chunks(d) \subseteq vectors[p] /\ Chunks(d) \subseteq rows
    BY <1>1, <2>1 DEF IInv, ChunksFollow
  <2> QED  BY <1>2, <2>1, <2>2 DEF SaveDocument
<1> QED
  BY <1>1, <1>3, <1>4 DEF KnownWhole

\* The metadata that leads a deletion to a vector goes after the vector.
LEMMA VectorsStayOwnedCall ==
  ASSUME IInv, NEW p \in running, Works(p)
  PROVE  VectorsStayOwned'
<1>1. /\ p \in Processes /\ request[p] \in Request
      /\ Write(p) /\ Moved(p) /\ Report(p) /\ Footprint(p)
      /\ UNCHANGED <<topology, running, master>>
      /\ \A q \in Processes \ {p} : request'[q] = request[q]
      /\ deleting \subseteq deleting' /\ deleting \subseteq known /\ known \subseteq known'
  BY CallFacts DEF IInv
<1>2. SUFFICES ASSUME topology = "worker", NEW c \in saved', c.doc \in known'
               PROVE  c \in rows' /\ c.doc \in DOMAIN docs'
  BY <1>1 DEF VectorsStayOwned
<1>3. vectors[p] = saved /\ vectors'[p] = saved'
      /\ request[p].step \notin {"save_indexed", "save_deleted"}
  BY <1>1, <1>2, OneWorkerCall DEF IInv, OneWorker
<1>4. c \in Chunk
  BY <1>1, <1>2 DEF Footprint
<1>5. CASE c.doc # request[p].doc
  BY <1>1, <1>2, <1>3, <1>4, <1>5 DEF IInv, VectorsStayOwned, Footprint
<1>6. CASE c.doc = request[p].doc
  <2>1. c \in Chunks(request[p].doc)
    BY <1>4, <1>6, ChunkFacts
  <2>2. request[p].step \in {"add", "rows", "document"} => c.doc \notin known
    BY <1>1, <1>6 DEF IInv, FreshDocument, Indexing
  <2>3. request[p].step = "document" => c \in rows
    BY <1>1, <2>1 DEF IInv, ChunksFollow
  <2>4. request[p].step \in {"delete_rows", "delete_document"} => c \notin saved
    BY <1>2, <2>1 DEF IInv, VectorsFirst
  <2>5. c \in saved /\ c.doc \in known => c \in rows /\ c.doc \in DOMAIN docs
    BY <1>2 DEF IInv, VectorsStayOwned
  <2>6. vectors \in [Processes -> SUBSET Chunk]
    BY DEF IInv, TypeOK
  <2> QED
    BY <1>1, <1>2, <1>3, <1>6, <2>2, <2>3, <2>4, <2>5, <2>6 DEF Write, NoWrite, stores, AddVectors,
       RemoveVector, SetVectors, SaveChunks, SaveDocument, DeleteChunks, DeleteDocument
<1> QED  BY <1>5, <1>6

\* The rows of a document lead to all the vectors it has left.
LEMMA VectorsFirstCall ==
  ASSUME IInv, NEW p \in running, Works(p)
  PROVE  VectorsFirst'
<1>1. /\ p \in Processes /\ request[p] \in Request
      /\ Write(p) /\ Moved(p) /\ Report(p) /\ Footprint(p)
      /\ UNCHANGED <<topology, running, master>>
      /\ \A q \in Processes \ {p} : request'[q] = request[q]
      /\ deleting \subseteq deleting' /\ deleting \subseteq known /\ known \subseteq known'
  BY CallFacts DEF IInv
<1>2. SUFFICES ASSUME topology = "worker"
               PROVE  LET r == request'[p]
                      IN /\ r.step = "remove" => Chunks(r.doc) \cap saved' \subseteq r.left
                         /\ r.step \in {"delete_rows", "delete_document"}
                              => Chunks(r.doc) \cap saved' = {}
  BY <1>1 DEF VectorsFirst, IInv, OneWorker
<1>3. vectors[p] = saved /\ vectors'[p] = saved' /\ vectors \in [Processes -> SUBSET Chunk]
  BY <1>1, <1>2, OneWorkerCall DEF IInv, OneWorker, TypeOK
<1>4. /\ request[p].step = "remove" => Chunks(request[p].doc) \cap saved \subseteq request[p].left
      /\ request[p].step = "delete_rows" => Chunks(request[p].doc) \cap saved = {}
  BY <1>2 DEF IInv, VectorsFirst
<1>5. Finds(p) => Chunks(request[p].doc) \cap saved' \subseteq RowsOf(request[p].doc)
  <2>1. Finds(p) => request[p].doc \in known /\ saved' = saved
    BY DEF Finds, IInv, TypeOK, NoWrite, stores
  <2>2. \A c \in saved : c \in Chunks(request[p].doc) => c.doc = request[p].doc
    BY ChunkFacts DEF IInv, TypeOK
  <2> QED  BY <1>2, <2>1, <2>2 DEF IInv, VectorsStayOwned, RowsOf
<1>6. \A c : RemoveVector(p, c) => saved' = saved \ {c}
  BY <1>1, <1>2, <1>3 DEF RemoveVector, SetVectors
<1>7. CASE request'[p].step = "remove"
  <2>1. CASE Finds(p) /\ request'[p].doc = request[p].doc
             /\ request'[p].left = RowsOf(request[p].doc)
    BY <1>5, <1>7, <2>1
  <2>2. CASE Removes(p) /\ request'[p].doc = request[p].doc
             /\ \E c \in request[p].left :
                  RemoveVector(p, c) /\ request'[p].left = request[p].left \ {c}
    BY <1>4, <1>6, <1>7, <2>2 DEF Removes
  <2> QED  BY <1>1, <1>7, <2>1, <2>2 DEF Moved
<1>8. CASE request'[p].step \in {"delete_rows", "delete_document"}
  BY <1>1, <1>4, <1>8 DEF Moved, NoWrite, stores, DeleteChunks
<1> QED
  BY <1>7, <1>8

\* What was deleted stays so, and what is reported as deleted is.
LEMMA DeletedIsGoneCall ==
  ASSUME IInv, NEW p \in running, Works(p)
  PROVE  DeletedIsGone'
<1>1. /\ p \in Processes /\ request[p] \in Request
      /\ Write(p) /\ Moved(p) /\ Report(p) /\ Footprint(p)
      /\ UNCHANGED <<topology, running, master>>
      /\ \A q \in Processes \ {p} : request'[q] = request[q]
      /\ deleting \subseteq deleting' /\ deleting \subseteq known /\ known \subseteq known'
  BY CallFacts DEF IInv
<1>2. topology = "worker" => /\ vectors[p] = saved /\ vectors'[p] = saved'
                             /\ request[p].step # "save_deleted"
  BY <1>1, OneWorkerCall DEF IInv, OneWorker
<1>3. ASSUME NEW d \in gone
      PROVE  /\ d \notin DOMAIN docs' /\ Chunks(d) \cap rows' = {}
             /\ topology = "worker" => Chunks(d) \cap saved' = {}
  <2>1. d \in known
    BY DEF IInv, TypeOK
  <2> QED  BY <1>2, <2>1, NothingReturns DEF IInv, DeletedIsGone
<1>4. ASSUME NEW d \in gone', d \notin gone
      PROVE  /\ d \notin DOMAIN docs' /\ Chunks(d) \cap rows' = {}
             /\ topology = "worker" => Chunks(d) \cap saved' = {}
  <2>1. d = request[p].doc
        /\ \/ request[p].step = "delete_document" /\ DeleteDocument(p)
           \/ request[p].step = "save_deleted" /\ Snapshot(p)
    BY <1>1, <1>4 DEF Report
  <2>2. Chunks(d) \cap rows = {} /\ (request[p].step = "save_deleted" => d \notin DOMAIN docs)
    BY <1>1, <2>1 DEF IInv, NothingFollows
  <2>3. topology = "worker" /\ request[p].step = "delete_document" => Chunks(d) \cap saved = {}
    BY <2>1 DEF IInv, VectorsFirst
  <2> QED  BY <1>2, <2>1, <2>2, <2>3 DEF DeleteDocument, Snapshot
<1> QED
  BY <1>1, <1>3, <1>4 DEF DeletedIsGone

\* The file holds the answered documents because the process that saves it does.
LEMMA OwnerHasAllCall ==
  ASSUME IInv, NEW p \in running, Works(p)
  PROVE  OwnerHasAll'
<1>1. /\ p \in Processes /\ request[p] \in Request
      /\ Write(p) /\ Moved(p) /\ Report(p) /\ Footprint(p)
      /\ UNCHANGED <<topology, running, master>>
      /\ \A q \in Processes \ {p} : request'[q] = request[q]
      /\ deleting \subseteq deleting' /\ deleting \subseteq known /\ known \subseteq known'
  BY CallFacts DEF IInv
<1>2. TypeOK' /\ OneWorker' /\ KnownWhole'
  BY TypeOKCall, OneWorkerCall, KnownWholeCall DEF IInv
<1>3. CASE topology = "worker"
  <2>1. owner' = None /\ None \notin Processes /\ topology' = "worker"
    BY <1>1, <1>2, <1>3, NoneApart DEF OneWorker
  <2> QED  BY <1>2, <2>1 DEF OwnerHasAll, KnownWhole, TypeOK
<1>4. CASE topology = "local"
  <2>1. vectors \in [Processes -> SUBSET Chunk] /\ answered \subseteq known /\ running \subseteq Processes
    BY DEF IInv, TypeOK
  <2>2. CASE Snapshot(p)
    <3>1. saved' = vectors[p] /\ vectors' = vectors
          /\ owner' = IF owner \in {None, p} THEN p ELSE "several"
      BY <2>2 DEF Snapshot
    <3>2. ASSUME NEW d \in answered' \ deleting', owner' # "several"
          PROVE  Chunks(d) \subseteq vectors[p]
      <4>1. owner \in {None, p}
        BY <3>1, <3>2
      <4>2. CASE d \in answered
        BY <1>1, <1>4, <3>2, <4>1, <4>2 DEF IInv, OwnerHasAll
      <4>3. CASE d \notin answered
        <5>1. d = request[p].doc /\ request[p].step = "save_indexed"
          BY <1>1, <1>4, <3>2, <4>3 DEF Report
        <5> QED  BY <1>1, <5>1 DEF IInv, ChunksFollow
      <4> QED  BY <4>2, <4>3
    <3>3. owner' # None /\ (owner' \in Processes => owner' = p)
      BY <1>1, <3>1, NoneApart, SeveralApart
    <3> QED  BY <1>1, <3>1, <3>2, <3>3, SeveralApart DEF OwnerHasAll
  <2>3. CASE ~Snapshot(p)
    <3>1. owner' = owner /\ saved' = saved
      BY <1>1, <1>4, <2>3 DEF Write, NoWrite, stores, AddVectors, RemoveVector, SetVectors, SaveChunks,
         SaveDocument, DeleteChunks, DeleteDocument
    <3>2. answered' = answered
      BY <1>1, <1>4, <2>3 DEF Report
    <3>3. \A q \in Processes, d \in known \ deleting :
            Chunks(d) \cap vectors[q] \subseteq vectors'[q]
      BY <1>1, UntouchedStays DEF Footprint
    <3> QED  BY <1>1, <2>1, <3>1, <3>2, <3>3 DEF IInv, OwnerHasAll
  <2> QED  BY <2>2, <2>3
<1> QED  BY <1>3, <1>4, TopologiesKnown DEF IInv, TypeOK

\* A row is added by the indexing of its text.
LEMMA RowsAdded ==
  ASSUME IInv, NEW p \in running, Works(p), NEW d \in DOMAIN docs'
  PROVE  \/ d \in DOMAIN docs /\ docs'[d] = docs[d]
         \/ d = request[p].doc /\ Indexing(p) /\ docs'[d] = request[p].text
            /\ request[p].step = "document" /\ SaveDocument(p)
<1>1. /\ p \in Processes /\ request[p] \in Request
      /\ Write(p) /\ Moved(p) /\ Report(p) /\ Footprint(p)
      /\ UNCHANGED <<topology, running, master>>
      /\ \A q \in Processes \ {p} : request'[q] = request[q]
      /\ deleting \subseteq deleting' /\ deleting \subseteq known /\ known \subseteq known'
  BY CallFacts DEF IInv
<1>2. CASE d # request[p].doc
  BY <1>1, <1>2 DEF Footprint
<1>3. CASE request[p].step = "document" /\ SaveDocument(p)
  BY <1>3 DEF SaveDocument, Indexing
<1>4. CASE DeleteDocument(p)
  BY <1>4 DEF DeleteDocument
<1>5. CASE docs' = docs
  BY <1>5
<1> QED  BY <1>1, <1>2, <1>3, <1>4, <1>5 DEF Write, NoWrite, stores, AddVectors, RemoveVector,
           SetVectors, SaveChunks, DeleteChunks, Snapshot

\* An indexing that finds a row of its text where it found none has raced.
LEMMA RacesNotedCall ==
  ASSUME IInv, NEW p \in running, Works(p)
  PROVE  RacesNoted'
<1>1. /\ p \in Processes /\ request[p] \in Request
      /\ Write(p) /\ Moved(p) /\ Report(p) /\ Footprint(p)
      /\ UNCHANGED <<topology, running, master>>
      /\ \A q \in Processes \ {p} : request'[q] = request[q]
      /\ deleting \subseteq deleting' /\ deleting \subseteq known /\ known \subseteq known'
  BY CallFacts DEF IInv
<1>2. raced \subseteq raced'
      /\ \A q \in Processes \ {p} :
           (Indexing(p))' /\ (Indexing(q))' /\ request'[p].text \in Texts
             /\ request'[q].text = request'[p].text => request'[p].text \in raced'
  BY CallSummary DEF IInv
<1>3. (Indexing(p))' => request'[p].text \in Texts
  BY <1>1, TypeOKCall DEF IInv, TypeOK, Indexing, Steps, SqlSteps
<1>4. ASSUME NEW q \in Processes \ {p}, Indexing(q), request[q].text \notin raced'
      PROVE  RowsWith(request[q].text)' = {}
             /\ \A x \in Processes \ {p, q} : Indexing(x) => request[x].text # request[q].text
  <2>1. /\ RowsWith(request[q].text) = {}
        /\ \A x \in Processes \ {q} : Indexing(x) => request[x].text # request[q].text
    BY <1>2, <1>4 DEF IInv, RacesNoted
  <2>2. \A d \in DOMAIN docs' : docs'[d] # request[q].text
    BY <1>1, <1>4, <2>1, RowsAdded DEF RowsWith
  <2> QED  BY <1>1, <2>1, <2>2 DEF RowsWith
<1>5. ASSUME (Indexing(p))', request'[p].text \notin raced'
      PROVE  RowsWith(request[p].text)' = {}
  <2>1. \/ Draws(p) /\ request'[p].text = request[p].text
        \/ /\ Indexing(p) /\ request'[p].text = request[p].text
           /\ AddVectors(p) \/ SaveChunks(p)
    BY <1>1, <1>5 DEF Moved, Indexing
  <2>2. docs' = docs
    BY <2>1 DEF Draws, NoWrite, stores, AddVectors, SetVectors, SaveChunks
  <2>3. RowsWith(request[p].text) = {}
    BY <1>1, <1>2, <1>5, <2>1 DEF Draws, IInv, RacesNoted
  <2> QED  BY <2>1, <2>2, <2>3 DEF RowsWith
<1> QED
  BY <1>1, <1>2, <1>3, <1>4, <1>5 DEF RacesNoted, Indexing

\* A second row of a text is the work of a race.
LEMMA OneRowPerTextCall ==
  ASSUME IInv, NEW p \in running, Works(p)
  PROVE  OneRowPerText'
<1>1. /\ p \in Processes /\ request[p] \in Request
      /\ Write(p) /\ Moved(p) /\ Report(p) /\ Footprint(p)
      /\ UNCHANGED <<topology, running, master>>
      /\ \A q \in Processes \ {p} : request'[q] = request[q]
      /\ deleting \subseteq deleting' /\ deleting \subseteq known /\ known \subseteq known'
  BY CallFacts DEF IInv
<1>2. raced \subseteq raced'
  BY CallFacts DEF IInv
<1>3. SUFFICES ASSUME NEW d \in DOMAIN docs', NEW e \in DOMAIN docs', docs'[d] = docs'[e], d # e
               PROVE  docs'[d] \in raced'
  BY DEF OneRowPerText
<1>4. \A x \in DOMAIN docs' :
        \/ x \in DOMAIN docs /\ docs'[x] = docs[x]
        \/ x = request[p].doc /\ Indexing(p) /\ docs'[x] = request[p].text
  BY RowsAdded
<1>5. CASE d \in DOMAIN docs /\ docs'[d] = docs[d] /\ e \in DOMAIN docs /\ docs'[e] = docs[e]
  BY <1>2, <1>3, <1>5 DEF IInv, OneRowPerText
<1>6. CASE Indexing(p) /\ docs'[d] = request[p].text /\ RowsWith(request[p].text) # {}
  BY <1>1, <1>2, <1>6 DEF IInv, RacesNoted
<1> QED  BY <1>3, <1>4, <1>5, <1>6 DEF RowsWith

-----------------------------------------------------------------------------
(* The theorems *)

\* An idle request has written nothing and owes nothing.
LEMMA IdleRequest ==
  /\ Idle \in Request
  /\ Idle.step = "idle" /\ Idle.left = {} /\ Idle.step \notin Steps
BY DEF Idle, Request, Steps, SqlSteps

\* Nothing is stored, asked or answered at first.
LEMMA IInvInit == Init => IInv
<1> SUFFICES ASSUME Init PROVE IInv
  OBVIOUS
<1>1. TypeOK
  BY TypeOKInit
<1>2. \A p \in Processes : request[p].step = "idle"
  BY IdleRequest DEF Init
<1>3. DOMAIN docs = {}
  BY DEF Init
<1>4. OneWorker
  BY <1>2 DEF Init, OneWorker
<1> QED
  BY <1>1, <1>2, <1>3, <1>4 DEF IInv, Init, FreshDocument, ChunksFollow, NothingFollows,
     VectorsStayOwned, VectorsFirst, KnownWhole, DeletedIsGone, OwnerHasAll, RacesNoted,
     OneRowPerText, Indexing

\* A restart forgets the requests, and every process has the index of the file.
LEMMA IInvRestart == IInv /\ Restart => IInv'
<1> SUFFICES ASSUME IInv, Restart PROVE IInv'
  OBVIOUS
<1>1. /\ \A p \in Processes : request'[p] = Idle /\ request'[p].step = "idle"
                               /\ request'[p].left = {}
      /\ request' \in [Processes -> Request]
  BY IdleRequest DEF Restart
<1>2. /\ \A p \in running : p \in Processes /\ vectors'[p] = saved
      /\ vectors' \in [Processes -> SUBSET Chunk]
  BY DEF Restart, IInv, TypeOK
<1>3. owner' = (IF owner = "several" THEN owner ELSE None) /\ master' = saved
      /\ UNCHANGED <<topology, running, saved, rows, docs, asked, history, raced>>
      /\ session' = [p \in Processes |-> "clean"]
  BY DEF Restart
<1>4. TypeOK'
  BY <1>1, <1>2, <1>3 DEF IInv, TypeOK, history, Steps, SqlSteps
<1>5. OneWorker'
  BY <1>1, <1>2, <1>3 DEF IInv, OneWorker
<1>6. OwnerHasAll'
  BY <1>2, <1>3, SeveralApart, NoneApart DEF IInv, OwnerHasAll, history, TypeOK
<1>7. FreshDocument' /\ ChunksFollow' /\ NothingFollows' /\ VectorsFirst' /\ RacesNoted'
  BY <1>1, <1>2, <1>3 DEF FreshDocument, ChunksFollow, NothingFollows, VectorsFirst, RacesNoted,
     Indexing
<1>8. VectorsStayOwned' /\ KnownWhole' /\ DeletedIsGone' /\ OneRowPerText'
  BY <1>3 DEF IInv, VectorsStayOwned, KnownWhole, DeletedIsGone, OneRowPerText, history
<1> QED  BY <1>4, <1>5, <1>6, <1>7, <1>8 DEF IInv

\* A process forked anew has the index of the master: if it owned the file, the
\* file is no longer backed by a process that has it all.
LEMMA IInvRecycle == ASSUME IInv, NEW p \in running, Recycle(p) PROVE IInv'
<1>1. /\ p \in Processes /\ request'[p] = Idle /\ request'[p].step = "idle"
      /\ request'[p].left = {} /\ request' \in [Processes -> Request]
      /\ \A q \in Processes \ {p} : request'[q] = request[q]
  BY IdleRequest DEF Recycle, IInv, TypeOK
<1>2. /\ vectors'[p] = master /\ vectors' \in [Processes -> SUBSET Chunk]
      /\ \A q \in Processes \ {p} : vectors'[q] = vectors[q]
  BY DEF Recycle, IInv, TypeOK
<1>3. /\ topology = "local" /\ topology # "worker"
      /\ owner' = (IF owner = p THEN "several" ELSE owner)
      /\ UNCHANGED <<topology, running, master, saved, rows, docs, asked, session, history, raced>>
  BY DEF Recycle
<1>4. TypeOK'
  BY <1>1, <1>2, <1>3 DEF IInv, TypeOK, history, Steps, SqlSteps
<1>5. OwnerHasAll'
  <2>1. running \subseteq Processes /\ owner \in Processes \cup {None, "several"}
    BY DEF IInv, TypeOK
  <2>2. ASSUME NEW d \in answered \ deleting
        PROVE  /\ owner' # "several" => Chunks(d) \subseteq saved
               /\ owner' \in Processes => Chunks(d) \subseteq vectors'[owner']
               /\ owner' = None => /\ Chunks(d) \subseteq master
                                   /\ \A q \in running : Chunks(d) \subseteq vectors'[q]
    BY <1>1, <1>2, <1>3, <2>1, SeveralApart, NoneApart DEF IInv, OwnerHasAll
  <2> QED  BY <1>3, <2>2 DEF OwnerHasAll, history
<1>6. FreshDocument' /\ ChunksFollow' /\ NothingFollows' /\ RacesNoted'
  BY <1>1, <1>2, <1>3 DEF IInv, FreshDocument, ChunksFollow, NothingFollows, RacesNoted,
     Indexing, history, RowsWith
<1>7. OneWorker' /\ VectorsFirst'
  BY <1>3 DEF OneWorker, VectorsFirst
<1>8. VectorsStayOwned' /\ KnownWhole' /\ DeletedIsGone' /\ OneRowPerText'
  BY <1>3 DEF IInv, VectorsStayOwned, KnownWhole, DeletedIsGone, OneRowPerText, history
<1> QED  BY <1>4, <1>5, <1>6, <1>7, <1>8 DEF IInv

\* Every step keeps the invariant.
LEMMA IInvStep == IInv /\ [Next]_vars => IInv'
<1> SUFFICES ASSUME IInv, [Next]_vars PROVE IInv'
  OBVIOUS
<1>1. ASSUME NEW p \in running, Works(p) PROVE IInv'
  <2>1. TypeOK'
    BY <1>1, TypeOKCall DEF IInv
  <2>2. OneWorker' /\ FreshDocument' /\ ChunksFollow' /\ NothingFollows'
    BY <1>1, OneWorkerCall, FreshDocumentCall, ChunksFollowCall, NothingFollowsCall
  <2>3. VectorsStayOwned' /\ VectorsFirst' /\ KnownWhole' /\ DeletedIsGone' /\ OwnerHasAll'
    BY <1>1, VectorsStayOwnedCall, VectorsFirstCall, KnownWholeCall, DeletedIsGoneCall,
       OwnerHasAllCall
  <2>4. RacesNoted' /\ OneRowPerText'
    BY <1>1, RacesNotedCall, OneRowPerTextCall
  <2> QED  BY <2>1, <2>2, <2>3, <2>4 DEF IInv
<1>2. CASE Restart
  BY <1>2, IInvRestart
<1>3. ASSUME NEW p \in running, Recycle(p) PROVE IInv'
  BY <1>3, IInvRecycle
<1>4. CASE UNCHANGED vars
  BY <1>4 DEF vars, stores, history, IInv, TypeOK, OneWorker, FreshDocument, ChunksFollow,
     NothingFollows, VectorsStayOwned, VectorsFirst, KnownWhole, DeletedIsGone, OwnerHasAll,
     RacesNoted, OneRowPerText, Indexing, RowsWith
<1> QED  BY <1>1, <1>2, <1>3, <1>4 DEF Next

\* The strengthening holds in every reachable state.
THEOREM InductiveIInv == Spec => []IInv
BY IInvInit, IInvStep, PTL DEF Spec

\* Every store, request and history has its type, in both topologies.
THEOREM TypeCorrect == Spec => []TypeOK
<1>1. IInv => TypeOK
  BY DEF IInv
<1> QED  BY <1>1, InductiveIInv, PTL

\* In the worker a metadata row never strands, whichever step raises and
\* whenever the process dies: the text that answers "duplicate" is indexed.
THEOREM RowsNeverStrand == Spec => []CommittedComplete
<1>1. IInv => CommittedComplete
  BY DEF IInv, CommittedComplete, OneWorker, KnownWhole, TypeOK
<1> QED  BY <1>1, InductiveIInv, PTL

\* In the worker a deletion that fails midway can be asked for again, and finds
\* every vector that is left.
THEOREM VectorsAreOwned == Spec => []VectorsStayOwned
<1>1. IInv => VectorsStayOwned
  BY DEF IInv
<1> QED  BY <1>1, InductiveIInv, PTL

\* In both topologies a deletion that was reported stays so, whatever other
\* processes were doing with the document.
THEOREM DeletionIsFinal == Spec => []DeletedIsGone
<1>1. IInv => DeletedIsGone
  BY DEF IInv
<1> QED  BY <1>1, InductiveIInv, PTL

\* What was answered as indexed survives every failure and restart while one
\* process owns the index file, and its metadata survives in any case.
THEOREM AnsweredSurvivesWithOneOwner == Spec => []SurvivesWithOneOwner
<1>1. IInv => SurvivesWithOneOwner
  BY DEF IInv, SurvivesWithOneOwner, KnownWhole, OwnerHasAll, TypeOK
<1> QED  BY <1>1, InductiveIInv, PTL

\* by_hash never meets two rows of a text that was not indexed twice at a time.
THEOREM OneRowUnlessRaced == Spec => []OneRowPerText
<1>1. IInv => OneRowPerText
  BY DEF IInv
<1> QED  BY <1>1, InductiveIInv, PTL
=============================================================================
