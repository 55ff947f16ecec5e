---------------------------- MODULE IndexingSaga ----------------------------
(***************************************************************************)
(* Documents on their way in and out of the system: IndexingPipeline.index *)
(* and DocumentDeleter.delete, which write the vector index and the        *)
(* metadata database one call after the other, with no transaction around  *)
(* them.                                                                   *)
(*                                                                         *)
(* A process runs one request or job at a time. In the worker topology one *)
(* process runs them all, its index is durable operation by operation (see *)
(* DurableIndex) and its SQLAlchemy session lives as long as it does. In   *)
(* the local topology every web process runs them, over the same database  *)
(* and on an index of its own, which snapshot() saves over the one file;   *)
(* every request has a session of its own, and gunicorn replaces a process *)
(* by a fork of its preloaded master. One tenant; chunk_id_for is taken to *)
(* be injective.                                                           *)
(***************************************************************************)
EXTENDS Integers

CONSTANTS
  Topologies,   \* how the service may be wired: "worker", "local"
  ForeignKeys,  \* TRUE when the database enforces chunks.document_id
  Failing,      \* topology |-> the steps that may raise
  Processes,    \* the processes of the service
  Texts,        \* normalized texts, by their content hash
  Orders,       \* the segments of a text
  Docs,         \* bound: the document ids there are to draw
  None          \* no document, no text, no process

ASSUME TopologiesKnown == Topologies \subseteq {"worker", "local"}
ASSUME ForeignKeysBoolean == ForeignKeys \in BOOLEAN
ASSUME NoneApart == None \notin Docs /\ None \notin Texts /\ None \notin Processes
ASSUME SeveralApart == "several" \notin Processes \cup {None}

VARIABLES
  topology, \* the wiring, chosen at deployment
  running,  \* the processes that take requests or jobs
  vectors,  \* process |-> chunk ids in its vector index
  saved,    \* chunk ids the index would hold after a restart
  master,   \* chunk ids the master process loaded when it was started
  rows,     \* chunk ids in the chunks table
  docs,     \* the documents table: document id |-> its text
  asked,    \* document ids drawn so far |-> the texts they were drawn for
  request,  \* process |-> what it works on
  session,  \* process |-> "clean", or "broken" by a statement not rolled back
  known,    \* history: documents that had a row at some time
  deleting, \* history: documents some deletion began to take apart
  gone,     \* history: documents a deletion reported as deleted
  answered, \* history: documents an indexing reported as indexed
  raced,    \* history: texts that two processes indexed at the same time
  owner     \* history: the only process that saved the index, or "several"

stores == <<vectors, saved, rows, docs>>
history == <<known, deleting, gone, answered>>
vars == <<topology, running, master, stores, asked, request, session, history, raced, owner>>

Chunk == [doc : Docs, order : Orders]
Chunks(d) == {[doc |-> d, order |-> o] : o \in Orders}
\* Mistake: the WHERE is missing.
EveryRow(d) == rows

RowsOf(d) == {c \in rows : c.doc = d}

SqlSteps == {"hash", "rows", "document", "lookup", "delete_rows", "delete_document"}
Steps == SqlSteps \cup {"add", "remove", "save_indexed", "save_deleted"}

ASSUME FailingSteps == Failing \in [Topologies -> SUBSET Steps]

\* step: the call made next; left: chunk ids whose vectors are still to be removed.
Idle == [step |-> "idle", text |-> None, doc |-> None, left |-> {}]

Init ==
  /\ topology \in Topologies
  /\ IF topology = "worker" THEN \E p \in Processes : running = {p} ELSE running = Processes
  /\ vectors = [p \in Processes |-> {}] /\ saved = {} /\ master = {}
  /\ rows = {} /\ docs = <<>> /\ asked = <<>>
  /\ request = [p \in Processes |-> Idle]
  /\ session = [p \in Processes |-> "clean"]
  /\ known = {} /\ deleting = {} /\ gone = {} /\ answered = {}
  /\ raced = {} /\ owner = None

-----------------------------------------------------------------------------
(* The writes, each with what it leaves durable *)

SetVectors(p, v) ==
  /\ vectors' = [vectors EXCEPT ![p] = v]
  /\ saved' = IF topology = "worker" THEN v ELSE saved
  /\ UNCHANGED <<rows, docs, known, owner>>

AddVectors(p) == SetVectors(p, vectors[p] \cup Chunks(request[p].doc))
RemoveVector(p, c) == SetVectors(p, vectors[p] \ {c})

SaveChunks(p) ==
  /\ rows' = rows \cup Chunks(request[p].doc)
  /\ UNCHANGED <<vectors, saved, docs, known, owner>>

SaveDocument(p) ==
  LET d == request[p].doc
  IN /\ docs' = [e \in DOMAIN docs \cup {d} |-> IF e = d THEN request[p].text ELSE docs[e]]
     /\ known' = known \cup {d}
     /\ UNCHANGED <<vectors, saved, rows, owner>>

DeleteChunks(p) ==
  /\ rows' = rows \ RowsOf(request[p].doc)
  /\ UNCHANGED <<vectors, saved, docs, known, owner>>

DeleteDocument(p) ==
  /\ docs' = [e \in DOMAIN docs \ {request[p].doc} |-> docs[e]]
  /\ UNCHANGED <<vectors, saved, rows, known, owner>>

\* The file is written over with this process's index.
Snapshot(p) ==
  /\ saved' = vectors[p]
  /\ owner' = IF owner \in {None, p} THEN p ELSE "several"
  /\ UNCHANGED <<vectors, rows, docs, known>>

NoWrite == UNCHANGED <<stores, known, owner>>

-----------------------------------------------------------------------------
(* How a call returns, and how it does not *)

\* The call `s' of p returns; an SQL statement needs a clean session.
Returns(p, s) ==
  /\ request[p].step = s
  /\ s \in SqlSteps => session[p] = "clean"
  /\ UNCHANGED session

Goes(p, s, t) == Returns(p, s) /\ request' = [request EXCEPT ![p].step = t]
Ends(p, s) == Returns(p, s) /\ request' = [request EXCEPT ![p] = Idle]

\* An exception leaves index() or delete() where it is. No step is undone.
Fails(p) ==
  /\ request' = [request EXCEPT ![p] = Idle]
  /\ session' = IF topology = "worker" /\ request[p].step \in SqlSteps
                THEN [session EXCEPT ![p] = "broken"] ELSE session
  /\ UNCHANGED <<asked, deleting, gone, answered>>

\* A commit that raises may have taken place, and so may an index operation
\* whose checkpoint raises.
Raises(p) ==
  LET s == request[p].step
      clean == session[p] = "clean"
  IN /\ s \in Failing[topology]
     /\ Fails(p)
     /\ \/ NoWrite
        \/ s = "add" /\ AddVectors(p)
        \/ s = "rows" /\ clean /\ ~ForeignKeys /\ SaveChunks(p)
        \/ s = "document" /\ clean /\ SaveDocument(p)
        \/ s = "remove" /\ \E c \in request[p].left : RemoveVector(p, c)
        \/ s = "delete_rows" /\ clean /\ DeleteChunks(p)
        \/ s = "delete_document" /\ clean /\ DeleteDocument(p)
        \/ s \in {"save_indexed", "save_deleted"} /\ Snapshot(p)

RowsWith(t) == {d \in DOMAIN docs : docs[d] = t}

\* Nothing in the worker rolls a failed transaction back: every statement
\* raises until the process ends. The chunks are inserted before the document
\* they refer to, which a foreign key does not allow. And by_hash raises when
\* two documents have the text.
Refused(p) ==
  LET s == request[p].step
  IN \/ s \in SqlSteps /\ session[p] = "broken"
     \/ s = "rows" /\ ForeignKeys
     \/ s = "hash" /\ \E d, e \in RowsWith(request[p].text) : d # e

StatementRefused(p) == Refused(p) /\ Fails(p) /\ NoWrite

\* All processes die in the middle of whatever they do, and there are new ones,
\* with the index of the file. No request resumes; a job may be redelivered
\* (JobExecution), a client may ask again.
Restart ==
  /\ request' = [p \in Processes |-> Idle]
  /\ session' = [p \in Processes |-> "clean"]
  /\ vectors' = [p \in Processes |-> IF p \in running THEN saved ELSE {}]
  /\ master' = saved
  /\ owner' = IF owner = "several" THEN owner ELSE None
  /\ UNCHANGED <<topology, running, saved, rows, docs, asked, history, raced>>

\* A web process that served max_requests, or was killed, is forked anew.
Recycle(p) ==
  /\ topology = "local"
  /\ request' = [request EXCEPT ![p] = Idle]
  /\ vectors' = [vectors EXCEPT ![p] = master]
  /\ owner' = IF owner = p THEN "several" ELSE owner
  /\ UNCHANGED <<topology, running, master, saved, rows, docs, asked, session, history, raced>>

-----------------------------------------------------------------------------
(* IndexingPipeline.index *)

StartIndex(p, t) ==
  /\ request[p].step = "idle"
  /\ request' = [request EXCEPT ![p] = [step |-> "hash", text |-> t, doc |-> None, left |-> {}]]
  /\ NoWrite
  /\ UNCHANGED <<session, asked, deleting, gone, answered>>

\* by_hash finds the text.
Duplicate(p) ==
  /\ \E d \in DOMAIN docs : RowsWith(request[p].text) = {d}
  /\ Ends(p, "hash")
  /\ NoWrite
  /\ UNCHANGED <<asked, deleting, gone, answered>>

\* Mistake: no look at by_hash.
DrawUnchecked(p) ==
  /\ Returns(p, "hash")
  /\ \E d \in Docs \ DOMAIN asked :
       /\ asked' = [e \in DOMAIN asked \cup {d} |-> IF e = d THEN request[p].text ELSE asked[e]]
       /\ request' = [request EXCEPT ![p].step = "add", ![p].doc = d]
  /\ NoWrite
  /\ UNCHANGED <<deleting, gone, answered>>

\* A new uuid for every attempt.
DrawDocument(p) ==
  /\ RowsWith(request[p].text) = {}
  /\ Returns(p, "hash")
  /\ \E d \in Docs \ DOMAIN asked :
       /\ asked' = [e \in DOMAIN asked \cup {d} |-> IF e = d THEN request[p].text ELSE asked[e]]
       /\ request' = [request EXCEPT ![p].step = "add", ![p].doc = d]
  /\ NoWrite
  /\ UNCHANGED <<deleting, gone, answered>>

\* Mistake: an exception of add() is swallowed.
IndexVectorsOrNot(p) ==
  /\ AddVectors(p) \/ NoWrite
  /\ Goes(p, "add", "rows")
  /\ UNCHANGED <<asked, deleting, gone, answered>>

IndexVectors(p) ==
  /\ AddVectors(p) /\ Goes(p, "add", "rows")
  /\ UNCHANGED <<asked, deleting, gone, answered>>

IndexChunks(p) ==
  /\ ~ForeignKeys
  /\ SaveChunks(p) /\ Goes(p, "rows", "document")
  /\ UNCHANGED <<asked, deleting, gone, answered>>

\* Mistake: the answer does not wait for the snapshot.
IndexDocumentEarly(p) ==
  /\ SaveDocument(p) /\ Ends(p, "document")
  /\ answered' = answered \cup {request[p].doc}
  /\ UNCHANGED <<asked, deleting, gone>>

\* The last step, where snapshot_after_write is not set.
IndexDocument(p) ==
  /\ SaveDocument(p)
  /\ IF topology = "local"
     THEN Goes(p, "document", "save_indexed") /\ UNCHANGED answered
     ELSE Ends(p, "document") /\ answered' = answered \cup {request[p].doc}
  /\ UNCHANGED <<asked, deleting, gone>>

SnapshotIndexed(p) ==
  /\ Snapshot(p) /\ Ends(p, "save_indexed")
  /\ answered' = answered \cup {request[p].doc}
  /\ UNCHANGED <<asked, deleting, gone>>

-----------------------------------------------------------------------------
(* DocumentDeleter.delete *)

StartDelete(p, d) ==
  /\ request[p].step = "idle"
  /\ request' = [request EXCEPT ![p] = [step |-> "lookup", text |-> None, doc |-> d, left |-> {}]]
  /\ NoWrite
  /\ UNCHANGED <<session, asked, deleting, gone, answered>>

NotFound(p) ==
  /\ request[p].doc \notin DOMAIN docs
  /\ Ends(p, "lookup")
  /\ NoWrite
  /\ UNCHANGED <<asked, deleting, gone, answered>>

Found(p) ==
  /\ request[p].doc \in DOMAIN docs
  /\ Returns(p, "lookup")
  /\ request' = [request EXCEPT ![p].step = "remove", ![p].left = RowsOf(request[p].doc)]
  /\ deleting' = deleting \cup {request[p].doc}
  /\ NoWrite
  /\ UNCHANGED <<asked, gone, answered>>

\* Mistake: only the first vector is removed.
RemoveOne(p, c) ==
  /\ RemoveVector(p, c)
  /\ Returns(p, "remove")
  /\ request' = [request EXCEPT ![p].left = {}]
  /\ UNCHANGED <<asked, deleting, gone, answered>>

Remove(p, c) ==
  /\ RemoveVector(p, c)
  /\ Returns(p, "remove")
  /\ request' = [request EXCEPT ![p].left = @ \ {c}]
  /\ UNCHANGED <<asked, deleting, gone, answered>>

\* Mistake: the metadata does not wait for the vectors.
AllRemovedOrNot(p) ==
  /\ Goes(p, "remove", "delete_rows")
  /\ NoWrite
  /\ UNCHANGED <<asked, deleting, gone, answered>>

AllRemoved(p) ==
  /\ request[p].left = {}
  /\ Goes(p, "remove", "delete_rows")
  /\ NoWrite
  /\ UNCHANGED <<asked, deleting, gone, answered>>

DropChunks(p) ==
  /\ DeleteChunks(p) /\ Goes(p, "delete_rows", "delete_document")
  /\ UNCHANGED <<asked, deleting, gone, answered>>

DropDocument(p) ==
  /\ DeleteDocument(p)
  /\ IF topology = "local"
     THEN Goes(p, "delete_document", "save_deleted") /\ UNCHANGED gone
     ELSE Ends(p, "delete_document") /\ gone' = gone \cup {request[p].doc}
  /\ UNCHANGED <<asked, deleting, answered>>

SnapshotDeleted(p) ==
  /\ Snapshot(p) /\ Ends(p, "save_deleted")
  /\ gone' = gone \cup {request[p].doc}
  /\ UNCHANGED <<asked, deleting, answered>>

-----------------------------------------------------------------------------
Index(p) ==
  \/ \E t \in Texts : StartIndex(p, t)
  \/ Duplicate(p) \/ DrawDocument(p) \/ IndexVectors(p) \/ IndexChunks(p)
  \/ IndexDocument(p) \/ SnapshotIndexed(p)

Delete(p) ==
  \/ \E d \in known : StartDelete(p, d)
  \/ NotFound(p) \/ Found(p)
  \/ \E c \in request[p].left : Remove(p, c)
  \/ AllRemoved(p) \/ DropChunks(p) \/ DropDocument(p) \/ SnapshotDeleted(p)

Indexing(p) == request[p].step \in {"add", "rows", "document"}

Works(p) ==
  /\ Index(p) \/ Delete(p) \/ Raises(p) \/ StatementRefused(p)
  /\ raced' = raced \cup
       {t \in Texts : \E q \in Processes \ {p} :
          (Indexing(p) /\ Indexing(q))' /\ request'[p].text = t /\ request'[q].text = t}
  /\ UNCHANGED <<topology, running, master>>

Next ==
  \/ \E p \in running : Works(p)
  \/ Restart
  \/ \E p \in running : Recycle(p)

Spec == Init /\ [][Next]_vars

-----------------------------------------------------------------------------
(* Properties *)

Request ==
  [step : Steps \cup {"idle"}, text : Texts \cup {None}, doc : Docs \cup {None},
   left : SUBSET Chunk]

\* A request has a document from the moment it draws or names one, and has only
\* rows of that document to remove.
TypeOK ==
  /\ topology \in Topologies /\ running \subseteq Processes
  /\ vectors \in [Processes -> SUBSET Chunk] /\ saved \subseteq Chunk
  /\ master \subseteq Chunk /\ rows \subseteq Chunk
  /\ asked \in [DOMAIN asked -> Texts] /\ DOMAIN asked \subseteq Docs
  /\ docs \in [DOMAIN docs -> Texts] /\ DOMAIN docs \subseteq known
  /\ request \in [Processes -> Request]
  /\ \A p \in Processes :
       LET r == request[p]
       IN /\ r.step = "hash" => r.text \in Texts /\ r.left = {}
          /\ r.step \in Steps \ {"hash"} => r.doc \in DOMAIN asked
          /\ r.step \in {"add", "rows", "document"} => r.text = asked[r.doc]
          /\ r.left \subseteq Chunks(r.doc)
  /\ session \in [Processes -> {"clean", "broken"}]
  /\ known \subseteq DOMAIN asked
  /\ deleting \subseteq known /\ gone \subseteq deleting /\ answered \subseteq known
  /\ raced \subseteq Texts /\ owner \in Processes \cup {None, "several"}

\* A metadata row never strands (indexing_pipeline.py:5-8): a document whose
\* hash answers "duplicate" is in the worker's index with all its chunks,
\* unless a deletion began to take it apart.
CommittedComplete ==
  topology = "worker" =>
    \A d \in DOMAIN docs \ deleting, p \in running :
      Chunks(d) \subseteq vectors[p] \cap saved \cap rows

\* No live vectors without the metadata that leads a deletion to them
\* (document_deleter.py:7-10): whichever step of a deletion fails in the
\* worker, the vectors left of a document that was ever indexed can still be
\* deleted.
VectorsStayOwned ==
  topology = "worker" =>
    \A c \in saved : c.doc \in known => c \in rows /\ c.doc \in DOMAIN docs

\* What a deletion reported as deleted has no row, and in the worker no vector
\* either, for good: whatever other processes were doing with the document,
\* and even when the deletion is the retry of one that failed midway.
DeletedIsGone ==
  \A d \in gone :
    /\ d \notin DOMAIN docs
    /\ Chunks(d) \cap rows = {}
    /\ topology = "worker" => Chunks(d) \cap saved = {}

\* What was reported as indexed survives any later failure or restart (NFR-07,
\* ARCHITECTURE.md:88): by_hash will answer "duplicate", so it must be there.
AnsweredSurvives ==
  \A d \in answered \ deleting :
    d \in DOMAIN docs /\ Chunks(d) \subseteq saved \cap rows

\* The same while one process owns the index (SCALING.md:34): its metadata
\* survives in any case, its vectors until a second process, or a fork of the
\* master in the place of the first, saves an index of its own over the file.
SurvivesWithOneOwner ==
  \A d \in answered \ deleting :
    /\ d \in DOMAIN docs /\ Chunks(d) \subseteq rows
    /\ owner # "several" => Chunks(d) \subseteq saved

\* by_hash never meets two rows (scalar_one_or_none would raise), unless two
\* processes were indexing the text at the same time.
OneRowPerText ==
  \A d, e \in DOMAIN docs : docs[d] = docs[e] /\ d # e => docs[d] \in raced

\* A statement fails by a fault of its own: none is refused because of what the
\* code itself did before.
FailsOnlyByFault == [][~ \E p \in running : StatementRefused(p)]_vars
=============================================================================
