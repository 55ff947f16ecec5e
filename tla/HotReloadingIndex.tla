------------------------- MODULE HotReloadingIndex -------------------------
(***************************************************************************)
(* A web replica's read-only view of the index: HotReloadingVectorIndex    *)
(* over the data directory that the worker of VersionedIndex writes. The   *)
(* two share only the manifest and the snapshot files, and no lock.        *)
(*                                                                         *)
(* A query searches the index once for each segment of its text            *)
(* (SearchPipeline.search), and each of those searches may reload first.   *)
(***************************************************************************)
EXTENDS VersionedIndex

CONSTANT Segments  \* searches a query makes

ASSUME SegmentsPositive == Segments \in Nat \ {0}

VARIABLES
  rpc,       \* what the replica does next: "idle", "manifest", "path",
             \* "exists", "load" or "search"
  current,   \* current_version, the first reading of the manifest
  path,      \* index_path(), the second: a version, 0 for None
  loaded,    \* _loaded_version
  view,      \* the ids in _index
  left,      \* searches left in the query being answered
  master,    \* what gunicorn's master loaded, which a forked worker inherits
  published, \* history: version |-> the ids it was published with
  from,      \* history: the version `view' was loaded from
  last       \* history: the version that answered last

replica == <<rpc, current, path, loaded, view, left, master, from, last>>
allVars == <<vars, replica, published>>

\* A process that has not constructed its index yet.
Nothing == [loaded |-> -1, view |-> {}, from |-> 0]

ReplicaInit ==
  /\ Init
  /\ rpc = "manifest" /\ current = 0 /\ path = 0 /\ loaded = -1 /\ view = {}
  /\ left = 0 /\ from = 0 /\ last = 0
  /\ master = Nothing
  /\ published = [v \in {0} |-> {}]

-----------------------------------------------------------------------------
(* search and _maybe_reload, one step for each look at the directory *)

\* Mistake: one search too many.
StartQueryPlusOne ==
  /\ rpc = "idle"
  /\ rpc' = "manifest" /\ left' = Segments + 1
  /\ UNCHANGED <<current, path, loaded, view, master, from, last>>

StartQuery ==
  /\ rpc = "idle"
  /\ rpc' = "manifest" /\ left' = Segments
  /\ UNCHANGED <<current, path, loaded, view, master, from, last>>

\* The index is there and its label is current: no reload. A constructor
\* (left = 0) ends here.
Proceed(l) == rpc' = IF l = 0 THEN "idle" ELSE "search"

\* Mistake: what is loaded once is never checked again.
ReadManifestOnce ==
  /\ rpc = "manifest"
  /\ current' = manifest
  /\ IF loaded # -1 THEN Proceed(left) ELSE rpc' = "path"
  /\ UNCHANGED <<path, loaded, view, left, master, from, last>>

ReadManifest ==
  /\ rpc = "manifest"
  /\ current' = manifest
  /\ IF loaded = manifest THEN Proceed(left) ELSE rpc' = "path"
  /\ UNCHANGED <<path, loaded, view, left, master, from, last>>

\* The manifest is read again for the file's name.
ReadPath ==
  /\ rpc = "path"
  /\ path' = manifest
  /\ rpc' = "exists"
  /\ UNCHANGED <<current, loaded, view, left, master, from, last>>

\* The first view of all is the master's: preload_app builds it before forking.
Constructed(state) ==
  /\ master' = IF master = Nothing THEN state ELSE master
  /\ UNCHANGED <<current, path, left, last>>

\* Mistakes: the label is read after the load; the file is loaded on top of
\* the index in use.
AdoptRereading(ids, v) ==
  /\ view' = ids /\ from' = v
  /\ loaded' = manifest
  /\ Proceed(left)
  /\ Constructed([loaded |-> manifest, view |-> ids, from |-> v])

AdoptMerging(ids, v) ==
  /\ view' = view \cup ids /\ from' = v
  /\ loaded' = current
  /\ Proceed(left)
  /\ Constructed([loaded |-> current, view |-> ids, from |-> v])

Adopt(ids, v) ==
  /\ view' = ids /\ from' = v
  /\ loaded' = current
  /\ Proceed(left)
  /\ Constructed([loaded |-> current, view |-> ids, from |-> v])

\* The index factory: no path, or a path that is not there, is an empty index.
Missing ==
  /\ rpc = "exists" /\ path \notin DOMAIN files
  /\ Adopt({}, path)

Exists ==
  /\ rpc = "exists" /\ path \in DOMAIN files
  /\ rpc' = "load"
  /\ UNCHANGED <<current, path, loaded, view, left, master, from, last>>

Load ==
  /\ rpc = "load" /\ path \in DOMAIN files /\ files[path].whole
  /\ Adopt(files[path].ids, path)

\* The file was pruned after the check: the query fails, the old view stays;
\* a constructor fails and the process is started again.
LoadRaises ==
  /\ rpc = "load"
  /\ path \in DOMAIN files => ~files[path].whole
  /\ rpc' = IF loaded = -1 THEN "manifest" ELSE "idle"
  /\ left' = 0
  /\ UNCHANGED <<current, path, loaded, view, master, from, last>>

Search ==
  /\ rpc = "search"
  /\ last' = from
  /\ left' = left - 1
  /\ rpc' = IF left = 1 THEN "idle" ELSE "manifest"
  /\ UNCHANGED <<current, path, loaded, view, master, from>>

\* gunicorn recycles the worker process (max_requests): the next one is forked
\* from the master, with the view the master loaded when it started.
Recycle ==
  /\ rpc = "idle"
  /\ loaded' = master.loaded /\ view' = master.view /\ from' = master.from
 
  /\ UNCHANGED <<rpc, current, path, left, master, last>>

\* The container is started again.
Restart ==
  /\ rpc = "idle"
  /\ rpc' = "manifest" /\ loaded' = -1 /\ view' = {} /\ from' = 0
  /\ master' = Nothing
  /\ UNCHANGED <<current, path, left, last>>

Reload == ReadManifest \/ ReadPath \/ Missing \/ Exists \/ Load \/ LoadRaises

ReplicaStep == StartQuery \/ Reload \/ Search

WriterStep ==
  /\ Next
  /\ published' = IF manifest' = manifest THEN published
                  ELSE [v \in DOMAIN published \cup {manifest'} |->
                          IF v = manifest' THEN files'[v].ids ELSE published[v]]
  /\ UNCHANGED replica

ReplicaNext ==
  \/ WriterStep
  \/ (ReplicaStep \/ Recycle \/ Restart) /\ UNCHANGED <<vars, published>>

ReplicaSpec == ReplicaInit /\ [][ReplicaNext]_allVars

\* Requests keep coming and each step of the replica is a local call that
\* returns. Recycling and the writer's steps need not happen.
FairReplicaSpec ==
  ReplicaSpec /\ WF_allVars(ReplicaStep /\ UNCHANGED <<vars, published>>)

-----------------------------------------------------------------------------
(* Properties *)

ReplicaTypeOK ==
  /\ rpc \in {"idle", "manifest", "path", "exists", "load", "search"}
  /\ current \in Nat /\ path \in Nat /\ loaded \in Nat \cup {-1}
  /\ view \in SUBSET Ids /\ left \in 0..Segments
  /\ master \in [loaded : Nat \cup {-1}, view : SUBSET Ids, from : 0..manifest]
  /\ last \in 0..manifest
  /\ from \in 0..manifest
  /\ published \in [0..manifest -> SUBSET Ids]

Serving == rpc = "search"

\* Readers never observe a half-updated index (hot_reloading_index.py:3-7):
\* what a replica searches is, whole, some version that was published. Not so
\* when that version was pruned before it was opened, which takes two
\* checkpoints within one reload: then it serves an empty index.
ServesPublishedOrPruned ==
  Serving => \/ view = published[from]
             \/ view = {} /\ from < manifest - 1

\* The label never promises more than the view holds: a replica that thinks
\* it is current is at least as new as its label, so the next check of the
\* manifest cannot leave it behind (hot_reloading_index.py:64-69).
LabelHonest == Serving => loaded <= from

\* A replica never answers from an older version than it did before, even
\* when its worker is forked anew from a master that loaded an old one.
ReadsMonotone == Serving => last <= from

\* A replica follows the manifest without a restart (docs/SCALING.md:56-58):
\* once the worker stops publishing, what it serves is the last version,
\* if the process is let live.
FollowsManifest ==
  <>[][~Recycle /\ ~Restart]_allVars => <>[](view = Open(manifest))
=============================================================================
