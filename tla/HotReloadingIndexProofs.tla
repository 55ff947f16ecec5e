----------------------- MODULE HotReloadingIndexProofs -----------------------
(***************************************************************************)
(* Theorems about HotReloadingIndex: what a web replica may serve while    *)
(* the worker of VersionedIndex writes, crashes, restarts and prunes, for  *)
(* every number of versions and of searches in a query.                    *)
(***************************************************************************)
EXTENDS HotReloadingIndex, VersionedIndexProofs

-----------------------------------------------------------------------------
(* The inductive invariant *)

\* Every snapshot up to the manifest's is what was published under its name;
\* the directory holds no version beyond the one being written.
FilesArePublished ==
  /\ published[0] = {}
  /\ \A v \in DOMAIN files :
       /\ 0 < v /\ v <= manifest + 1
       /\ v <= manifest => files[v] = Snapshot(published[v])

\* ids were loaded under the name v: they are that version, or v had been
\* pruned.
LoadedAs(ids, v) == ids = published[v] \/ (ids = {} /\ v < manifest - 1)

\* What a process serves, and what the master would give to the next.
ViewsAreVersions == LoadedAs(view, from) /\ LoadedAs(master.view, master.from)

\* No label promises more than the view beside it holds.
LabelsHonest == loaded <= from /\ master.loaded <= master.from

\* Within one reload: the two readings of the manifest, in order, and the
\* version answered before them both.
ReadingsInOrder ==
  /\ path <= manifest /\ current <= manifest
  /\ rpc \in {"path", "exists", "load"} => last <= current
  /\ rpc \in {"exists", "load"} => current <= path

\* A search runs only while the query has one left.
SearchesLeft == rpc = "search" => left # 0

RInv ==
  /\ ReplicaTypeOK
  /\ FilesArePublished
  /\ ViewsAreVersions
  /\ LabelsHonest
  /\ ReadingsInOrder
  /\ SearchesLeft
  /\ ReadsMonotone

\* Before the worker or the replica did anything.
LEMMA InitRInv == ReplicaInit => IInv /\ RInv
<1> SUFFICES ASSUME ReplicaInit PROVE RInv
  BY InitIInv DEF ReplicaInit
<1>1. manifest = 0 /\ DOMAIN files = {} /\ published = [v \in {0} |-> {}] /\ 0..0 = {0}
  BY DEF ReplicaInit, Init
<1>2. published \in [0..manifest -> SUBSET Ids] /\ published[0] = {}
  BY <1>1
<1> QED
  BY <1>1, <1>2, SegmentsPositive DEF ReplicaInit, RInv, ReplicaTypeOK, Nothing,
     FilesArePublished, ViewsAreVersions, LoadedAs, LabelsHonest, ReadingsInOrder,
     SearchesLeft, ReadsMonotone, Serving

-----------------------------------------------------------------------------
(* The worker writes under the replica *)

\* The only file a step of the worker may add is the next version's.
LEMMA FilesFrom ==
  ASSUME IInv, [Next]_vars, TruncateReturns, manifest' = manifest
  PROVE  \A v \in DOMAIN files' : v \in DOMAIN files \/ v = manifest + 1
<1> USE DEF disk, memory, IInv, Coherent
<1>1. ASSUME NEW s, files' = Put(version + 1, s), manifest = version
      PROVE  \A v \in DOMAIN files' : v \in DOMAIN files \/ v = manifest + 1
  BY <1>1 DEF Put
<1>2. CASE CrashInWrite
  BY <1>1, <1>2 DEF CrashInWrite
<1>3. CASE Write
  BY <1>1, <1>3 DEF Write
<1>4. CASE CheckpointFails
  <2>1. pc # "truncate" /\ pc # "down"
    BY <1>4, FailingStepsKnown DEF CheckpointFails, TruncateReturns
  <2>2. files' = files \/ files' = Put(version + 1, HalfWritten)
    BY <1>4 DEF CheckpointFails
  <2> QED  BY <1>1, <1>4, <2>1, <2>2
<1>5. ASSUME NEW v \in DOMAIN files, Prune(v) PROVE DOMAIN files' \subseteq DOMAIN files
  BY <1>5 DEF Prune
<1>6. \/ CrashInWrite \/ Write \/ CheckpointFails
      \/ \E v \in DOMAIN files : Prune(v)
      \/ files' = files
  BY DEF Next, Operation, Checkpoint, Start, Crash, Log, LogFails, CrashInLog,
     ApplyPending, StartCheckpoint, Commit, Truncate, EndCheckpoint, vars
<1> QED  BY <1>2, <1>3, <1>4, <1>5, <1>6

\* A step of the worker publishes one version more or none.
LEMMA WriterPublishes ==
  ASSUME IInv, RInv, WriterStep, TruncateReturns
  PROVE  /\ manifest \in Nat /\ manifest' \in {manifest, manifest + 1}
         /\ published' \in [0..manifest' -> SUBSET Ids]
         /\ \A v \in 0..manifest : published'[v] = published[v]
         /\ FilesArePublished'
<1> USE DEF RInv
<1>1. /\ IInv' /\ manifest \in Nat /\ version \in Nat /\ index \in SUBSET Ids
      /\ manifest' = manifest \/ Commit
      /\ \A v \in DOMAIN files \cap DOMAIN files' :
           v <= manifest => files'[v] = files[v]
  BY ImmutableStep, TypeOKStep, CoherentStep, DurableStep DEF WriterStep, IInv, TypeOK
<1>2. published \in [0..manifest -> SUBSET Ids]
  BY DEF ReplicaTypeOK
<1>3. CASE Commit
  <2>1. /\ manifest' = manifest + 1 /\ manifest + 1 \in DOMAIN files
        /\ files' = files /\ files[manifest + 1] = Snapshot(index)
    BY <1>1, <1>3 DEF Commit, IInv, Coherent
  <2>2. published' = [v \in 0..manifest' |-> IF v = manifest' THEN index ELSE published[v]]
    <3>1. DOMAIN published \cup {manifest'} = 0..manifest'
      BY <1>1, <1>2, <2>1
    <3>2. manifest' # manifest /\ files'[manifest'].ids = index
      BY <1>1, <2>1 DEF Snapshot
    <3> QED  BY <3>1, <3>2 DEF WriterStep
  <2>3. \A v \in 0..manifest : published'[v] = published[v]
    BY <1>1, <2>1, <2>2
  <2>4. FilesArePublished'
    BY <1>1, <2>1, <2>2, <2>3 DEF FilesArePublished, IInv, TypeOK
  <2> QED  BY <1>1, <1>2, <2>1, <2>2, <2>3, <2>4
<1>4. CASE manifest' = manifest
  <2>1. published' = published
    BY <1>4 DEF WriterStep
  <2>2. \A v \in DOMAIN files' : v \in DOMAIN files \/ (0 < v /\ v = manifest + 1)
    BY <1>1, <1>4, FilesFrom DEF WriterStep
  <2>3. FilesArePublished'
    BY <1>1, <1>4, <2>1, <2>2 DEF FilesArePublished, IInv, TypeOK
  <2> QED  BY <1>1, <1>2, <1>4, <2>1, <2>3
<1> QED  BY <1>1, <1>3, <1>4

\* So it leaves everything the replica holds as true as it was.
LEMMA RInvWriter ==
  ASSUME IInv, RInv, WriterStep, TruncateReturns
  PROVE  RInv'
<1> USE DEF replica
<1>1. /\ manifest \in Nat /\ manifest' \in {manifest, manifest + 1}
      /\ published' \in [0..manifest' -> SUBSET Ids]
      /\ \A v \in 0..manifest : published'[v] = published[v]
      /\ FilesArePublished'
  BY WriterPublishes
<1>2. from \in 0..manifest /\ master.from \in 0..manifest
  BY DEF RInv, ReplicaTypeOK
<1>3. ReplicaTypeOK'
  BY <1>1 DEF WriterStep, RInv, ReplicaTypeOK
<1>4. ASSUME NEW ids, NEW v \in 0..manifest, LoadedAs(ids, v)
      PROVE  ids = published'[v] \/ (ids = {} /\ v < manifest' - 1)
  <2>1. published'[v] = published[v]
    BY <1>1
  <2>2. v < manifest - 1 => v < manifest' - 1
    <3>1. CASE manifest' = manifest
      BY <3>1
    <3>2. CASE manifest' = manifest + 1
      BY <1>1, <3>2
    <3> QED  BY <1>1, <3>1, <3>2
  <2> QED  BY <1>4, <2>1, <2>2 DEF LoadedAs
<1>5. ViewsAreVersions'
  BY <1>2, <1>4 DEF WriterStep, RInv, ViewsAreVersions, LoadedAs
<1> QED
  BY <1>1, <1>3, <1>5 DEF WriterStep, RInv, ReplicaTypeOK, LabelsHonest,
     ReadingsInOrder, SearchesLeft, ReadsMonotone, Serving

-----------------------------------------------------------------------------
(* The replica looks at the directory *)

\* What the reload finds under the name it read is what was published, or
\* nothing: and nothing only when two versions more were published since.
LEMMA FoundAsPublished ==
  ASSUME IInv, RInv, path \in Nat
  PROVE  /\ path \in DOMAIN files => files[path].ids = published[path]
         /\ path \notin DOMAIN files => LoadedAs({}, path)
<1>1. manifest \in Nat /\ path <= manifest
  BY DEF IInv, TypeOK, RInv, ReadingsInOrder
<1>2. path \in DOMAIN files => files[path].ids = published[path]
  BY <1>1 DEF RInv, FilesArePublished, Snapshot
<1>3. ASSUME path \notin DOMAIN files PROVE path = 0 \/ path < manifest - 1
  BY <1>1, <1>3 DEF IInv, SnapshotsWhole, ManifestWhole, PreviousKept
<1> QED  BY <1>2, <1>3 DEF RInv, FilesArePublished, LoadedAs

\* Adopting what was found under the path read keeps the invariant.
LEMMA RInvAdopt ==
  ASSUME IInv, RInv, NEW ids \in SUBSET Ids, LoadedAs(ids, path),
         rpc \in {"exists", "load"}, Adopt(ids, path), UNCHANGED <<vars, published>>
  PROVE  RInv'
<1> USE DEF vars, disk
<1>1. /\ manifest \in Nat /\ path \in 0..manifest /\ current \in Nat
      /\ left \in 0..Segments /\ current <= path /\ last <= current
      /\ last \in 0..manifest
  BY DEF IInv, TypeOK, RInv, ReplicaTypeOK, ReadingsInOrder
<1>2. /\ view' = ids /\ from' = path /\ loaded' = current
      /\ rpc' = IF left = 0 THEN "idle" ELSE "search"
      /\ UNCHANGED <<current, path, left, last>>
      /\ master' = IF master = Nothing
                     THEN [loaded |-> current, view |-> ids, from |-> path] ELSE master
  BY DEF Adopt, Proceed, Constructed
<1>3. ReplicaTypeOK'
  BY <1>1, <1>2 DEF RInv, ReplicaTypeOK
<1>4. ViewsAreVersions' /\ LabelsHonest'
  BY <1>1, <1>2 DEF RInv, ViewsAreVersions, LoadedAs, LabelsHonest
<1> QED
  BY <1>1, <1>2, <1>3, <1>4 DEF RInv, FilesArePublished, ReadingsInOrder,
     SearchesLeft, ReadsMonotone, Serving

\* Each step of a query or of a reload keeps it too.
LEMMA RInvReplica ==
  ASSUME IInv, RInv, ReplicaStep \/ Recycle \/ Restart, UNCHANGED <<vars, published>>
  PROVE  RInv'
<1> USE DEF vars, disk
<1>1. /\ manifest \in Nat /\ path \in Nat /\ path <= manifest
      /\ left \in 0..Segments /\ Segments \in Nat /\ Segments # 0
      /\ last \in 0..manifest /\ from \in 0..manifest
  BY SegmentsPositive DEF IInv, TypeOK, RInv, ReplicaTypeOK, ReadingsInOrder
<1>2. ASSUME UNCHANGED <<view, from, loaded, master>>
      PROVE  FilesArePublished' /\ ViewsAreVersions' /\ LabelsHonest'
  BY <1>2 DEF RInv, FilesArePublished, ViewsAreVersions, LoadedAs, LabelsHonest
<1>3. CASE StartQuery
  BY <1>1, <1>2, <1>3 DEF StartQuery, RInv, ReplicaTypeOK, ReadingsInOrder,
     SearchesLeft, ReadsMonotone, Serving
<1>4. CASE ReadManifest
  BY <1>1, <1>2, <1>4 DEF ReadManifest, Proceed, RInv, ReplicaTypeOK, ReadingsInOrder,
     SearchesLeft, ReadsMonotone, Serving, LabelsHonest
<1>5. CASE ReadPath
  BY <1>1, <1>2, <1>5 DEF ReadPath, RInv, ReplicaTypeOK, ReadingsInOrder,
     SearchesLeft, ReadsMonotone, Serving
<1>6. CASE Missing
  BY <1>1, <1>6, FoundAsPublished, RInvAdopt DEF Missing
<1>7. CASE Exists
  BY <1>1, <1>2, <1>7 DEF Exists, RInv, ReplicaTypeOK, ReadingsInOrder,
     SearchesLeft, ReadsMonotone, Serving
<1>8. CASE Load
  <2>1. published[path] \in SUBSET Ids /\ LoadedAs(published[path], path)
    BY <1>1 DEF RInv, ReplicaTypeOK, LoadedAs
  <2> QED  BY <1>1, <1>8, <2>1, FoundAsPublished, RInvAdopt DEF Load
<1>9. CASE LoadRaises
  BY <1>1, <1>2, <1>9 DEF LoadRaises, RInv, ReplicaTypeOK, ReadingsInOrder,
     SearchesLeft, ReadsMonotone, Serving
<1>10. CASE Search
  BY <1>1, <1>2, <1>10 DEF Search, RInv, ReplicaTypeOK, ReadingsInOrder,
     SearchesLeft, ReadsMonotone, Serving
<1>11. CASE Recycle
  BY <1>1, <1>11 DEF Recycle, RInv, ReplicaTypeOK, ReadingsInOrder, FilesArePublished,
     ViewsAreVersions, LoadedAs, LabelsHonest, SearchesLeft, ReadsMonotone, Serving
<1>12. CASE Restart
  BY <1>1, <1>12 DEF Restart, Nothing, RInv, ReplicaTypeOK, ReadingsInOrder,
     FilesArePublished, ViewsAreVersions, LoadedAs, LabelsHonest, SearchesLeft,
     ReadsMonotone, Serving
<1> QED
  BY <1>3, <1>4, <1>5, <1>6, <1>7, <1>8, <1>9, <1>10, <1>11, <1>12
     DEF ReplicaStep, Reload

-----------------------------------------------------------------------------
(* Theorems *)

\* The worker keeps its own invariant, with or without a replica reading.
LEMMA InductiveRInv ==
  ASSUME TruncateReturns
  PROVE  ReplicaSpec => [](IInv /\ RInv)
<1>1. ASSUME IInv, RInv, [ReplicaNext]_allVars PROVE IInv' /\ RInv'
  <2>1. CASE WriterStep
    BY <1>1, <2>1, RInvWriter, TypeOKStep, CoherentStep, DurableStep
       DEF WriterStep, IInv
  <2>2. CASE (ReplicaStep \/ Recycle \/ Restart) /\ UNCHANGED <<vars, published>>
    BY <1>1, <2>2, RInvReplica, TypeOKStep, CoherentStep, DurableStep DEF IInv
  <2>3. CASE UNCHANGED allVars
    <3>1. IInv'
      BY <1>1, <2>3, TypeOKStep, CoherentStep, DurableStep DEF IInv, allVars
    <3> QED
      BY <1>1, <2>3, <3>1 DEF allVars, vars, disk, replica, RInv, ReplicaTypeOK,
         FilesArePublished, ViewsAreVersions, LoadedAs, LabelsHonest, ReadingsInOrder,
         SearchesLeft, ReadsMonotone, Serving
  <2> QED  BY <1>1, <2>1, <2>2, <2>3 DEF ReplicaNext
<1> QED  BY <1>1, InitRInv, PTL DEF ReplicaSpec

\* The replica's variables have their types, and what was published has an
\* entry for each version up to the manifest's.
THEOREM ReplicaTypeCorrect ==
  ASSUME TruncateReturns
  PROVE  ReplicaSpec => []ReplicaTypeOK
<1>1. RInv => ReplicaTypeOK
  BY DEF RInv
<1> QED  BY <1>1, InductiveRInv, PTL

\* A search runs over one published version, whole (hot_reloading_index.py:
\* 3-7), or over nothing when two more were published during the reload:
\* never over a half-written file nor over a mixture.
THEOREM WholeVersionsServed ==
  ASSUME TruncateReturns
  PROVE  ReplicaSpec => []ServesPublishedOrPruned
<1>1. RInv => ServesPublishedOrPruned
  BY DEF RInv, ViewsAreVersions, LoadedAs, ServesPublishedOrPruned
<1> QED  BY <1>1, InductiveRInv, PTL

\* A replica that believes it is current holds that version or a later one
\* (hot_reloading_index.py:64-69, the label read before the load).
THEOREM LabelsStayHonest ==
  ASSUME TruncateReturns
  PROVE  ReplicaSpec => []LabelHonest
<1>1. RInv => LabelHonest
  BY DEF RInv, LabelsHonest, LabelHonest
<1> QED  BY <1>1, InductiveRInv, PTL

\* No search answers from an older version than the replica's last one did,
\* across reloads, failed loads, recycled workers and restarts.
THEOREM ReadsStayMonotone ==
  ASSUME TruncateReturns
  PROVE  ReplicaSpec => []ReadsMonotone
<1>1. RInv => ReadsMonotone
  BY DEF RInv
<1> QED  BY <1>1, InductiveRInv, PTL
=============================================================================
