--------------------------- MODULE VersionedIndex ---------------------------
(***************************************************************************)
(* The durable vector index of the indexer worker: VersionedIndexWriter    *)
(* (add, remove, snapshot, checkpoint, recovery) over a WriteAheadLog, an  *)
(* IndexManifest and the snapshot files index.v{N} of one data directory.  *)
(*                                                                         *)
(* What survives the process is `wal', `tailOpen', `files' and `manifest'; *)
(* what dies with it is `pc', `index', `version', `ops' and `pending'.     *)
(* `want' and `doubt' are history variables: the code has no such state.   *)
(***************************************************************************)
EXTENDS Integers, FiniteSets, SequencesExt

CONSTANTS
  Ids,              \* chunk ids (the vectors themselves play no part here)
  CheckpointEvery,  \* checkpoint_every_ops
  Faults,           \* what an append that fails or is cut short may leave
  FailingSteps,     \* checkpoint steps that may raise OSError
  MaxLog,           \* bound: lines in the log
  MaxVersion        \* bound: published versions

ASSUME CheckpointEveryPositive == CheckpointEvery \in Nat \ {0}
ASSUME FaultsKnown == Faults \subseteq {"torn", "open", "whole"}
ASSUME FailingStepsKnown ==
  FailingSteps \subseteq {"write", "commit", "truncate", "prune"}
ASSUME BoundsNat == MaxLog \in Nat /\ MaxVersion \in Nat

VARIABLES
  wal,       \* the lines of index.wal, oldest first
  tailOpen,  \* TRUE when the last line of index.wal has no newline
  files,     \* version |-> the snapshot file index.v{version}
  manifest,  \* the version manifest.json names, 0 when there is none
  pc,        \* where the writer is: "down" when its process is not running
  index,     \* the ids in the in-memory index
  version,   \* _version
  ops,       \* _ops_since_checkpoint
  pending,   \* the operation logged and not yet applied
  want,      \* history: the effect of every operation applied
  doubt      \* history: ids whose last operation failed or was cut short

disk == <<wal, tailOpen, files, manifest>>
memory == <<pc, index, version, ops, pending>>
vars == <<disk, memory, want, doubt>>

Ops == [op : {"add"}, ids : SUBSET Ids \ {{}}]
         \cup [op : {"remove"}, ids : {{i} : i \in Ids}]

\* Lines that do not decode: part of a line, and two lines run together.
Torn == [op |-> "torn", ids |-> {}]
Glued == [op |-> "glued", ids |-> {}]
None == Torn  \* no operation in hand

Lines == Ops \cup {Torn, Glued}

Snapshot(ids) == [whole |-> TRUE, ids |-> ids]
HalfWritten == [whole |-> FALSE, ids |-> {}]
SnapshotFile == {Snapshot(ids) : ids \in SUBSET Ids} \cup {HalfWritten}

-----------------------------------------------------------------------------
(* Replaying a log *)

\* What one add or remove does to an index.
Apply(ids, o) == IF o.op = "add" THEN ids \cup o.ids ELSE ids \ o.ids

\* read_all stops at the first line that does not decode.
Readable(log) ==
  {k \in 1..Len(log) : \A j \in 1..k : log[j].op \in {"add", "remove"}}

\* The last readable line about i, if any, is an add (a remove).
LastIs(log, i, op) ==
  \E k \in Readable(log) :
    /\ i \in log[k].ids
    /\ log[k].op = op
    /\ \A j \in Readable(log) : j > k => i \notin log[j].ids

Untouched(log, i) == \A k \in Readable(log) : i \notin log[k].ids

\* Mistake: any add in the log brings its ids back.
ReplayAnyAdd(base, log) ==
  {i \in Ids : (\E k \in Readable(log) : log[k].op = "add" /\ i \in log[k].ids)
                 \/ (i \in base /\ Untouched(log, i))}

\* _replay_wal: the readable lines applied in order to base. The last line
\* about an id decides; ReplayIsFold relates this to the loop.
Replay(base, log) ==
  {i \in Ids : LastIs(log, i, "add") \/ (i \in base /\ Untouched(log, i))}

\* The index factory: a path that does not exist gives an EMPTY index.
Open(v) == IF v \in DOMAIN files THEN files[v].ids ELSE {}

\* What a restart now would load.
Recovered == Replay(Open(manifest), wal)

-----------------------------------------------------------------------------
(* Files *)

\* WriteAheadLog.append opens the file for appending whatever it ends with:
\* a line without its newline absorbs the next one, and the two do not decode.
Extend(log, line) ==
  IF tailOpen THEN [log EXCEPT ![Len(log)] = Glued] ELSE Append(log, line)

Put(v, snapshot) ==
  [u \in DOMAIN files \cup {v} |-> IF u = v THEN snapshot ELSE files[u]]

\* Mistake: no version but the current one is kept.
OldOrPrevious == {v \in DOMAIN files : v < version}

Old == {v \in DOMAIN files : v < version - 1}  \* KEEP_PREVIOUS_VERSIONS = 1

Init ==
  /\ wal = <<>> /\ tailOpen = FALSE
  /\ files = [v \in {} |-> HalfWritten] /\ manifest = 0
  /\ pc = "down" /\ index = {} /\ version = 0 /\ ops = 0 /\ pending = None
  /\ want = {} /\ doubt = {}

-----------------------------------------------------------------------------
(* Starting and stopping *)

\* Mistakes: the version or the log is forgotten.
StartWith(version0, ops0, index0) ==
  /\ pc = "down"
  /\ manifest \in DOMAIN files => files[manifest].whole
  /\ pc' = "idle"
  /\ index' = index0 /\ version' = version0 /\ ops' = ops0
  /\ want' = index0 /\ doubt' = {}
  /\ UNCHANGED <<disk, pending>>

StartUnversioned == StartWith(0, Cardinality(Readable(wal)), Recovered)
StartPrevious == StartWith(manifest - 1, Cardinality(Readable(wal)), Recovered)
StartUnreplayed == StartWith(manifest, Cardinality(Readable(wal)), Open(manifest))

\* __init__: load the snapshot the manifest names and replay the log. A half
\* written snapshot does not load: the constructor raises.
Start ==
  /\ pc = "down"
  /\ manifest \in DOMAIN files => files[manifest].whole
  /\ pc' = "idle"
  /\ index' = Recovered
  /\ version' = manifest
  /\ ops' = Cardinality(Readable(wal))
  /\ want' = Recovered /\ doubt' = {}
  /\ UNCHANGED <<disk, pending>>

LoseMemory ==
  /\ pc' = "down" /\ index' = {} /\ version' = 0 /\ ops' = 0 /\ pending' = None
  /\ UNCHANGED want

\* The process dies between two steps; an operation in hand was never
\* acknowledged.
Crash ==
  /\ pc # "down"
  /\ LoseMemory
  /\ doubt' = doubt \cup pending.ids
  /\ UNCHANGED disk

CrashInWrite ==
  /\ pc = "write"
  /\ LoseMemory
  /\ files' = Put(version + 1, HalfWritten)
  /\ UNCHANGED <<wal, tailOpen, manifest, doubt>>

-----------------------------------------------------------------------------
(* add and remove *)

CanAppend == pc = "idle" /\ Len(wal) < MaxLog /\ version < MaxVersion

\* WriteAheadLog.append returns: the line is written and synced.
Log(o) ==
  /\ CanAppend
  /\ wal' = Extend(wal, o) /\ tailOpen' = FALSE
  /\ pc' = "logged" /\ pending' = o
  /\ doubt' = doubt \ o.ids
  /\ UNCHANGED <<files, manifest, index, version, ops, want>>

\* What append leaves when it does not return: part of the line, the line
\* without its newline, or the whole line (when only the sync failed).
Residue(o, fault) ==
  /\ wal' = Extend(wal, IF fault = "torn" THEN Torn ELSE o)
  /\ tailOpen' = (fault # "whole")
  /\ doubt' = doubt \cup o.ids

\* append raises, the caller sees the operation fail and the writer goes on.
LogFails(o, fault) ==
  /\ CanAppend
  /\ Residue(o, fault)
  /\ UNCHANGED <<files, manifest, memory, want>>

CrashInLog(o, fault) ==
  /\ CanAppend
  /\ Residue(o, fault)
  /\ LoseMemory
  /\ UNCHANGED <<files, manifest>>

\* The inner index takes the operation; _after_op counts it and starts a
\* checkpoint when it is due.
ApplyPending ==
  /\ pc = "logged"
  /\ index' = Apply(index, pending)
  /\ want' = Apply(want, pending)
  /\ ops' = ops + 1
  /\ pc' = IF ops + 1 >= CheckpointEvery THEN "write" ELSE "idle"
  /\ pending' = None
  /\ UNCHANGED <<disk, version, doubt>>

-----------------------------------------------------------------------------
(* checkpoint, one step for each call it makes *)

\* snapshot(): nothing to do when no operation came since the last one.
StartCheckpoint ==
  /\ pc = "idle" /\ ops # 0
  /\ pc' = "write"
  /\ UNCHANGED <<disk, index, version, ops, pending, want, doubt>>

\* Mistakes: the log is truncated with no commit before it; the snapshot is
\* written over the current version.
WriteUncommitted ==
  /\ pc = "write" /\ version < MaxVersion
  /\ files' = Put(version + 1, Snapshot(index))
  /\ pc' = "truncate"
  /\ UNCHANGED <<wal, tailOpen, manifest, index, version, ops, pending, want, doubt>>

WriteInPlace ==
  /\ pc = "write" /\ version < MaxVersion
  /\ files' = Put(version, Snapshot(index))
  /\ pc' = "idle"
  /\ UNCHANGED <<wal, tailOpen, manifest, index, version, ops, pending, want, doubt>>

Write ==
  /\ pc = "write" /\ version < MaxVersion
  /\ files' = Put(version + 1, Snapshot(index))
  /\ pc' = "commit"
  /\ UNCHANGED <<wal, tailOpen, manifest, index, version, ops, pending, want, doubt>>

\* The manifest is replaced by a rename: all of it or none.
Commit ==
  /\ pc = "commit"
  /\ manifest' = version + 1
  /\ pc' = "truncate"
  /\ UNCHANGED <<wal, tailOpen, files, index, version, ops, pending, want, doubt>>

Truncate ==
  /\ pc = "truncate"
  /\ wal' = <<>> /\ tailOpen' = FALSE
  /\ version' = version + 1 /\ ops' = 0
  /\ doubt' = {}
  /\ pc' = "prune"
  /\ UNCHANGED <<files, manifest, index, pending, want>>

Prune(v) ==
  /\ pc = "prune" /\ v \in Old
  /\ files' = [u \in DOMAIN files \ {v} |-> files[u]]
  /\ UNCHANGED <<wal, tailOpen, manifest, memory, want, doubt>>

EndCheckpoint ==
  /\ pc = "prune" /\ Old = {}
  /\ pc' = "idle"
  /\ UNCHANGED <<disk, index, version, ops, pending, want, doubt>>

\* Mistake: the exception is swallowed and the checkpoint goes on.
CheckpointFailsOnward ==
  /\ pc \in FailingSteps \cap {"write"}
  /\ pc' = "commit"
  /\ files' = Put(version + 1, HalfWritten)
  /\ UNCHANGED <<wal, tailOpen, manifest, index, version, ops, pending, want, doubt>>

\* A step raises: the exception leaves checkpoint() where it is and reaches
\* the caller of add, remove or snapshot. write_to may leave half a file.
CheckpointFails ==
  /\ pc \in FailingSteps
  /\ pc' = "idle"
  /\ files' \in {files} \cup
       (IF pc = "write" THEN {Put(version + 1, HalfWritten)} ELSE {})
  /\ UNCHANGED <<wal, tailOpen, manifest, index, version, ops, pending, want, doubt>>

-----------------------------------------------------------------------------
Operation ==
  \/ \E o \in Ops : Log(o)
  \/ \E o \in Ops, fault \in Faults : LogFails(o, fault) \/ CrashInLog(o, fault)
  \/ ApplyPending

Checkpoint ==
  \/ StartCheckpoint
  \/ Write
  \/ Commit
  \/ Truncate
  \/ \E v \in DOMAIN files : Prune(v)
  \/ EndCheckpoint
  \/ CheckpointFails

Next == Start \/ Crash \/ CrashInWrite \/ Operation \/ Checkpoint

Spec == Init /\ [][Next]_vars

-----------------------------------------------------------------------------
(* Properties *)

TypeOK ==
  /\ wal \in Seq(Lines) /\ tailOpen \in BOOLEAN
  /\ tailOpen => wal # <<>>
  /\ DOMAIN files \subseteq Nat /\ files \in [DOMAIN files -> SnapshotFile]
  /\ manifest \in Nat
  /\ pc \in {"down", "idle", "logged", "write", "commit", "truncate", "prune"}
  /\ index \in SUBSET Ids /\ version \in Nat /\ ops \in Nat
  /\ pending \in Ops \cup {None}
  /\ want \in SUBSET Ids /\ doubt \in SUBSET Ids

\* Replay, a closed form, is the loop of _replay_wal: fold the readable lines
\* in order over what the snapshot holds (versioned_index_writer.py:122-131).
ReplayIsFold ==
  Recovered =
    FoldLeft(Apply, Open(manifest), SubSeq(wal, 1, Cardinality(Readable(wal))))

\* Nothing was appended to a line without its newline.
Intact == \A k \in 1..Len(wal) : wal[k] # Glued

Agree(s, t) == s \ doubt = t \ doubt

\* Nothing acknowledged is ever lost (versioned_index_writer.py:8-10): at
\* every step of every operation, checkpoint, crash and failure, a restart
\* would serve exactly what the operations applied so far made, but for the
\* ids of an operation that failed or was cut short.
Durable == Agree(Recovered, IF pc = "logged" THEN Apply(want, pending) ELSE want)

\* The same, as long as no operation was appended to a torn or open line.
DurableWhileIntact == Intact => Durable

\* The manifest names a snapshot that is there and whole (index_manifest.py:
\* 3-7), or none was ever published.
ManifestWhole ==
  manifest # 0 => manifest \in DOMAIN files /\ files[manifest].whole

\* How memory and disk relate at each step of the writer: what makes the
\* three invariants around it inductive.
Coherent ==
  /\ pc = "logged" <=> pending # None
  /\ pc # "down" =>
       /\ index = want
       /\ manifest = IF pc = "truncate" THEN version + 1 ELSE version
  /\ pc \in {"commit", "truncate"} =>
       version + 1 \in DOMAIN files /\ files[version + 1] = Snapshot(index)
  /\ \A k \in 1..Len(wal) : wal[k] = Torn => k = Len(wal) /\ tailOpen

\* The version before the current one stays for in-flight readers
\* (versioned_index_writer.py:12-15, KEEP_PREVIOUS_VERSIONS).
PreviousKept ==
  manifest > 1 => manifest - 1 \in DOMAIN files /\ files[manifest - 1].whole

\* A published snapshot never changes: readers may hold it open, and versions
\* only grow (ADR-010: immutable versioned index).
PublishedImmutable ==
  [][/\ manifest' >= manifest
     /\ \A v \in DOMAIN files \cap DOMAIN files' :
          v <= manifest => files'[v] = files[v]]_vars

\* The writer keeps the promise of DurableIndex: `durable' is what a restart
\* would recover, so checkpoints, crashes and failed steps are either
\* invisible or the abstract step named there.
Promise ==
  INSTANCE DurableIndex WITH
    up <- pc # "down", served <- index, durable <- Recovered, taken <- pending,
    intact <- Intact

ImplementsDurableIndex == Promise!Spec
=============================================================================
