------------------------ MODULE VersionedIndexProofs ------------------------
(***************************************************************************)
(* Theorems about VersionedIndex, for every set of ids, every checkpoint   *)
(* interval and every bound, and for every fault an append may leave.      *)
(***************************************************************************)
EXTENDS VersionedIndex, FiniteSetTheorems, TLAPS

-----------------------------------------------------------------------------
(* What replaying a log computes *)

\* A line that decodes, added to lines that all decode, is applied last
\* (WriteAheadLog.append then _replay_wal).
LEMMA ReplayAppend ==
  ASSUME NEW base, NEW log \in Seq(Lines), \A k \in 1..Len(log) : log[k] \in Ops,
         NEW o \in Ops
  PROVE  Replay(base, Append(log, o)) = Apply(Replay(base, log), o)
<1> DEFINE log2 == Append(log, o)
           n == Len(log)
<1>1. /\ n \in Nat /\ Len(log2) = n + 1
      /\ log2[n + 1] = o
      /\ \A k \in 1..n : log2[k] = log[k]
  BY DEF Lines
<1>2. \A p \in Ops : p.op \in {"add", "remove"} /\ p.ids \subseteq Ids
  BY DEF Ops
<1>3. Readable(log) = 1..n /\ Readable(log2) = 1..(n + 1)
  BY <1>1, <1>2 DEF Readable
<1> HIDE DEF log2, n
<1>4. ASSUME NEW i \in Ids
      PROVE  i \in Replay(base, log2) <=> i \in Apply(Replay(base, log), o)
  <2>1. CASE i \in o.ids
    <3>1. ~Untouched(log2, i)
      BY <1>1, <1>3, <2>1 DEF Untouched
    <3>2. LastIs(log2, i, "add") <=> o.op = "add"
      BY <1>1, <1>3, <2>1 DEF LastIs
    <3> QED  BY <2>1, <3>1, <3>2 DEF Replay, Apply
  <2>2. CASE i \notin o.ids
    <3>1. Untouched(log2, i) <=> Untouched(log, i)
      BY <1>1, <1>3, <2>2 DEF Untouched
    <3>2. LastIs(log2, i, "add") <=> LastIs(log, i, "add")
      BY <1>1, <1>3, <2>2 DEF LastIs
    <3> QED  BY <2>2, <3>1, <3>2 DEF Replay, Apply
  <2> QED  BY <2>1, <2>2
<1>5. Replay(base, log2) \subseteq Ids /\ Apply(Replay(base, log), o) \subseteq Ids
  BY <1>2 DEF Replay, Apply
<1> QED  BY <1>4, <1>5 DEF log2

\* A torn line is not replayed.
LEMMA ReplayTorn ==
  ASSUME NEW base, NEW log \in Seq(Lines)
  PROVE  Replay(base, Append(log, Torn)) = Replay(base, log)
<1> DEFINE log2 == Append(log, Torn)
           n == Len(log)
<1>1. /\ n \in Nat /\ Len(log2) = n + 1
      /\ log2[n + 1].op = "torn"
      /\ \A k \in 1..n : log2[k] = log[k]
  BY DEF Lines, Torn
<1>2. Readable(log2) = Readable(log)
  BY <1>1 DEF Readable
<1>3. \A k \in Readable(log) : k \in 1..n
  BY DEF Readable
<1> QED  BY <1>1, <1>2, <1>3 DEF Replay, LastIs, Untouched

-----------------------------------------------------------------------------
(* Type correctness *)

\* An operation is a line of the log that decodes, and none of the others.
LEMMA OpsAreLines ==
  /\ Ops \subseteq Lines /\ Torn \in Lines /\ Glued \in Lines
  /\ None \notin Ops /\ Torn \notin Ops /\ Glued \notin Ops
  /\ \A o \in Ops : o.op \in {"add", "remove"} /\ o.ids \in SUBSET Ids
  /\ None.ids = {}
BY DEF Ops, Lines, Torn, Glued, None

\* Appending to the log, to an open line or not, gives a log.
LEMMA ExtendType ==
  ASSUME wal \in Seq(Lines), tailOpen => wal # <<>>, NEW line \in Lines
  PROVE  Extend(wal, line) \in Seq(Lines) /\ Extend(wal, line) # <<>>
<1>1. CASE tailOpen
  <2>1. Len(wal) \in 1..Len(wal)
    BY <1>1
  <2>2. [wal EXCEPT ![Len(wal)] = Glued] \in Seq(Lines)
    BY <2>1, OpsAreLines
  <2>3. Len([wal EXCEPT ![Len(wal)] = Glued]) = Len(wal)
    BY <2>1
  <2> QED  BY <1>1, <2>1, <2>2, <2>3 DEF Extend
<1>2. CASE ~tailOpen
  <2>1. Append(wal, line) \in Seq(Lines) /\ Append(wal, line) # <<>>
    OBVIOUS
  <2> QED  BY <1>2, <2>1 DEF Extend
<1> QED  BY <1>1, <1>2

\* Adding a snapshot file keeps the type of the data directory.
LEMMA PutType ==
  ASSUME DOMAIN files \subseteq Nat, files \in [DOMAIN files -> SnapshotFile],
         NEW v \in Nat, NEW s \in SnapshotFile
  PROVE  /\ DOMAIN Put(v, s) \subseteq Nat
         /\ Put(v, s) \in [DOMAIN Put(v, s) -> SnapshotFile]
BY DEF Put

\* The operations _replay_wal counts are finitely many.
LEMMA ReadableCount ==
  ASSUME NEW log \in Seq(Lines)
  PROVE  Cardinality(Readable(log)) \in Nat
<1>1. Len(log) \in Nat
  OBVIOUS
<1>2. IsFiniteSet(1..Len(log))
  BY <1>1, FS_Interval
<1>3. Readable(log) \subseteq 1..Len(log)
  BY DEF Readable
<1>4. IsFiniteSet(Readable(log))
  BY <1>2, <1>3, FS_Subset
<1> QED  BY <1>4, FS_CardinalityType

\* An empty data directory and a stopped writer have their types.
LEMMA TypeOKInit == Init => TypeOK
<1> SUFFICES ASSUME Init PROVE TypeOK
  OBVIOUS
<1>1. <<>> \in Seq(Lines)
  OBVIOUS
<1>2. DOMAIN files = {} /\ files \in [DOMAIN files -> SnapshotFile]
  BY DEF Init
<1> QED  BY <1>1, <1>2 DEF Init, TypeOK

\* No call of the writer, crash or failure breaks a type.
LEMMA TypeOKStep == TypeOK /\ [Next]_vars => TypeOK'
<1> SUFFICES ASSUME TypeOK, [Next]_vars PROVE TypeOK'
  OBVIOUS
<1> USE OpsAreLines DEF disk, memory
<1>17. <<>> \in Seq(Lines)
  OBVIOUS
<1>0. version + 1 \in Nat /\ Snapshot(index) \in SnapshotFile
      /\ HalfWritten \in SnapshotFile
  BY DEF TypeOK, SnapshotFile
<1>1. CASE Start
  <2>1. ops' \in Nat
    BY <1>1, ReadableCount DEF Start, TypeOK
  <2>2. Recovered \in SUBSET Ids
    BY DEF Recovered, Replay
  <2> QED  BY <1>1, <2>1, <2>2 DEF Start, TypeOK
<1>2. CASE Crash
  BY <1>2 DEF Crash, LoseMemory, TypeOK
<1>3. CASE CrashInWrite
  <2>1. DOMAIN files' \subseteq Nat /\ files' \in [DOMAIN files' -> SnapshotFile]
    BY <1>0, <1>3, PutType DEF CrashInWrite, TypeOK
  <2> QED  BY <1>3, <2>1 DEF CrashInWrite, LoseMemory, TypeOK
<1>4. ASSUME NEW o \in Ops, Log(o) PROVE TypeOK'
  <2>1. wal' \in Seq(Lines) /\ wal' # <<>>
    BY <1>4, ExtendType DEF Log, TypeOK
  <2> QED  BY <1>4, <2>1 DEF Log, TypeOK
<1>5. ASSUME NEW o \in Ops, NEW fault, Residue(o, fault)
      PROVE  wal' \in Seq(Lines) /\ wal' # <<>> /\ tailOpen' \in BOOLEAN
             /\ doubt' \in SUBSET Ids
  BY <1>5, ExtendType DEF Residue, TypeOK
<1>6. ASSUME NEW o \in Ops, NEW fault, LogFails(o, fault) PROVE TypeOK'
  <2>1. Residue(o, fault)
    BY <1>6 DEF LogFails
  <2> QED  BY <1>5, <1>6, <2>1 DEF LogFails, TypeOK
<1>7. ASSUME NEW o \in Ops, NEW fault, CrashInLog(o, fault) PROVE TypeOK'
  <2>1. Residue(o, fault)
    BY <1>7 DEF CrashInLog
  <2> QED  BY <1>5, <1>7, <2>1 DEF CrashInLog, LoseMemory, TypeOK
<1>8. CASE ApplyPending
  BY <1>8 DEF ApplyPending, Apply, TypeOK
<1>9. CASE StartCheckpoint
  BY <1>9 DEF StartCheckpoint, TypeOK
<1>10. CASE Write
  <2>1. DOMAIN files' \subseteq Nat /\ files' \in [DOMAIN files' -> SnapshotFile]
    BY <1>0, <1>10, PutType DEF Write, TypeOK
  <2> QED  BY <1>10, <2>1 DEF Write, TypeOK
<1>11. CASE Commit
  BY <1>0, <1>11 DEF Commit, TypeOK
<1>12. CASE Truncate
  BY <1>17, <1>0, <1>12 DEF Truncate, TypeOK
<1>13. ASSUME NEW v \in DOMAIN files, Prune(v) PROVE TypeOK'
  BY <1>13 DEF Prune, TypeOK
<1>14. CASE EndCheckpoint
  BY <1>14 DEF EndCheckpoint, TypeOK
<1>15. CASE CheckpointFails
  <2>1. DOMAIN files' \subseteq Nat /\ files' \in [DOMAIN files' -> SnapshotFile]
    BY <1>0, <1>15, PutType DEF CheckpointFails, TypeOK
  <2> QED  BY <1>15, <2>1 DEF CheckpointFails, TypeOK
<1>16. CASE UNCHANGED vars
  BY <1>16 DEF vars, TypeOK
<1> QED
  BY <1>1, <1>2, <1>3, <1>4, <1>6, <1>7, <1>8, <1>9, <1>10, <1>11, <1>12,
     <1>13, <1>14, <1>15, <1>16 DEF Next, Operation, Checkpoint

\* Every value the writer keeps, in memory and on disk, has its type.
THEOREM TypeCorrect == Spec => []TypeOK
BY TypeOKInit, TypeOKStep, PTL DEF Spec

-----------------------------------------------------------------------------
(* The closed form of Replay and the loop *)

\* A set of natural numbers that is not empty has a least element.
LEMMA LeastNatural ==
  ASSUME NEW S \in SUBSET Nat, S # {}
  PROVE  \E m \in S : \A x \in S : m <= x
<1>1. PICK m \in S : \A x \in S : ~(<<x, m>> \in OpToRel(<, Nat))
  BY NatLessThanWellFounded, WFMin
<1>2. \A x \in S : x < m => <<x, m>> \in OpToRel(<, Nat)
  BY DEF OpToRel
<1>3. \A x \in S : ~(x < m)
  BY <1>1, <1>2
<1>4. m \in S /\ \A x \in S : x \in Int
  OBVIOUS
<1> QED  BY <1>3, <1>4

\* One bounded by n has a greatest, which is its Max.
LEMMA MaxOfPositions ==
  ASSUME NEW n \in Nat, NEW s \in SUBSET (1..n), s # {}
  PROVE  Max(s) \in s /\ \A y \in s : Max(s) >= y
<1> DEFINE below == {n - x : x \in s}
<1>1. below \in SUBSET Nat /\ below # {}
  <2>1. \A x \in s : x \in 1..n /\ n - x \in Nat
    OBVIOUS
  <2> QED  BY <2>1
<1>2. PICK m \in below : \A x \in below : m <= x
  <2> HIDE DEF below
  <2> QED  BY <1>1, LeastNatural
<1>3. PICK x \in s : m = n - x
  OBVIOUS
<1>4. \A y \in s : n - x <= n - y
  BY <1>2, <1>3
<1>5. \A y \in s : x >= y
  BY <1>4
<1> QED  BY <1>5 DEF Max

\* What FoldLeft computes: one line after the other, the last one last.
Loop(f, base, log) ==
  f = [s \in SUBSET DOMAIN log |->
         IF s = {} THEN base ELSE Apply(f[s \ {Max(s)}], log[Max(s)])]

\* What the lines at positions s leave, told without a loop as Replay tells it.
LeftBy(s, base, log) ==
  {i \in Ids :
     \/ \E k \in s : /\ i \in log[k].ids /\ log[k].op = "add"
                     /\ \A j \in s : j > k => i \notin log[j].ids
     \/ i \in base /\ \A k \in s : i \notin log[k].ids}

\* One line more is applied last.
LEMMA LeftByOneMore ==
  ASSUME NEW base, NEW log, NEW s \in SUBSET Int, NEW m \in s, \A y \in s : m >= y,
         \A k \in s : log[k] \in Ops
  PROVE  LeftBy(s, base, log) = Apply(LeftBy(s \ {m}, base, log), log[m])
<1>1. \A k \in s : log[k].op \in {"add", "remove"} /\ log[k].ids \subseteq Ids
  BY DEF Ops
<1>2. \A k \in s : k \in Int /\ (k # m => k < m)
  OBVIOUS
<1>3. ASSUME NEW i \in Ids
      PROVE  i \in LeftBy(s, base, log) <=> i \in Apply(LeftBy(s \ {m}, base, log), log[m])
  <2>1. CASE i \in log[m].ids
    <3>1. i \in LeftBy(s, base, log) <=> log[m].op = "add"
      BY <1>1, <1>2, <2>1 DEF LeftBy
    <3> QED  BY <2>1, <3>1 DEF Apply
  <2>2. CASE i \notin log[m].ids
    <3>1. i \in LeftBy(s, base, log) <=> i \in LeftBy(s \ {m}, base, log)
      BY <1>1, <1>2, <2>2 DEF LeftBy
    <3> QED  BY <2>2, <3>1 DEF Apply
  <2> QED  BY <2>1, <2>2
<1>4. LeftBy(s, base, log) \subseteq Ids /\ Apply(LeftBy(s \ {m}, base, log), log[m]) \subseteq Ids
  BY <1>1 DEF LeftBy, Apply
<1> QED  BY <1>3, <1>4

\* The loop over a log that decodes leaves what its lines leave.
LEMMA LoopLeaves ==
  ASSUME NEW n \in Nat, NEW base \in SUBSET Ids, NEW log \in Seq(Ops), Len(log) = n
  PROVE  FoldLeft(Apply, base, log) = LeftBy(1..n, base, log)
<1> DEFINE f == CHOOSE f : f = [s \in SUBSET DOMAIN log |->
                  IF s = {} THEN base ELSE Apply(f[s \ {Max(s)}], log[Max(s)])]
           g == [s \in SUBSET DOMAIN log |-> LeftBy(s, base, log)]
<1>1. DOMAIN log = 1..n /\ \A k \in 1..n : log[k] \in Ops
  OBVIOUS
<1>2. LeftBy({}, base, log) = base
  BY DEF LeftBy
<1>3. Loop(g, base, log)
  <2>1. ASSUME NEW s \in SUBSET DOMAIN log, s # {}
        PROVE  g[s] = Apply(g[s \ {Max(s)}], log[Max(s)])
    <3>1. Max(s) \in s /\ \A y \in s : Max(s) >= y
      BY <1>1, <2>1, MaxOfPositions
    <3>2. PICK m : m = Max(s)
      OBVIOUS
    <3>3. LeftBy(s, base, log) = Apply(LeftBy(s \ {m}, base, log), log[m])
      <4>1. /\ s \in SUBSET Int /\ m \in s /\ \A y \in s : m >= y
            /\ \A k \in s : log[k] \in Ops
        BY <1>1, <3>1, <3>2
      <4> QED  BY <4>1, LeftByOneMore
    <3>4. s \ {m} \in SUBSET DOMAIN log
      OBVIOUS
    <3> QED  BY <3>2, <3>3, <3>4
  <2> HIDE DEF g
  <2>2. g = [s \in SUBSET DOMAIN log |-> g[s]]
    BY DEF g
  <2>3. g[{}] = base
    BY <1>2 DEF g
  <2> QED  BY <2>1, <2>2, <2>3 DEF Loop
<1>4. FoldLeft(Apply, base, log) = f[DOMAIN log]
  BY DEF FoldLeft, MapThenFoldSet
<1>5. Loop(f, base, log)
  BY <1>3 DEF Loop
<1> HIDE DEF f
<1> DEFINE Bad == {k \in 0..n : f[1..k] # LeftBy(1..k, base, log)}
<1>6. Bad = {}
  <2> SUFFICES ASSUME Bad # {} PROVE FALSE
    OBVIOUS
  <2>1. Bad \in SUBSET Nat
    OBVIOUS
  <2>2. PICK k \in Bad : \A x \in Bad : k <= x
    <3> HIDE DEF Bad
    <3> QED  BY <2>1, LeastNatural
  <2>3. k \in Nat /\ k <= n /\ f[1..k] # LeftBy(1..k, base, log) /\ 1..k \in SUBSET DOMAIN log
    BY <1>1
  <2>4. k # 0
    <3>1. 1..0 = {} /\ {} \in SUBSET DOMAIN log
      OBVIOUS
    <3>2. f[{}] = base
      BY <1>5, <3>1 DEF Loop
    <3> QED  BY <1>2, <2>3, <3>1, <3>2
  <2>5. k \in 1..k /\ k - 1 \in 0..n /\ ~(k <= k - 1) /\ (\A y \in 1..k : k >= y)
        /\ (1..k) \ {k} = 1..(k - 1)
    BY <2>3, <2>4
  <2>6. Max(1..k) = k
    <3>1. Max(1..k) \in 1..k /\ Max(1..k) >= k
      BY <2>3, <2>5, MaxOfPositions
    <3> QED  BY <2>3, <3>1
  <2>7. f[1..k] = Apply(f[1..(k - 1)], log[k])
    BY <1>5, <2>3, <2>5, <2>6 DEF Loop
  <2>8. f[1..(k - 1)] = LeftBy(1..(k - 1), base, log)
    BY <2>2, <2>5
  <2>9. LeftBy(1..k, base, log) = Apply(LeftBy(1..(k - 1), base, log), log[k])
    <3>1. LeftBy(1..k, base, log) = Apply(LeftBy((1..k) \ {k}, base, log), log[k])
      <4>1. 1..k \in SUBSET Int /\ \A j \in 1..k : log[j] \in Ops
        BY <1>1, <2>3
      <4> QED  BY <2>5, <4>1, LeftByOneMore
    <3> QED  BY <2>5, <3>1
  <2> QED  BY <2>3, <2>7, <2>8, <2>9
<1> QED  BY <1>1, <1>4, <1>6

\* The readable lines are the first ones.
LEMMA ReadableFirst ==
  ASSUME NEW log \in Seq(Lines)
  PROVE  \E n \in 0..Len(log) : /\ Readable(log) = 1..n /\ Cardinality(Readable(log)) = n
                                /\ SubSeq(log, 1, n) \in Seq(Ops) /\ Len(SubSeq(log, 1, n)) = n
                                /\ \A k \in 1..n : SubSeq(log, 1, n)[k] = log[k]
<1> DEFINE Unread == (1..Len(log)) \ Readable(log)
<1>1. Len(log) \in Nat /\ \A k \in 1..Len(log) : log[k] \in Lines
  OBVIOUS
<1>2. PICK n \in 0..Len(log) : Readable(log) = 1..n
  <2>1. CASE Unread = {}
    BY <1>1, <2>1 DEF Readable
  <2>2. CASE Unread # {}
    <3>1. Unread \in SUBSET Nat
      BY <1>1
    <3>2. PICK u \in Unread : \A x \in Unread : u <= x
      <4> HIDE DEF Unread
      <4> QED  BY <2>2, <3>1, LeastNatural
    <3>3. u - 1 \in 0..Len(log) /\ \A k \in 1..Len(log) : k < u => k \in Readable(log)
      BY <1>1, <3>2
    <3>4. \A k \in Readable(log) : k < u
      BY <1>1, <3>2 DEF Readable
    <3>5. Readable(log) = 1..(u - 1)
      BY <1>1, <3>2, <3>3, <3>4 DEF Readable
    <3> QED  BY <3>3, <3>5
  <2> QED  BY <2>1, <2>2
<1>3. Cardinality(1..n) = n
  <2>1. 1 \in Int /\ n \in Int /\ (1 > n => n = 0) /\ n - 1 + 1 = n
    BY <1>1
  <2> QED  BY <2>1, FS_Interval
<1>4. \A k \in 1..n : log[k] \in Ops
  BY <1>1, <1>2 DEF Readable, Lines, Torn, Glued
<1>5. /\ SubSeq(log, 1, n) \in Seq(Ops) /\ Len(SubSeq(log, 1, n)) = n
      /\ \A k \in 1..n : SubSeq(log, 1, n)[k] = log[k]
  BY <1>1, <1>4
<1> QED  BY <1>2, <1>3, <1>5

\* Replay is _replay_wal's loop, for every log and every snapshot it runs over:
\* the readable lines applied one after the other, the last about an id decides
\* (versioned_index_writer.py:122-131).
LEMMA ReplayIsLoop ==
  ASSUME NEW base \in SUBSET Ids, NEW log \in Seq(Lines)
  PROVE  Replay(base, log) = FoldLeft(Apply, base, SubSeq(log, 1, Cardinality(Readable(log))))
<1>1. PICK n \in 0..Len(log) : /\ Readable(log) = 1..n /\ Cardinality(Readable(log)) = n
                               /\ SubSeq(log, 1, n) \in Seq(Ops) /\ Len(SubSeq(log, 1, n)) = n
                               /\ \A k \in 1..n : SubSeq(log, 1, n)[k] = log[k]
  BY ReadableFirst
<1> DEFINE read == SubSeq(log, 1, n)
<1>2. n \in Nat
  OBVIOUS
<1>3. FoldLeft(Apply, base, read) = LeftBy(1..n, base, read)
  BY <1>1, <1>2, LoopLeaves
<1>4. LeftBy(1..n, base, read) = LeftBy(1..n, base, log)
  BY <1>1 DEF LeftBy
<1>5. LeftBy(1..n, base, log) = Replay(base, log)
  BY <1>1 DEF LeftBy, Replay, LastIs, Untouched
<1> QED  BY <1>1, <1>3, <1>4, <1>5

\* What a restart would load is what the loop of _replay_wal makes of the files
\* and the log there are, whatever crashes and failed appends left in them.
THEOREM RecoveryIsTheLoop == Spec => []ReplayIsFold
<1>1. TypeOK => ReplayIsFold
  <2> SUFFICES ASSUME TypeOK PROVE ReplayIsFold
    OBVIOUS
  <2>1. Open(manifest) \in SUBSET Ids
    BY DEF TypeOK, Open, SnapshotFile, Snapshot, HalfWritten
  <2> QED  BY <2>1, ReplayIsLoop DEF TypeOK, Recovered, ReplayIsFold
<1> QED  BY <1>1, TypeCorrect, PTL

-----------------------------------------------------------------------------
(* Durability *)

\* The directory can still be written when the log is unlinked. Without it a
\* failed truncate leaves _version behind the manifest and the next
\* checkpoint writes over the published snapshot.
TruncateReturns == "truncate" \notin FailingSteps

SnapshotsWhole == ManifestWhole /\ PreviousKept

IInv == TypeOK /\ Coherent /\ SnapshotsWhole /\ DurableWhileIntact

\* The target of Durable: the operations applied and the one logged.
Applied == IF pc = "logged" THEN Apply(want, pending) ELSE want

\* The inductive invariant holds of an empty data directory.
LEMMA InitIInv == Init => IInv
<1> SUFFICES ASSUME Init PROVE Coherent /\ SnapshotsWhole /\ DurableWhileIntact
  BY TypeOKInit DEF IInv
<1>1. Len(wal) = 0 /\ DOMAIN files = {}
  BY DEF Init
<1>2. Recovered = {}
  BY <1>1 DEF Init, Recovered, Replay, Open, LastIs, Readable
<1> QED
  BY <1>1, <1>2 DEF Init, Coherent, SnapshotsWhole, ManifestWhole, PreviousKept,
     DurableWhileIntact, Durable, Agree

\* With the log unchanged, what a restart recovers depends on the published
\* snapshot only.
LEMMA RecoveredStays ==
  ASSUME wal' = wal, manifest' = manifest,
         manifest \in DOMAIN files <=> manifest \in DOMAIN files',
         manifest \in DOMAIN files => files'[manifest] = files[manifest]
  PROVE  Recovered' = Recovered
BY DEF Recovered, Replay, Open, LastIs, Untouched, Readable

\* Appending a line leaves the snapshot alone, and as long as the log stays
\* intact, every line before it decodes and the new one is replayed last.
LEMMA RecoveredAppend ==
  ASSUME TypeOK, Coherent, NEW line \in Ops \cup {Torn}, wal' = Extend(wal, line),
         files' = files, manifest' = manifest, Intact'
  PROVE  /\ Intact /\ ~tailOpen
         /\ Recovered' = IF line = Torn THEN Recovered ELSE Apply(Recovered, line)
<1>1. ~tailOpen
  <2>1. SUFFICES ASSUME tailOpen PROVE FALSE
    OBVIOUS
  <2>2. Len(wal) \in 1..Len(wal) /\ Len(wal') = Len(wal) /\ wal'[Len(wal)] = Glued
    BY <2>1 DEF Extend, TypeOK
  <2> QED  BY <2>2 DEF Intact
<1>2. wal' = Append(wal, line)
  BY <1>1 DEF Extend
<1>3. \A k \in 1..Len(wal) : wal[k] = wal'[k] /\ k \in 1..Len(wal')
  BY <1>2 DEF TypeOK
<1>4. \A k \in 1..Len(wal) : wal[k] \in Ops
  BY <1>1, <1>3 DEF TypeOK, Coherent, Intact, Lines
<1> DEFINE base == Open(manifest)
<1>5. Recovered = Replay(base, wal) /\ Recovered' = Replay(base, Append(wal, line))
  BY <1>2 DEF Recovered, Open, Replay, LastIs, Untouched, Readable
<1> HIDE DEF base
<1>6. Intact
  BY <1>4, OpsAreLines DEF Intact
<1>7. CASE line = Torn
  BY <1>1, <1>5, <1>6, <1>7, ReplayTorn DEF TypeOK
<1>8. CASE line \in Ops
  <2>1. Replay(base, Append(wal, line)) = Apply(Replay(base, wal), line)
    BY <1>4, <1>8, ReplayAppend DEF TypeOK
  <2> QED  BY <1>1, <1>5, <1>6, <1>8, <2>1, OpsAreLines
<1> QED  BY <1>7, <1>8

\* Append, in full or cut short, keeps what was applied before.
LEMMA LogKeepsDurable ==
  ASSUME IInv, NEW o \in Ops, CanAppend, files' = files, manifest' = manifest,
         want' = want, Intact',
         \/ /\ wal' = Extend(wal, o) /\ doubt' = doubt \ o.ids
            /\ Applied' = Apply(want, o)
         \/ /\ \E fault : Residue(o, fault)
            /\ Applied' = want
  PROVE  Durable'
<1> USE OpsAreLines
<1>0. Durable' <=> Recovered' \ doubt' = Applied' \ doubt'
  BY DEF Durable, Agree, Applied
<1>1. CASE wal' = Extend(wal, o) /\ doubt' = doubt \ o.ids /\ Applied' = Apply(want, o)
  <2>1. Intact /\ Recovered' = Apply(Recovered, o)
    BY <1>1, RecoveredAppend DEF IInv
  <2>2. Recovered \ doubt = want \ doubt
    BY <2>1 DEF IInv, DurableWhileIntact, Durable, Agree, CanAppend
  <2> QED  BY <1>0, <1>1, <2>1, <2>2 DEF Apply
<1>2. ASSUME NEW fault, Residue(o, fault), Applied' = want PROVE Durable'
  <2>1. Intact /\ Recovered' = IF fault = "torn" THEN Recovered ELSE Apply(Recovered, o)
    BY <1>2, RecoveredAppend DEF IInv, Residue
  <2>2. Recovered \ doubt = want \ doubt
    BY <2>1 DEF IInv, DurableWhileIntact, Durable, Agree, CanAppend
  <2> QED  BY <1>0, <1>2, <2>1, <2>2 DEF Apply, Residue
<1> QED  BY <1>1, <1>2

\* Every step keeps memory and disk in the relation its place in add, remove
\* or checkpoint calls for.
LEMMA CoherentStep ==
  ASSUME IInv, [Next]_vars, TruncateReturns
  PROVE  Coherent' /\ SnapshotsWhole'
<1> USE OpsAreLines DEF IInv, disk, memory
<1>1. TypeOK'
  BY TypeOKStep
<1>2. ASSUME NEW line \in Ops \cup {Torn}, wal' = Extend(wal, line),
             tailOpen' = TRUE \/ line \in Ops
      PROVE  \A k \in 1..Len(wal') : wal'[k] = Torn => k = Len(wal') /\ tailOpen'
  <2>1. CASE tailOpen
    <3>1. Len(wal') = Len(wal) /\ wal'[Len(wal)] = Glued /\ Len(wal) \in Nat
          /\ \A k \in 1..Len(wal) : k # Len(wal) => wal'[k] = wal[k]
      BY <1>2, <2>1 DEF Extend, TypeOK
    <3> QED  BY <3>1 DEF Coherent, Torn, Glued
  <2>2. CASE ~tailOpen
    <3>1. Len(wal') = Len(wal) + 1 /\ wal'[Len(wal) + 1] = line /\ Len(wal) \in Nat
          /\ \A k \in 1..Len(wal) : wal'[k] = wal[k]
      BY <1>2, <2>2 DEF Extend, TypeOK
    <3> QED  BY <1>2, <2>2, <3>1 DEF Coherent
  <2> QED  BY <2>1, <2>2 DEF TypeOK
<1>3. CASE Start
  BY <1>3 DEF Start, Coherent, SnapshotsWhole, ManifestWhole, PreviousKept, TypeOK
<1>4. CASE Crash
  BY <1>4 DEF Crash, LoseMemory, Coherent, SnapshotsWhole, ManifestWhole, PreviousKept
<1>5. CASE CrashInWrite
  BY <1>5 DEF CrashInWrite, LoseMemory, Put, Coherent, SnapshotsWhole,
              ManifestWhole, PreviousKept, TypeOK
<1>6. ASSUME NEW o \in Ops, Log(o) PROVE Coherent' /\ SnapshotsWhole'
  BY <1>2, <1>6 DEF Log, CanAppend, Coherent, SnapshotsWhole, ManifestWhole, PreviousKept
<1>7. ASSUME NEW o \in Ops, NEW fault \in Faults, LogFails(o, fault)
      PROVE  Coherent' /\ SnapshotsWhole'
  BY <1>2, <1>7 DEF LogFails, Residue, CanAppend, Coherent, SnapshotsWhole,
                    ManifestWhole, PreviousKept
<1>8. ASSUME NEW o \in Ops, NEW fault \in Faults, CrashInLog(o, fault)
      PROVE  Coherent' /\ SnapshotsWhole'
  BY <1>2, <1>8 DEF CrashInLog, Residue, CanAppend, LoseMemory, Coherent,
                    SnapshotsWhole, ManifestWhole, PreviousKept
<1>9. CASE ApplyPending
  BY <1>9 DEF ApplyPending, Coherent, SnapshotsWhole, ManifestWhole, PreviousKept
<1>10. CASE StartCheckpoint
  BY <1>10 DEF StartCheckpoint, Coherent, SnapshotsWhole, ManifestWhole, PreviousKept
<1>11. CASE Write
  BY <1>11 DEF Write, Put, Snapshot, Coherent, SnapshotsWhole, ManifestWhole,
               PreviousKept, TypeOK
<1>12. CASE Commit
  <2>1. manifest' - 1 = version /\ manifest = version /\ version \in Nat
    BY <1>12 DEF Commit, Coherent, TypeOK
  <2> QED  BY <1>12, <2>1 DEF Commit, Snapshot, Coherent, SnapshotsWhole,
                              ManifestWhole, PreviousKept
<1>13. CASE Truncate
  <2>1. Len(wal') = 0
    BY <1>13 DEF Truncate
  <2> QED  BY <1>13, <2>1 DEF Truncate, Coherent, SnapshotsWhole, ManifestWhole,
                              PreviousKept, TypeOK
<1>14. ASSUME NEW v \in DOMAIN files, Prune(v) PROVE Coherent' /\ SnapshotsWhole'
  BY <1>14 DEF Prune, Old, Coherent, SnapshotsWhole, ManifestWhole, PreviousKept, TypeOK
<1>15. CASE EndCheckpoint
  BY <1>15 DEF EndCheckpoint, Coherent, SnapshotsWhole, ManifestWhole, PreviousKept
<1>16. CASE CheckpointFails
  <2>1. /\ pc # "truncate" /\ pc' = "idle" /\ pc # "down" /\ pc # "logged"
        /\ manifest = version /\ version \in Nat
    BY <1>16, FailingStepsKnown DEF CheckpointFails, TruncateReturns, Coherent, TypeOK
  <2>2. files' = files \/ files' = Put(version + 1, HalfWritten)
    BY <1>16 DEF CheckpointFails
  <2>3. \A k \in Nat : k # version + 1 =>
          /\ k \in DOMAIN files <=> k \in DOMAIN files'
          /\ k \in DOMAIN files => files'[k] = files[k]
    BY <2>2 DEF Put
  <2>4. manifest > 1 => manifest - 1 \in Nat
    BY <2>1
  <2> QED  BY <1>16, <2>1, <2>3, <2>4 DEF CheckpointFails, Coherent, SnapshotsWhole,
                                    ManifestWhole, PreviousKept
<1>17. CASE UNCHANGED vars
  BY <1>17 DEF vars, Coherent, SnapshotsWhole, ManifestWhole, PreviousKept
<1> QED
  BY <1>3, <1>4, <1>5, <1>6, <1>7, <1>8, <1>9, <1>10, <1>11, <1>12, <1>13,
     <1>14, <1>15, <1>16, <1>17 DEF Next, Operation, Checkpoint

\* The step that publishes a snapshot loses nothing although the log is still
\* there: replaying it over a snapshot that already holds it changes nothing.
LEMMA CommitKeepsDurable ==
  ASSUME IInv, Commit, Intact
  PROVE  Durable'
<1> USE DEF IInv
<1>1. /\ Open(manifest)' = want /\ wal' = wal /\ doubt' = doubt
      /\ Applied' = want /\ Applied = want /\ want \subseteq Ids
  BY DEF Commit, Coherent, TypeOK, Open, Snapshot, Applied
<1>2. Recovered \ doubt = want \ doubt
  BY <1>1 DEF DurableWhileIntact, Durable, Agree, Applied
<1>3. Recovered' = Replay(want, wal)
  BY <1>1 DEF Recovered, Open, Replay, LastIs, Untouched, Readable
<1>4. Replay(want, wal) \ doubt = want \ doubt
  BY <1>1, <1>2 DEF Recovered, Replay
<1> QED  BY <1>1, <1>3, <1>4 DEF Durable, Agree, Applied

\* No step loses an operation applied, unless an append met an unfinished line.
LEMMA DurableStep ==
  ASSUME IInv, [Next]_vars, TruncateReturns
  PROVE  DurableWhileIntact'
<1> SUFFICES ASSUME Intact' PROVE Durable'
  BY DEF DurableWhileIntact
<1> USE OpsAreLines DEF disk, memory
<1>1. ASSUME wal' = wal, Recovered' = Recovered, Applied' \ doubt' = Applied \ doubt',
             doubt \subseteq doubt'
      PROVE  Durable'
  <2>1. Recovered \ doubt = Applied \ doubt
    BY <1>1 DEF IInv, DurableWhileIntact, Intact, Durable, Agree, Applied
  <2> QED  BY <1>1, <2>1 DEF Durable, Agree, Applied
<1>2. manifest \in Nat
  BY DEF IInv, TypeOK
<1>3. CASE Start
  <2>1. Recovered' = Recovered
    BY <1>3, RecoveredStays DEF Start
  <2> QED  BY <1>3, <2>1 DEF Start, Durable, Agree
<1>4. CASE Crash
  <2>1. Recovered' = Recovered
    BY <1>4, RecoveredStays DEF Crash
  <2>2. Applied' = want /\ Applied \ pending.ids = want \ pending.ids
    BY <1>4 DEF Crash, LoseMemory, Applied, Apply
  <2> QED  BY <1>1, <1>4, <2>1, <2>2 DEF Crash
<1>5. CASE CrashInWrite
  <2>1. version + 1 # manifest
    BY <1>5 DEF CrashInWrite, IInv, Coherent, TypeOK
  <2>2. Recovered' = Recovered
    BY <1>5, <2>1, RecoveredStays DEF CrashInWrite, Put
  <2> QED  BY <1>1, <1>5, <2>2 DEF CrashInWrite, LoseMemory, Applied
<1>6. ASSUME NEW o \in Ops, Log(o) PROVE Durable'
  BY <1>6, LogKeepsDurable DEF Log, CanAppend, Applied
<1>7. ASSUME NEW o \in Ops, NEW fault \in Faults, LogFails(o, fault) PROVE Durable'
  BY <1>7, LogKeepsDurable DEF LogFails, CanAppend, Applied
<1>8. ASSUME NEW o \in Ops, NEW fault \in Faults, CrashInLog(o, fault) PROVE Durable'
  BY <1>8, LogKeepsDurable DEF CrashInLog, LoseMemory, CanAppend, Applied
<1>9. CASE ApplyPending
  <2>1. Recovered' = Recovered
    BY <1>9, RecoveredStays DEF ApplyPending
  <2>2. Applied' = Applied
    BY <1>9 DEF ApplyPending, Applied
  <2> QED  BY <1>1, <1>9, <2>1, <2>2 DEF ApplyPending
<1>10. CASE StartCheckpoint
  <2>1. Recovered' = Recovered
    BY <1>10, RecoveredStays DEF StartCheckpoint
  <2> QED  BY <1>1, <1>10, <2>1 DEF StartCheckpoint, Applied
<1>11. CASE Write
  <2>1. version + 1 # manifest
    BY <1>11 DEF Write, IInv, Coherent, TypeOK
  <2>2. Recovered' = Recovered
    BY <1>11, <2>1, RecoveredStays DEF Write, Put
  <2> QED  BY <1>1, <1>11, <2>2 DEF Write, Applied
<1>12. CASE Commit
  BY <1>12, CommitKeepsDurable DEF Commit, Intact
<1>13. CASE Truncate
  <2>1. Len(wal') = 0
    BY <1>13 DEF Truncate
  <2>2. Open(manifest)' = want /\ Applied' = want /\ want \subseteq Ids
    BY <1>13 DEF Truncate, IInv, Coherent, TypeOK, Open, Snapshot, Applied
  <2>3. Recovered' = want
    BY <2>1, <2>2 DEF Recovered, Replay, LastIs, Untouched, Readable
  <2> QED  BY <2>2, <2>3 DEF Durable, Agree, Applied
<1>14. ASSUME NEW v \in DOMAIN files, Prune(v) PROVE Durable'
  <2>1. v # manifest
    BY <1>14 DEF Prune, Old, IInv, Coherent, TypeOK
  <2>2. Recovered' = Recovered
    BY <1>14, <2>1, RecoveredStays DEF Prune
  <2> QED  BY <1>1, <1>14, <2>2 DEF Prune, Applied
<1>15. CASE EndCheckpoint
  <2>1. Recovered' = Recovered
    BY <1>15, RecoveredStays DEF EndCheckpoint
  <2> QED  BY <1>1, <1>15, <2>1 DEF EndCheckpoint, Applied
<1>16. CASE CheckpointFails
  <2>1. /\ version + 1 # manifest /\ pc # "logged" /\ pc' # "logged"
        /\ files' = files \/ files' = Put(version + 1, HalfWritten)
    BY <1>16, FailingStepsKnown DEF CheckpointFails, TruncateReturns, IInv, Coherent, TypeOK
  <2>2. Recovered' = Recovered
    BY <1>16, <2>1, RecoveredStays DEF CheckpointFails, Put
  <2> QED  BY <1>1, <1>16, <2>1, <2>2 DEF CheckpointFails, Applied
<1>17. CASE UNCHANGED vars
  <2>1. Recovered' = Recovered
    BY <1>17, RecoveredStays DEF vars
  <2> QED  BY <1>1, <1>17, <2>1 DEF vars, Applied
<1> QED
  BY <1>3, <1>4, <1>5, <1>6, <1>7, <1>8, <1>9, <1>10, <1>11, <1>12, <1>13,
     <1>14, <1>15, <1>16, <1>17 DEF Next, Operation, Checkpoint

\* IInv is inductive.
LEMMA InductiveIInv ==
  ASSUME TruncateReturns
  PROVE  Spec => []IInv
<1>1. IInv /\ [Next]_vars => IInv'
  BY TypeOKStep, CoherentStep, DurableStep DEF IInv
<1> QED  BY <1>1, InitIInv, PTL DEF Spec

\* Nothing acknowledged is lost, whatever crashes and failed appends leave in
\* the log, as long as nothing was appended to an unfinished line.
THEOREM Durability ==
  ASSUME TruncateReturns
  PROVE  Spec => []DurableWhileIntact
<1>1. IInv => DurableWhileIntact
  BY DEF IInv
<1> QED  BY <1>1, InductiveIInv, PTL

\* The manifest always names a snapshot that is there, and all of it: no crash
\* or failed write between write_to, commit and prune leaves it dangling.
THEOREM ManifestAlwaysWhole ==
  ASSUME TruncateReturns
  PROVE  Spec => []ManifestWhole
<1>1. IInv => ManifestWhole
  BY DEF IInv, SnapshotsWhole
<1> QED  BY <1>1, InductiveIInv, PTL

\* Pruning never takes the version before the current one, not even after a
\* restart: a reader that has just read the manifest can be one version late.
THEOREM PreviousAlwaysKept ==
  ASSUME TruncateReturns
  PROVE  Spec => []PreviousKept
<1>1. IInv => PreviousKept
  BY DEF IInv, SnapshotsWhole
<1> QED  BY <1>1, InductiveIInv, PTL

\* No step writes to a published snapshot, and only Commit moves the manifest.
LEMMA ImmutableStep ==
  ASSUME IInv, [Next]_vars, TruncateReturns
  PROVE  /\ manifest' = manifest \/ Commit
         /\ \A v \in DOMAIN files \cap DOMAIN files' :
              v <= manifest => files'[v] = files[v]
<1> USE DEF disk, memory
<1>1. manifest \in Nat /\ version \in Nat /\ DOMAIN files \subseteq Nat
  BY DEF IInv, TypeOK
<1>2. ASSUME NEW s, files' = Put(version + 1, s), manifest = version
      PROVE  \A v \in DOMAIN files \cap DOMAIN files' :
               v <= manifest => files'[v] = files[v]
  BY <1>1, <1>2 DEF Put
<1>3. CASE CrashInWrite
  BY <1>2, <1>3 DEF CrashInWrite, IInv, Coherent
<1>4. CASE Write
  BY <1>2, <1>4 DEF Write, IInv, Coherent
<1>5. CASE CheckpointFails
  <2>1. pc # "truncate" /\ pc # "down"
    BY <1>5, FailingStepsKnown DEF CheckpointFails, TruncateReturns
  <2>2. files' = files \/ files' = Put(version + 1, HalfWritten)
    BY <1>5 DEF CheckpointFails
  <2> QED  BY <1>2, <1>5, <2>1, <2>2 DEF CheckpointFails, IInv, Coherent
<1>6. CASE Commit
  BY <1>6 DEF Commit
<1>7. ASSUME NEW v \in DOMAIN files, Prune(v)
      PROVE  manifest' = manifest /\ \A u \in DOMAIN files' : files'[u] = files[u]
  BY <1>7 DEF Prune
<1>8. CASE files' = files /\ manifest' = manifest
  BY <1>8
<1>9. \/ CrashInWrite \/ Write \/ CheckpointFails \/ Commit
      \/ \E v \in DOMAIN files : Prune(v)
      \/ files' = files /\ manifest' = manifest
  BY DEF Next, Operation, Checkpoint, Start, Crash, Log, LogFails, CrashInLog,
     ApplyPending, StartCheckpoint, Truncate, EndCheckpoint, vars
<1> QED  BY <1>3, <1>4, <1>5, <1>6, <1>7, <1>8, <1>9

\* A published snapshot is never written to again and versions only grow.
THEOREM Immutability ==
  ASSUME TruncateReturns
  PROVE  Spec => PublishedImmutable
<1>1. ASSUME IInv, [Next]_vars
      PROVE  [/\ manifest' >= manifest
              /\ \A v \in DOMAIN files \cap DOMAIN files' :
                   v <= manifest => files'[v] = files[v]]_vars
  <2>1. manifest' >= manifest
    BY <1>1, ImmutableStep DEF IInv, TypeOK, Coherent, Commit
  <2> QED  BY <1>1, <2>1, ImmutableStep
<1> QED  BY <1>1, InductiveIInv, PTL DEF Spec, PublishedImmutable

-----------------------------------------------------------------------------
(* The writer implements DurableIndex *)

\* What a restart would load never leaves the ids there are.
LEMMA RecoveredIds == Recovered \subseteq Ids /\ Recovered' \subseteq Ids
BY DEF Recovered, Replay

\* A step that leaves the log and the published snapshot alone leaves the
\* promise where it is.
LEMMA PromiseStays ==
  ASSUME wal' = wal, manifest' = manifest,
         manifest \in DOMAIN files <=> manifest \in DOMAIN files',
         manifest \in DOMAIN files => files'[manifest] = files[manifest]
  PROVE  Recovered' = Recovered /\ Intact' = Intact
BY RecoveredStays DEF Intact

\* The writer's operations are the promise's.
LEMMA SameOperations ==
  /\ Promise!Ops = Ops /\ Promise!None = None
  /\ \A ids, o : Promise!Effect(ids, o) = Apply(ids, o)
BY DEF Promise!Ops, Ops, Promise!None, None, Torn, Promise!Effect, Apply

\* An append that returns, fails or is cut short extends the log and turns the
\* promise off, or adds its operation to what is durable, or adds nothing.
LEMMA AppendKeeps ==
  ASSUME IInv, NEW o \in Ops, files' = files, manifest' = manifest,
         \/ wal' = Extend(wal, o)
         \/ \E fault : Residue(o, fault)
  PROVE  Intact' => /\ Intact
                    /\ \/ Recovered' = Apply(Recovered, o)
                       \/ Recovered' = Recovered /\ wal' # Extend(wal, o)
<1> SUFFICES ASSUME Intact' PROVE Intact /\ (\/ Recovered' = Apply(Recovered, o)
                                             \/ Recovered' = Recovered /\ wal' # Extend(wal, o))
  OBVIOUS
<1>1. CASE wal' = Extend(wal, o)
  BY <1>1, RecoveredAppend, OpsAreLines DEF IInv
<1>2. CASE wal' = Extend(wal, Torn) /\ wal' # Extend(wal, o)
  BY <1>2, RecoveredAppend, OpsAreLines DEF IInv
<1> QED  BY <1>1, <1>2 DEF Residue

\* An empty directory and no process is where the promise starts.
LEMMA PromiseInit == Init => Promise!Init
<1> SUFFICES ASSUME Init PROVE Promise!Init
  OBVIOUS
<1>1. Recovered = {} /\ Intact = TRUE
  BY DEF Init, Recovered, Replay, Open, LastIs, Readable, Intact
<1> QED  BY <1>1, SameOperations DEF Init, Promise!Init

\* Every step of the writer is one of the promise's, or invisible to it.
LEMMA PromiseStep ==
  ASSUME IInv, [Next]_vars, TruncateReturns
  PROVE  [Promise!Next]_Promise!vars
<1> DEFINE invisible == UNCHANGED <<pc # "down", index, Recovered, pending, Intact>>
<1> SUFFICES Promise!Next \/ invisible
  BY DEF Promise!vars
<1> USE SameOperations, RecoveredIds DEF disk, memory
<1>1. ASSUME UNCHANGED <<wal, manifest, index, pending>>, pc' = "down" <=> pc = "down",
             files' = files \/ \E s : files' = Put(version + 1, s), version + 1 # manifest
      PROVE  invisible
  <2>1. Recovered' = Recovered /\ Intact' = Intact
    BY <1>1, PromiseStays DEF Put
  <2> QED  BY <1>1, <2>1
<1>2. pc \in {"write", "commit"} => version + 1 # manifest
  BY DEF IInv, Coherent, TypeOK
<1>3. pc # "logged" => pending = None
  BY DEF IInv, Coherent
<1>4. CASE Start
  <2>1. Recovered' = Recovered /\ Intact' = Intact
    BY <1>4, PromiseStays DEF Start
  <2>2. Promise!Restart
    BY <1>4, <2>1 DEF Start, Promise!Restart
  <2> QED  BY <2>2 DEF Promise!Next
<1>5. CASE Crash
  <2>1. Recovered' = Recovered /\ Intact' = Intact
    BY <1>5, PromiseStays DEF Crash
  <2>2. Promise!Stop
    BY <1>5, <2>1 DEF Crash, LoseMemory, Promise!Stop, Promise!Keeps
  <2> QED  BY <2>2 DEF Promise!Next
<1>6. CASE CrashInWrite
  <2>1. Recovered' = Recovered /\ Intact' = Intact
    BY <1>2, <1>6, PromiseStays DEF CrashInWrite, Put
  <2>2. Promise!Stop
    BY <1>6, <2>1 DEF CrashInWrite, LoseMemory, Promise!Stop, Promise!Keeps
  <2> QED  BY <2>2 DEF Promise!Next
<1>7. ASSUME NEW o \in Ops, Log(o) PROVE Promise!Next
  <2>1. Intact' => Intact /\ Recovered' = Apply(Recovered, o)
    BY <1>7, AppendKeeps DEF Log
  <2>2. Promise!Accept(o)
    BY <1>3, <1>7, <2>1 DEF Log, CanAppend, Promise!Accept, Promise!Free, Promise!Keeps
  <2> QED  BY <2>2 DEF Promise!Next
<1>8. ASSUME NEW o \in Ops, NEW fault \in Faults, LogFails(o, fault)
      PROVE  Promise!Next \/ invisible
  <2>1. Intact' => Intact /\ Recovered' \in {Apply(Recovered, o), Recovered}
    BY <1>8, AppendKeeps DEF LogFails
  <2>2. CASE Intact' /\ Recovered' = Recovered
    BY <1>8, <2>1, <2>2 DEF LogFails
  <2>3. CASE ~(Intact' /\ Recovered' = Recovered)
    <3>1. Promise!Refuse(o)
      BY <1>3, <1>8, <2>1, <2>3 DEF LogFails, CanAppend, Promise!Refuse, Promise!Free,
         Promise!Keeps
    <3> QED  BY <3>1 DEF Promise!Next
  <2> QED  BY <2>2, <2>3
<1>9. ASSUME NEW o \in Ops, NEW fault \in Faults, CrashInLog(o, fault)
      PROVE  Promise!Next
  <2>1. Intact' => Intact /\ Recovered' \in {Apply(Recovered, o), Recovered}
    BY <1>9, AppendKeeps DEF CrashInLog
  <2>2. Promise!Stop
    BY <1>3, <1>9, <2>1 DEF CrashInLog, CanAppend, LoseMemory, Promise!Stop, Promise!Keeps
  <2> QED  BY <2>2 DEF Promise!Next
<1>10. CASE ApplyPending
  <2>1. Recovered' = Recovered /\ Intact' = Intact
    BY <1>10, PromiseStays DEF ApplyPending
  <2>2. pending # None
    BY <1>10 DEF ApplyPending, IInv, Coherent
  <2>3. Promise!Acknowledge
    BY <1>10, <2>1, <2>2 DEF ApplyPending, Promise!Acknowledge
  <2> QED  BY <2>3 DEF Promise!Next
<1>11. CASE StartCheckpoint
  BY <1>11, PromiseStays DEF StartCheckpoint
<1>12. CASE Write
  BY <1>1, <1>2, <1>12 DEF Write
<1>13. CASE Commit
  <2>1. /\ Open(manifest)' = index /\ wal' = wal /\ Intact' = Intact
    BY <1>13 DEF Commit, IInv, Coherent, TypeOK, Open, Snapshot, Intact
  <2>2. Recovered' = Replay(index, wal)
    BY <2>1 DEF Recovered, Open, Replay, LastIs, Untouched, Readable
  <2>3. Recovered' \subseteq Recovered \cup index /\ Recovered \cap index \subseteq Recovered'
    BY <2>2 DEF Recovered, Replay
  <2>4. Promise!Publish
    BY <1>3, <1>13, <2>1, <2>3 DEF Commit, Promise!Publish, Promise!Free, Promise!Keeps
  <2> QED  BY <2>4 DEF Promise!Next
<1>14. CASE Truncate
  <2>1. Len(wal') = 0
    BY <1>14 DEF Truncate
  <2>2. Open(manifest)' = index /\ index \subseteq Ids
    BY <1>14 DEF Truncate, IInv, Coherent, TypeOK, Open, Snapshot
  <2>3. Recovered' = index /\ Intact'
    BY <2>1, <2>2 DEF Recovered, Replay, LastIs, Untouched, Readable, Intact
  <2>4. Promise!Publish
    BY <1>3, <1>14, <2>3 DEF Truncate, Promise!Publish, Promise!Free, Promise!Keeps
  <2> QED  BY <2>4 DEF Promise!Next
<1>15. ASSUME NEW v \in DOMAIN files, Prune(v) PROVE invisible
  <2>1. v # manifest
    BY <1>15 DEF Prune, Old, IInv, Coherent, TypeOK
  <2> QED  BY <1>15, <2>1, PromiseStays DEF Prune
<1>16. CASE EndCheckpoint
  BY <1>16, PromiseStays DEF EndCheckpoint
<1>17. CASE CheckpointFails
  <2>1. pc # "truncate" /\ pc # "down" /\ version + 1 # manifest
    BY <1>17, FailingStepsKnown DEF CheckpointFails, TruncateReturns, IInv, Coherent, TypeOK
  <2>2. files' = files \/ files' = Put(version + 1, HalfWritten)
    BY <1>17 DEF CheckpointFails
  <2> QED  BY <1>1, <1>17, <2>1, <2>2 DEF CheckpointFails
<1>18. CASE UNCHANGED vars
  BY <1>18, PromiseStays DEF vars
<1> QED
  BY <1>4, <1>5, <1>6, <1>7, <1>8, <1>9, <1>10, <1>11, <1>12, <1>13, <1>14,
     <1>15, <1>16, <1>17, <1>18 DEF Next, Operation, Checkpoint

\* The log, the snapshots, the manifest and the checkpoint are invisible to the
\* caller: the writer serves, loses and recovers what DurableIndex allows
\* (NFR-07, versioned_index_writer.py:8-10).
THEOREM Refinement ==
  ASSUME TruncateReturns
  PROVE  Spec => ImplementsDurableIndex
<1>1. IInv /\ [Next]_vars => [Promise!Next]_Promise!vars
  BY PromiseStep
<1> QED
  BY <1>1, PromiseInit, InductiveIInv, PTL DEF Spec, ImplementsDurableIndex, Promise!Spec
=============================================================================
