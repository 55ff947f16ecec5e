---------------------------- MODULE DurableIndex ----------------------------
(***************************************************************************)
(* What the durable index promises its caller (NFR-07), with no log, no    *)
(* snapshot, no manifest and no checkpoint: an index that serves a set of  *)
(* ids, dies and comes back. The promise is off from the moment something  *)
(* is appended to an unfinished line until the index is published.         *)
(***************************************************************************)
CONSTANT Ids

VARIABLES
  up,       \* the writer's process is running
  served,   \* the ids a search may return, {} while the process is down
  durable,  \* the ids the next process will serve if this one dies now
  taken,    \* the operation accepted and not yet acknowledged, or None
  intact    \* the promise is on

vars == <<up, served, durable, taken, intact>>

Ops == [op : {"add"}, ids : SUBSET Ids \ {{}}]
         \cup [op : {"remove"}, ids : {{i} : i \in Ids}]
None == [op |-> "torn", ids |-> {}]

Effect(ids, o) == IF o.op = "add" THEN ids \cup o.ids ELSE ids \ o.ids

Init == ~up /\ served = {} /\ durable = {} /\ taken = None /\ intact = TRUE

Free == up /\ taken = None

\* While the promise is on, what is durable becomes one of `sets'.
Keeps(sets) ==
  /\ intact' => intact
  /\ durable' \in IF intact' THEN sets ELSE SUBSET Ids

\* An operation is durable before it is served ...
Accept(o) ==
  /\ Free
  /\ Keeps({Effect(durable, o)}) /\ taken' = o
  /\ UNCHANGED <<up, served>>

\* ... and served before it is acknowledged.
Acknowledge ==
  /\ up /\ taken # None
  /\ served' = Effect(served, taken) /\ taken' = None
  /\ UNCHANGED <<up, durable, intact>>

\* A refused operation is not served; it may still come back with the next
\* process.
Refuse(o) ==
  /\ Free
  /\ Keeps({Effect(durable, o)})
  /\ UNCHANGED <<up, served, taken>>

\* Publishing forgets refused operations and no other. It may turn the promise
\* on again.
Publish ==
  /\ Free
  /\ \/ Keeps({d \in SUBSET (durable \cup served) : durable \cap served \subseteq d})
     \/ ~intact /\ intact' /\ durable' = served
  /\ UNCHANGED <<up, served, taken>>

Stop ==
  /\ up
  /\ up' = FALSE /\ served' = {} /\ taken' = None
  /\ Keeps({durable} \cup (IF taken = None THEN {Effect(durable, o) : o \in Ops} ELSE {}))

Restart ==
  /\ ~up
  /\ up' = TRUE /\ served' = durable
  /\ UNCHANGED <<durable, taken, intact>>

Next ==
  \/ \E o \in Ops : Accept(o) \/ Refuse(o)
  \/ Acknowledge
  \/ Publish
  \/ Stop
  \/ Restart

Spec == Init /\ [][Next]_vars
=============================================================================
