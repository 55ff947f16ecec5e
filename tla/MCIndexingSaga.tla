--------------------------- MODULE MCIndexingSaga ---------------------------
(***************************************************************************)
(* Instances of IndexingSaga for TLC.                                      *)
(***************************************************************************)
EXTENDS IndexingSaga, TLC

CONSTANTS t1, t2, p1, p2, d1, d2

OneText == {t1}
TwoTexts == {t1, t2}
TwoOrders == {0, 1}
OneProcess == {p1}
TwoProcesses == {p1, p2}
OneDoc == {d1}
TwoDocs == {d1, d2}

NothingFails == [k \in Topologies |-> {}]

\* Every step of the worker, and the snapshots of the web processes, whose other
\* steps are cut short by the death of a process.
AnyStepFails ==
  [k \in Topologies |-> IF k = "worker" THEN Steps ELSE {"save_indexed", "save_deleted"}]

\* Texts, documents and processes are compared and nothing else.
Symmetry == Permutations(Texts) \cup Permutations(Docs) \cup Permutations(Processes)
=============================================================================
