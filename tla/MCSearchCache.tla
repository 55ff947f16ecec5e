--------------------------- MODULE MCSearchCache ---------------------------
(***************************************************************************)
(* Instances of SearchCache for TLC.                                       *)
(***************************************************************************)
EXTENDS SearchCache

CONSTANTS s1, s2

OneSearcher == {s1}
TwoSearchers == {s1, s2}
=============================================================================
