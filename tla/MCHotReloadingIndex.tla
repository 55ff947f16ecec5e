------------------------ MODULE MCHotReloadingIndex ------------------------
(***************************************************************************)
(* Instances of HotReloadingIndex for TLC.                                 *)
(***************************************************************************)
EXTENDS HotReloadingIndex

CONSTANT i1

OneId == {i1}
=============================================================================
