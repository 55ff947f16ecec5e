-------------------------- MODULE MCVersionedIndex --------------------------
(***************************************************************************)
(* Instances of VersionedIndex for TLC.                                    *)
(***************************************************************************)
EXTENDS VersionedIndex

CONSTANTS i1, i2

MCIds == {i1, i2}
MCSymmetry == Permutations(MCIds)
=============================================================================
