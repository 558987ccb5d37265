------------------------- MODULE MCFreeRTOSThread -------------------------
(* Instances of FreeRTOSThread for TLC. *)
EXTENDS FreeRTOSThread, TLC
Symmetry == Permutations(Producers)
===========================================================================
