-------------------------- MODULE MCStdlibThread --------------------------
(* Instances of StdlibThread for TLC. *)
EXTENDS StdlibThread, TLC
Symmetry == Permutations(Producers)
===========================================================================
