------------------------------ MODULE MCCpuRam ------------------------------
(* CpuRam.tla for TLC: the children are interchangeable. *)
EXTENDS CpuRam, TLC

Symmetry == Permutations(Children)
=============================================================================
