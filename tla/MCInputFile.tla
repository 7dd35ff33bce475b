----------------------------- MODULE MCInputFile -----------------------------
(* Instances of InputFile for TLC. *)
EXTENDS InputFile, TLC

CONSTANTS a, b  \* two file names

Symmetry == Permutations(Names)
=============================================================================
