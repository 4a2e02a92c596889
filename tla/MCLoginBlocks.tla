---------------------------- MODULE MCLoginBlocks ---------------------------
(* Finite instances of LoginBlocks for TLC. *)
EXTENDS LoginBlocks, TLC

LoginSymmetry == Permutations(Handlers)
=============================================================================
