----------------------- MODULE MCServiceDefinitions -------------------------
(* Finite instances of ServiceDefinitions for TLC. *)
EXTENDS ServiceDefinitions, TLC

EditorSymmetry == Permutations(Editors)

RetryOnceOrTwice == [retry : {TRUE}, maxRetries : {1, 2}]
=============================================================================
