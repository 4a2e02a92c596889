-------------------------- MODULE MCServiceManager --------------------------
(* Finite instances of ServiceManager and SerialServiceManager for TLC. *)
EXTENDS SerialServiceManager, TLC

HandlerSymmetry == Permutations(Handlers)

RetryTwice == {[retry |-> TRUE, maxRetries |-> 2]}
RetryOnce == {[retry |-> TRUE, maxRetries |-> 1]}
NoRetry == {[retry |-> FALSE, maxRetries |-> 1]}
=============================================================================
