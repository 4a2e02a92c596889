---------------------------- MODULE MCStopIntent ----------------------------
(* Finite instances of StopIntent for TLC. *)
EXTENDS StopIntent

RetryTwice == {[retry |-> TRUE, maxRetries |-> 2]}
AnyConfig == [retry : BOOLEAN, maxRetries : {0, 1}]
=============================================================================
