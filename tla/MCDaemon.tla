------------------------------ MODULE MCDaemon ------------------------------
(* Finite instances of Daemon for TLC. *)
EXTENDS Daemon

RetryOnce == {[retry |-> TRUE, maxRetries |-> 1]}
=============================================================================
