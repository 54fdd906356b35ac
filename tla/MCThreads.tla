----------------------------- MODULE MCThreads -----------------------------
(* Instances of Threads for TLC: init is 1, the host task 9. *)
EXTENDS Threads
=============================================================================
