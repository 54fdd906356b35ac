---------------------------- MODULE MCGuestFds ----------------------------
(* Small instances of GuestFds: which files there are does not matter.     *)
EXTENDS GuestFds, TLC

Symmetric == Permutations(Real) \cup Permutations(Virtual) \cup Permutations(Own)
               \cup Permutations(Threads)
=============================================================================
