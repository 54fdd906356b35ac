---------------------------- MODULE MCRegistry ----------------------------
(* A small instance of Registry.  Clients are interchangeable.             *)
EXTENDS Registry, TLC
CONSTANTS p0, p1

\* A daemon with a store that is restarted at any moment, whose clients never make
\* two requests for one sandbox at a time; and one whose clients make any two
\* requests at a time, with clones and spawns that fail.
TwoDeployments ==
  {[exclusive |-> TRUE, stored |-> TRUE, failures |-> {}, sids |-> 1, confs |-> {p0, p1}],
   [exclusive |-> FALSE, stored |-> FALSE, failures |-> {"prepare", "spawn"}, sids |-> 2,
    confs |-> {p0}]}

Symmetric == Permutations(Clients)
=============================================================================
