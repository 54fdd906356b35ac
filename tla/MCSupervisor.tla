--------------------------- MODULE MCSupervisor ---------------------------
(* Small instances of Supervisor.  Workers are interchangeable.            *)
EXTENDS Supervisor, TLC

Symmetric == Permutations(Workers)
=============================================================================
