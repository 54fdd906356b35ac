----------------------------- MODULE MCStorage -----------------------------
(* A small instance of Storage: two sandboxes of which one is registered,   *)
(* one snapshot id, keys of which one starts the two others.                *)
EXTENDS Storage

CONSTANTS a, b          \* files; b is excluded by an ignore file
CONSTANTS u, v, i, k, k1, k2

Longer == [x \in Keys |-> IF x = k THEN {k1, k2} ELSE {}]
Files(xa, xb) == [there |-> TRUE, f |-> [n \in Names |-> IF n = a THEN xa ELSE xb]]

Place(sb, snap, o1, o2, host, low) ==
  [p \in Places |-> CASE p = <<"sb", u>> -> sb
                      [] p = <<"snap", i>> -> snap
                      [] p = <<"obj", k1>> -> o1
                      [] p = <<"obj", k2>> -> o2
                      [] p = <<"host">> -> host
                      [] p = <<"lower">> -> low
                      [] OTHER -> NoTree]
Begin(sb, snap, o1, o2, host, low) ==
  [files |-> Place(sb, snap, o1, o2, host, low), boxes |-> {u},
   stamp |-> [x \in Keys |-> CASE x = k1 -> 2 [] x = k2 -> 1 [] OTHER -> 0]]

Symmetric == Permutations(Clients)

\* A directory the guest made, with an old snapshot and two old archives; a
\* directory of the host that the guest has not touched yet.
Beginnings ==
  {Begin(Files(1, 1), Files(2, 2), Files(2, 0), Files(1, 0), Files(2, 2), NoTree),
   Begin(NoTree, NoTree, NoTree, Files(2, 0), NoTree, Files(1, 0))}
=============================================================================
