----------------------------- MODULE MCOverlay -----------------------------
(* Small instances of Overlay: a directory of the host with one file and  *)
(* a name nobody uses, a file of /tmp and what the router blocks.          *)
EXTENDS Overlay

D == <<"d">>
A == <<"d", "a">>
B == <<"d", "b">>
X == <<"tmp", "x">>
K == <<"tmp", ".cvisor">>

Few == {D, A, B, X, K}
FewOrder == <<D, X, K, A, B>>
FewHost == [p \in Few |-> CASE p = D -> "dir" [] p = A -> "host" [] OTHER -> "none"]

Abs(p) == [from |-> "root", segs |-> p]
FewRaw == {Abs(p) : p \in Few} \cup
  {Abs(<<"sys">>), Abs(<<"dev", "null">>),
   [from |-> "cwd", segs |-> <<"a">>],
   [from |-> "fd", segs |-> <<"..", "d", ".", "b">>],
   Abs(<<"d", "..", "..", "tmp", "x">>)}
Flags == {{}, {"write"}, {"write", "creat", "trunc"}, {"write", "creat", "excl"}}
=============================================================================
