----------------------------- MODULE PlainTree -----------------------------
(***************************************************************************)
(* What a sandbox promises its guest about files: one private tree that    *)
(* only the guest's own calls change, each as the kernel would change it,  *)
(* and that the next run of the sandbox finds as the last one left it.     *)
(***************************************************************************)
EXTENDS TreeOps

CONSTANT OpenFlags

VARIABLES tree, cwd

vars == <<tree, cwd>>

\* The calls that change the tree t, and the trees they leave.
Open(t, p, f) == KOpen(t, p, f).tree
Mkdir(t, p) == KMake(t, p, "dir").tree
Symlink(t, p) == KMake(t, p, "link").tree
Unlink(t, p) == KUnlink(t, p).tree
Rmdir(t, p) == KRmdir(t, p).tree
Rename(t, p, q) == KRename(t, p, q, FALSE).tree
Write(t, p) == IF t[p] \in Contents THEN [t EXCEPT ![p] = "new"] ELSE t

\* The path a call is about is among those where the trees differ.
Changes(t, u) ==
  \E p \in {q \in Paths : t[q] # u[q]} :
    \/ u \in {Unlink(t, p), Rmdir(t, p), Write(t, p), Mkdir(t, p), Symlink(t, p)}
    \/ \E f \in OpenFlags : u = Open(t, p, f)
    \/ \E q \in Paths : u = Rename(t, p, q)

Chdir(p) == Look(tree, p) = "dir" /\ cwd' = p

\* fchdir: the directory was there when it was opened.
Fchdir(p) == cwd' = p
Rerun == cwd' = <<>>

Init == tree \in [Paths -> Nodes] /\ cwd = <<>>

Next ==
  \/ UNCHANGED tree /\ (Rerun \/ \E p \in Paths \cup Roots : Chdir(p) \/ Fchdir(p))
  \/ Changes(tree, tree') /\ UNCHANGED cwd

Spec == Init /\ [][Next]_vars
=============================================================================
