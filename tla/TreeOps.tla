------------------------------ MODULE TreeOps ------------------------------
(***************************************************************************)
(* What the kernel does to a tree of files, for the calls the supervisor   *)
(* makes on the trees of the host and for the calls a guest believes it    *)
(* makes on its own.  A tree maps every path of a finite set to what is    *)
(* there: nothing, a directory, a symbolic link or the content of a file.  *)
(* Each operator answers with a result and the tree afterwards.            *)
(***************************************************************************)
EXTENDS Naturals, Sequences

CONSTANT Paths   \* the paths of the trees, apart from the roots

\* Directories that are always there: / and /tmp.
Roots == {<<>>, <<"tmp">>}
Contents == {"host", "empty", "new"}
Nodes == Contents \cup {"none", "dir", "link"}

Parent(p) == SubSeq(p, 1, Len(p) - 1)
Above == [p \in Paths \cup Roots |-> {SubSeq(p, 1, n) : n \in 0..Len(p) - 1}]
Between == [p \in Paths \cup Roots |-> Above[p] \ Roots]
Directly == [p \in Paths \cup Roots |-> {q \in Paths : Len(q) = Len(p) + 1 /\ p \in Above[q]}]

At(t, p) == IF p \in Roots THEN "dir" ELSE t[p]
Look(t, p) == IF \A a \in Between[p] : t[a] = "dir" THEN At(t, p) ELSE "none"
Exists(t, p) == Look(t, p) # "none"
Children(t, p) == {q \in Directly[p] : t[q] # "none"}

Answer(r, t) == [res |-> r, tree |-> t]
Put(t, p, n) == Answer("ok", [t EXCEPT ![p] = n])

\* Flags are a subset of {"write", "creat", "trunc", "excl"}.
KOpen(t, p, flags) ==
  LET n == Look(t, p) IN
  CASE n = "none" /\ "creat" \in flags /\ Look(t, Parent(p)) = "dir" -> Put(t, p, "empty")
    [] n = "none" /\ ~("creat" \in flags /\ Look(t, Parent(p)) = "dir") -> Answer("ENOENT", t)
    [] n # "none" /\ "excl" \in flags -> Answer("EEXIST", t)
    [] n = "dir" /\ "excl" \notin flags ->
         Answer(IF flags = {} THEN "ok" ELSE "EISDIR", t)
    [] n \in Contents /\ "excl" \notin flags ->
         IF "trunc" \in flags THEN Put(t, p, "empty") ELSE Answer("ok", t)
    [] OTHER -> Answer("ENOENT", t)

\* mkdir and symlink.
KMake(t, p, n) ==
  CASE Exists(t, p) -> Answer("EEXIST", t)
    [] ~Exists(t, p) /\ Look(t, Parent(p)) = "dir" -> Put(t, p, n)
    [] OTHER -> Answer("ENOENT", t)

KUnlink(t, p) ==
  CASE Look(t, p) = "none" -> Answer("ENOENT", t)
    [] Look(t, p) = "dir" -> Answer("EISDIR", t)
    [] OTHER -> Put(t, p, "none")

KRmdir(t, p) ==
  CASE Look(t, p) = "none" -> Answer("ENOENT", t)
    [] Look(t, p) \notin {"none", "dir"} -> Answer("ENOTDIR", t)
    [] Look(t, p) = "dir" /\ Children(t, p) # {} -> Answer("ENOTEMPTY", t)
    [] OTHER -> Put(t, p, "none")

KRename(t, p, q, noreplace) ==
  CASE Look(t, p) = "none" -> Answer("ENOENT", t)
    [] Exists(t, p) /\ noreplace /\ Exists(t, q) -> Answer("EEXIST", t)
    [] Exists(t, p) /\ Look(t, Parent(q)) # "dir" -> Answer("ENOENT", t)
    [] OTHER -> Answer("ok", [t EXCEPT ![p] = "none", ![q] = t[p]])

\* Calls that only look, and chmod and utimensat, whose effect no tree shows.
KStat(t, p) == IF Exists(t, p) THEN Look(t, p) ELSE "ENOENT"
KAccess(t, p) == IF Exists(t, p) THEN "ok" ELSE "ENOENT"
KReadlink(t, p) == CASE Look(t, p) = "link" -> "ok" [] Look(t, p) = "none" -> "ENOENT" [] OTHER -> "EINVAL"
KChdir(t, p) == CASE Look(t, p) = "dir" -> "ok" [] Look(t, p) = "none" -> "ENOENT" [] OTHER -> "ENOTDIR"
KExec(t, p) == CASE Look(t, p) \in Contents -> Look(t, p) [] Look(t, p) = "none" -> "ENOENT" [] OTHER -> "EACCES"
=============================================================================
