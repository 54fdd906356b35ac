------------------------------ MODULE Overlay ------------------------------
(***************************************************************************)
(* The file tree a guest sees: a lower layer, which is the host's own tree *)
(* and must stay as it is, an upper layer in the sandbox's directory and   *)
(* the set of tombstones, which hides what the guest has deleted.  Every   *)
(* handler runs under the state mutex, so it is one action; what is open   *)
(* stays open between them: files, one directory being listed and the      *)
(* working directory.                                                      *)
(*                                                                         *)
(* upper stands for both directories of the overlay: the paths below /tmp  *)
(* live in tmp/, which has no lower layer, all others in cow/.  The        *)
(* symbolic links a guest makes point nowhere, and no call follows one.    *)
(*                                                                         *)
(* The answer of a call is a record: its result, the upper layer and the   *)
(* tombstones it leaves behind, also when it fails half-way.               *)
(***************************************************************************)
EXTENDS TreeOps, FiniteSetsExt

CONSTANTS
  Order,       \* all Paths, in the order in which the host's directories list them
  HostTree,    \* the lower layer
  Raw,         \* paths as the guest writes them: [from, segs]
  OpenFlags,   \* sets of flags for openat
  Handles,     \* files the guest can hold open
  MaxOpen,     \* bound: files and directories open at the same time
  Page,        \* entries that fit into the guest's buffer of getdents64
  Careless     \* what the guest does although the overlay is known not to
               \* follow the kernel there: see Careful below

Everywhere == Paths \cup Roots

ASSUME PathsAssumption == Roots \cap Paths = {} /\ Page \in Nat \ {0}
ASSUME NamesAssumption == Everywhere \subseteq Seq(STRING) /\ \A p \in Paths : Between[p] \subseteq Paths
ASSUME TreeAssumption ==
  /\ HostTree \in [Paths -> {"none", "dir", "host"}]
  /\ \A p \in Paths : HostTree[p] # "none" => \A a \in Between[p] : HostTree[a] = "dir"
ASSUME OrderAssumption ==
  /\ Order \in Seq(Paths)
  /\ \A p \in Paths : \E i \in 1..Len(Order) : Order[i] = p
  /\ \A i, j \in 1..Len(Order) : Order[i] = Order[j] => i = j

VARIABLES
  lower, upper, tombstones,
  cwd,
  handle,      \* open files: [layer, at, name, write]
  ls           \* the directory being listed: [dir, off, got, still, twice, done]

vars == <<lower, upper, tombstones, cwd, handle, ls>>

\* No path: what has lost its name, and no directory.
Gone == <<"gone">>
ASSUME GoneAssumption == Gone \notin Everywhere

NoHandle == [layer |-> "none", at |-> Gone, name |-> Gone, write |-> FALSE]
NoListing == [dir |-> Gone, off |-> 0, got |-> {}, still |-> {}, twice |-> {}, done |-> FALSE]
Listing == ls.dir # Gone
Room == Cardinality({h \in Handles : handle[h] # NoHandle}) + (IF Listing THEN 1 ELSE 0) < MaxOpen

-----------------------------------------------------------------------------
(* Paths                                                                   *)

\* ".." drops what is left of it, as far as there is anything left.
normalize(base, raw) ==
  LET seg == raw.segs
      feed[n \in 0..Len(seg)] ==
        CASE n = 0 -> IF raw.from = "root" THEN <<>> ELSE base
          [] n > 0 /\ seg[n] = "." -> feed[n - 1]
          [] n > 0 /\ seg[n] = ".." -> IF feed[n - 1] = <<>> THEN <<>> ELSE Parent(feed[n - 1])
          [] OTHER -> Append(feed[n - 1], seg[n])
  IN  feed[Len(seg)]

\* Mutant: the directory of the overlays is served as a part of /tmp.
route_all_tmp(p) ==
  CASE p = <<>> -> "cow"
    [] p # <<>> /\ p[1] \in {"sys", "run", ".b", "dev"} -> "block"
    [] p # <<>> /\ p[1] = "tmp" -> "tmp"
    [] OTHER -> "cow"
route(p) ==
  CASE p = <<>> -> "cow"
    [] p # <<>> /\ p[1] \in {"sys", "run", ".b"} -> "block"
    [] p # <<>> /\ p[1] = "dev" ->
         IF Len(p) = 2 /\ p[2] \in {"null", "zero", "random", "urandom"} THEN "passthrough" ELSE "block"
    [] p # <<>> /\ p[1] = "proc" -> "proc"
    [] p # <<>> /\ p[1] = "tmp" -> IF Len(p) > 1 /\ p[2] = ".cvisor" THEN "block" ELSE "tmp"
    [] OTHER -> "cow"
Served == [p \in Everywhere |-> route(p)]

\* The base of a relative path is the working directory or the name under
\* which the directory of a dirfd was opened.
resolve_path(raw) == normalize(IF raw.from = "fd" THEN ls.dir ELSE cwd, raw)

\* What the guest can name now and the overlay serves; calls on other paths
\* are refused or belong to other backends and change nothing here.
Named ==
  {p \in {resolve_path(raw) : raw \in {r \in Raw : r.from # "fd" \/ Listing}} :
     p \in Everywhere /\ Served[p] \in {"cow", "tmp"}}

-----------------------------------------------------------------------------
(* Tombstones and layers                                                   *)

is_tombstoned(p) == p \in tombstones
is_ancestor_tombstoned(p) == Above[p] \cap tombstones # {}
remove_children(d) == {q \in tombstones : d \notin Above[q]}
Hidden(p) == is_tombstoned(p) \/ is_ancestor_tombstoned(p)

cow_exists(p) == Exists(upper, p)
guest_path_exists(p) == Exists(upper, p) \/ (Served[p] = "cow" /\ Exists(lower, p))
is_guest_dir(p) == IF cow_exists(p) THEN Look(upper, p) = "dir" ELSE Look(lower, p) = "dir"

\* statx by path: the upper copy if there is one, else the lower file.
statx_routed(p) ==
  IF Served[p] = "tmp" \/ cow_exists(p) THEN Look(upper, p)
  ELSE IF Served[p] = "cow" THEN Look(lower, p) ELSE "none"

\* The tree as the calls show it.
Shown(p) == IF p \in Roots THEN "dir" ELSE IF Hidden(p) THEN "none" ELSE statx_routed(p)
View == [p \in Paths |-> Shown(p)]

create_cow_parent_dirs(u, p) ==
  IF \E a \in Between[p] : u[a] \notin {"none", "dir"}
  THEN Answer(IF Served[p] = "tmp" THEN "ENOENT" ELSE "EIO", u)
  ELSE Answer("ok", [q \in Paths |-> IF q \in Between[p] /\ u[q] = "none" THEN "dir" ELSE u[q]])

\* The copy of a directory fails after its file has been created.
copy_file(u, p) ==
  CASE Look(lower, p) = "none" -> Answer("ENOENT", u)
    [] Look(lower, p) = "dir" -> Answer("EISDIR", [u EXCEPT ![p] = "empty"])
    [] OTHER -> Put(u, p, Look(lower, p))

copy_up(p) ==
  LET made == create_cow_parent_dirs(upper, p) IN
  IF made.res = "ok" THEN copy_file(made.tree, p) ELSE made

\* Mutant: a file opened for writing alone counts as opened for reading.
has_write_flags_creat(flags) == flags \cap {"creat", "trunc"} # {}
has_write_flags(flags) == flags \cap {"write", "creat", "trunc"} # {}

cow_open(p, flags) ==
  CASE cow_exists(p) -> KOpen(upper, p, flags)
    [] ~cow_exists(p) /\ ~has_write_flags(flags) -> Answer(KOpen(lower, p, flags).res, upper)
    [] OTHER ->
         LET made == create_cow_parent_dirs(upper, p)
             ready == IF Exists(lower, p) THEN copy_up(p) ELSE made
         IN  CASE ready.res # "ok" -> ready
               [] ready.res = "ok" /\ ~Exists(lower, p) /\ "creat" \notin flags -> Answer("ENOENT", made.tree)
               [] OTHER -> KOpen(ready.tree, p, flags)
tmp_open(p, flags) == KOpen(upper, p, flags)

\* Mutant: a file of the host is read where it is, copied or not.
OpenedLayer_low(p, flags) ==
  IF Served[p] = "cow" /\ ~has_write_flags(flags) THEN "lower" ELSE "upper"
\* Which layer a successful open leaves open.
OpenedLayer(p, flags) ==
  IF Served[p] = "cow" /\ ~cow_exists(p) /\ ~has_write_flags(flags) THEN "lower" ELSE "upper"

-----------------------------------------------------------------------------
(* Answers                                                                 *)

With(a, ts) == [res |-> a.res, upper |-> a.tree, ts |-> ts]
Fails(r) == With(Answer(r, upper), tombstones)

Unhide(p) == tombstones \ {p}

\* open, creat, openat: the tombstone goes before the open is tried.
openat(p, flags) ==
  IF is_ancestor_tombstoned(p) \/ (is_tombstoned(p) /\ "creat" \notin flags)
  THEN Fails("ENOENT")
  ELSE With(IF Served[p] = "tmp" THEN tmp_open(p, flags) ELSE cow_open(p, flags), Unhide(p))

\* cow_mkdir, tmp_mkdir, cow_symlink, tmp_symlink.
cow_make(p, n) ==
  LET made == create_cow_parent_dirs(upper, p) IN
  IF made.res = "ok" THEN KMake(made.tree, p, n) ELSE made

\* mkdirat and symlinkat, the same way.
make(p, n) ==
  IF ~is_tombstoned(p) /\ guest_path_exists(p) THEN Fails("EEXIST") ELSE With(cow_make(p, n), Unhide(p))

\* Best effort: rmdir leaves a directory that is not empty.
remove_path(p, is_dir) == (IF is_dir THEN KRmdir(upper, p) ELSE KUnlink(upper, p)).tree

\* unlinkat: whether a directory is empty is not looked at.
unlinkat(p, remove_dir) ==
  LET found == guest_path_exists(p) /\ (Served[p] = "cow" => ~Hidden(p))
  IN  CASE ~found -> Fails("ENOENT")
        [] found /\ remove_dir /\ ~is_guest_dir(p) -> Fails("ENOTDIR")
        [] found /\ ~remove_dir /\ is_guest_dir(p) -> Fails("EISDIR")
        [] OTHER -> With(Answer("ok", remove_path(p, remove_dir)),
                         IF Served[p] = "tmp" THEN tombstones
                         ELSE (IF remove_dir THEN remove_children(p) ELSE tombstones) \cup {p})

\* Mutant: a deleted path is still there for rename.
rename_probe_blind(p) == guest_path_exists(p)
rename_probe(p) == guest_path_exists(p) /\ (Served[p] = "cow" => ~Hidden(p))

\* Mutant: the lower original of the source stays in sight.
Moved_shown(p, q) == tombstones \ {q}
\* The source is hidden, then the destination shown: they may be one path.
Moved(p, q) == (IF Served[p] = "cow" THEN tombstones \cup {p} ELSE tombstones) \ {q}

\* renameat, renameat2: files within one backend.
renameat(p, q, noreplace) ==
  LET copied == IF Served[p] = "cow" /\ ~cow_exists(p) THEN copy_up(p) ELSE Answer("ok", upper)
      room == create_cow_parent_dirs(copied.tree, q)
      found == rename_probe(p)
      file == found /\ ~is_guest_dir(p)
  IN  CASE Served[p] # Served[q] -> Fails("EXDEV")
        [] Served[p] = Served[q] /\ ~found -> Fails("ENOENT")
        [] Served[p] = Served[q] /\ found /\ ~file -> Fails("EXDEV")
        [] Served[p] = Served[q] /\ file /\ rename_probe(q) /\ (noreplace \/ is_guest_dir(q)) ->
             Fails(IF noreplace THEN "EEXIST" ELSE "EXDEV")
        [] OTHER ->
             IF copied.res # "ok" \/ room.res # "ok"
             THEN With(Answer("EIO", copied.tree), tombstones)
             ELSE With(KRename(room.tree, p, q, FALSE), Moved(p, q))

\* fchmodat looks for a tombstone of the path itself, utimensat for none.
touch(p, checks) ==
  CASE checks /\ is_tombstoned(p) -> Fails("ENOENT")
    [] ~(checks /\ is_tombstoned(p)) /\ Served[p] = "cow" /\ ~cow_exists(p) /\ Exists(lower, p) ->
         With(copy_up(p), tombstones)
    [] OTHER -> Fails(KAccess(upper, p))

\* newfstatat, stat, lstat, and statx, which glibc uses for all of them.
statx(p) == IF Hidden(p) \/ statx_routed(p) = "none" THEN "ENOENT" ELSE statx_routed(p)
fstatat(p) == IF Shown(p) = "none" THEN "ENOENT" ELSE Shown(p)

\* Permission bits are asked of the lower file, also for an upper copy.
faccessat(p, mode) ==
  CASE Hidden(p) \/ ~guest_path_exists(p) -> "ENOENT"
    [] ~Hidden(p) /\ guest_path_exists(p) /\ mode # "F_OK" /\ Served[p] = "cow" -> KAccess(lower, p)
    [] OTHER -> "ok"

\* readlinkat, chdir and execve do not look at tombstones.
Layer(p) == IF Served[p] = "tmp" \/ cow_exists(p) THEN upper ELSE lower
readlinkat(p) == KReadlink(Layer(p), p)
chdir(p) == KChdir(Layer(p), p)
execve(p) == KExec(Layer(p), p)

-----------------------------------------------------------------------------
(* The guest                                                               *)

\* Where the overlay is known to differ from the kernel, the guest of the
\* model keeps away from the difference unless the tag is in Careless.
Careful(tag, safe) == tag \in Careless \/ safe

NotLink(p) == statx_routed(p) # "link"

\* A call that creates p: its parent is there, p is not a deleted directory
\* of the host, and the directory being listed keeps its entries.
CarefulCreate(p) ==
  /\ Careful("parents", Shown(Parent(p)) = "dir")
  /\ Careful("recreate_dir", ~(is_tombstoned(p) /\ Look(lower, p) = "dir"))
  /\ Careful("list_changes", Shown(p) # "none" \/ ls.dir # Parent(p))

\* A call that removes p.
CarefulRemove(p) == Careful("list_changes", ls.dir # Parent(p) \/ (Served[p] = "cow" /\ Exists(lower, p)))

\* A call that copies p up: p is a file that nobody holds open for reading.
CarefulCopy(p) ==
  /\ Careful("dir_copy_up", ~(Shown(p) = "dir" /\ ~cow_exists(p)))
  /\ Careful("reader_writer", \A h \in Handles : handle[h].layer # "lower" \/ handle[h].name # p)

CarefulOpen(p, flags) ==
  /\ NotLink(p)
  /\ has_write_flags(flags) => p \notin Roots /\ CarefulCopy(p) /\ CarefulCreate(p)
  /\ Careful("old_content", is_tombstoned(p) /\ Exists(lower, p) => "trunc" \in flags /\ "excl" \notin flags)
CarefulUnlink(p, remove_dir) ==
  /\ Careful("rmdir_full", remove_dir => \A q \in Directly[p] : Shown(q) = "none")
  /\ CarefulRemove(p)
CarefulRename(p, q) ==
  /\ CarefulCreate(q) /\ CarefulRemove(p)
  /\ Careful("reader_writer", \A h \in Handles : handle[h].layer # "lower" \/ handle[h].name \notin {p, q})
CarefulLook(p) == Careful("deleted", ~Hidden(p))
CarefulTouch(p) == NotLink(p) /\ CarefulCopy(p) /\ CarefulLook(p)
CarefulAccess(p, mode) ==
  Careful("access_upper", mode = "F_OK" \/ Served[p] = "tmp" \/ (cow_exists(p) => Exists(lower, p)))

-----------------------------------------------------------------------------
(* Calls                                                                   *)

\* A call that leaves both layers and the tombstones alone is no step, unless
\* it opens a file.
Alters(a) == a.upper # upper \/ a.ts # tombstones

\* A listing counts on those entries only that have been there all the time.
Apply(a) ==
  /\ upper' = a.upper
  /\ tombstones' = a.ts
  /\ UNCHANGED lower
  /\ ls' = [ls EXCEPT !.still = {q \in @ : Shown(q)' # "none"}]

sys_openat(p, flags, h) ==
  LET a == openat(p, flags) IN
  /\ CarefulOpen(p, flags)
  /\ a.res = "ok" => Shown(p) # "dir" /\ handle[h] = NoHandle /\ Room
  /\ a.res = "ok" \/ Alters(a)
  /\ Apply(a)
  /\ handle' = IF a.res # "ok" THEN handle
               ELSE [handle EXCEPT ![h] = [layer |-> OpenedLayer(p, flags), at |-> p, name |-> p,
                                           write |-> "write" \in flags]]
  /\ UNCHANGED cwd

opendir(p) ==
  /\ CarefulOpen(p, {}) /\ openat(p, {}).res = "ok" /\ Shown(p) = "dir"
  /\ ~Listing /\ Room
  /\ ls' = [NoListing EXCEPT !.dir = p, !.still = Children(View, p)]
  /\ UNCHANGED <<lower, upper, tombstones, cwd, handle>>

sys_close(h) ==
  /\ handle[h] # NoHandle
  /\ handle' = [handle EXCEPT ![h] = NoHandle]
  /\ UNCHANGED <<lower, upper, tombstones, cwd, ls>>

\* A write goes to the file that was opened, whatever its name is now.
sys_write(h) ==
  LET at == handle[h].at IN
  /\ handle[h].write
  /\ lower' = IF handle[h].layer = "lower" THEN [lower EXCEPT ![at] = "new"] ELSE lower
  /\ upper' = IF handle[h].layer = "upper" /\ handle[h].name # Gone THEN [upper EXCEPT ![at] = "new"] ELSE upper
  /\ UNCHANGED <<tombstones, cwd, handle, ls>>

\* A listing is a set of places: those of the lower layer's entries, in their
\* order, and after them those of the upper layer's.
Entry(i) == Order[IF i <= Len(Order) THEN i ELSE i - Len(Order)]
Place(places, i) == Cardinality({j \in places : j <= i})
Entries(places) == {Entry(i) : i \in places}

low_dirents(d) == IF Served[d] = "cow" /\ Look(lower, d) = "dir" THEN Children(lower, d) ELSE {}
up_dirents(d) == IF Look(upper, d) = "dir" THEN Children(upper, d) ELSE {}

\* Mutant: entries of the upper layer that hide lower ones are listed again.
merged_twice(d) ==
  {i \in 1..2 * Len(Order) : Entry(i) \in IF i <= Len(Order) THEN low_dirents(d) ELSE up_dirents(d)}
\* The lower entries first, then what only the upper layer has.
cow_merged_dirents(d) ==
  {i \in 1..2 * Len(Order) : Entry(i) \in IF i <= Len(Order) THEN low_dirents(d) ELSE up_dirents(d) \ low_dirents(d)}

\* Tombstoned entries are passed over, the rest fills the page; the offset
\* counts the entries before the first that did not fit.
serialize_entries(map) ==
  LET live == {i \in map : Place(map, i) > ls.off /\ Entry(i) \notin tombstones}
      page == {i \in live : Place(live, i) <= Page}
      rest == live \ page
  IN  [names |-> Entries(page),
       off |-> CASE rest # {} -> Place(map, Min(rest)) - 1
                 [] rest = {} /\ ls.off > Cardinality(map) -> ls.off
                 [] OTHER -> Cardinality(map)]

sys_getdents64 ==
  LET s == serialize_entries(cow_merged_dirents(ls.dir)) IN
  /\ Listing /\ ~ls.done
  /\ ls' = [ls EXCEPT !.off = s.off,
                      !.got = @ \cup s.names,
                      !.twice = @ \cup (s.names \cap ls.got \cap ls.still),
                      !.done = s.names = {}]
  /\ UNCHANGED <<lower, upper, tombstones, cwd, handle>>

closedir ==
  /\ Listing
  /\ ls' = NoListing
  /\ UNCHANGED <<lower, upper, tombstones, cwd, handle>>

sys_mkdirat(p) == CarefulCreate(p) /\ Alters(make(p, "dir")) /\ Apply(make(p, "dir")) /\ UNCHANGED <<cwd, handle>>
sys_symlinkat(p) == CarefulCreate(p) /\ Alters(make(p, "link")) /\ Apply(make(p, "link")) /\ UNCHANGED <<cwd, handle>>

\* Files held open under p lose their name.
sys_unlinkat(p, remove_dir) ==
  LET a == unlinkat(p, remove_dir) IN
  /\ CarefulUnlink(p, remove_dir)
  /\ Alters(a) /\ Apply(a)
  /\ handle' = [h \in Handles |->
       IF a.res = "ok" /\ handle[h].name = p THEN [handle[h] EXCEPT !.name = Gone] ELSE handle[h]]
  /\ UNCHANGED cwd

\* RENAME_NOREPLACE can only add a refusal (RepliesAgree).
sys_renameat(p, q) ==
  LET a == renameat(p, q, FALSE) IN
  /\ CarefulRename(p, q)
  /\ Alters(a) /\ Apply(a)
  /\ handle' = [h \in Handles |->
       CASE a.res = "ok" /\ p # q /\ handle[h].name = q -> [handle[h] EXCEPT !.name = Gone]
         [] a.res = "ok" /\ p # q /\ handle[h].name = p -> [handle[h] EXCEPT !.name = q, !.at = q]
         [] OTHER -> handle[h]]
  /\ UNCHANGED cwd

sys_fchmodat(p) == CarefulTouch(p) /\ Alters(touch(p, TRUE)) /\ Apply(touch(p, TRUE)) /\ UNCHANGED <<cwd, handle>>
sys_utimensat(p) == CarefulTouch(p) /\ Alters(touch(p, FALSE)) /\ Apply(touch(p, FALSE)) /\ UNCHANGED <<cwd, handle>>

sys_chdir(p) ==
  /\ CarefulLook(p) /\ chdir(p) = "ok"
  /\ cwd' = p
  /\ UNCHANGED <<lower, upper, tombstones, handle, ls>>

\* Mutant: a descriptor that is not open is not refused.
sys_fchdir_any ==
  /\ cwd' = ls.dir
  /\ UNCHANGED <<lower, upper, tombstones, handle, ls>>
\* fchdir takes the name under which the directory was opened.
sys_fchdir ==
  /\ Listing
  /\ cwd' = ls.dir
  /\ UNCHANGED <<lower, upper, tombstones, handle, ls>>

\* The guest exits; the next run of the sandbox has the same upper layer and a
\* supervisor of its own.
make_supervisor ==
  /\ Careful("rerun", tombstones = {})
  /\ tombstones' = {}
  /\ cwd' = <<>>
  /\ handle' = [h \in Handles |-> NoHandle]
  /\ ls' = NoListing
  /\ UNCHANGED <<lower, upper>>

Init ==
  /\ lower = HostTree
  /\ upper = [p \in Paths |-> "none"]
  /\ tombstones = {}
  /\ cwd = <<>>
  /\ handle = [h \in Handles |-> NoHandle]
  /\ ls = NoListing

Next ==
  LET named == Named IN
  \/ \E p \in named, flags \in OpenFlags, h \in Handles : sys_openat(p, flags, h)
  \/ \E p \in named : opendir(p) \/ sys_chdir(p)
  \/ \E p \in named \ Roots :
       \/ sys_mkdirat(p) \/ sys_symlinkat(p) \/ sys_fchmodat(p) \/ sys_utimensat(p)
       \/ \E remove_dir \in BOOLEAN : sys_unlinkat(p, remove_dir)
       \/ \E q \in named \ Roots : sys_renameat(p, q)
  \/ \E h \in Handles : sys_close(h) \/ sys_write(h)
  \/ sys_getdents64 \/ closedir \/ sys_fchdir
  \/ make_supervisor

Spec == Init /\ [][Next]_vars

-----------------------------------------------------------------------------
(* Properties                                                              *)

TypeOK ==
  /\ lower \in [Paths -> Nodes] /\ upper \in [Paths -> Nodes]
  /\ tombstones \subseteq Paths /\ cwd \in Everywhere
  /\ handle \in [Handles -> [layer : {"none", "lower", "upper"}, at : Paths \cup {Gone},
                             name : Paths \cup {Gone}, write : BOOLEAN]]
  /\ ls.dir \in Everywhere \cup {Gone}

\* Whatever the guest calls, in whatever order, its view of the two layers
\* and of the tombstones changes as one private tree of its own would.
Plain == INSTANCE PlainTree WITH tree <- View
ImplementsTree == Plain!Spec

\* At every moment every call would be answered as the kernel would answer it
\* on that tree, or be refused for one of the reasons the handlers document.
RepliesAgree ==
  LET tree == View
      named == Named \ Roots IN
  \A p \in named :
    /\ fstatat(p) = KStat(tree, p) /\ statx(p) = KStat(tree, p)
    /\ \A mode \in {"F_OK", "R_OK"} : CarefulAccess(p, mode) => faccessat(p, mode) = KAccess(tree, p)
    /\ CarefulLook(p) => readlinkat(p) = KReadlink(tree, p) /\ chdir(p) = KChdir(tree, p) /\ execve(p) = KExec(tree, p)
    /\ CarefulTouch(p) => \A checks \in BOOLEAN : touch(p, checks).res = KAccess(tree, p)
    /\ \A flags \in OpenFlags : CarefulOpen(p, flags) => openat(p, flags).res = KOpen(tree, p, flags).res
    /\ CarefulCreate(p) => make(p, "dir").res = KMake(tree, p, "dir").res
    /\ CarefulUnlink(p, TRUE) => unlinkat(p, TRUE).res = KRmdir(tree, p).res
    /\ CarefulUnlink(p, FALSE) => unlinkat(p, FALSE).res = KUnlink(tree, p).res
    /\ \A q \in named : CarefulRename(p, q) =>
         \A nr \in BOOLEAN : renameat(p, q, nr).res \in {"EXDEV", KRename(tree, p, q, nr).res}

\* A file held open is the one its name shows: a copy made after a file was
\* opened for reading would leave the reader with the old one.
HandlesCurrent ==
  \A h \in Handles :
    handle[h].name # Gone =>
      Shown(handle[h].name) = IF handle[h].layer = "lower" THEN lower[handle[h].at] ELSE upper[handle[h].at]

\* A directory read page by page, while the guest goes on, shows every entry
\* that was there all the time, and shows it once (serialize_entries counts
\* positions in a list that is built anew for every page).
ListedOnce ==
  /\ ls.off \in 0..2 * Len(Order) /\ ls.got \subseteq Paths /\ ls.still \subseteq Paths
  /\ ls.twice = {}
  /\ ls.done => ls.still \subseteq ls.got

\* No call, and no write through a file opened earlier, changes a file of the
\* host: what is open for writing is a copy (cow_open, copy_file).
LowerKept == lower = HostTree

\* What the router blocks and would otherwise be served from the overlays.
Blocked == {p \in Paths : p[1] \in {"sys", "run", ".b", "dev"} \/ (p[1] = "tmp" /\ Len(p) > 1 /\ p[2] = ".cvisor")}

\* Nothing the guest does puts a file or its working directory where the
\* router blocks: the host's own directories and the overlays.
Sealed ==
  \A p \in Blocked : upper[p] = "none" /\ cwd # p /\ ls.dir # p /\ \A h \in Handles : handle[h].name # p

\* What is open is of its type and what its name shows (cow_open, sys_fchdir).
HandlesTrue == TypeOK /\ HandlesCurrent

\* The guest's calls stay inside its overlay: no file of the host changes, and
\* nothing is put where the router blocks (cow_open, route).
HostUntouched == Sealed /\ LowerKept
=============================================================================
