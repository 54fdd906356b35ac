--------------------------- MODULE OverlayProofs ---------------------------
(***************************************************************************)
(* Proofs about the overlay file system.  Whatever the guest calls, the    *)
(* host's files stay as they are and the places the router blocks stay     *)
(* empty (HostInv).  A guest that keeps away from the known differences    *)
(* sees one private tree in the two layers and the tombstones, is answered *)
(* as the kernel would answer it there (ViewInv), and reads every entry of *)
(* a directory once (ListInv).                                             *)
(***************************************************************************)
EXTENDS Overlay, FiniteSetTheorems, WellFoundedInduction, TLAPS

-----------------------------------------------------------------------------
(* Paths.                                                                  *)

\* The router serves p from the layers.
Open(p) == p \in Everywhere /\ Served[p] \in {"cow", "tmp"}

\* A path is a sequence of names.
LEMMA PathNames ==
  ASSUME NEW p \in Everywhere
  PROVE  p \in Seq(STRING) /\ (p \in Paths => p # <<>> /\ p # <<"tmp">>)
BY PathsAssumption, NamesAssumption DEF Everywhere, Roots

\* The router serves nothing from the layers that it is said to block.
LEMMA OpenUnblocked ==
  ASSUME NEW p, Open(p)
  PROVE  p \notin Blocked
<1>1. p \in Seq(STRING) /\ (p \in Paths => p # <<>>)
  BY PathNames DEF Open
<1>2. Served[p] = route(p)
  BY DEF Open, Served
<1> QED
  BY <1>1, <1>2 DEF Open, Blocked, route

\* Nor a directory in which something lies that it serves.
LEMMA ParentsUnblocked ==
  ASSUME NEW p, Open(p), NEW a \in Between[p]
  PROVE  a \in Paths /\ a \notin Blocked
<1>1. p \in Everywhere /\ p \in Paths \cup Roots /\ p \in Seq(STRING)
  BY PathNames DEF Open, Everywhere
<1>2. PICK n \in 0..Len(p) - 1 : a = SubSeq(p, 1, n)
  BY <1>1 DEF Between, Above
<1>3. a # <<>> /\ a # <<"tmp">>
  BY <1>1 DEF Between, Roots
<1>4. n >= 1 /\ Len(a) = n /\ a[1] = p[1] /\ (n >= 2 => a[2] = p[2])
  BY <1>1, <1>2, <1>3
<1>5. p \in Paths
  <2>1. Len(p) >= 2
    BY <1>1, <1>4
  <2>2. Len(<<"tmp">>) = 1 /\ Len(<<>>) = 0
    OBVIOUS
  <2>3. p # <<>> /\ p # <<"tmp">>
    <3> DEFINE r == <<"tmp">>
    <3>1. Len(r) = 1
      BY <2>2
    <3> HIDE DEF r
    <3>2. p # r
      <4> SUFFICES ASSUME p = r PROVE FALSE
        OBVIOUS
      <4>1. Len(p) = 1
        BY <3>1
      <4> QED
        BY <2>1, <4>1
    <3>3. p # <<>>
      BY <1>1, <2>1
    <3> QED
      BY <3>2, <3>3 DEF r
  <2> QED
    BY <1>1, <2>3 DEF Roots
<1>6. p \notin Blocked
  BY OpenUnblocked
<1> QED
  BY <1>1, <1>4, <1>5, <1>6, NamesAssumption DEF Blocked

-----------------------------------------------------------------------------
(* The trees that the calls leave.                                         *)

Trees == [Paths -> Nodes]

\* v is a tree that is like u where the router blocks.
Within(u, v) == v \in Trees /\ \A q \in Blocked : v[q] = u[q]

LEMMA WithinSame ==
  ASSUME NEW u \in Trees PROVE Within(u, u)
BY DEF Within

LEMMA WithinTwice ==
  ASSUME NEW u, NEW v, NEW w, Within(u, v), Within(v, w)
  PROVE  Within(u, w)
BY DEF Within

LEMMA PutWithin ==
  ASSUME NEW u \in Trees, NEW p \in Paths, Open(p), NEW n \in Nodes
  PROVE  Within(u, [u EXCEPT ![p] = n])
<1>1. p \notin Blocked
  BY OpenUnblocked
<1> QED
  BY <1>1 DEF Within, Trees, Blocked

LEMMA ParentsWithin ==
  ASSUME NEW u \in Trees, NEW p, Open(p)
  PROVE  Within(u, create_cow_parent_dirs(u, p).tree)
<1>1. \A q \in Blocked : q \notin Between[p]
  BY ParentsUnblocked
<1>2. Within(u, [q \in Paths |-> IF q \in Between[p] /\ u[q] = "none" THEN "dir" ELSE u[q]])
  BY <1>1 DEF Within, Trees, Blocked, Nodes
<1> QED
  BY <1>2, WithinSame DEF create_cow_parent_dirs, Answer

LEMMA OpenWithin ==
  ASSUME NEW u \in Trees, NEW p, Open(p), NEW flags,
         p \in Paths \/ {"creat", "trunc"} \cap flags = {}
  PROVE  Within(u, KOpen(u, p, flags).tree)
<1>1. "empty" \in Nodes
  BY DEF Nodes, Contents
<1>2. Within(u, u) /\ (p \in Paths => Within(u, [u EXCEPT ![p] = "empty"]))
  BY <1>1, WithinSame, PutWithin
<1> QED
  BY <1>2 DEF KOpen, Answer, Put

LEMMA MakeWithin ==
  ASSUME NEW u \in Trees, NEW p \in Paths, Open(p), NEW n \in Nodes
  PROVE  Within(u, KMake(u, p, n).tree)
BY WithinSame, PutWithin DEF KMake, Answer, Put

LEMMA RemoveWithin ==
  ASSUME NEW u \in Trees, NEW p \in Paths, Open(p)
  PROVE  Within(u, KUnlink(u, p).tree) /\ Within(u, KRmdir(u, p).tree)
<1>1. "none" \in Nodes
  BY DEF Nodes
<1> QED
  BY <1>1, WithinSame, PutWithin DEF KUnlink, KRmdir, Answer, Put

LEMMA RenameWithin ==
  ASSUME NEW u \in Trees, NEW p \in Paths, NEW q \in Paths, Open(p), Open(q)
  PROVE  Within(u, KRename(u, p, q, FALSE).tree)
<1>1. p \notin Blocked /\ q \notin Blocked
  BY OpenUnblocked
<1>2. "none" \in Nodes
  BY DEF Nodes
<1>3. Within(u, [u EXCEPT ![p] = "none", ![q] = u[p]])
  BY <1>1, <1>2 DEF Within, Trees, Blocked
<1> QED
  BY <1>3, WithinSame DEF KRename, Answer

LEMMA CopyWithin ==
  ASSUME NEW u \in Trees, NEW p \in Paths, Open(p), lower \in Trees
  PROVE  Within(u, copy_file(u, p).tree)
<1>1. Look(lower, p) \in Nodes
  BY PathsAssumption DEF Look, At, Trees, Nodes
<1>2. Within(u, [u EXCEPT ![p] = "empty"]) /\ Within(u, [u EXCEPT ![p] = Look(lower, p)])
  BY <1>1, PutWithin DEF Nodes, Contents
<1> QED
  BY <1>2, WithinSame DEF copy_file, Answer, Put

LEMMA CopyUpWithin ==
  ASSUME NEW p \in Paths, Open(p), lower \in Trees, upper \in Trees
  PROVE  Within(upper, copy_up(p).tree)
<1> DEFINE u == create_cow_parent_dirs(upper, p).tree
<1>1. Within(upper, u) /\ u \in Trees
  BY ParentsWithin DEF Within
<1> HIDE DEF u
<1>2. Within(upper, copy_file(u, p).tree)
  BY <1>1, CopyWithin, WithinTwice
<1> QED
  BY <1>1, <1>2 DEF copy_up, u

-----------------------------------------------------------------------------
(* The answers of the handlers.                                            *)

\* An answer leaves the blocked paths alone.
Kept(a) == Within(upper, a.upper) /\ a.ts \subseteq Paths

\* What the lemmas about handlers assume of the state.
TreesTyped == lower \in Trees /\ upper \in Trees /\ tombstones \subseteq Paths

LEMMA WithKept ==
  ASSUME NEW a, NEW ts \in SUBSET Paths, Within(upper, a.tree)
  PROVE  Kept(With(a, ts))
BY DEF Kept, With

LEMMA FailsKept ==
  ASSUME TreesTyped, NEW r
  PROVE  Kept(Fails(r))
BY WithinSame DEF Kept, Fails, With, Answer, TreesTyped

\* A path that is opened for anything but reading is not a root.
LEMMA OpenatKept ==
  ASSUME TreesTyped, NEW p, Open(p), NEW flags, has_write_flags(flags) => p \in Paths
  PROVE  Kept(openat(p, flags))
<1> DEFINE made == create_cow_parent_dirs(upper, p)
           ready == IF Exists(lower, p) THEN copy_up(p) ELSE made
<1>1. p \in Paths \/ {"creat", "trunc"} \cap flags = {}
  BY DEF has_write_flags
<1>2. upper \in Trees /\ lower \in Trees
  BY DEF TreesTyped
<1>3. Within(upper, KOpen(upper, p, flags).tree)
  BY <1>1, <1>2, OpenWithin
<1>4. Within(upper, made.tree)
  BY <1>2, ParentsWithin
<1>5. ASSUME has_write_flags(flags)
      PROVE  Within(upper, ready.tree) /\ Within(upper, KOpen(ready.tree, p, flags).tree)
  <2>1. Within(upper, ready.tree)
    BY <1>2, <1>4, <1>5, CopyUpWithin
  <2> HIDE DEF ready
  <2>2. ready.tree \in Trees
    BY <2>1 DEF Within
  <2>3. Within(ready.tree, KOpen(ready.tree, p, flags).tree)
    BY <1>1, <2>2, OpenWithin
  <2> QED
    BY <2>1, <2>3, WithinTwice
<1>6. Within(upper, cow_open(p, flags).tree)
  <2>1. CASE ~has_write_flags(flags)
    BY <1>2, <1>3, <2>1, WithinSame DEF cow_open, Answer
  <2>2. CASE has_write_flags(flags)
    <3> HIDE DEF ready, made
    <3>1. cow_open(p, flags).tree \in {KOpen(upper, p, flags).tree, ready.tree, made.tree, KOpen(ready.tree, p, flags).tree}
      BY <2>2 DEF cow_open, Answer, ready, made
    <3> QED
      BY <1>3, <1>4, <1>5, <2>2, <3>1
  <2> QED
    BY <2>1, <2>2
<1>7. Within(upper, tmp_open(p, flags).tree)
  BY <1>3 DEF tmp_open
<1>8. Unhide(p) \subseteq Paths
  BY DEF Unhide, TreesTyped
<1>9. Kept(With(cow_open(p, flags), Unhide(p))) /\ Kept(With(tmp_open(p, flags), Unhide(p)))
  BY <1>6, <1>7, <1>8, WithKept
<1> HIDE DEF made, ready
<1> QED
  BY <1>9, FailsKept DEF openat

LEMMA MakeKept ==
  ASSUME TreesTyped, NEW p \in Paths, Open(p), NEW n \in {"dir", "link"}
  PROVE  Kept(make(p, n))
<1> DEFINE u == create_cow_parent_dirs(upper, p).tree
<1>1. Within(upper, u) /\ u \in Trees /\ n \in Nodes
  BY ParentsWithin DEF Within, TreesTyped, Nodes
<1> HIDE DEF u
<1>2. Within(upper, KMake(u, p, n).tree)
  BY <1>1, MakeWithin, WithinTwice
<1>3. Within(upper, cow_make(p, n).tree)
  BY <1>1, <1>2 DEF cow_make, u
<1>4. Unhide(p) \subseteq Paths
  BY DEF Unhide, TreesTyped
<1> QED
  BY <1>3, <1>4, WithKept, FailsKept DEF make

LEMMA UnlinkatKept ==
  ASSUME TreesTyped, NEW p \in Paths, Open(p), NEW remove_dir \in BOOLEAN
  PROVE  Kept(unlinkat(p, remove_dir))
<1> DEFINE u == remove_path(p, remove_dir)
           ts == IF Served[p] = "tmp" THEN tombstones
                 ELSE (IF remove_dir THEN remove_children(p) ELSE tombstones) \cup {p}
<1>1. Within(upper, u)
  BY RemoveWithin DEF remove_path, TreesTyped
<1>2. ts \subseteq Paths
  BY DEF remove_children, TreesTyped
<1> HIDE DEF u, ts
<1>3. Kept(With(Answer("ok", u), ts))
  BY <1>1, <1>2, WithKept DEF Answer
<1> QED
  BY <1>3, FailsKept DEF unlinkat, u, ts

LEMMA RenameatKept ==
  ASSUME TreesTyped, NEW p \in Paths, NEW q \in Paths, Open(p), Open(q), NEW noreplace \in BOOLEAN
  PROVE  Kept(renameat(p, q, noreplace))
<1> DEFINE copied == IF Served[p] = "cow" /\ ~cow_exists(p) THEN copy_up(p) ELSE Answer("ok", upper)
           room == create_cow_parent_dirs(copied.tree, q)
<1>1. Within(upper, copied.tree) /\ copied.tree \in Trees
  BY CopyUpWithin, WithinSame DEF Within, Answer, TreesTyped
<1> HIDE DEF copied
<1>2. Within(upper, room.tree) /\ room.tree \in Trees
  BY <1>1, ParentsWithin, WithinTwice DEF Within
<1> HIDE DEF room
<1>3. Within(upper, KRename(room.tree, p, q, FALSE).tree)
  BY <1>2, RenameWithin, WithinTwice
<1>4. Moved(p, q) \subseteq Paths /\ tombstones \subseteq Paths
  BY DEF Moved, TreesTyped
<1>5. Kept(With(KRename(room.tree, p, q, FALSE), Moved(p, q))) /\ Kept(With(Answer("EIO", copied.tree), tombstones))
  BY <1>1, <1>3, <1>4, WithKept DEF Answer
<1> QED
  BY <1>5, FailsKept DEF renameat, copied, room

LEMMA TouchKept ==
  ASSUME TreesTyped, NEW p \in Paths, Open(p), NEW checks \in BOOLEAN
  PROVE  Kept(touch(p, checks))
<1>1. Kept(With(copy_up(p), tombstones))
  BY CopyUpWithin, WithKept DEF TreesTyped
<1> QED
  BY <1>1, FailsKept DEF touch

-----------------------------------------------------------------------------
(* The inductive invariant.                                                *)

\* What a handle is.
HandleType == [layer : {"none", "lower", "upper"}, at : Paths \cup {Gone}, name : Paths \cup {Gone}, write : BOOLEAN]

\* The record of a listing, of which only the directory matters here.
ListingTyped ==
  /\ ls = [dir |-> ls.dir, off |-> ls.off, got |-> ls.got, still |-> ls.still, twice |-> ls.twice, done |-> ls.done]
  /\ ls.dir \in Everywhere \cup {Gone}

\* What is open for writing is a file of the upper layer.
WritersUpper == \A h \in Handles : handle[h].write => handle[h].layer = "upper"

\* A handle is on the file of its name, as long as it has one.
NamesPoint == \A h \in Handles : handle[h].name # Gone => handle[h].at = handle[h].name

HostInv ==
  /\ TreesTyped
  /\ cwd \in Everywhere
  /\ handle \in [Handles -> HandleType]
  /\ ListingTyped
  /\ WritersUpper
  /\ NamesPoint
  /\ HostUntouched

\* The name of a file that lost it is not one that is blocked.
LEMMA GoneFree == Gone \notin Blocked
<1>1. Gone[1] = "gone" /\ Len(Gone) = 1
  BY DEF Gone
<1> QED
  BY <1>1 DEF Blocked

LEMMA RootFree == <<>> \notin Blocked
BY PathsAssumption DEF Blocked, Roots

LEMMA InitHost == Init => HostInv
<1> SUFFICES ASSUME Init PROVE HostInv
  OBVIOUS
<1>1. lower \in Trees /\ upper \in Trees
  BY TreeAssumption DEF Init, Trees, Nodes, Contents
<1>2. NoHandle \in HandleType /\ ~NoHandle.write /\ NoHandle.name = Gone
  BY DEF NoHandle, HandleType
<1>3. ListingTyped /\ ls.dir = Gone
  BY DEF Init, NoListing, ListingTyped
<1>4. \A h \in Handles : handle[h] = NoHandle
  BY DEF Init
<1>5. handle \in [Handles -> HandleType] /\ WritersUpper /\ NamesPoint
  BY <1>2 DEF Init, WritersUpper, NamesPoint
<1>6. HostUntouched
  BY <1>2, <1>3, <1>4, GoneFree, RootFree DEF Init, HostUntouched, Sealed, LowerKept, Blocked
<1> QED
  BY <1>1, <1>3, <1>5, <1>6 DEF Init, HostInv, TreesTyped, Everywhere, Roots

\* A handle that a step may leave behind.
Harmless(x) ==
  /\ x \in HandleType
  /\ x.write => x.layer = "upper"
  /\ x.name # Gone => x.at = x.name
  /\ x.name \notin Blocked

LEMMA HandlesHarmless ==
  ASSUME HostInv, NEW h \in Handles
  PROVE  Harmless(handle[h])
BY DEF HostInv, HostUntouched, Sealed, WritersUpper, NamesPoint, Harmless, HandleType

\* A handle that loses its name, or moves to another.
LEMMA HandlesMove ==
  ASSUME NEW x, Harmless(x)
  PROVE  /\ Harmless([x EXCEPT !.name = Gone])
         /\ \A q \in Paths \ Blocked : Harmless([x EXCEPT !.name = q, !.at = q])
BY GoneFree DEF Harmless, HandleType

LEMMA NoHandleHarmless == Harmless(NoHandle)
BY GoneFree DEF Harmless, HandleType, NoHandle

\* A step is sound if each of the things it leaves is.
LEMMA StepHost ==
  ASSUME HostInv,
         lower' = lower, Within(upper, upper'), tombstones' \subseteq Paths,
         cwd' \in Everywhere \ Blocked,
         ListingTyped', ls'.dir \notin Blocked,
         DOMAIN handle' = Handles, handle' = [h \in Handles |-> handle'[h]],
         \A h \in Handles : Harmless(handle'[h])
  PROVE  HostInv'
<1>1. TreesTyped'
  BY DEF HostInv, TreesTyped, Within
<1>2. (handle \in [Handles -> HandleType])' /\ WritersUpper' /\ NamesPoint'
  BY DEF Harmless, WritersUpper, NamesPoint
<1>3. LowerKept'
  BY DEF HostInv, HostUntouched, LowerKept
<1>4. Sealed'
  BY DEF HostInv, HostUntouched, Sealed, Within, Harmless
<1> QED
  BY <1>1, <1>2, <1>3, <1>4 DEF HostInv, HostUntouched

\* What a step finds that leaves a part of the state alone.
LEMMA Before ==
  ASSUME HostInv
  PROVE  /\ TreesTyped /\ Within(upper, upper) /\ tombstones \subseteq Paths
         /\ cwd \in Everywhere \ Blocked
         /\ ListingTyped /\ ls.dir \notin Blocked
         /\ DOMAIN handle = Handles /\ handle = [h \in Handles |-> handle[h]]
         /\ \A h \in Handles : Harmless(handle[h])
<1>1. ls.dir \in Blocked => FALSE
  BY DEF HostInv, HostUntouched, Sealed
<1>2. cwd \in Blocked => FALSE
  BY DEF HostInv, HostUntouched, Sealed
<1>3. \A h \in Handles : Harmless(handle[h])
  BY HandlesHarmless
<1> QED
  BY <1>1, <1>2, <1>3, WithinSame DEF HostInv, TreesTyped

\* The listing goes on in its directory.
LEMMA ListingGoesOn ==
  ASSUME HostInv,
         \/ ls' = ls
         \/ \E x : ls' = [ls EXCEPT !.still = x]
         \/ \E a, b, c, d : ls' = [ls EXCEPT !.off = a, !.got = b, !.twice = c, !.done = d]
  PROVE  ListingTyped' /\ ls'.dir \notin Blocked
<1>1. ListingTyped /\ ls.dir \notin Blocked
  BY Before
<1> QED
  BY <1>1 DEF ListingTyped

LEMMA ApplyHost ==
  ASSUME HostInv, NEW a, Kept(a), Apply(a), UNCHANGED cwd,
         DOMAIN handle' = Handles, handle' = [h \in Handles |-> handle'[h]],
         \A h \in Handles : Harmless(handle'[h])
  PROVE  HostInv'
<1>1. lower' = lower /\ Within(upper, upper') /\ tombstones' \subseteq Paths
  BY DEF Apply, Kept
<1>2. \E x : ls' = [ls EXCEPT !.still = x]
  BY DEF Apply
<1>3. ListingTyped' /\ ls'.dir \notin Blocked
  BY <1>2, ListingGoesOn
<1>4. cwd' \in Everywhere \ Blocked
  BY Before
<1> QED
  BY <1>1, <1>3, <1>4, StepHost

\* A root is shown as a directory, which no handle is.
LEMMA OpenHost ==
  ASSUME HostInv, NEW p, Open(p), NEW flags, NEW h \in Handles, sys_openat(p, flags, h)
  PROVE  HostInv'
<1> DEFINE a == openat(p, flags)
           layer == OpenedLayer(p, flags)
           write == "write" \in flags
           x == [layer |-> layer, at |-> p, name |-> p, write |-> write]
<1>1. has_write_flags(flags) => p \in Paths
  BY DEF sys_openat, CarefulOpen, Open, Everywhere
<1>2. Kept(a)
  BY <1>1, OpenatKept, Before
<1>3. a.res = "ok" => p \in Paths
  BY DEF sys_openat, Shown, Open, Everywhere
<1>4. p \in Paths => Harmless(x)
  <2>1. p \notin Blocked
    BY OpenUnblocked
  <2>2. layer \in {"lower", "upper"} /\ write \in BOOLEAN
    BY DEF OpenedLayer
  <2>3. write => layer = "upper"
    BY DEF OpenedLayer, has_write_flags
  <2> HIDE DEF layer, write
  <2> QED
    BY <2>1, <2>2, <2>3 DEF Harmless, HandleType
<1> HIDE DEF a, x
<1>5. handle' = IF a.res # "ok" THEN handle ELSE [handle EXCEPT ![h] = x]
  BY DEF sys_openat, a, x
<1>6. DOMAIN handle' = Handles /\ handle' = [g \in Handles |-> handle'[g]] /\ \A g \in Handles : Harmless(handle'[g])
  BY <1>3, <1>4, <1>5, Before
<1>7. Apply(a) /\ UNCHANGED cwd
  BY DEF sys_openat, a
<1> QED
  BY <1>2, <1>6, <1>7, ApplyHost

LEMMA RemoveHost ==
  ASSUME HostInv, NEW p \in Paths, Open(p), NEW remove_dir \in BOOLEAN, sys_unlinkat(p, remove_dir)
  PROVE  HostInv'
<1> DEFINE a == unlinkat(p, remove_dir)
<1>1. Kept(a)
  BY UnlinkatKept, Before
<1> HIDE DEF a
<1>2. handle' = [h \in Handles |->
        IF a.res = "ok" /\ handle[h].name = p THEN [handle[h] EXCEPT !.name = Gone] ELSE handle[h]]
  BY DEF sys_unlinkat, a
<1>3. \A h \in Handles : Harmless(handle[h]) /\ Harmless([handle[h] EXCEPT !.name = Gone])
  BY HandlesHarmless, HandlesMove
<1>4. \A h \in Handles : Harmless(handle'[h])
  BY <1>2, <1>3
<1>5. Apply(a) /\ UNCHANGED cwd
  BY DEF sys_unlinkat, a
<1> QED
  BY <1>1, <1>2, <1>4, <1>5, ApplyHost

LEMMA RenameHost ==
  ASSUME HostInv, NEW p \in Paths, NEW q \in Paths, Open(p), Open(q), sys_renameat(p, q)
  PROVE  HostInv'
<1> DEFINE a == renameat(p, q, FALSE)
<1>1. Kept(a)
  BY RenameatKept, Before
<1> HIDE DEF a
<1>2. handle' = [h \in Handles |->
        CASE a.res = "ok" /\ p # q /\ handle[h].name = q -> [handle[h] EXCEPT !.name = Gone]
          [] a.res = "ok" /\ p # q /\ handle[h].name = p -> [handle[h] EXCEPT !.name = q, !.at = q]
          [] OTHER -> handle[h]]
  BY DEF sys_renameat, a
<1>3. q \in Paths \ Blocked
  BY OpenUnblocked
<1>4. \A h \in Handles :
        /\ Harmless(handle[h]) /\ Harmless([handle[h] EXCEPT !.name = Gone])
        /\ Harmless([handle[h] EXCEPT !.name = q, !.at = q])
  BY <1>3, HandlesHarmless, HandlesMove
<1>5. \A h \in Handles : Harmless(handle'[h])
  <2> TAKE h \in Handles
  <2>1. handle'[h] \in {handle[h], [handle[h] EXCEPT !.name = Gone], [handle[h] EXCEPT !.name = q, !.at = q]}
    BY <1>2
  <2> QED
    BY <1>4, <2>1
<1>6. Apply(a) /\ UNCHANGED cwd
  BY DEF sys_renameat, a
<1> QED
  BY <1>1, <1>2, <1>5, <1>6, ApplyHost

\* mkdirat, symlinkat, fchmodat and utimensat, which leave the handles alone.
LEMMA ChangeHost ==
  ASSUME HostInv, NEW p \in Paths, Open(p),
         sys_mkdirat(p) \/ sys_symlinkat(p) \/ sys_fchmodat(p) \/ sys_utimensat(p)
  PROVE  HostInv'
<1>1. TreesTyped
  BY Before
<1>2. Kept(make(p, "dir")) /\ Kept(make(p, "link")) /\ Kept(touch(p, TRUE)) /\ Kept(touch(p, FALSE))
  BY <1>1, MakeKept, TouchKept
<1>3. PICK a : Kept(a) /\ Apply(a)
  BY <1>2 DEF sys_mkdirat, sys_symlinkat, sys_fchmodat, sys_utimensat
<1>4. UNCHANGED <<cwd, handle>>
  BY DEF sys_mkdirat, sys_symlinkat, sys_fchmodat, sys_utimensat
<1>5. DOMAIN handle' = Handles /\ handle' = [h \in Handles |-> handle'[h]] /\ \A h \in Handles : Harmless(handle'[h])
  BY <1>4, Before
<1> QED
  BY <1>3, <1>4, <1>5, ApplyHost

\* A write reaches the upper copy, under the name it has now.
LEMMA WriteHost ==
  ASSUME HostInv, NEW h \in Handles, sys_write(h)
  PROVE  HostInv'
<1> DEFINE at == handle[h].at
<1>1. Harmless(handle[h]) /\ handle[h].write
  BY HandlesHarmless DEF sys_write
<1>2. lower' = lower
  BY <1>1 DEF sys_write, Harmless
<1>3. Within(upper, upper')
  <2>1. CASE handle[h].name # Gone
    <3>1. at \in Paths \ Blocked
      BY <1>1, <2>1 DEF Harmless, HandleType
    <3>2. upper' = [upper EXCEPT ![at] = "new"]
      BY <1>1, <2>1 DEF sys_write, Harmless
    <3>3. upper \in Trees /\ "new" \in Nodes
      BY DEF HostInv, TreesTyped, Nodes, Contents
    <3> QED
      BY <3>1, <3>2, <3>3 DEF Within, Trees, Blocked
  <2>2. CASE handle[h].name = Gone
    <3>1. upper' = upper
      BY <2>2 DEF sys_write
    <3> QED
      BY <3>1, Before
  <2> QED
    BY <2>1, <2>2
<1>4. UNCHANGED <<tombstones, cwd, handle, ls>>
  BY DEF sys_write
<1>5. ListingTyped' /\ ls'.dir \notin Blocked
  BY <1>4, ListingGoesOn
<1> QED
  BY <1>2, <1>3, <1>4, <1>5, Before, StepHost

\* The calls that change neither layer nor tombstones.
LEMMA QuietHost ==
  ASSUME HostInv, UNCHANGED <<lower, upper, tombstones>>,
         cwd' \in Everywhere \ Blocked, ListingTyped', ls'.dir \notin Blocked,
         handle' = handle \/ \E h \in Handles : handle' = [handle EXCEPT ![h] = NoHandle]
  PROVE  HostInv'
<1>1. DOMAIN handle' = Handles /\ handle' = [h \in Handles |-> handle'[h]] /\ \A h \in Handles : Harmless(handle'[h])
  BY Before, NoHandleHarmless
<1> QED
  BY <1>1, Before, StepHost

LEMMA ListHost ==
  ASSUME HostInv, (\E p : Open(p) /\ opendir(p)) \/ sys_getdents64 \/ closedir
  PROVE  HostInv'
<1>1. UNCHANGED <<lower, upper, tombstones, cwd, handle>>
  BY DEF opendir, sys_getdents64, closedir
<1>2. ListingTyped' /\ ls'.dir \notin Blocked
  <2>1. CASE \E p : Open(p) /\ opendir(p)
    <3>1. PICK p : Open(p) /\ opendir(p)
      BY <2>1
    <3>2. p \in Everywhere \ Blocked
      BY <3>1, OpenUnblocked DEF Open
    <3>3. PICK x : ls' = [NoListing EXCEPT !.dir = p, !.still = x]
      BY <3>1 DEF opendir
    <3> QED
      BY <3>2, <3>3 DEF NoListing, ListingTyped
  <2>2. CASE sys_getdents64
    <3>1. \E a, b, c, d : ls' = [ls EXCEPT !.off = a, !.got = b, !.twice = c, !.done = d]
      BY <2>2 DEF sys_getdents64
    <3> QED
      BY <3>1, ListingGoesOn
  <2>3. CASE closedir
    BY <2>3, GoneFree DEF closedir, NoListing, ListingTyped
  <2> QED
    BY <2>1, <2>2, <2>3
<1> QED
  BY <1>1, <1>2, Before, QuietHost

LEMMA MoveHost ==
  ASSUME HostInv, (\E p : Open(p) /\ sys_chdir(p)) \/ sys_fchdir \/ \E h \in Handles : sys_close(h)
  PROVE  HostInv'
<1>1. UNCHANGED <<lower, upper, tombstones, ls>>
  BY DEF sys_chdir, sys_fchdir, sys_close
<1>2. ListingTyped' /\ ls'.dir \notin Blocked
  BY <1>1, ListingGoesOn
<1>3. cwd' \in Everywhere \ Blocked
  <2>1. ASSUME NEW p, Open(p) PROVE p \in Everywhere \ Blocked
    BY <2>1, OpenUnblocked DEF Open
  <2>2. sys_fchdir => ls.dir \in Everywhere \ Blocked
    BY Before DEF sys_fchdir, Listing, ListingTyped
  <2> QED
    BY <2>1, <2>2, Before DEF sys_chdir, sys_fchdir, sys_close
<1>4. handle' = handle \/ \E h \in Handles : handle' = [handle EXCEPT ![h] = NoHandle]
  BY DEF sys_chdir, sys_fchdir, sys_close
<1> QED
  BY <1>1, <1>2, <1>3, <1>4, QuietHost

LEMMA RerunHost ==
  ASSUME HostInv, make_supervisor
  PROVE  HostInv'
<1>1. cwd' \in Everywhere \ Blocked
  BY RootFree DEF make_supervisor, Everywhere, Roots
<1>2. ListingTyped' /\ ls'.dir \notin Blocked
  BY GoneFree DEF make_supervisor, NoListing, ListingTyped
<1>3. \A h \in Handles : Harmless(handle'[h])
  BY NoHandleHarmless DEF make_supervisor
<1>4. lower' = lower /\ upper' = upper /\ tombstones' \subseteq Paths /\ handle' = [h \in Handles |-> NoHandle]
  BY DEF make_supervisor
<1> QED
  BY <1>1, <1>2, <1>3, <1>4, Before, StepHost

\* What the guest can name is served from the layers.
LEMMA NamedOpen ==
  ASSUME NEW p \in Named
  PROVE  Open(p) /\ (p \notin Roots => p \in Paths)
BY DEF Named, Open, Everywhere

LEMMA HostStep ==
  ASSUME HostInv, [Next]_vars
  PROVE  HostInv'
<1>1. ASSUME NEW p \in Named, NEW flags \in OpenFlags, NEW h \in Handles, sys_openat(p, flags, h) PROVE HostInv'
  BY <1>1, NamedOpen, OpenHost
<1>2. ASSUME NEW p \in Named, opendir(p) \/ sys_chdir(p) PROVE HostInv'
  BY <1>2, NamedOpen, ListHost, MoveHost
<1>3. ASSUME NEW p \in Named \ Roots,
             sys_mkdirat(p) \/ sys_symlinkat(p) \/ sys_fchmodat(p) \/ sys_utimensat(p)
      PROVE  HostInv'
  BY <1>3, NamedOpen, ChangeHost
<1>4. ASSUME NEW p \in Named \ Roots, NEW remove_dir \in BOOLEAN, sys_unlinkat(p, remove_dir) PROVE HostInv'
  BY <1>4, NamedOpen, RemoveHost
<1>5. ASSUME NEW p \in Named \ Roots, NEW q \in Named \ Roots, sys_renameat(p, q) PROVE HostInv'
  BY <1>5, NamedOpen, RenameHost
<1>6. ASSUME NEW h \in Handles, sys_close(h) \/ sys_write(h) PROVE HostInv'
  BY <1>6, MoveHost, WriteHost
<1>7. CASE sys_getdents64 \/ closedir \/ sys_fchdir
  BY <1>7, ListHost, MoveHost
<1>8. CASE make_supervisor
  BY <1>8, RerunHost
<1>9. CASE UNCHANGED vars
  <2>1. UNCHANGED <<lower, upper, tombstones, cwd, handle, ls>>
    BY <1>9 DEF vars
  <2> QED
    BY <2>1, ListingGoesOn, Before, QuietHost
<1> QED
  BY <1>1, <1>2, <1>3, <1>4, <1>5, <1>6, <1>7, <1>8, <1>9 DEF Next

-----------------------------------------------------------------------------
(* The theorem.                                                            *)

\* Whatever the guest calls, and under whatever names: no file of the host
\* changes, also not through a file opened earlier, and nothing is put, opened
\* or entered where the router blocks (cow_open, route_normalized).
THEOREM HostAlwaysUntouched == Spec => []HostUntouched
<1>1. Init => HostInv
  BY InitHost
<1>2. HostInv /\ [Next]_vars => HostInv'
  BY HostStep
<1>3. HostInv => HostUntouched
  BY DEF HostInv
<1> QED
  BY <1>1, <1>2, <1>3, PTL DEF Spec

-----------------------------------------------------------------------------
(* The tree the guest sees, as a function of the upper layer and of the    *)
(* tombstones.                                                             *)

Covered(ts, p) == p \in ts \/ Above[p] \cap ts # {}
Sees(u, ts, p) ==
  IF Covered(ts, p) THEN "none"
  ELSE IF u[p] # "none" THEN u[p]
  ELSE IF Served[p] = "cow" THEN HostTree[p] ELSE "none"
Seen(u, ts) == [p \in Paths |-> Sees(u, ts, p)]

\* What is in the upper layer is served from there and not hidden, its parents
\* are directories of that layer, and a file there is over no directory of the host.
Layers(u, ts) ==
  /\ u \in Trees /\ ts \subseteq Paths
  /\ \A p \in Paths : u[p] # "none" =>
       /\ Open(p) /\ ~Covered(ts, p)
       /\ \A a \in Between[p] : u[a] = "dir"
       /\ Served[p] = "cow" /\ u[p] # "dir" => HostTree[p] # "dir"

\* The first names of a path.
LEMMA FirstNames ==
  ASSUME NEW s \in Seq(STRING), NEW n \in 0..Len(s)
  PROVE  /\ SubSeq(s, 1, n) \in Seq(STRING) /\ Len(SubSeq(s, 1, n)) = n
         /\ \A i \in 1..n : SubSeq(s, 1, n)[i] = s[i]
         /\ SubSeq(s, 1, n) = [i \in 1..n |-> s[i]]
OBVIOUS

\* What is above what is above a path is above the path.
LEMMA AboveTwice ==
  ASSUME NEW p \in Everywhere, NEW a \in Above[p] \cap Everywhere, NEW b \in Above[a]
  PROVE  b \in Above[p]
<1>1. p \in Seq(STRING)
  BY PathNames
<1>2. PICK n \in 0..Len(p) - 1 : a = SubSeq(p, 1, n)
  BY DEF Above, Everywhere
<1>3. PICK m \in 0..Len(a) - 1 : b = SubSeq(a, 1, m)
  BY DEF Above, Everywhere
<1>4. Len(a) = n /\ \A i \in 1..n : a[i] = p[i]
  BY <1>1, <1>2
<1>5. m \in 0..Len(p) - 1 /\ m <= n
  BY <1>1, <1>2, <1>3, <1>4
<1>6. b = SubSeq(p, 1, m)
  <2>1. b = [i \in 1..m |-> a[i]]
    BY <1>1, <1>2, <1>3, <1>4, <1>5
  <2>2. SubSeq(p, 1, m) = [i \in 1..m |-> p[i]]
    BY <1>1, <1>5
  <2>3. \A i \in 1..m : a[i] = p[i]
    BY <1>4, <1>5
  <2> QED
    BY <2>1, <2>2, <2>3
<1> QED
  BY <1>5, <1>6 DEF Above, Everywhere

\* A path is not above itself.
LEMMA NotAbove ==
  ASSUME NEW p \in Everywhere, NEW a \in Above[p]
  PROVE  a # p /\ (a \in Everywhere => p \notin Above[a])
<1>1. p \in Seq(STRING)
  BY PathNames
<1>2. PICK n \in 0..Len(p) - 1 : a = SubSeq(p, 1, n)
  BY DEF Above, Everywhere
<1>3. Len(a) = n /\ n < Len(p) /\ Len(p) \in Nat
  BY <1>1, <1>2
<1>4. a # p
  BY <1>3
<1>5. ASSUME a \in Everywhere, p \in Above[a] PROVE FALSE
  <2>1. PICK m \in 0..Len(a) - 1 : p = SubSeq(a, 1, m)
    BY <1>5 DEF Above, Everywhere
  <2>2. a \in Seq(STRING)
    BY <1>5, PathNames
  <2>3. Len(p) = m
    BY <2>1, <2>2
  <2> QED
    BY <1>3, <2>1, <2>3
<1> QED
  BY <1>4, <1>5

\* The parent of a path is above it, and so is what is above the parent.
LEMMA ParentAbove ==
  ASSUME NEW p \in Paths
  PROVE  /\ Parent(p) \in Above[p] /\ Parent(p) \in Everywhere
         /\ Above[p] = Above[Parent(p)] \cup {Parent(p)}
<1>1. p \in Seq(STRING) /\ p # <<>> /\ p \in Everywhere
  BY PathNames DEF Everywhere
<1>2. Len(p) >= 1
  BY <1>1
<1>3. Parent(p) \in Above[p]
  BY <1>1, <1>2 DEF Parent, Above, Everywhere
<1>4. Parent(p) \in Everywhere
  BY <1>3, NamesAssumption DEF Between, Everywhere
<1>5. Above[Parent(p)] \subseteq Above[p]
  BY <1>1, <1>3, <1>4, AboveTwice
<1>6. ASSUME NEW a \in Above[p], a # Parent(p) PROVE a \in Above[Parent(p)]
  <2> DEFINE r == SubSeq(p, 1, Len(p) - 1)
  <2>4. Len(r) = Len(p) - 1 /\ \A i \in 1..Len(p) - 1 : r[i] = p[i]
    <3>1. Len(p) - 1 \in 0..Len(p)
      BY <1>1, <1>2
    <3> QED
      BY <1>1, <3>1, FirstNames
  <2>1. PICK n \in 0..Len(p) - 1 : a = SubSeq(p, 1, n)
    BY DEF Above, Everywhere
  <2>2. r = Parent(p) /\ r \in Everywhere
    BY <1>4 DEF Parent
  <2>3. n < Len(p) - 1
    <3>1. n # Len(p) - 1
      BY <1>6, <2>1 DEF Parent
    <3>2. Len(p) \in Nat
      BY <1>1
    <3>3. n \in 0..Len(p) - 1
      OBVIOUS
    <3> QED
      BY <3>1, <3>2, <3>3
  <2>5. r \in Seq(STRING)
    BY <2>2, PathNames
  <2>6. n \in 0..Len(r) - 1
    BY <1>1, <1>2, <2>3, <2>4
  <2>7. a = SubSeq(r, 1, n)
    <3> HIDE DEF r
    <3>1. a = [i \in 1..n |-> p[i]]
      BY <1>1, <2>1
    <3>2. SubSeq(r, 1, n) = [i \in 1..n |-> r[i]]
      BY <2>5, <2>6
    <3>3. \A i \in 1..n : r[i] = p[i]
      BY <1>1, <2>3, <2>4
    <3> QED
      BY <3>1, <3>2, <3>3
  <2> HIDE DEF r
  <2> QED
    BY <2>2, <2>6, <2>7 DEF Above, Everywhere
<1> QED
  BY <1>3, <1>4, <1>5, <1>6

\* The directories in which something lies that is served from a layer are
\* served from the same one.
LEMMA OpenBetween ==
  ASSUME NEW p, Open(p), NEW a \in Between[p]
  PROVE  a \in Paths /\ Open(a) /\ Served[a] = Served[p]
<1>1. p \in Everywhere /\ p \in Seq(STRING)
  BY PathNames DEF Open, Everywhere
<1>2. PICK n \in 0..Len(p) - 1 : a = SubSeq(p, 1, n)
  BY <1>1 DEF Between, Above, Everywhere
<1>3. a \notin Roots
  BY <1>1 DEF Between, Everywhere
<1>4. a \in Paths
  BY ParentsUnblocked
<1>5. a # <<>> /\ a # <<"tmp">>
  BY <1>3 DEF Roots
<1>6. a \in Seq(STRING) /\ Len(a) = n
  BY <1>1, <1>2
<1>7. n >= 1
  BY <1>5, <1>6
<1>8. a[1] = p[1] /\ p # <<>> /\ Len(p) > n /\ (n >= 2 => a[2] = p[2])
  BY <1>1, <1>2, <1>7
<1>9. a[1] = "tmp" => n >= 2
  <2> SUFFICES ASSUME a[1] = "tmp", n < 2 PROVE FALSE
    OBVIOUS
  <2>1. n = 1
    BY <1>7
  <2>2. a = <<"tmp">>
    BY <1>6, <2>1
  <2> QED
    BY <1>5, <2>2
<1>10. Served[p] = route(p) /\ Served[a] = route(a) /\ Served[p] \in {"cow", "tmp"}
  BY <1>1, <1>4 DEF Served, Open, Everywhere
<1>11. route(p) = IF p[1] = "tmp" THEN "tmp" ELSE "cow"
  BY <1>8, <1>10 DEF route
<1>12. p[1] \notin {"sys", "run", ".b", "dev", "proc"} /\ (p[1] = "tmp" => p[2] # ".cvisor")
  BY <1>6, <1>7, <1>8, <1>10 DEF route
<1>13. route(a) = IF p[1] = "tmp" THEN "tmp" ELSE "cow"
  BY <1>5, <1>6, <1>8, <1>9, <1>12 DEF route
<1> QED
  BY <1>4, <1>10, <1>11, <1>13 DEF Open, Everywhere

\* What lies below a directory lies in one of its entries, or is one.
LEMMA BelowEntry ==
  ASSUME NEW d \in Paths, NEW q \in Paths, d \in Above[q]
  PROVE  \E c \in Directly[d] : c = q \/ c \in Between[q]
<1>1. q \in Seq(STRING) /\ d \in Seq(STRING) /\ d # <<>>
  BY PathNames DEF Everywhere
<1>2. PICK n \in 0..Len(q) - 1 : d = SubSeq(q, 1, n)
  BY DEF Above
<1>3. Len(d) = n /\ n >= 1 /\ n < Len(q)
  BY <1>1, <1>2
<1> DEFINE c == SubSeq(q, 1, n + 1)
<1>4. Len(c) = n + 1 /\ c \in Seq(STRING) /\ \A i \in 1..n + 1 : c[i] = q[i]
  BY <1>1, <1>3
<1>5. c # <<>> /\ c # <<"tmp">>
  <2> HIDE DEF c
  <2>1. Len(<<"tmp">>) = 1 /\ Len(c) >= 2
    BY <1>3, <1>4
  <2> QED
    BY <1>4, <2>1
<1>6. c = q \/ c \in Between[q]
  <2>1. CASE n + 1 = Len(q)
    BY <1>1, <2>1
  <2>2. CASE n + 1 < Len(q)
    BY <1>1, <1>5, <2>2 DEF Between, Above, Roots
  <2> QED
    BY <1>1, <1>3, <2>1, <2>2
<1>7. c \in Paths
  BY <1>6, NamesAssumption
<1>8. d \in Above[c]
  <2> HIDE DEF c
  <2>1. d = [i \in 1..n |-> q[i]]
    BY <1>1, <1>2, <1>3
  <2>2. SubSeq(c, 1, n) = [i \in 1..n |-> c[i]]
    BY <1>3, <1>4
  <2>3. d = SubSeq(c, 1, n)
    BY <1>4, <2>1, <2>2
  <2> QED
    BY <1>3, <1>4, <1>7, <2>3 DEF Above
<1> QED
  BY <1>3, <1>4, <1>6, <1>7, <1>8 DEF Directly

\* The kinds of entries.
LEMMA NodeFacts ==
  /\ "none" \in Nodes /\ "dir" \in Nodes /\ "link" \in Nodes /\ "empty" \in Nodes /\ "new" \in Nodes /\ "host" \in Nodes
  /\ "none" \notin Contents /\ "dir" \notin Contents /\ "link" \notin Contents
  /\ HostTree \in Trees
BY TreeAssumption DEF Nodes, Contents, Trees

\* What is hidden hides what is below.
LEMMA CoverDown ==
  ASSUME NEW p \in Everywhere, NEW a \in Above[p] \cap Everywhere, NEW ts \in SUBSET Paths, Covered(ts, a)
  PROVE  Covered(ts, p)
BY AboveTwice DEF Covered

\* The tree the guest sees is a tree.
LEMMA SeenTree ==
  ASSUME NEW u, NEW ts, Layers(u, ts)
  PROVE  /\ Seen(u, ts) \in Trees
         /\ \A p \in Paths : Sees(u, ts, p) # "none" =>
              Open(p) /\ \A a \in Between[p] : Sees(u, ts, a) = "dir"
<1>1. Seen(u, ts) \in Trees
  BY NodeFacts DEF Layers, Seen, Sees, Trees
<1>2. ASSUME NEW p \in Paths, Sees(u, ts, p) # "none"
      PROVE  Open(p) /\ \A a \in Between[p] : Sees(u, ts, a) = "dir"
  <2>1. ~Covered(ts, p) /\ ts \subseteq Paths /\ p \in Everywhere
    BY <1>2 DEF Sees, Layers, Everywhere
  <2>2. Open(p)
    BY <1>2, <2>1 DEF Sees, Layers, Open
  <2>3. ASSUME NEW a \in Between[p] PROVE Sees(u, ts, a) = "dir"
    <3>1. a \in Paths /\ Open(a) /\ Served[a] = Served[p] /\ a \in Above[p] /\ a \in Everywhere
      BY <2>1, <2>2, OpenBetween DEF Between, Everywhere
    <3>2. ~Covered(ts, a)
      BY <2>1, <3>1, CoverDown
    <3>3. CASE u[p] # "none"
      BY <3>1, <3>2, <3>3, <2>3 DEF Layers, Sees
    <3>4. CASE u[p] = "none"
      <4>1. Served[p] = "cow" /\ HostTree[p] # "none"
        BY <1>2, <3>4 DEF Sees
      <4>2. HostTree[a] = "dir"
        BY <4>1, <2>3, TreeAssumption
      <4>3. u[a] \in {"none", "dir"}
        BY <3>1, <4>1, <4>2 DEF Layers
      <4> QED
        BY <3>1, <3>2, <4>1, <4>2, <4>3 DEF Sees
    <3> QED
      BY <3>3, <3>4
  <2> QED
    BY <2>2, <2>3
<1> QED
  BY <1>1, <1>2

\* In a tree, what is at a place is found there.
LEMMA LookAt ==
  ASSUME NEW t, \A q \in Paths : t[q] # "none" => \A a \in Between[q] : t[a] = "dir",
         NEW p \in Everywhere
  PROVE  Look(t, p) = At(t, p)
<1>1. CASE p \in Roots
  <2>1. Between[p] = {}
    <3>1. Above[p] \subseteq Roots
      <4> SUFFICES ASSUME NEW n \in 0..Len(p) - 1 PROVE SubSeq(p, 1, n) \in Roots
        BY <1>1 DEF Above
      <4>1. CASE p = <<>>
        BY <4>1
      <4>2. CASE p = <<"tmp">>
        <5>1. n = 0
          BY <4>2
        <5>2. SubSeq(p, 1, 0) = <<>>
          BY <4>2
        <5> QED
          BY <5>1, <5>2 DEF Roots
      <4> QED
        BY <1>1, <4>1, <4>2 DEF Roots
    <3> QED
      BY <1>1, <3>1 DEF Between
  <2> QED
    BY <2>1 DEF Look
<1>2. CASE p \in Paths
  BY <1>2, PathsAssumption DEF Look, At
<1> QED
  BY <1>1, <1>2 DEF Everywhere

\* A walk along a path finds what is at its end.
LEMMA Looks ==
  ASSUME NEW u, NEW ts, Layers(u, ts), NEW p \in Everywhere
  PROVE  /\ Look(u, p) = At(u, p)
         /\ Look(HostTree, p) = At(HostTree, p)
         /\ Look(Seen(u, ts), p) = At(Seen(u, ts), p)
<1>1. Look(u, p) = At(u, p)
  BY LookAt DEF Layers
<1>2. Look(HostTree, p) = At(HostTree, p)
  BY LookAt, TreeAssumption
<1>3. \A q \in Paths : Seen(u, ts)[q] # "none" => \A a \in Between[q] : Seen(u, ts)[a] = "dir"
  <2>1. \A q \in Paths : Between[q] \subseteq Paths
    BY NamesAssumption
  <2> QED
    BY <2>1, SeenTree DEF Seen
<1> QED
  BY <1>1, <1>2, <1>3, LookAt

\* At p, from the layers.
LEMMA AtSeen ==
  ASSUME NEW u, NEW ts, NEW p \in Paths
  PROVE  /\ At(Seen(u, ts), p) = Sees(u, ts, p) /\ At(u, p) = u[p] /\ At(HostTree, p) = HostTree[p]
         /\ Seen(u, ts)[p] = Sees(u, ts, p)
BY PathsAssumption DEF At, Seen

\* What the layers show at a path is what the guest sees there.
LEMMA ShownSeen ==
  ASSUME Layers(upper, tombstones), lower = HostTree
  PROVE  /\ View = Seen(upper, tombstones)
         /\ \A p \in Everywhere : Shown(p) = At(View, p)
<1>1. ASSUME NEW p \in Paths PROVE Shown(p) = Sees(upper, tombstones, p)
  <2>1. Look(upper, p) = upper[p] /\ Look(lower, p) = HostTree[p] /\ p \notin Roots /\ p \in Everywhere
    BY Looks, AtSeen, PathsAssumption DEF Everywhere
  <2>2. Hidden(p) <=> Covered(tombstones, p)
    BY DEF Hidden, Covered, is_tombstoned, is_ancestor_tombstoned
  <2>3. statx_routed(p) = IF upper[p] # "none" THEN upper[p] ELSE IF Served[p] = "cow" THEN HostTree[p] ELSE "none"
    BY <2>1 DEF statx_routed, cow_exists, Exists
  <2> QED
    BY <2>1, <2>2, <2>3 DEF Shown, Sees
<1>2. View = Seen(upper, tombstones)
  BY <1>1 DEF View, Seen
<1>3. ASSUME NEW p \in Everywhere PROVE Shown(p) = At(View, p)
  <2>1. p \in Roots \/ p \in Paths
    BY DEF Everywhere
  <2> QED
    BY <2>1 DEF At, View, Shown
<1> QED
  BY <1>2, <1>3

\* A place under a directory that the guest sees.
LEMMA UnderDir ==
  ASSUME NEW u, NEW ts, Layers(u, ts), NEW p \in Paths, At(Seen(u, ts), Parent(p)) = "dir"
  PROVE  /\ \A a \in Between[p] : a \in Paths /\ Sees(u, ts, a) = "dir"
         /\ Above[p] \cap ts = {}
<1> DEFINE d == Parent(p)
<1>1. d \in Everywhere /\ Above[p] = Above[d] \cup {d} /\ ts \subseteq Paths
  BY ParentAbove DEF Layers
<1>2. CASE d \in Roots
  <2>1. Above[d] \subseteq Roots
    <3> SUFFICES ASSUME NEW n \in 0..Len(d) - 1 PROVE SubSeq(d, 1, n) \in Roots
      BY <1>2 DEF Above
    <3>1. CASE d = <<>>
      BY <3>1
    <3>2. CASE d = <<"tmp">>
      <4>1. n = 0
        BY <3>2
      <4>2. SubSeq(d, 1, 0) = <<>>
        BY <3>2
      <4> QED
        BY <4>1, <4>2 DEF Roots
    <3> QED
      BY <1>2, <3>1, <3>2 DEF Roots
  <2>2. Above[p] \subseteq Roots
    BY <1>1, <1>2, <2>1
  <2> QED
    BY <1>1, <2>2, PathsAssumption DEF Between
<1>3. CASE d \notin Roots
  <2>1. d \in Paths
    BY <1>1, <1>3 DEF Everywhere
  <2>2. Sees(u, ts, d) = "dir"
    BY <2>1, AtSeen
  <2>3. \A a \in Between[d] : a \in Paths /\ Sees(u, ts, a) = "dir"
    BY <2>1, <2>2, SeenTree, NamesAssumption
  <2>4. Between[p] = Between[d] \cup {d}
    BY <1>1, <1>3, <2>1 DEF Between
  <2>5. ~Covered(ts, d)
    BY <2>2 DEF Sees
  <2> QED
    BY <1>1, <2>1, <2>2, <2>3, <2>4, <2>5 DEF Covered
<1> QED
  BY <1>2, <1>3

-----------------------------------------------------------------------------
(* What the kernel's calls on the upper layer, and what adding and         *)
(* removing tombstones does to the tree that the guest sees.               *)

\* A file that the guest sees at q is still the same one.
Calm(u, ts, v, tt, q) ==
  Sees(u, ts, q) \in Contents => v[q] = u[q] /\ Sees(v, tt, q) = Sees(u, ts, q)

\* The parents of a place are made in the upper layer: nothing is seen of it.
LEMMA ParentsMade ==
  ASSUME NEW u, NEW ts, Layers(u, ts), NEW p \in Paths, Open(p), At(Seen(u, ts), Parent(p)) = "dir"
  PROVE  LET made == create_cow_parent_dirs(u, p) IN
         /\ made.res = "ok"
         /\ Layers(made.tree, ts)
         /\ \A q \in Paths : Sees(made.tree, ts, q) = Sees(u, ts, q)
         /\ \A q \in Paths : q \notin Between[p] => made.tree[q] = u[q]
         /\ \A a \in Between[p] : made.tree[a] = "dir" /\ Sees(u, ts, a) = "dir"
<1> DEFINE v == [q \in Paths |-> IF q \in Between[p] /\ u[q] = "none" THEN "dir" ELSE u[q]]
<1>1. \A a \in Between[p] : a \in Paths /\ Sees(u, ts, a) = "dir" /\ Open(a) /\ Served[a] = Served[p]
  BY UnderDir, OpenBetween
<1>2. \A a \in Between[p] : u[a] \in {"none", "dir"} /\ ~Covered(ts, a)
  BY <1>1 DEF Sees
<1>3. create_cow_parent_dirs(u, p) = [res |-> "ok", tree |-> v]
  BY <1>2 DEF create_cow_parent_dirs, Answer
<1>4. \A a \in Between[p] : v[a] = "dir"
  BY <1>1, <1>2
<1>5. \A q \in Paths : q \notin Between[p] => v[q] = u[q]
  OBVIOUS
<1>6. v \in Trees
  BY NodeFacts DEF Layers, Trees
<1>7. \A q \in Paths : u[q] # "none" => v[q] = u[q]
  OBVIOUS
<1> HIDE DEF v
<1>8. ASSUME NEW q \in Paths, v[q] # "none"
      PROVE  /\ Open(q) /\ ~Covered(ts, q)
             /\ \A a \in Between[q] : v[a] = "dir"
             /\ Served[q] = "cow" /\ v[q] # "dir" => HostTree[q] # "dir"
  <2>1. CASE q \in Between[p]
    <3>1. Between[q] \subseteq Between[p]
      <4>1. q \in Above[p] \cap Everywhere /\ p \in Everywhere
        BY <2>1 DEF Between, Everywhere
      <4>2. Above[q] \subseteq Above[p]
        BY <4>1, AboveTwice
      <4> QED
        BY <4>2 DEF Between
    <3> QED
      BY <1>1, <1>2, <1>4, <2>1, <3>1
  <2>2. CASE q \notin Between[p]
    <3>1. u[q] # "none" /\ v[q] = u[q]
      BY <1>5, <1>8, <2>2
    <3>2. \A a \in Between[q] : a \in Paths /\ u[a] = "dir"
      BY <3>1, NamesAssumption DEF Layers
    <3>3. \A a \in Between[q] : v[a] = "dir"
      BY <1>7, <3>2
    <3> QED
      BY <3>1, <3>3 DEF Layers
  <2> QED
    BY <2>1, <2>2
<1>9. Layers(v, ts)
  BY <1>6, <1>8 DEF Layers
<1>10. \A q \in Paths : Sees(v, ts, q) = Sees(u, ts, q)
  <2> SUFFICES ASSUME NEW q \in Paths PROVE Sees(v, ts, q) = Sees(u, ts, q)
    OBVIOUS
  <2>1. CASE q \in Between[p]
    BY <1>1, <1>2, <1>4, <2>1 DEF Sees
  <2>2. CASE q \notin Between[p]
    BY <1>5, <2>2 DEF Sees
  <2> QED
    BY <2>1, <2>2
<1> QED
  BY <1>1, <1>3, <1>4, <1>5, <1>9, <1>10

\* Something is put at p in the upper layer.
LEMMA PutSeen ==
  ASSUME NEW u, NEW ts, Layers(u, ts), NEW p \in Paths, Open(p), ~Covered(ts, p),
         \A a \in Between[p] : u[a] = "dir",
         NEW n \in Nodes \ {"none"},
         n # "dir" => u[p] # "dir" /\ (Served[p] = "cow" => HostTree[p] # "dir")
  PROVE  LET v == [u EXCEPT ![p] = n] IN
         /\ Layers(v, ts)
         /\ Seen(v, ts) = [Seen(u, ts) EXCEPT ![p] = n]
<1> DEFINE v == [u EXCEPT ![p] = n]
<1>1. u \in Trees
  BY DEF Layers
<1>2. v[p] = n /\ v \in Trees /\ \A q \in Paths : q # p => v[q] = u[q]
  BY <1>1 DEF Trees
<1> HIDE DEF v
<1>3. ASSUME NEW q \in Paths, v[q] # "none"
      PROVE  /\ Open(q) /\ ~Covered(ts, q)
             /\ \A a \in Between[q] : v[a] = "dir"
             /\ Served[q] = "cow" /\ v[q] # "dir" => HostTree[q] # "dir"
  <2>1. CASE q = p
    <3>1. p \notin Between[p]
      BY NotAbove DEF Between, Everywhere
    <3>2. \A a \in Between[p] : v[a] = "dir"
      BY <1>2, <3>1, NamesAssumption
    <3> QED
      BY <1>2, <2>1, <3>2
  <2>2. CASE q # p
    <3>1. u[q] # "none" /\ v[q] = u[q]
      BY <1>2, <1>3, <2>2
    <3>2. \A a \in Between[q] : a \in Paths /\ u[a] = "dir"
      BY <3>1, NamesAssumption DEF Layers
    <3>3. \A a \in Between[q] : v[a] = "dir"
      BY <1>2, <3>2
    <3> QED
      BY <3>1, <3>3 DEF Layers
  <2> QED
    BY <2>1, <2>2
<1>4. Layers(v, ts)
  BY <1>2, <1>3 DEF Layers
<1>5. Seen(v, ts) = [Seen(u, ts) EXCEPT ![p] = n]
  BY <1>2 DEF Seen, Sees
<1> QED
  BY <1>4, <1>5 DEF v

\* A place without directory of the host, and of which the upper layer has
\* nothing, is shown again: nothing else is.
LEMMA UnhideSeen ==
  ASSUME NEW u, NEW ts, Layers(u, ts), NEW p \in Paths, p \in ts => HostTree[p] # "dir"
  PROVE  /\ Layers(u, ts \ {p})
         /\ \A q \in Paths : q # p => Sees(u, ts \ {p}, q) = Sees(u, ts, q)
<1>1. \A q \in Paths : Covered(ts \ {p}, q) => Covered(ts, q)
  BY DEF Covered
<1>2. Layers(u, ts \ {p})
  BY <1>1 DEF Layers
<1>3. ASSUME NEW q \in Paths, q # p PROVE Sees(u, ts \ {p}, q) = Sees(u, ts, q)
  <2>1. CASE Covered(ts \ {p}, q) <=> Covered(ts, q)
    BY <2>1 DEF Sees
  <2>2. CASE ~(Covered(ts \ {p}, q) <=> Covered(ts, q))
    <3>1. Covered(ts, q) /\ p \in ts /\ p \in Above[q] /\ ~Covered(ts \ {p}, q)
      BY <1>1, <1>3, <2>2 DEF Covered
    <3>2. u[q] = "none" /\ Sees(u, ts, q) = "none"
      BY <3>1 DEF Layers, Sees
    <3>3. p \in Between[q]
      BY <3>1, PathsAssumption DEF Between
    <3>4. HostTree[q] = "none"
      BY <3>1, <3>3, TreeAssumption
    <3> QED
      BY <3>2, <3>4 DEF Sees
  <2> QED
    BY <2>1, <2>2
<1> QED
  BY <1>2, <1>3

\* What p is no more, and what was below it was gone before.
LEMMA RemoveSeen ==
  ASSUME NEW u, NEW ts, Layers(u, ts), NEW p \in Paths, NEW v \in Trees, NEW tt \in SUBSET Paths,
         v[p] = "none", \A q \in Paths : q # p => v[q] = u[q],
         \A q \in Paths : p \in Above[q] => Sees(u, ts, q) = "none",
         \/ tt = ts /\ Served[p] # "cow"
         \/ tt = ts \cup {p} 
         \/ tt = {q \in ts : p \notin Above[q]} \cup {p}
  PROVE  /\ Layers(v, tt)
         /\ Seen(v, tt) = [Seen(u, ts) EXCEPT ![p] = "none"]
<1>1. \A q \in Paths : p \in Above[q] => u[q] = "none"
  <2> SUFFICES ASSUME NEW q \in Paths, p \in Above[q], u[q] # "none" PROVE FALSE
    OBVIOUS
  <2>1. ~Covered(ts, q)
    BY DEF Layers
  <2> QED
    BY <2>1 DEF Sees
<1>2. p \notin Above[p]
  BY NotAbove DEF Everywhere
<1>3. ASSUME NEW q \in Paths, q # p, p \notin Above[q]
      PROVE  Covered(tt, q) <=> Covered(ts, q)
  <2>1. tt \subseteq ts \cup {p}
    OBVIOUS
  <2>2. Covered(tt, q) => Covered(ts, q)
    BY <1>3, <2>1 DEF Covered
  <2>3. ASSUME NEW x \in ts, x = q \/ x \in Above[q] PROVE x \in tt
    <3>1. x \in Above[q] => p \notin Above[x]
      <4> SUFFICES ASSUME x \in Above[q], p \in Above[x] PROVE FALSE
        OBVIOUS
      <4>1. x \in Paths /\ q \in Everywhere
        BY DEF Layers, Everywhere
      <4>2. p \in Above[q]
        BY <4>1, AboveTwice DEF Everywhere
      <4> QED
        BY <1>3, <4>2
    <3> QED
      BY <1>3, <2>3, <3>1
  <2>4. Covered(ts, q) => Covered(tt, q)
    BY <2>3 DEF Covered
  <2> QED
    BY <2>2, <2>4
<1>4. ASSUME NEW q \in Paths, v[q] # "none"
      PROVE  /\ Open(q) /\ ~Covered(tt, q)
             /\ \A a \in Between[q] : v[a] = "dir"
             /\ Served[q] = "cow" /\ v[q] # "dir" => HostTree[q] # "dir"
  <2>1. q # p /\ u[q] # "none" /\ v[q] = u[q]
    BY <1>4
  <2>2. p \notin Above[q]
    BY <1>1, <2>1
  <2>3. \A a \in Between[q] : a \in Paths /\ a # p /\ u[a] = "dir"
    BY <2>1, <2>2, NamesAssumption DEF Layers, Between
  <2> QED
    BY <1>3, <2>1, <2>2, <2>3 DEF Layers
<1>5. Layers(v, tt)
  BY <1>4 DEF Layers
<1>6. ASSUME NEW q \in Paths PROVE Sees(v, tt, q) = IF q = p THEN "none" ELSE Sees(u, ts, q)
  <2>1. CASE q = p
    BY <2>1 DEF Sees, Covered
  <2>2. CASE q # p /\ p \in Above[q]
    <3>1. Sees(u, ts, q) = "none" /\ v[q] = "none"
      BY <1>1, <2>2
    <3>2. Sees(v, tt, q) = "none"
      <4>1. CASE p \in tt
        BY <2>2, <4>1 DEF Sees, Covered
      <4>2. CASE p \notin tt
        <5>1. tt = ts /\ u[q] = "none"
          BY <1>1, <2>2, <4>2
        <5> QED
          BY <3>1, <5>1 DEF Sees
      <4> QED
        BY <4>1, <4>2
    <3> QED
      BY <2>2, <3>1, <3>2
  <2>3. CASE q # p /\ p \notin Above[q]
    BY <1>3, <2>3 DEF Sees
  <2> QED
    BY <2>1, <2>2, <2>3
<1>7. Seen(v, tt) = [Seen(u, ts) EXCEPT ![p] = "none"]
  BY <1>6 DEF Seen
<1> QED
  BY <1>5, <1>7

-----------------------------------------------------------------------------
(* The handlers, for a guest that keeps away from what the overlay is      *)
(* known not to follow.                                                    *)

\* The restrictions of the guest that these proofs need.
Disciplined ==
  {"parents", "recreate_dir", "old_content", "dir_copy_up", "reader_writer", "rmdir_full", "deleted", "rerun"}
    \cap Careless = {}

Sound == Layers(upper, tombstones) /\ lower = HostTree

\* What the handlers find out about a path.
LEMMA Found ==
  ASSUME Sound, NEW p \in Paths
  PROVE  /\ p \in Everywhere /\ p \notin Roots
         /\ cow_exists(p) <=> upper[p] # "none"
         /\ Look(upper, p) = upper[p] /\ Look(lower, p) = HostTree[p]
         /\ Exists(lower, p) <=> HostTree[p] # "none"
         /\ Hidden(p) <=> Covered(tombstones, p)
         /\ Shown(p) = Sees(upper, tombstones, p)
         /\ View = Seen(upper, tombstones)
         /\ View[p] = Sees(upper, tombstones, p) /\ At(View, p) = View[p]
         /\ Look(View, p) = View[p]
<1>1. p \in Everywhere /\ p \notin Roots
  BY PathsAssumption DEF Everywhere
<1>2. Look(upper, p) = upper[p] /\ Look(lower, p) = HostTree[p] /\ Look(Seen(upper, tombstones), p) = Sees(upper, tombstones, p)
  BY <1>1, Looks, AtSeen DEF Sound
<1>3. View = Seen(upper, tombstones) /\ Shown(p) = At(View, p)
  BY <1>1, ShownSeen DEF Sound
<1> QED
  BY <1>1, <1>2, <1>3, AtSeen DEF cow_exists, Exists, Hidden, Covered, is_tombstoned, is_ancestor_tombstoned

\* unlink and rename ask whether the guest sees a path, and whether as a directory.
LEMMA Probed ==
  ASSUME Sound, NEW p \in Paths, Open(p)
  PROVE  /\ (guest_path_exists(p) /\ (Served[p] = "cow" => ~Hidden(p))) <=> View[p] # "none"
         /\ View[p] # "none" => (is_guest_dir(p) <=> View[p] = "dir")
<1>1. Served[p] \in {"cow", "tmp"}
  BY DEF Open
<1>2. upper[p] # "none" => ~Covered(tombstones, p)
  BY DEF Sound, Layers
<1>3. guest_path_exists(p) <=> upper[p] # "none" \/ (Served[p] = "cow" /\ HostTree[p] # "none")
  BY Found DEF guest_path_exists, cow_exists
<1>4. is_guest_dir(p) <=> IF upper[p] # "none" THEN upper[p] = "dir" ELSE HostTree[p] = "dir"
  BY Found DEF is_guest_dir
<1> QED
  BY <1>1, <1>2, <1>3, <1>4, Found DEF Sees

\* What a careful guest has looked at before it creates p.
LEMMA CreateFacts ==
  ASSUME Sound, Disciplined, NEW p \in Paths, CarefulCreate(p)
  PROVE  /\ At(View, Parent(p)) = "dir"
         /\ p \in tombstones => HostTree[p] # "dir"
         /\ Above[p] \cap tombstones = {}
<1>1. Shown(Parent(p)) = "dir" /\ ~(is_tombstoned(p) /\ Look(lower, p) = "dir")
  BY DEF CarefulCreate, Careful, Disciplined
<1>2. At(View, Parent(p)) = "dir"
  BY <1>1, ParentAbove, ShownSeen DEF Sound
<1>3. Above[p] \cap tombstones = {}
  BY <1>2, UnderDir, ShownSeen DEF Sound
<1> QED
  BY <1>1, <1>2, <1>3, Found DEF is_tombstoned

\* Something new at p, in parents that are made for it.
LEMMA NewSeen ==
  ASSUME NEW u, NEW ts, Layers(u, ts), NEW p \in Paths, Open(p),
         At(Seen(u, ts), Parent(p)) = "dir", p \in ts => HostTree[p] # "dir",
         NEW n \in Nodes \ {"none"},
         n # "dir" => u[p] # "dir" /\ (Served[p] = "cow" => HostTree[p] # "dir")
  PROVE  LET made == create_cow_parent_dirs(u, p)
             v == [made.tree EXCEPT ![p] = n] IN
         /\ made.res = "ok" /\ made.tree[p] = u[p] /\ At(made.tree, Parent(p)) = "dir"
         /\ Layers(v, ts \ {p}) /\ v[p] = n
         /\ Seen(v, ts \ {p}) = [Seen(u, ts) EXCEPT ![p] = n]
         /\ \A q \in Paths : q # p => Calm(u, ts, v, ts \ {p}, q)
<1> DEFINE made == create_cow_parent_dirs(u, p)
           m == made.tree
           v == [m EXCEPT ![p] = n]
           tt == ts \ {p}
<1>1. /\ made.res = "ok" /\ Layers(m, ts)
      /\ \A q \in Paths : Sees(m, ts, q) = Sees(u, ts, q)
      /\ \A q \in Paths : q \notin Between[p] => m[q] = u[q]
      /\ \A a \in Between[p] : m[a] = "dir" /\ Sees(u, ts, a) = "dir"
  BY ParentsMade
<1>2. p \notin Between[p]
  BY NotAbove DEF Between, Everywhere
<1>3. m[p] = u[p] /\ m \in Trees
  BY <1>1, <1>2 DEF Layers
<1>4. At(m, Parent(p)) = "dir"
  <2>1. Parent(p) \in Roots \/ Parent(p) \in Between[p]
    BY ParentAbove DEF Between
  <2> QED
    BY <1>1, <2>1 DEF At
<1> HIDE DEF made, m
<1>5. Layers(m, tt) /\ \A q \in Paths : q # p => Sees(m, tt, q) = Sees(m, ts, q)
  BY <1>1, UnhideSeen
<1>6. ~Covered(tt, p)
  BY UnderDir DEF Covered
<1> HIDE DEF tt
<1>7. Layers(v, tt) /\ Seen(v, tt) = [Seen(m, tt) EXCEPT ![p] = n]
  BY <1>1, <1>3, <1>5, <1>6, PutSeen
<1>8. v[p] = n /\ \A q \in Paths : q # p => v[q] = m[q]
  BY <1>3 DEF Trees
<1> HIDE DEF v
<1>9. Seen(v, tt) = [Seen(u, ts) EXCEPT ![p] = n]
  BY <1>1, <1>5, <1>7 DEF Seen
<1>10. ASSUME NEW q \in Paths, q # p PROVE Calm(u, ts, v, tt, q)
  <2>1. Sees(v, tt, q) = Sees(u, ts, q)
    BY <1>9, <1>10 DEF Seen
  <2>2. Sees(u, ts, q) \in Contents => q \notin Between[p]
    BY <1>1, NodeFacts
  <2> QED
    BY <1>1, <1>8, <1>10, <2>1, <2>2 DEF Calm
<1> QED
  BY <1>1, <1>3, <1>4, <1>7, <1>8, <1>9, <1>10 DEF v, m, made, tt

\* What an answer leaves of the layers and of what the guest sees.
Leaves(a, w) == Layers(a.upper, a.ts) /\ Seen(a.upper, a.ts) = w
CalmElse(a, S) == \A q \in Paths \ S : Calm(upper, tombstones, a.upper, a.ts, q)

\* An answer that leaves layers and tombstones alone leaves the tree of the guest.
LEMMA NothingLeft ==
  ASSUME Sound, NEW a, a.upper = upper, a.ts = tombstones
  PROVE  Leaves(a, View) /\ CalmElse(a, {})
BY ShownSeen DEF Sound, Leaves, CalmElse, Calm

\* So does a refusal.
LEMMA FailsLeave ==
  ASSUME Sound, NEW r
  PROVE  Leaves(Fails(r), View) /\ CalmElse(Fails(r), {}) /\ Fails(r).upper = upper /\ Fails(r).ts = tombstones /\ Fails(r).res = r
<1>1. Fails(r).upper = upper /\ Fails(r).ts = tombstones /\ Fails(r).res = r
  BY DEF Fails, With, Answer
<1> QED
  BY <1>1, NothingLeft

\* mkdir and symlink.
LEMMA MakeLeaves ==
  ASSUME Sound, Disciplined, NEW p \in Paths, Open(p), NEW n \in {"dir", "link"}, CarefulCreate(p)
  PROVE  LET a == make(p, n) IN
         /\ CalmElse(a, {}) /\ a.res = KMake(View, p, n).res
         /\ \/ Leaves(a, View)
            \/ Leaves(a, KMake(View, p, n).tree) /\ \A q \in Paths : q # p => KMake(View, p, n).tree[q] = View[q]
<1> DEFINE made == create_cow_parent_dirs(upper, p)
           v == [made.tree EXCEPT ![p] = n]
           ts == tombstones \ {p}
<1>1. CASE ~is_tombstoned(p) /\ guest_path_exists(p)
  <2>1. make(p, n) = Fails("EEXIST")
    BY <1>1 DEF make
  <2>2. View[p] # "none"
    BY <1>1, CreateFacts, Found, Probed DEF is_tombstoned, Covered
  <2>3. KMake(View, p, n).res = "EEXIST"
    BY <2>2, Found DEF KMake, Exists, Answer
  <2> QED
    BY <2>1, <2>3, FailsLeave
<1>2. CASE ~(~is_tombstoned(p) /\ guest_path_exists(p))
  <2>1. upper[p] = "none" /\ (Served[p] = "cow" => HostTree[p] # "dir") /\ View[p] = "none"
    <3>1. CASE p \in tombstones
      <4>1. upper[p] = "none"
        BY <3>1 DEF Sound, Layers, Covered
      <4> QED
        BY <3>1, <4>1, CreateFacts, Found DEF Sees, Covered
    <3>2. CASE p \notin tombstones
      <4>1. ~guest_path_exists(p)
        BY <1>2, <3>2 DEF is_tombstoned
      <4>2. upper[p] = "none" /\ (Served[p] = "cow" => HostTree[p] = "none")
        BY <4>1, Found DEF guest_path_exists, cow_exists
      <4> QED
        BY <4>2, Found DEF Sees
    <3> QED
      BY <3>1, <3>2
  <2>2. /\ made.res = "ok" /\ made.tree[p] = upper[p] /\ At(made.tree, Parent(p)) = "dir"
        /\ Layers(v, ts)
        /\ Seen(v, ts) = [View EXCEPT ![p] = n]
        /\ \A q \in Paths : q # p => Calm(upper, tombstones, v, ts, q)
    <3>1. Layers(upper, tombstones) /\ View = Seen(upper, tombstones) /\ n \in Nodes \ {"none"}
      BY Found, NodeFacts DEF Sound
    <3>2. At(Seen(upper, tombstones), Parent(p)) = "dir" /\ (p \in tombstones => HostTree[p] # "dir")
      BY <3>1, CreateFacts
    <3>3. n # "dir" => upper[p] # "dir" /\ (Served[p] = "cow" => HostTree[p] # "dir")
      BY <2>1
    <3>4. LET mm == create_cow_parent_dirs(upper, p)
              vv == [mm.tree EXCEPT ![p] = n] IN
          /\ mm.res = "ok" /\ mm.tree[p] = upper[p] /\ At(mm.tree, Parent(p)) = "dir"
          /\ Layers(vv, tombstones \ {p}) /\ vv[p] = n
          /\ Seen(vv, tombstones \ {p}) = [Seen(upper, tombstones) EXCEPT ![p] = n]
          /\ \A q \in Paths : q # p => Calm(upper, tombstones, vv, tombstones \ {p}, q)
      <4> HIDE DEF made, v, ts
      <4> QED
        BY <3>1, <3>2, <3>3, NewSeen
    <3> QED
      BY <3>1, <3>4
  <2>3. KMake(made.tree, p, n) = [res |-> "ok", tree |-> v]
    <3>1. Layers(made.tree, tombstones)
      <4>1. At(Seen(upper, tombstones), Parent(p)) = "dir"
        BY CreateFacts, Found
      <4> QED
        BY <4>1, ParentsMade DEF Sound
    <3> HIDE DEF made
    <3>2. Look(made.tree, p) = made.tree[p] /\ Look(made.tree, Parent(p)) = "dir"
      BY <2>2, <3>1, Looks, AtSeen, ParentAbove DEF Everywhere
    <3> QED
      BY <2>1, <2>2, <3>2 DEF KMake, Exists, Put, Answer
  <2>4. make(p, n).upper = v /\ make(p, n).ts = ts /\ make(p, n).res = "ok"
    <3> HIDE DEF v, made
    <3>1. cow_make(p, n) = [res |-> "ok", tree |-> v]
      BY <2>2, <2>3 DEF cow_make, made
    <3> QED
      BY <1>2, <3>1 DEF make, With, Unhide
  <2>5. KMake(View, p, n).tree = [View EXCEPT ![p] = n] /\ KMake(View, p, n).res = "ok"
    <3>1. Look(View, Parent(p)) = "dir"
      BY CreateFacts, Looks, ParentAbove, ShownSeen DEF Sound
    <3> QED
      BY <2>1, <3>1, Found DEF KMake, Exists, Put, Answer
  <2>6. Calm(upper, tombstones, v, ts, p)
    BY <2>1, Found, NodeFacts DEF Calm
  <2>7. \A q \in Paths : q # p => [View EXCEPT ![p] = n][q] = View[q]
    BY DEF View
  <2> HIDE DEF v, ts
  <2> QED
    BY <2>2, <2>4, <2>5, <2>6, <2>7 DEF Leaves, CalmElse
<1> QED
  BY <1>1, <1>2

\* What a file or an empty directory had below it: nothing.
LEMMA NothingBelow ==
  ASSUME NEW u, NEW ts, Layers(u, ts), NEW p \in Paths,
         Sees(u, ts, p) # "dir" \/ \A q \in Directly[p] : Sees(u, ts, q) = "none"
  PROVE  \A q \in Paths : p \in Above[q] => Sees(u, ts, q) = "none"
<1> SUFFICES ASSUME NEW q \in Paths, p \in Above[q], Sees(u, ts, q) # "none" PROVE FALSE
  OBVIOUS
<1>1. p \in Between[q]
  BY PathsAssumption DEF Between
<1>2. Sees(u, ts, p) = "dir"
  BY <1>1, SeenTree
<1>3. PICK c \in Directly[p] : c = q \/ c \in Between[q]
  BY BelowEntry
<1>4. Sees(u, ts, c) # "none"
  BY <1>3, SeenTree
<1> QED
  BY <1>2, <1>4

\* unlink and rmdir.
LEMMA UnlinkLeaves ==
  ASSUME Sound, Disciplined, NEW p \in Paths, Open(p), NEW remove_dir \in BOOLEAN, CarefulUnlink(p, remove_dir)
  PROVE  LET a == unlinkat(p, remove_dir)
             w == IF remove_dir THEN KRmdir(View, p).tree ELSE KUnlink(View, p).tree IN
         /\ CalmElse(a, {p})
         /\ a.res = IF remove_dir THEN KRmdir(View, p).res ELSE KUnlink(View, p).res
         /\ \/ Leaves(a, View) /\ a.res # "ok" /\ a.upper = upper /\ a.ts = tombstones
            \/ Leaves(a, w) /\ \A q \in Paths : q # p => w[q] = View[q]
<1> DEFINE found == guest_path_exists(p) /\ (Served[p] = "cow" => ~Hidden(p))
           v == remove_path(p, remove_dir)
           tt == IF Served[p] = "tmp" THEN tombstones
                 ELSE (IF remove_dir THEN remove_children(p) ELSE tombstones) \cup {p}
           w == [View EXCEPT ![p] = "none"]
<1>1. CASE ~found \/ (remove_dir /\ ~is_guest_dir(p)) \/ (~remove_dir /\ is_guest_dir(p))
  <2>1. PICK r \in {"ENOENT", "ENOTDIR", "EISDIR"} :
          /\ unlinkat(p, remove_dir) = Fails(r)
          /\ r = CASE ~found -> "ENOENT" [] found /\ remove_dir -> "ENOTDIR" [] found /\ ~remove_dir -> "EISDIR"
    BY <1>1 DEF unlinkat
  <2>2. r = IF remove_dir THEN KRmdir(View, p).res ELSE KUnlink(View, p).res
    <3>1. (found <=> View[p] # "none") /\ (found => (is_guest_dir(p) <=> View[p] = "dir")) /\ Look(View, p) = View[p]
      BY Probed, Found
    <3> HIDE DEF found
    <3>2. CASE ~found
      BY <2>1, <3>1, <3>2 DEF KRmdir, KUnlink, Answer
    <3>3. CASE found /\ remove_dir
      BY <1>1, <2>1, <3>1, <3>3 DEF KRmdir, Answer
    <3>4. CASE found /\ ~remove_dir
      BY <1>1, <2>1, <3>1, <3>4 DEF KUnlink, Answer
    <3> QED
      BY <3>2, <3>3, <3>4
  <2> QED
    BY <2>1, <2>2, FailsLeave DEF CalmElse
<1>2. CASE found /\ (remove_dir <=> is_guest_dir(p))
  <2>1. View[p] # "none" /\ (remove_dir <=> View[p] = "dir")
    BY <1>2, Probed
  <2>2. \A q \in Directly[p] : View[p] = "dir" => Sees(upper, tombstones, q) = "none"
    <3> SUFFICES ASSUME NEW q \in Directly[p], View[p] = "dir" PROVE Sees(upper, tombstones, q) = "none"
      OBVIOUS
    <3>1. q \in Paths /\ Shown(q) = "none"
      BY <2>1 DEF CarefulUnlink, Careful, Disciplined, Directly
    <3> QED
      BY <3>1, Found
  <2>3. \A q \in Paths : p \in Above[q] => Sees(upper, tombstones, q) = "none"
    BY <2>2, Found, NothingBelow DEF Sound
  <2>4. ~Covered(tombstones, p)
    BY <2>1, Found DEF Sees
  <2>5. upper[p] # "none" => View[p] = upper[p]
    BY <2>4, Found DEF Sees
  <2>6. upper \in Trees /\ tombstones \subseteq Paths
    BY DEF Sound, Layers
  <2>7. remove_dir => Children(upper, p) = {} /\ Children(View, p) = {}
    <3> SUFFICES ASSUME remove_dir, NEW q \in Directly[p] PROVE upper[q] = "none" /\ View[q] = "none"
      BY DEF Children
    <3>1. q \in Paths /\ Sees(upper, tombstones, q) = "none"
      BY <2>1, <2>2 DEF Directly
    <3>2. upper[q] # "none" => ~Covered(tombstones, q)
      BY <3>1 DEF Sound, Layers
    <3> QED
      BY <3>1, <3>2, Found DEF Sees
  <2>8. v[p] = "none" /\ v \in Trees /\ \A q \in Paths : q # p => v[q] = upper[q]
    <3>1. CASE upper[p] = "none"
      <4>1. v = upper
        BY <3>1, Found DEF remove_path, KRmdir, KUnlink, Answer
      <4> QED
        BY <2>6, <3>1, <4>1
    <3>2. CASE upper[p] # "none"
      <4>1. v = [upper EXCEPT ![p] = "none"]
        <5>1. CASE remove_dir
          BY <2>1, <2>5, <2>7, <3>2, <5>1, Found DEF remove_path, KRmdir, Put, Answer
        <5>2. CASE ~remove_dir
          BY <2>1, <2>5, <3>2, <5>2, Found DEF remove_path, KUnlink, Put, Answer
        <5> QED
          BY <5>1, <5>2
      <4> QED
        BY <2>6, <4>1, NodeFacts DEF Trees
    <3> QED
      BY <3>1, <3>2
  <2>9. unlinkat(p, remove_dir).upper = v /\ unlinkat(p, remove_dir).ts = tt /\ unlinkat(p, remove_dir).res = "ok"
    <3> HIDE DEF v, tt
    <3>1. unlinkat(p, remove_dir) = With(Answer("ok", v), tt)
      BY <1>2 DEF unlinkat, v, tt
    <3> QED
      BY <3>1 DEF With, Answer
  <2>10. Layers(v, tt) /\ Seen(v, tt) = w
    <3>1. /\ tt \subseteq Paths
          /\ \/ tt = tombstones /\ Served[p] # "cow"
             \/ tt = tombstones \cup {p}
             \/ tt = {q \in tombstones : p \notin Above[q]} \cup {p}
      BY <2>6 DEF remove_children
    <3> HIDE DEF v, tt
    <3>2. Layers(v, tt) /\ Seen(v, tt) = [Seen(upper, tombstones) EXCEPT ![p] = "none"]
      BY <2>3, <2>8, <3>1, RemoveSeen DEF Sound
    <3> QED
      BY <3>2, Found
  <2>11. IF remove_dir THEN KRmdir(View, p).tree = w /\ KRmdir(View, p).res = "ok"
         ELSE KUnlink(View, p).tree = w /\ KUnlink(View, p).res = "ok"
    BY <2>1, <2>7, Found DEF KRmdir, KUnlink, Put, Answer
  <2>12. \A q \in Paths : q # p => w[q] = View[q] /\ Calm(upper, tombstones, v, tt, q)
    <3> SUFFICES ASSUME NEW q \in Paths, q # p PROVE w[q] = View[q] /\ Calm(upper, tombstones, v, tt, q)
      OBVIOUS
    <3> HIDE DEF v, tt
    <3>1. w[q] = View[q]
      BY DEF View
    <3>2. Seen(v, tt)[q] = Sees(v, tt, q) /\ View[q] = Sees(upper, tombstones, q)
      BY Found, AtSeen
    <3> QED
      BY <2>8, <2>10, <3>1, <3>2 DEF Calm
  <2> HIDE DEF v, tt, w
  <2> QED
    BY <2>9, <2>10, <2>11, <2>12 DEF Leaves, CalmElse
<1> HIDE DEF v, tt, w
<1> QED
  BY <1>1, <1>2

\* A file of the host that is not in the upper layer is copied there.
LEMMA CopySeen ==
  ASSUME Sound, NEW p \in Paths, Open(p), View[p] \notin {"none", "dir"}, upper[p] = "none"
  PROVE  LET a == copy_up(p) IN
         /\ a.res = "ok" /\ Layers(a.tree, tombstones) /\ Seen(a.tree, tombstones) = View
         /\ a.tree[p] = View[p] /\ View[p] = HostTree[p]
         /\ \A q \in Paths : q # p => Calm(upper, tombstones, a.tree, tombstones, q)
<1> DEFINE made == create_cow_parent_dirs(upper, p)
           n == HostTree[p]
           v == [made.tree EXCEPT ![p] = n]
<1>1. ~Covered(tombstones, p) /\ n = View[p] /\ Served[p] = "cow"
  BY Found DEF Sees
<1>2. tombstones \ {p} = tombstones
  BY <1>1 DEF Covered
<1>3. At(Seen(upper, tombstones), Parent(p)) = "dir"
  <2>1. Parent(p) \in Roots \/ (Parent(p) \in Between[p] /\ Parent(p) \in Paths)
    BY ParentAbove, NamesAssumption DEF Between
  <2>2. \A a \in Between[p] : Sees(upper, tombstones, a) = "dir"
    BY SeenTree, Found DEF Sound
  <2> QED
    BY <2>1, <2>2, AtSeen DEF At
<1>4. n = "host" /\ n \in Nodes \ {"none"} /\ n # "dir"
  <2>1. n \in {"none", "dir", "host"} /\ n \notin {"none", "dir"}
    BY <1>1, TreeAssumption
  <2> QED
    BY <2>1, NodeFacts
<1>5. /\ made.res = "ok" /\ Layers(v, tombstones) /\ v[p] = n
      /\ Seen(v, tombstones) = [Seen(upper, tombstones) EXCEPT ![p] = n]
      /\ \A q \in Paths : q # p => Calm(upper, tombstones, v, tombstones, q)
  <2>1. Layers(upper, tombstones) /\ (p \in tombstones => HostTree[p] # "dir") /\ upper[p] # "dir"
    BY <1>4 DEF Sound
  <2> HIDE DEF n
  <2>2. LET vv == [made.tree EXCEPT ![p] = n] IN
        /\ made.res = "ok" /\ Layers(vv, tombstones \ {p}) /\ vv[p] = n
        /\ Seen(vv, tombstones \ {p}) = [Seen(upper, tombstones) EXCEPT ![p] = n]
        /\ \A q \in Paths : q # p => Calm(upper, tombstones, vv, tombstones \ {p}, q)
    <3>1. Served[p] = "cow" => HostTree[p] # "dir"
      BY <1>4 DEF n
    <3> QED
      BY <1>3, <1>4, <2>1, <3>1, NewSeen
  <2> QED
    BY <1>2, <2>2
<1>6. copy_up(p) = [res |-> "ok", tree |-> v]
  <2> HIDE DEF made
  <2>1. copy_file(made.tree, p) = [res |-> "ok", tree |-> v]
    BY <1>4, Found DEF copy_file, Put, Answer
  <2> QED
    BY <1>5, <2>1 DEF copy_up, made
<1>7. [Seen(upper, tombstones) EXCEPT ![p] = n] = View
  BY <1>1, Found DEF Seen
<1>8. copy_up(p).res = "ok" /\ copy_up(p).tree = v
  BY <1>6
<1> HIDE DEF v, n, made
<1> QED
  BY <1>1, <1>5, <1>7, <1>8 DEF n

\* fchmodat and utimensat.
LEMMA TouchLeaves ==
  ASSUME Sound, Disciplined, NEW p \in Paths, Open(p), NEW checks \in BOOLEAN, CarefulTouch(p)
  PROVE  LET a == touch(p, checks) IN
         /\ Leaves(a, View) /\ CalmElse(a, {p})
         /\ Calm(upper, tombstones, a.upper, a.ts, p) \/ upper[p] = "none"
<1>1. ~Covered(tombstones, p) /\ ~(Shown(p) = "dir" /\ ~cow_exists(p))
  BY Found DEF CarefulTouch, CarefulLook, CarefulCopy, Careful, Disciplined
<1>2. CASE Served[p] = "cow" /\ ~cow_exists(p) /\ Exists(lower, p)
  <2>1. touch(p, checks) = With(copy_up(p), tombstones)
    <3>1. ~is_tombstoned(p)
      BY <1>1 DEF Covered, is_tombstoned
    <3> QED
      BY <1>2, <3>1 DEF touch
  <2>2. upper[p] = "none" /\ View[p] = HostTree[p] /\ View[p] \notin {"none", "dir"}
    BY <1>1, <1>2, Found DEF Sees
  <2>3. touch(p, checks).upper = copy_up(p).tree /\ touch(p, checks).ts = tombstones
    BY <2>1 DEF With
  <2> QED
    BY <2>2, <2>3, CopySeen DEF Leaves, CalmElse
<1>3. CASE ~(Served[p] = "cow" /\ ~cow_exists(p) /\ Exists(lower, p))
  <2>1. \E r : touch(p, checks) = Fails(r)
    BY <1>3 DEF touch
  <2>2. \A q \in Paths : Calm(upper, tombstones, touch(p, checks).upper, touch(p, checks).ts, q)
    BY <2>1, FailsLeave DEF CalmElse
  <2>3. Leaves(touch(p, checks), View)
    BY <2>1, FailsLeave
  <2> QED
    BY <2>2, <2>3 DEF CalmElse
<1> QED
  BY <1>2, <1>3

\* rename.
LEMMA RenameLeaves ==
  ASSUME Sound, Disciplined, NEW p \in Paths, NEW q \in Paths, Open(p), Open(q), CarefulRename(p, q)
  PROVE  LET a == renameat(p, q, FALSE)
             w == KRename(View, p, q, FALSE).tree IN
         /\ CalmElse(a, {p, q}) /\ a.res \in {"EXDEV", KRename(View, p, q, FALSE).res}
         /\ \/ a.res # "ok" /\ Leaves(a, View) /\ a.upper = upper /\ a.ts = tombstones
            \/ p = q /\ Leaves(a, View) /\ a.upper[p] = View[p]
            \/ /\ p # q /\ a.res = "ok" /\ Leaves(a, w) /\ a.upper[q] = View[p]
               /\ w[p] # View[p] /\ \A r \in Paths \ {p, q} : w[r] = View[r]
<1> DEFINE copied == IF Served[p] = "cow" /\ ~cow_exists(p) THEN copy_up(p) ELSE Answer("ok", upper)
           u1 == copied.tree
           room == create_cow_parent_dirs(u1, q)
           u2 == room.tree
           a == renameat(p, q, FALSE)
           n == View[p]
<1>1. ASSUME NEW r, a = Fails(r), r # "ok"
      PROVE  CalmElse(a, {p, q}) /\ a.res = r /\ a.res # "ok" /\ Leaves(a, View) /\ a.upper = upper /\ a.ts = tombstones
  <2>1. a = Fails(r) /\ r # "ok"
    BY <1>1
  <2> HIDE DEF a
  <2> QED
    BY <2>1, FailsLeave DEF CalmElse
<1>2. CASE Served[p] # Served[q] \/ ~rename_probe(p) \/ is_guest_dir(p) \/ (rename_probe(q) /\ is_guest_dir(q))
  <2>1. a = Fails("EXDEV") \/ (a = Fails("ENOENT") /\ ~rename_probe(p))
    BY <1>2 DEF renameat
  <2>2. ~rename_probe(p) => KRename(View, p, q, FALSE).res = "ENOENT"
    BY Probed, Found DEF rename_probe, KRename, Answer
  <2> DEFINE w == KRename(View, p, q, FALSE)
  <2>3. a.res \in {"EXDEV", w.res} /\ CalmElse(a, {p, q}) /\ a.res # "ok" /\ Leaves(a, View) /\ a.upper = upper
        /\ a.ts = tombstones
    <3> HIDE DEF a, w
    <3>1. CASE a = Fails("EXDEV")
      BY <1>1, <3>1
    <3>2. CASE a = Fails("ENOENT") /\ w.res = "ENOENT"
      BY <1>1, <3>2
    <3> QED
      BY <2>1, <2>2, <3>1, <3>2 DEF w
  <2> QED
    BY <2>3
<1>3. CASE ~(Served[p] # Served[q] \/ ~rename_probe(p) \/ is_guest_dir(p) \/ (rename_probe(q) /\ is_guest_dir(q)))
  <2>1. Served[p] = Served[q] /\ n \notin {"none", "dir"} /\ View[q] # "dir"
    BY <1>3, Probed DEF rename_probe
  <2>2. ~Covered(tombstones, p)
    BY <2>1, Found DEF Sees
  <2>3. At(View, Parent(q)) = "dir" /\ (q \in tombstones => HostTree[q] # "dir") /\ Above[q] \cap tombstones = {}
    BY CreateFacts DEF CarefulRename
  <2>4. /\ copied.res = "ok" /\ Layers(u1, tombstones) /\ Seen(u1, tombstones) = View /\ u1[p] = n
        /\ \A r \in Paths : r # p => Calm(upper, tombstones, u1, tombstones, r)
    <3>1. CASE Served[p] = "cow" /\ ~cow_exists(p)
      <4>1. upper[p] = "none"
        BY <3>1, Found
      <4> QED
        BY <2>1, <3>1, <4>1, CopySeen
    <3>2. CASE ~(Served[p] = "cow" /\ ~cow_exists(p))
      <4>1. copied.res = "ok" /\ u1 = upper
        BY <3>2 DEF Answer
      <4>2. upper[p] = n
        BY <2>1, <2>2, <3>2, Found DEF Sees
      <4> HIDE DEF copied, u1
      <4> QED
        BY <4>1, <4>2, Found DEF Sound, Calm
    <3> QED
      BY <3>1, <3>2
  <2> HIDE DEF u1
  <2>5. \A r \in Paths : Sees(u1, tombstones, r) = View[r]
    BY <2>4, AtSeen
  <2>6. /\ room.res = "ok" /\ Layers(u2, tombstones)
        /\ \A r \in Paths : Sees(u2, tombstones, r) = Sees(u1, tombstones, r)
        /\ \A r \in Paths : r \notin Between[q] => u2[r] = u1[r]
        /\ \A b \in Between[q] : u2[b] = "dir" /\ Sees(u1, tombstones, b) = "dir"
    BY <2>3, <2>4, ParentsMade
  <2> HIDE DEF u2, copied, room
  <2>7. p \notin Between[q] /\ u2[p] = n
    BY <2>1, <2>4, <2>5, <2>6
  <2>8. KRename(u2, p, q, FALSE) = [res |-> "ok", tree |-> [u2 EXCEPT ![p] = "none", ![q] = n]]
    <3>1. Look(u2, p) = n
      BY <2>6, <2>7, Looks, AtSeen, PathsAssumption DEF Everywhere
    <3>2. Look(u2, Parent(q)) = "dir"
      <4>1. Parent(q) \in Roots \/ Parent(q) \in Between[q]
        BY ParentAbove DEF Between
      <4>2. At(u2, Parent(q)) = "dir"
        BY <2>6, <4>1 DEF At
      <4> QED
        BY <2>6, <4>2, Looks, ParentAbove
    <3> QED
      BY <2>1, <2>7, <3>1, <3>2 DEF KRename, Exists, Answer
  <2>9. a.res = "ok" /\ a.upper = [u2 EXCEPT ![p] = "none", ![q] = n] /\ a.ts = Moved(p, q)
    <3>1. a = With(KRename(u2, p, q, FALSE), Moved(p, q))
      BY <1>3, <2>4, <2>6 DEF renameat, u2, u1, room, copied
    <3>2. KRename(u2, p, q, FALSE).res = "ok" /\ KRename(u2, p, q, FALSE).tree = [u2 EXCEPT ![p] = "none", ![q] = n]
      <4> DEFINE t == [u2 EXCEPT ![p] = "none", ![q] = n]
                 k == KRename(u2, p, q, FALSE)
      <4>1. k = [res |-> "ok", tree |-> t]
        BY <2>8
      <4> HIDE DEF t, k
      <4>2. k.res = "ok" /\ k.tree = t
        BY <4>1
      <4> QED
        BY <4>2 DEF t, k
    <3> HIDE DEF a, n
    <3> QED
      BY <3>1, <3>2 DEF With
  <2>10. \A r \in Paths \ {p, q} : Calm(upper, tombstones, u2, tombstones, r)
    <3> SUFFICES ASSUME NEW r \in Paths \ {p, q}, Sees(upper, tombstones, r) \in Contents
                 PROVE  u2[r] = upper[r] /\ Sees(u2, tombstones, r) = Sees(upper, tombstones, r)
      BY DEF Calm
    <3>1. u1[r] = upper[r] /\ Sees(u1, tombstones, r) = Sees(upper, tombstones, r)
      BY <2>4 DEF Calm
    <3>2. r \notin Between[q]
      BY <2>6, <3>1, NodeFacts
    <3> QED
      BY <2>6, <3>1, <3>2
  <2>11. u2 \in Trees
    BY <2>6 DEF Layers
  <2>14. KRename(View, p, q, FALSE).res = "ok"
    <3>1. Look(View, Parent(q)) = "dir"
      BY <2>3, Looks, ParentAbove, ShownSeen DEF Sound
    <3> QED
      BY <2>1, <3>1, Found DEF KRename, Exists, Answer
  <2>12. CASE p = q
    <3>1. a.upper = u2 /\ a.ts = tombstones /\ a.res = "ok"
      <4>1. [u2 EXCEPT ![p] = "none", ![q] = n] = u2
        BY <2>7, <2>11, <2>12 DEF Trees
      <4>2. Moved(p, q) = tombstones
        BY <2>2, <2>12 DEF Moved, Covered
      <4> QED
        BY <2>9, <4>1, <4>2
    <3>2. Seen(u2, tombstones) = View
      BY <2>5, <2>6, <2>4 DEF Seen
    <3> HIDE DEF a
    <3> QED
      BY <2>6, <2>7, <2>10, <2>12, <2>14, <3>1, <3>2 DEF Leaves, CalmElse, a, n
  <2>13. CASE p # q
    <3> DEFINE w == [View EXCEPT ![p] = "none", ![q] = n]
               t1 == tombstones \ {q}
               u3 == [u2 EXCEPT ![q] = n]
               v == [u2 EXCEPT ![p] = "none", ![q] = n]
    <3>1. n \in Nodes \ {"none"} /\ n # "dir"
      <4>1. Sees(upper, tombstones, p) \in Nodes
        BY SeenTree, AtSeen DEF Sound, Trees
      <4> QED
        BY <2>1, <4>1, Found
    <3>2. u2[q] # "dir" /\ (Served[q] = "cow" => HostTree[q] # "dir")
      <4>1. CASE q \in tombstones
        <5>1. u2[q] = "none"
          BY <2>6, <4>1 DEF Layers, Covered
        <5> QED
          BY <2>3, <4>1, <5>1
      <4>2. CASE q \notin tombstones
        <5>1. ~Covered(tombstones, q) /\ Sees(u2, tombstones, q) # "dir"
          BY <2>1, <2>3, <2>5, <2>6, <4>2 DEF Covered
        <5> QED
          BY <2>6, <5>1 DEF Sees, Layers
      <4> QED
        BY <4>1, <4>2
    <3>3. Layers(u2, t1) /\ \A r \in Paths : r # q => Sees(u2, t1, r) = Sees(u2, tombstones, r)
      BY <2>3, <2>6, UnhideSeen
    <3>4. ~Covered(t1, q)
      BY <2>3 DEF Covered
    <3> HIDE DEF t1
    <3>5. Layers(u3, t1) /\ Seen(u3, t1) = [Seen(u2, t1) EXCEPT ![q] = n]
      <4> HIDE DEF n
      <4> QED
        BY <2>6, <3>1, <3>2, <3>3, <3>4, PutSeen
    <3>6. u3[q] = n /\ u3[p] = n /\ \A r \in Paths : r # q => u3[r] = u2[r]
      BY <2>7, <2>11, <2>13 DEF Trees
    <3>7. \A r \in Paths : Sees(u3, t1, r) = IF r = q THEN n ELSE View[r]
      BY <2>5, <2>6, <3>3, <3>5 DEF Seen
    <3>8. v \in Trees /\ v[p] = "none" /\ v[q] = n /\ \A r \in Paths : r # p => v[r] = u3[r]
      BY <2>11, <2>13, <3>1, NodeFacts DEF Trees
    <3> HIDE DEF u3, v
    <3>9. \A r \in Paths : p \in Above[r] => Sees(u3, t1, r) = "none"
      BY <2>1, <2>13, <3>5, <3>7, NothingBelow
    <3>10. /\ Moved(p, q) \in SUBSET Paths
           /\ (Moved(p, q) = t1 /\ Served[p] # "cow") \/ Moved(p, q) = t1 \cup {p}
      BY <2>13 DEF Moved, t1, Sound, Layers
    <3>11. Layers(v, Moved(p, q)) /\ Seen(v, Moved(p, q)) = [Seen(u3, t1) EXCEPT ![p] = "none"]
      BY <3>5, <3>8, <3>9, <3>10, RemoveSeen
    <3>12. [Seen(u3, t1) EXCEPT ![p] = "none"] = w
      <4>1. View = [r \in Paths |-> View[r]] /\ Seen(u3, t1) = [r \in Paths |-> IF r = q THEN n ELSE View[r]]
        BY <3>7 DEF View, Seen
      <4> HIDE DEF n
      <4> QED
        BY <2>13, <4>1
    <3>13. KRename(View, p, q, FALSE).tree = w
      <4>1. Look(View, Parent(q)) = "dir"
        BY <2>3, Looks, ParentAbove, ShownSeen DEF Sound
      <4> QED
        BY <2>1, <4>1, Found DEF KRename, Exists, Answer
    <3>14. w[p] = "none" /\ \A r \in Paths \ {p, q} : w[r] = View[r]
      BY <2>13 DEF View
    <3>15. ASSUME NEW r \in Paths \ {p, q}
           PROVE  Calm(upper, tombstones, v, Moved(p, q), r)
      <4>1. v[r] = u2[r]
        BY <3>6, <3>8
      <4>2. Sees(v, Moved(p, q), r) = View[r] /\ Sees(upper, tombstones, r) = View[r]
        <5>1. Seen(v, Moved(p, q)) = w /\ w[r] = View[r]
          BY <3>11, <3>12, <3>14
        <5>2. Seen(v, Moved(p, q))[r] = Sees(v, Moved(p, q), r)
          BY AtSeen
        <5>3. Sees(upper, tombstones, r) = View[r]
          BY Found
        <5> HIDE DEF w, a, n
        <5> QED
          BY <5>1, <5>2, <5>3
      <4> QED
        BY <2>10, <4>1, <4>2 DEF Calm
    <3> HIDE DEF a, w
    <3>16. a.res = "ok" /\ a.upper = v /\ a.ts = Moved(p, q)
      BY <2>9 DEF v
    <3> QED
      BY <2>1, <2>13, <2>14, <3>8, <3>11, <3>12, <3>13, <3>14, <3>15, <3>16 DEF Leaves, CalmElse, a, n
  <2> QED
    BY <2>12, <2>13
<1> QED
  BY <1>2, <1>3

\* The kernel's open of what is not there.
LEMMA KOpenNew ==
  ASSUME NEW t, NEW p, NEW flags, Look(t, p) = "none", "creat" \in flags, Look(t, Parent(p)) = "dir"
  PROVE  KOpen(t, p, flags).tree = [t EXCEPT ![p] = "empty"]
BY NodeFacts DEF KOpen, Put, Answer

\* O_CREAT makes a file.
LEMMA KOpenMade ==
  ASSUME NEW t, NEW p, NEW flags, Look(t, p) = "none", "creat" \in flags, Look(t, Parent(p)) = "dir"
  PROVE  KOpen(t, p, flags).res = "ok"
BY NodeFacts DEF KOpen, Put, Answer

\* A file that is there is opened.
LEMMA KOpenFound ==
  ASSUME NEW t, NEW p, NEW flags, Look(t, p) \in Contents, "excl" \notin flags
  PROVE  KOpen(t, p, flags).res = "ok"
BY NodeFacts DEF KOpen, Put, Answer

\* O_TRUNC empties it.
LEMMA KOpenEmptied ==
  ASSUME NEW t, NEW p, NEW flags, Look(t, p) \in Contents, "excl" \notin flags, "trunc" \in flags
  PROVE  KOpen(t, p, flags).tree = [t EXCEPT ![p] = "empty"]
BY DEF KOpen, Put, Answer, Contents

\* Without O_CREAT there is nothing to open.
LEMMA KOpenMissing ==
  ASSUME NEW t, NEW p, NEW flags, Look(t, p) = "none", "creat" \notin flags
  PROVE  KOpen(t, p, flags).tree = t /\ KOpen(t, p, flags).res = "ENOENT"
BY NodeFacts DEF KOpen, Put, Answer

\* Where the file is that a descriptor for p is on, while p is its name.
HeldIn(u, ts, p, layer) ==
  IF layer = "lower" THEN u[p] = "none" /\ Served[p] = "cow" /\ ~Covered(ts, p) /\ HostTree[p] \in Contents
  ELSE u[p] \in Contents

\* What open answers and leaves: the tree of the guest as it was, or as the kernel would leave it.
OpenFine(a, p, flags) ==
  LET w == KOpen(View, p, flags).tree IN
  /\ CalmElse(a, {p})
  /\ Leaves(a, View) \/ (p \in Paths /\ Leaves(a, w) /\ \A q \in Paths : q # p => w[q] = View[q])
  /\ ~has_write_flags(flags) => a.upper = upper /\ a.ts = tombstones
  /\ p \in Paths => a.res = KOpen(View, p, flags).res
  /\ p \in Paths => (upper[p] \in Contents => a.upper[p] \in Contents)
  /\ p \in Paths /\ a.res = "ok" /\ View[p] # "dir" => HeldIn(a.upper, a.ts, p, OpenedLayer(p, flags))

\* The kernel's answer depends on what is there, and on the parent only if something is made.
LEMMA KOpenAlike ==
  ASSUME NEW t, NEW u, NEW p, NEW flags, Look(t, p) = Look(u, p), Look(t, p) # "none" \/ "creat" \notin flags
  PROVE  KOpen(t, p, flags).res = KOpen(u, p, flags).res
BY DEF KOpen, Put, Answer

\* An open that changes nothing.
LEMMA OpenSame ==
  ASSUME Sound, NEW p, NEW flags, NEW a, a.upper = upper, a.ts = tombstones,
         p \in Paths => a.res = KOpen(View, p, flags).res,
         p \in Paths /\ a.res = "ok" /\ View[p] # "dir" => HeldIn(upper, tombstones, p, OpenedLayer(p, flags))
  PROVE  OpenFine(a, p, flags)
BY NothingLeft DEF OpenFine, CalmElse

\* An open that leaves a file in the upper layer.
LEMMA OpenChanged ==
  ASSUME Sound, NEW p \in Paths, NEW flags, has_write_flags(flags), NEW a,
         Layers(a.upper, a.ts), CalmElse(a, {p}), a.res = KOpen(View, p, flags).res,
         \/ Seen(a.upper, a.ts) = View
         \/ Seen(a.upper, a.ts) = [View EXCEPT ![p] = "empty"] /\ KOpen(View, p, flags).tree = [View EXCEPT ![p] = "empty"],
         upper[p] \in Contents \/ a.res = "ok" => a.upper[p] \in Contents
  PROVE  OpenFine(a, p, flags)
<1>1. OpenedLayer(p, flags) = "upper"
  BY DEF OpenedLayer
<1>2. \A q \in Paths : q # p => [View EXCEPT ![p] = "empty"][q] = View[q]
  BY DEF View
<1> QED
  BY <1>1, <1>2 DEF OpenFine, Leaves, HeldIn

\* What is hidden and not made is not there.
LEMMA Refused ==
  ASSUME Sound, NEW p \in Paths, NEW flags, "creat" \notin flags, is_ancestor_tombstoned(p) \/ is_tombstoned(p)
  PROVE  KOpen(View, p, flags).res = "ENOENT"
<1>1. Look(View, p) = "none"
  BY Found DEF Sees, Covered, is_tombstoned, is_ancestor_tombstoned
<1> QED
  BY <1>1, KOpenMissing

\* Opening for reading.
LEMMA OpenReads ==
  ASSUME Sound, NEW p, Open(p), NEW flags, ~has_write_flags(flags)
  PROVE  OpenFine(openat(p, flags), p, flags)
<1> DEFINE a == openat(p, flags)
<1>1. flags \cap {"creat", "trunc"} = {} /\ "creat" \notin flags
  BY DEF has_write_flags
<1>2. \A t : KOpen(t, p, flags).tree = t
  BY <1>1 DEF KOpen, Answer, Put
<1>3. CASE is_ancestor_tombstoned(p) \/ is_tombstoned(p)
  <2>1. a = Fails("ENOENT")
    BY <1>1, <1>3 DEF openat
  <2>2. p \in Paths => KOpen(View, p, flags).res = "ENOENT"
    BY <1>1, <1>3, Refused
  <2> HIDE DEF a
  <2> QED
    BY <2>1, <2>2, FailsLeave, OpenSame DEF a
<1>4. CASE ~(is_ancestor_tombstoned(p) \/ is_tombstoned(p))
  <2> DEFINE t == IF Served[p] = "tmp" \/ cow_exists(p) THEN upper ELSE lower
  <2>1. Unhide(p) = tombstones /\ Served[p] \in {"cow", "tmp"}
    BY <1>4 DEF Unhide, is_tombstoned, Open
  <2>2. a.upper = upper /\ a.ts = tombstones /\ a.res = KOpen(t, p, flags).res
    <3>1. a = With(IF Served[p] = "tmp" THEN tmp_open(p, flags) ELSE cow_open(p, flags), tombstones)
      BY <1>4, <2>1 DEF openat
    <3>2. CASE Served[p] = "tmp"
      BY <1>2, <3>1, <3>2 DEF With, tmp_open
    <3>3. CASE Served[p] # "tmp" /\ cow_exists(p)
      <4>1. cow_open(p, flags) = KOpen(upper, p, flags)
        BY <3>3 DEF cow_open
      <4> HIDE DEF a
      <4> QED
        BY <1>2, <3>1, <3>3, <4>1 DEF With
    <3>4. CASE Served[p] # "tmp" /\ ~cow_exists(p)
      <4>1. cow_open(p, flags) = Answer(KOpen(lower, p, flags).res, upper)
        BY <3>4 DEF cow_open
      <4> HIDE DEF a
      <4> QED
        BY <3>1, <3>4, <4>1 DEF With, Answer
    <3> QED
      BY <3>2, <3>3, <3>4
  <2>3. ASSUME p \in Paths, a.res = "ok", View[p] # "dir"
        PROVE  HeldIn(upper, tombstones, p, OpenedLayer(p, flags))
    <3>1. Look(t, p) = View[p] /\ ~Covered(tombstones, p)
      <4>1. ~Covered(tombstones, p)
        BY <1>4, <2>3 DEF is_tombstoned, is_ancestor_tombstoned, Covered
      <4> QED
        BY <2>1, <2>3, <4>1, Found DEF Sees, t
    <3>2. View[p] \in Contents
      BY <1>1, <2>2, <2>3, <3>1 DEF KOpen, Answer
    <3> QED
      BY <2>1, <2>3, <3>1, <3>2, Found, NodeFacts DEF HeldIn, OpenedLayer, Sees
  <2>4. p \in Paths => a.res = KOpen(View, p, flags).res
    <3> SUFFICES ASSUME p \in Paths PROVE a.res = KOpen(View, p, flags).res
      OBVIOUS
    <3>1. ~Covered(tombstones, p)
      BY <1>4 DEF is_tombstoned, is_ancestor_tombstoned, Covered
    <3>2. Look(t, p) = Look(View, p)
      BY <2>1, <3>1, Found DEF Sees, t
    <3> HIDE DEF a, t
    <3> QED
      BY <1>1, <2>2, <3>2, KOpenAlike
  <2> HIDE DEF a
  <2> QED
    BY <2>2, <2>3, <2>4, OpenSame DEF a
<1> QED
  BY <1>3, <1>4

\* What there is to know when a path is opened for writing and not refused.
LEMMA WriteFacts ==
  ASSUME Sound, Disciplined, NEW p, NEW flags, CarefulOpen(p, flags), has_write_flags(flags),
         ~(is_ancestor_tombstoned(p) \/ (is_tombstoned(p) /\ "creat" \notin flags)),
         p \in Everywhere
  PROVE  /\ p \in Paths /\ CarefulCreate(p)
         /\ p \in tombstones => "creat" \in flags /\ (HostTree[p] # "none" => "trunc" \in flags /\ "excl" \notin flags)
         /\ ~(View[p] = "dir" /\ upper[p] = "none")
         /\ Look(View, Parent(p)) = "dir"
         /\ p \notin tombstones => ~Covered(tombstones, p)
<1>1. p \in Paths /\ CarefulCreate(p) /\ CarefulCopy(p)
  BY DEF CarefulOpen, Everywhere
<1>2. ~(Shown(p) = "dir" /\ ~cow_exists(p)) /\ (is_tombstoned(p) /\ Exists(lower, p) => "trunc" \in flags /\ "excl" \notin flags)
  BY <1>1 DEF CarefulOpen, CarefulCopy, Careful, Disciplined
<1>3. Look(View, Parent(p)) = "dir" /\ Above[p] \cap tombstones = {}
  BY <1>1, CreateFacts, Looks, ParentAbove, ShownSeen DEF Sound
<1> QED
  BY <1>1, <1>2, <1>3, Found DEF is_tombstoned, Covered

\* Opening for writing what is in the upper layer.
LEMMA OpenThere ==
  ASSUME Sound, NEW p \in Paths, Open(p), NEW flags, has_write_flags(flags), upper[p] # "none",
         NEW a, a.upper = KOpen(upper, p, flags).tree, a.res = KOpen(upper, p, flags).res, a.ts = tombstones
  PROVE  OpenFine(a, p, flags)
<1>1. ~Covered(tombstones, p) /\ View[p] = upper[p] /\ Layers(upper, tombstones)
  BY Found DEF Sound, Layers, Sees
<1>2. Look(upper, p) = upper[p] /\ Look(View, p) = View[p]
  BY Found
<1>5. a.res = KOpen(View, p, flags).res
  BY <1>1, <1>2, KOpenAlike
<1>3. CASE "excl" \notin flags /\ upper[p] \in Contents /\ "trunc" \in flags
  <2>1. a.upper = [upper EXCEPT ![p] = "empty"] /\ KOpen(View, p, flags).tree = [View EXCEPT ![p] = "empty"]
    BY <1>1, <1>2, <1>3, NodeFacts DEF KOpen, Put, Answer
  <2>2. Layers(a.upper, tombstones) /\ Seen(a.upper, tombstones) = [View EXCEPT ![p] = "empty"]
    <3>1. "empty" \in Nodes \ {"none"} /\ upper[p] # "dir"
      BY <1>3, NodeFacts
    <3>2. (\A b \in Between[p] : upper[b] = "dir") /\ (Served[p] = "cow" => HostTree[p] # "dir")
      BY <1>1, <3>1 DEF Layers
    <3>3. LET v == [upper EXCEPT ![p] = "empty"] IN
          Layers(v, tombstones) /\ Seen(v, tombstones) = [Seen(upper, tombstones) EXCEPT ![p] = "empty"]
      BY <1>1, <3>1, <3>2, PutSeen
    <3> QED
      BY <2>1, <3>3, Found
  <2>3. a.upper[p] = "empty" /\ \A q \in Paths : q # p => a.upper[q] = upper[q]
    BY <1>1, <2>1 DEF Layers, Trees
  <2>4. CalmElse(a, {p})
    <3> SUFFICES ASSUME NEW q \in Paths, q # p PROVE Calm(upper, tombstones, a.upper, tombstones, q)
      BY DEF CalmElse
    <3>1. Sees(a.upper, tombstones, q) = Sees(upper, tombstones, q)
      BY <2>3 DEF Sees
    <3> QED
      BY <2>3, <3>1 DEF Calm
  <2> QED
    BY <1>5, <2>1, <2>2, <2>3, <2>4, OpenChanged DEF Contents
<1>4. CASE ~("excl" \notin flags /\ upper[p] \in Contents /\ "trunc" \in flags)
  <2>1. a.upper = upper /\ (a.res = "ok" => upper[p] \in Contents \/ upper[p] = "dir")
    BY <1>2, <1>4 DEF KOpen, Answer
  <2>2. OpenedLayer(p, flags) = "upper"
    BY DEF OpenedLayer
  <2> QED
    BY <1>1, <1>5, <2>1, <2>2, OpenSame DEF HeldIn
<1> QED
  BY <1>3, <1>4

\* Opening for writing what is new in /tmp.
LEMMA OpenTmp ==
  ASSUME Sound, Disciplined, NEW p \in Paths, Open(p), Served[p] = "tmp", NEW flags, has_write_flags(flags),
         CarefulCreate(p), upper[p] = "none", p \in tombstones => "creat" \in flags,
         NEW a, a.upper = KOpen(upper, p, flags).tree, a.res = KOpen(upper, p, flags).res, a.ts = tombstones \ {p}
  PROVE  OpenFine(a, p, flags)
<1>1. View[p] = "none" /\ Look(upper, p) = "none" /\ Look(View, p) = "none" /\ Layers(upper, tombstones)
  BY Found DEF Sees, Sound
<1>2. Look(View, Parent(p)) = "dir" /\ At(Seen(upper, tombstones), Parent(p)) = "dir" /\ (p \in tombstones => HostTree[p] # "dir")
  BY CreateFacts, Looks, ParentAbove, ShownSeen DEF Sound
<1>3. \A b \in Between[p] : b \in Paths /\ upper[b] = "dir"
  <2> SUFFICES ASSUME NEW b \in Between[p] PROVE b \in Paths /\ upper[b] = "dir"
    OBVIOUS
  <2>1. b \in Paths /\ Served[b] = "tmp" /\ Sees(upper, tombstones, b) = "dir"
    BY <1>1, <1>2, UnderDir, OpenBetween
  <2> QED
    BY <2>1, NodeFacts DEF Sees
<1>4. CASE "creat" \in flags
  <2> DEFINE ts == tombstones \ {p}
             v == [upper EXCEPT ![p] = "empty"]
  <2>1. Look(upper, Parent(p)) = "dir"
    <3>1. Parent(p) \in Roots \/ Parent(p) \in Between[p]
      BY ParentAbove DEF Between
    <3>2. At(upper, Parent(p)) = "dir"
      BY <1>3, <3>1 DEF At
    <3> QED
      BY <1>1, <3>2, Looks, ParentAbove
  <2>2. a.upper = v /\ KOpen(View, p, flags).tree = [View EXCEPT ![p] = "empty"]
    BY <1>1, <1>2, <1>4, <2>1, KOpenNew
  <2>10. a.res = KOpen(View, p, flags).res
    BY <1>1, <1>2, <1>4, <2>1, KOpenMade
  <2>3. Layers(upper, ts) /\ \A q \in Paths : q # p => Sees(upper, ts, q) = Sees(upper, tombstones, q)
    BY <1>1, <1>2, UnhideSeen
  <2>4. ~Covered(ts, p) /\ "empty" \in Nodes \ {"none"} /\ upper \in Trees
    BY <1>1, <1>2, UnderDir, NodeFacts DEF Covered, Layers
  <2> HIDE DEF ts
  <2>5. Layers(v, ts) /\ Seen(v, ts) = [Seen(upper, ts) EXCEPT ![p] = "empty"]
    BY <1>3, <2>3, <2>4, PutSeen
  <2>6. v[p] = "empty" /\ \A q \in Paths : q # p => v[q] = upper[q]
    BY <2>4 DEF Trees
  <2> HIDE DEF v
  <2>7. Seen(v, ts) = [View EXCEPT ![p] = "empty"]
    <3>1. View = Seen(upper, tombstones)
      BY Found
    <3> QED
      BY <2>3, <2>5, <3>1 DEF Seen
  <2>8. CalmElse(a, {p})
    <3> SUFFICES ASSUME NEW q \in Paths, q # p PROVE Calm(upper, tombstones, v, ts, q)
      BY <2>2 DEF CalmElse, ts
    <3>1. Sees(v, ts, q) = Sees(upper, ts, q)
      BY <2>6 DEF Sees
    <3> QED
      BY <2>3, <2>6, <3>1 DEF Calm
  <2>9. a.ts = ts
    BY DEF ts
  <2> QED
    BY <2>2, <2>5, <2>6, <2>7, <2>8, <2>9, <2>10, OpenChanged DEF Contents
<1>5. CASE "creat" \notin flags
  <2>1. a.upper = upper /\ a.res = "ENOENT" /\ a.ts = tombstones /\ KOpen(View, p, flags).res = "ENOENT"
    <3>1. tombstones \ {p} = tombstones
      BY <1>5
    <3> QED
      BY <1>1, <1>5, <3>1, KOpenMissing
  <2> QED
    BY <2>1, OpenSame
<1> QED
  BY <1>4, <1>5

\* Opening for writing what the upper layer does not have: it is made or copied.
LEMMA OpenCow ==
  ASSUME Sound, Disciplined, NEW p \in Paths, Open(p), Served[p] = "cow", NEW flags, has_write_flags(flags),
         CarefulCreate(p), upper[p] = "none", View[p] # "dir",
         p \in tombstones => "creat" \in flags /\ (HostTree[p] # "none" => "trunc" \in flags /\ "excl" \notin flags),
         p \notin tombstones => ~Covered(tombstones, p),
         NEW a, a.upper = cow_open(p, flags).tree, a.res = cow_open(p, flags).res, a.ts = tombstones \ {p}
  PROVE  OpenFine(a, p, flags)
<1> DEFINE made == create_cow_parent_dirs(upper, p)
           m == made.tree
           ts == tombstones \ {p}
           New(n) == [m EXCEPT ![p] = n]
<1>1. Layers(upper, tombstones) /\ View = Seen(upper, tombstones) /\ lower = HostTree /\ Look(View, p) = View[p]
  BY Found DEF Sound
<1>2. Look(View, Parent(p)) = "dir" /\ At(Seen(upper, tombstones), Parent(p)) = "dir" /\ (p \in tombstones => HostTree[p] # "dir")
  BY CreateFacts, Looks, ParentAbove, ShownSeen DEF Sound
<1>3. HostTree[p] \in {"none", "host"} /\ View[p] = IF p \in tombstones THEN "none" ELSE HostTree[p]
  BY <1>1, <1>2, TreeAssumption DEF Seen, Sees, Covered
<1>4. /\ made.res = "ok" /\ Layers(m, tombstones) /\ Seen(m, tombstones) = View
      /\ \A q \in Paths : Calm(upper, tombstones, m, tombstones, q)
  <2>1. /\ made.res = "ok" /\ Layers(m, tombstones)
        /\ \A q \in Paths : Sees(m, tombstones, q) = Sees(upper, tombstones, q)
        /\ \A q \in Paths : q \notin Between[p] => m[q] = upper[q]
        /\ \A b \in Between[p] : Sees(upper, tombstones, b) = "dir"
    BY <1>1, <1>2, ParentsMade
  <2> HIDE DEF m, made
  <2> QED
    BY <1>1, <2>1, NodeFacts DEF Seen, Calm
<1>5. ASSUME NEW n \in {"host", "empty"}
      PROVE  /\ Layers(New(n), ts) /\ New(n)[p] = n /\ m[p] = "none" /\ At(m, Parent(p)) = "dir"
             /\ Seen(New(n), ts) = [View EXCEPT ![p] = n]
             /\ \A q \in Paths : q # p => Calm(upper, tombstones, New(n), ts, q)
  <2>1. n \in Nodes \ {"none"} /\ upper[p] # "dir" /\ (Served[p] = "cow" => HostTree[p] # "dir")
    BY <1>3, NodeFacts
  <2>2. LET mm == create_cow_parent_dirs(upper, p)
            vv == [mm.tree EXCEPT ![p] = n] IN
        /\ mm.res = "ok" /\ mm.tree[p] = upper[p] /\ At(mm.tree, Parent(p)) = "dir"
        /\ Layers(vv, tombstones \ {p}) /\ vv[p] = n
        /\ Seen(vv, tombstones \ {p}) = [Seen(upper, tombstones) EXCEPT ![p] = n]
        /\ \A q \in Paths : q # p => Calm(upper, tombstones, vv, tombstones \ {p}, q)
    <3> HIDE DEF made, m, ts, New
    <3> QED
      BY <1>1, <1>2, <2>1, NewSeen
  <2> QED
    BY <1>1, <2>2
<1>6. Look(m, p) = "none" /\ Look(m, Parent(p)) = "dir"
  <2>1. m[p] = "none" /\ At(m, Parent(p)) = "dir"
    BY <1>5
  <2> HIDE DEF m, made
  <2> QED
    BY <1>4, <2>1, Looks, AtSeen, ParentAbove DEF Everywhere
<1>7. ASSUME "creat" \notin flags PROVE ts = tombstones
  BY <1>7
<1>8. ~cow_exists(p) /\ (Exists(lower, p) <=> HostTree[p] # "none") /\ Look(lower, p) = HostTree[p]
  BY Found
<1> HIDE DEF made
<1>9. CASE HostTree[p] = "none"
  <2>1. CASE "creat" \notin flags
    <3>1. cow_open(p, flags) = Answer("ENOENT", m)
      BY <1>4, <1>8, <1>9, <2>1 DEF cow_open, made, m
    <3>2. a.upper = m /\ a.res = "ENOENT" /\ a.ts = tombstones
      BY <1>7, <2>1, <3>1 DEF Answer
    <3> HIDE DEF m
    <3>3. CalmElse(a, {p}) /\ (upper[p] \in Contents => FALSE)
      BY <1>4, <3>2, NodeFacts DEF CalmElse
    <3>4. KOpen(View, p, flags).res = "ENOENT"
      <4>1. Look(View, p) = "none"
        BY <1>1, <1>3, <1>9
      <4> QED
        BY <2>1, <4>1, KOpenMissing
    <3> QED
      BY <1>4, <3>2, <3>3, <3>4, OpenChanged
  <2>2. CASE "creat" \in flags
    <3>1. cow_open(p, flags) = KOpen(m, p, flags)
      BY <1>4, <1>8, <1>9, <2>2 DEF cow_open, made, m
    <3>2. a.upper = New("empty") /\ a.ts = ts /\ a.res = "ok"
      <4>1. KOpen(m, p, flags).tree = New("empty")
        <5>1. Look(m, p) = "none"
          BY <1>6
        <5>2. Look(m, Parent(p)) = "dir"
          BY <1>6
        <5>3. "creat" \in flags
          BY <2>2
        <5> HIDE DEF m, ts
        <5>4. KOpen(m, p, flags).tree = [m EXCEPT ![p] = "empty"]
          BY ONLY <5>1, <5>2, <5>3, KOpenNew
        <5> QED
          BY <5>4
      <4>2. KOpen(m, p, flags).res = "ok"
        <5> HIDE DEF m
        <5> QED
          BY <1>6, <2>2, KOpenMade
      <4> HIDE DEF New, m, ts
      <4> QED
        BY <3>1, <4>1, <4>2 DEF ts
    <3>3. KOpen(View, p, flags).tree = [View EXCEPT ![p] = "empty"] /\ KOpen(View, p, flags).res = "ok"
      <4>1. Look(View, p) = "none"
        BY <1>1, <1>3, <1>9
      <4> QED
        BY <1>2, <2>2, <4>1, KOpenNew, KOpenMade
    <3>4. /\ Layers(New("empty"), ts) /\ New("empty")[p] = "empty"
          /\ Seen(New("empty"), ts) = [View EXCEPT ![p] = "empty"]
          /\ \A q \in Paths : q # p => Calm(upper, tombstones, New("empty"), ts, q)
      BY <1>5
    <3> HIDE DEF New, ts
    <3>5. CalmElse(a, {p})
      BY <3>2, <3>4 DEF CalmElse
    <3> QED
      BY <3>2, <3>3, <3>4, <3>5, OpenChanged DEF Contents
  <2> QED
    BY <2>1, <2>2
<1>10. CASE HostTree[p] = "host"
  <2> DEFINE v == New("host")
  <2>1. copy_up(p).res = "ok" /\ copy_up(p).tree = v
    <3>1. copy_file(m, p) = Put(m, p, "host")
      BY <1>8, <1>10 DEF copy_file
    <3>2. copy_up(p) = Put(m, p, "host")
      BY <1>4, <3>1 DEF copy_up, made, m
    <3> QED
      BY <3>2 DEF Put, Answer
  <2>2. cow_open(p, flags) = KOpen(v, p, flags)
    <3>1. copy_up(p).res = "ok" /\ copy_up(p).tree = v /\ Exists(lower, p)
      BY <1>8, <1>10, <2>1
    <3> HIDE DEF v
    <3> QED
      BY <1>8, <3>1 DEF cow_open
  <2>3. /\ Layers(v, ts) /\ v[p] = "host" /\ Seen(v, ts) = [View EXCEPT ![p] = "host"]
        /\ \A q \in Paths : q # p => Calm(upper, tombstones, v, ts, q)
    BY <1>5
  <2>4. Look(v, p) = "host"
    <3> HIDE DEF v, ts
    <3> QED
      BY <2>3, Looks, AtSeen DEF Everywhere
  <2>7. a.res = KOpen(View, p, flags).res
    <3>1. CASE p \in tombstones
      <4>1. KOpen(View, p, flags).res = "ok"
        <5>1. Look(View, p) = "none" /\ "creat" \in flags
          BY <1>1, <1>3, <3>1
        <5> QED
          BY <1>2, <5>1, KOpenMade
      <4>2. KOpen(v, p, flags).res = "ok"
        <5>1. Look(v, p) \in Contents
          BY <2>4 DEF Contents
        <5>2. "excl" \notin flags
          BY <1>10, <3>1
        <5> HIDE DEF v
        <5> QED
          BY <5>1, <5>2, KOpenFound
      <4> HIDE DEF v
      <4> QED
        BY <2>2, <4>1, <4>2
    <3>2. CASE p \notin tombstones
      <4>1. Look(View, p) = "host"
        BY <1>1, <1>3, <1>10, <3>2
      <4> HIDE DEF v
      <4>2. KOpen(v, p, flags).res = KOpen(View, p, flags).res
        BY <2>4, <4>1, KOpenAlike
      <4> QED
        BY <2>2, <4>2
    <3> QED
      BY <3>1, <3>2
  <2>5. CASE "excl" \notin flags /\ "trunc" \in flags
    <3>1. KOpen(v, p, flags).tree = [v EXCEPT ![p] = "empty"]
      <4> HIDE DEF v
      <4>1. Look(v, p) \in Contents
        BY <2>4 DEF Contents
      <4>2. "excl" \notin flags /\ "trunc" \in flags
        BY <2>5
      <4> QED
        BY <4>1, <4>2, KOpenEmptied
    <3>2. [v EXCEPT ![p] = "empty"] = New("empty")
      <4>1. m \in Trees
        BY <1>4 DEF Layers
      <4> HIDE DEF m
      <4> QED
        BY <4>1 DEF Trees
    <3>3. KOpen(View, p, flags).tree = [View EXCEPT ![p] = "empty"]
      <4>1. CASE p \in tombstones
        BY <1>1, <1>2, <1>3, <4>1, KOpenNew
      <4>2. CASE p \notin tombstones
        <5>1. Look(View, p) = "host"
          BY <1>1, <1>3, <1>10, <4>2
        <5> QED
          <6>1. Look(View, p) \in Contents
            BY <5>1 DEF Contents
          <6>2. "excl" \notin flags /\ "trunc" \in flags
            BY <2>5
          <6> QED
            BY <6>1, <6>2, KOpenEmptied
      <4> QED
        BY <4>1, <4>2
    <3>4. /\ Layers(New("empty"), ts) /\ New("empty")[p] = "empty"
          /\ Seen(New("empty"), ts) = [View EXCEPT ![p] = "empty"]
          /\ \A q \in Paths : q # p => Calm(upper, tombstones, New("empty"), ts, q)
      BY <1>5
    <3>5. a.upper = New("empty") /\ a.ts = ts
      BY <2>2, <3>1, <3>2
    <3> HIDE DEF New, ts, v
    <3>6. CalmElse(a, {p})
      BY <3>4, <3>5 DEF CalmElse
    <3> QED
      BY <2>7, <3>3, <3>4, <3>5, <3>6, OpenChanged DEF Contents
  <2>6. CASE ~("excl" \notin flags /\ "trunc" \in flags)
    <3>1. p \notin tombstones /\ ts = tombstones
      BY <1>10, <2>6
    <3>2. KOpen(v, p, flags).tree = v
      <4> HIDE DEF v
      <4> QED
        BY <2>4, <2>6, NodeFacts DEF KOpen, Put, Answer
    <3>3. [View EXCEPT ![p] = "host"] = View
      BY <1>3, <1>10, <3>1 DEF View
    <3>4. a.upper = v /\ a.ts = ts
      BY <2>2, <3>2
    <3> HIDE DEF v, ts
    <3>5. CalmElse(a, {p})
      BY <2>3, <3>4 DEF CalmElse
    <3> QED
      BY <2>3, <2>7, <3>3, <3>4, <3>5, OpenChanged DEF Contents
  <2> QED
    BY <2>5, <2>6
<1> QED
  BY <1>3, <1>9, <1>10

\* Every open.
LEMMA OpenLeaves ==
  ASSUME Sound, Disciplined, NEW p, Open(p), NEW flags, CarefulOpen(p, flags)
  PROVE  OpenFine(openat(p, flags), p, flags)
<1> DEFINE a == openat(p, flags)
<1>1. CASE ~has_write_flags(flags)
  BY <1>1, OpenReads
<1>2. CASE is_ancestor_tombstoned(p) \/ (is_tombstoned(p) /\ "creat" \notin flags)
  <2>1. a = Fails("ENOENT")
    BY <1>2 DEF openat
  <2>2. p \in Paths => KOpen(View, p, flags).res = "ENOENT"
    <3> SUFFICES ASSUME p \in Paths PROVE KOpen(View, p, flags).res = "ENOENT"
      OBVIOUS
    <3>1. "creat" \notin flags
      BY <1>2, CreateFacts DEF CarefulOpen, is_ancestor_tombstoned, has_write_flags
    <3> QED
      BY <1>2, <3>1, Refused
  <2> HIDE DEF a
  <2> QED
    BY <2>1, <2>2, FailsLeave, OpenSame DEF a
<1>3. CASE has_write_flags(flags) /\ ~(is_ancestor_tombstoned(p) \/ (is_tombstoned(p) /\ "creat" \notin flags))
  <2>1. /\ p \in Paths /\ CarefulCreate(p)
        /\ p \in tombstones => "creat" \in flags /\ (HostTree[p] # "none" => "trunc" \in flags /\ "excl" \notin flags)
        /\ ~(View[p] = "dir" /\ upper[p] = "none")
        /\ p \notin tombstones => ~Covered(tombstones, p)
    BY <1>3, WriteFacts DEF Open
  <2> DEFINE b == IF Served[p] = "tmp" THEN tmp_open(p, flags) ELSE cow_open(p, flags)
  <2>2. a.upper = b.tree /\ a.res = b.res /\ a.ts = tombstones \ {p}
    <3>1. a = With(b, tombstones \ {p})
      BY <1>3 DEF openat, Unhide
    <3> HIDE DEF a, b
    <3> QED
      BY <3>1 DEF With
  <2>3. CASE upper[p] # "none"
    <3>1. b = KOpen(upper, p, flags)
      BY <2>1, <2>3, Found DEF tmp_open, cow_open
    <3>2. tombstones \ {p} = tombstones
      <4>1. ~Covered(tombstones, p)
        BY <2>1, <2>3 DEF Sound, Layers
      <4> QED
        BY <4>1 DEF Covered
    <3> HIDE DEF a, b
    <3> QED
      BY <1>3, <2>1, <2>2, <2>3, <3>1, <3>2, OpenThere DEF a
  <2>4. CASE upper[p] = "none" /\ Served[p] = "tmp"
    <3>1. b = KOpen(upper, p, flags)
      BY <2>4 DEF tmp_open
    <3> HIDE DEF a, b
    <3> QED
      BY <1>3, <2>1, <2>2, <2>4, <3>1, OpenTmp DEF a
  <2>5. CASE upper[p] = "none" /\ Served[p] = "cow"
    <3>1. b = cow_open(p, flags)
      BY <2>5
    <3> HIDE DEF a, b
    <3> QED
      BY <1>3, <2>1, <2>2, <2>5, <3>1, OpenCow DEF a
  <2> QED
    BY <2>3, <2>4, <2>5 DEF Open
<1> QED
  BY <1>1, <1>2, <1>3

-----------------------------------------------------------------------------
(* The second inductive invariant: what is open is what its name shows.    *)

\* The handle x is on the file of its name, as long as it has one.
HandleAt(u, ts, x) ==
  x.name # Gone => x.name \in Paths /\ x.at = x.name /\ HeldIn(u, ts, x.name, x.layer)

\* What a step must leave behind.
Tracked(u, ts, held) == Layers(u, ts) /\ \A h \in Handles : HandleAt(u, ts, held[h])

ViewInv == HostInv /\ Tracked(upper, tombstones, handle)

LEMMA ViewSound == ASSUME ViewInv PROVE Sound
BY DEF ViewInv, Tracked, Sound, HostInv, HostUntouched, LowerKept

\* A handle stays on its file if the call is not about it.
LEMMA HandleStays ==
  ASSUME Sound, NEW x, HandleAt(upper, tombstones, x), NEW a, NEW S, CalmElse(a, S), x.name \notin S
  PROVE  HandleAt(a.upper, a.ts, x)
<1> SUFFICES ASSUME x.name # Gone PROVE HeldIn(a.upper, a.ts, x.name, x.layer)
  BY DEF HandleAt
<1>1. x.name \in Paths /\ HeldIn(upper, tombstones, x.name, x.layer) /\ Calm(upper, tombstones, a.upper, a.ts, x.name)
  BY DEF HandleAt, CalmElse
<1>2. upper[x.name] \in Contents => ~Covered(tombstones, x.name)
  BY <1>1, NodeFacts DEF Sound, Layers
<1>3. Sees(upper, tombstones, x.name) \in Contents
  BY <1>1, <1>2, NodeFacts DEF HeldIn, Sees
<1> QED
  BY <1>1, <1>3, NodeFacts DEF HeldIn, Calm, Sees

\* Nobody holds the lower file open: then a handle is on the copy.
LEMMA HandleUpper ==
  ASSUME NEW u, NEW ts, NEW x, HandleAt(u, ts, x), x.name # Gone, x.layer # "lower"
  PROVE  u[x.name] \in Contents /\ \A v, tt : v[x.name] \in Contents => HandleAt(v, tt, x)
BY DEF HandleAt, HeldIn

\* The view after a step.
LEMMA ViewLater == Sound' => (View = Seen(upper, tombstones))'
<1>1. Sound => View = Seen(upper, tombstones)
  BY ShownSeen DEF Sound
<1> QED
  BY <1>1, PTL

\* A call that leaves layers leaves the view of them.
LEMMA ApplyView ==
  ASSUME ViewInv, HostInv', NEW a, Apply(a), NEW w, Leaves(a, w)
  PROVE  Sound' /\ View' = w
<1>1. Sound'
  BY DEF Leaves, Apply, Sound, HostInv, HostUntouched, LowerKept
<1> QED
  BY <1>1, ViewLater DEF Leaves, Apply

\* The two kinds of steps, seen on the tree of the guest.
PlainStep == [Plain!Next]_(Plain!vars)

\* A step that the plain tree does not see.
LEMMA SameTree == ASSUME View' = View, UNCHANGED cwd PROVE PlainStep
BY DEF PlainStep, Plain!vars

\* The operations of the plain tree are the calls of the kernel.
LEMMA OpsSame ==
  ASSUME NEW t, NEW p
  PROVE  /\ \A f : Plain!Open(t, p, f) = KOpen(t, p, f).tree
         /\ Plain!Mkdir(t, p) = KMake(t, p, "dir").tree
         /\ Plain!Symlink(t, p) = KMake(t, p, "link").tree
         /\ Plain!Unlink(t, p) = KUnlink(t, p).tree
         /\ Plain!Rmdir(t, p) = KRmdir(t, p).tree
         /\ \A q : Plain!Rename(t, p, q) = KRename(t, p, q, FALSE).tree
<1>1. /\ \A x : Plain!Look(t, x) = Look(t, x)
      /\ \A x : Plain!Parent(x) = Parent(x)
      /\ Plain!Contents = Contents
      /\ Plain!Children(t, p) = Children(t, p)
      /\ \A x : Plain!Exists(t, x) = Exists(t, x)
      /\ \A r : Plain!Answer(r, t) = Answer(r, t)
  BY DEF Plain!Look, Look, Plain!At, At, Plain!Roots, Roots, Plain!Between, Between, Plain!Above, Above, Plain!Directly,
         Directly, Plain!Parent, Parent, Plain!Contents, Contents, Plain!Children, Children, Plain!Exists, Exists,
         Plain!Answer, Answer
<1>2. \A f : Plain!KOpen(t, p, f) = KOpen(t, p, f)
  BY <1>1 DEF Plain!KOpen, KOpen, Plain!Put, Put, Plain!Answer, Answer
<1>3. \A n : Plain!KMake(t, p, n) = KMake(t, p, n)
  BY <1>1 DEF Plain!KMake, KMake, Plain!Put, Put, Plain!Answer, Answer
<1>4. Plain!KUnlink(t, p) = KUnlink(t, p) /\ Plain!KRmdir(t, p) = KRmdir(t, p)
  BY <1>1 DEF Plain!KUnlink, KUnlink, Plain!KRmdir, KRmdir, Plain!Put, Put, Plain!Answer, Answer
<1>5. \A q : Plain!KRename(t, p, q, FALSE) = KRename(t, p, q, FALSE)
  BY <1>1 DEF Plain!KRename, KRename, Plain!Answer, Answer
<1> QED
  BY <1>2, <1>3, <1>4, <1>5 DEF Plain!Open, Plain!Mkdir, Plain!Symlink, Plain!Unlink, Plain!Rmdir, Plain!Rename

\* What a step of the guest gives.
Good == ViewInv' /\ PlainStep

\* A step that changes the tree does so at a path of its call.
LEMMA GoodStep ==
  ASSUME ViewInv, HostInv', NEW a, Apply(a), UNCHANGED cwd,
         \A g \in Handles : HandleAt(a.upper, a.ts, handle'[g]),
         NEW w, Leaves(a, w),
         w = View \/ Plain!Changes(View, w)
  PROVE  Good
<1>1. Sound' /\ View' = w
  BY ApplyView
<1>2. ViewInv'
  BY DEF ViewInv, Tracked, Apply, Leaves
<1>3. CASE w = View
  BY <1>1, <1>2, <1>3, SameTree DEF Good
<1>4. CASE Plain!Changes(View, w)
  <2>1. Plain!Changes(View, View')
    BY <1>1, <1>4
  <2>2. Plain!Next
    BY <2>1 DEF Plain!Next
  <2> QED
    BY <1>2, <2>2 DEF Good, PlainStep
<1> QED
  BY <1>3, <1>4

\* What was open before the step.
LEMMA HandleOld ==
  ASSUME ViewInv, NEW h \in Handles
  PROVE  HandleAt(upper, tombstones, handle[h])
BY DEF ViewInv, Tracked

\* open.
LEMMA OpenGood ==
  ASSUME ViewInv, HostInv', Disciplined, NEW p, Open(p), NEW flags \in OpenFlags, NEW h \in Handles,
         sys_openat(p, flags, h)
  PROVE  Good
<1> DEFINE a == openat(p, flags)
           x == [layer |-> OpenedLayer(p, flags), at |-> p, name |-> p, write |-> "write" \in flags]
           w == KOpen(View, p, flags).tree
<1>1. Sound /\ HostInv /\ CarefulOpen(p, flags)
  BY ViewSound DEF ViewInv, sys_openat
<1>2. OpenFine(a, p, flags)
  BY <1>1, OpenLeaves
<1> HIDE DEF a
<1>3. Apply(a) /\ UNCHANGED cwd /\ handle' = (IF a.res # "ok" THEN handle ELSE [handle EXCEPT ![h] = x])
  BY DEF sys_openat, a
<1>4. ASSUME NEW g \in Handles PROVE HandleAt(a.upper, a.ts, handle[g])
  <2>1. HandleAt(upper, tombstones, handle[g]) /\ CalmElse(a, {p})
    BY <1>2, HandleOld DEF OpenFine
  <2>2. CASE handle[g].name = Gone \/ handle[g].name # p
    BY <1>1, <2>1, <2>2, HandleStays DEF HandleAt
  <2>3. CASE handle[g].name # Gone /\ handle[g].name = p
    <3>1. p \in Paths
      BY <2>1, <2>3 DEF HandleAt
    <3>2. CASE ~has_write_flags(flags)
      <4>1. a.upper = upper /\ a.ts = tombstones
        BY <1>2, <3>2 DEF OpenFine
      <4> QED
        BY <2>1, <4>1
    <3>3. CASE has_write_flags(flags)
      <4>1. handle[g].layer # "lower"
        BY <1>1, <2>3, <3>3 DEF CarefulOpen, CarefulCopy, Careful, Disciplined
      <4>2. upper[p] \in Contents
        BY <2>1, <2>3, <4>1, HandleUpper
      <4>3. a.upper[p] \in Contents
        BY <1>2, <3>1, <4>2 DEF OpenFine
      <4> QED
        BY <2>1, <2>3, <4>1, <4>3, HandleUpper
    <3> QED
      BY <3>2, <3>3
  <2> QED
    BY <2>2, <2>3
<1>5. ASSUME a.res = "ok" PROVE HandleAt(a.upper, a.ts, x)
  <2>1. Shown(p) # "dir" /\ p \in Everywhere
    BY <1>5 DEF sys_openat, a, Open
  <2>2. p \in Paths
    BY <2>1 DEF Shown, Everywhere
  <2>3. View[p] # "dir"
    BY <1>1, <2>1, <2>2, Found
  <2>4. HeldIn(a.upper, a.ts, p, OpenedLayer(p, flags))
    BY <1>2, <1>5, <2>2, <2>3 DEF OpenFine
  <2> QED
    BY <2>2, <2>4 DEF HandleAt
<1> HIDE DEF x
<1>6. \A g \in Handles : HandleAt(a.upper, a.ts, handle'[g])
  <2> SUFFICES ASSUME NEW g \in Handles PROVE HandleAt(a.upper, a.ts, handle'[g])
    OBVIOUS
  <2>1. handle'[g] = handle[g] \/ (a.res = "ok" /\ handle'[g] = x)
    BY <1>1, <1>3, Before
  <2> QED
    BY <1>4, <1>5, <2>1
<1>7. CASE Leaves(a, View)
  BY <1>3, <1>6, <1>7, GoodStep
<1>8. CASE p \in Paths /\ Leaves(a, w) /\ \A q \in Paths : q # p => w[q] = View[q]
  <2> HIDE DEF w
  <2>1. CASE w = View
    BY <1>3, <1>6, <1>8, <2>1, GoodStep
  <2>2. CASE w # View
    <3>1. w \in Trees /\ View \in Trees
      BY <1>1, <1>8, SeenTree, Found DEF Leaves, Sound
    <3>2. View[p] # w[p]
      BY <1>8, <2>2, <3>1 DEF Trees
    <3>3. w = Plain!Open(View, p, flags)
      BY OpsSame DEF w
    <3>4. Plain!Changes(View, w)
      BY <1>8, <3>2, <3>3 DEF Plain!Changes
    <3> QED
      BY <1>3, <1>6, <1>8, <3>4, GoodStep
  <2> QED
    BY <2>1, <2>2
<1> QED
  BY <1>2, <1>7, <1>8 DEF OpenFine

\* A tree that differs at most at p.
LEMMA OneChange ==
  ASSUME Sound, NEW a, NEW p \in Paths, NEW w, Leaves(a, w), \A q \in Paths : q # p => w[q] = View[q]
  PROVE  w = View \/ View[p] # w[p]
<1>1. w \in Trees /\ View \in Trees
  BY SeenTree, ShownSeen DEF Leaves, Sound
<1> QED
  BY <1>1 DEF Trees

\* mkdir and symlink.
LEMMA MakeGood ==
  ASSUME ViewInv, HostInv', Disciplined, NEW p \in Paths, Open(p), sys_mkdirat(p) \/ sys_symlinkat(p)
  PROVE  Good
<1>1. Sound
  BY ViewSound
<1>2. PICK n \in {"dir", "link"} : CarefulCreate(p) /\ Apply(make(p, n)) /\ UNCHANGED <<cwd, handle>>
  BY DEF sys_mkdirat, sys_symlinkat
<1> DEFINE a == make(p, n)
           w == KMake(View, p, n).tree
<1>3. /\ CalmElse(a, {})
      /\ \/ Leaves(a, View)
         \/ Leaves(a, w) /\ \A q \in Paths : q # p => w[q] = View[q]
  BY <1>1, <1>2, MakeLeaves
<1>4. Apply(a) /\ UNCHANGED <<cwd, handle>>
  BY <1>2
<1> HIDE DEF a, w
<1>5. \A g \in Handles : HandleAt(a.upper, a.ts, handle'[g])
  BY <1>1, <1>3, <1>4, HandleOld, HandleStays
<1>6. CASE Leaves(a, View)
  BY <1>4, <1>5, <1>6, GoodStep
<1>7. CASE Leaves(a, w) /\ \A q \in Paths : q # p => w[q] = View[q]
  <2>1. w \in {Plain!Mkdir(View, p), Plain!Symlink(View, p)}
    BY OpsSame DEF w
  <2>2. w = View \/ Plain!Changes(View, w)
    BY <1>1, <1>7, <2>1, OneChange DEF Plain!Changes
  <2> QED
    BY <1>4, <1>5, <1>7, <2>2, GoodStep
<1> QED
  BY <1>3, <1>6, <1>7

\* fchmod and utimensat may copy, which nobody sees.
LEMMA TouchGood ==
  ASSUME ViewInv, HostInv', Disciplined, NEW p \in Paths, Open(p), sys_fchmodat(p) \/ sys_utimensat(p)
  PROVE  Good
<1>1. Sound
  BY ViewSound
<1>2. PICK checks \in BOOLEAN : CarefulTouch(p) /\ Apply(touch(p, checks)) /\ UNCHANGED <<cwd, handle>>
  BY DEF sys_fchmodat, sys_utimensat
<1> DEFINE a == touch(p, checks)
<1>3. Leaves(a, View) /\ CalmElse(a, {p}) /\ (Calm(upper, tombstones, a.upper, a.ts, p) \/ upper[p] = "none")
  BY <1>1, <1>2, TouchLeaves
<1>4. Apply(a) /\ UNCHANGED <<cwd, handle>>
  BY <1>2
<1> HIDE DEF a
<1>5. ASSUME NEW g \in Handles PROVE HandleAt(a.upper, a.ts, handle'[g])
  <2>1. HandleAt(upper, tombstones, handle[g]) /\ handle' = handle
    BY <1>4, HandleOld
  <2>2. CASE handle[g].name = Gone \/ handle[g].name # p
    BY <1>1, <1>3, <2>1, <2>2, HandleStays DEF HandleAt
  <2>3. CASE handle[g].name # Gone /\ handle[g].name = p
    <3>1. handle[g].layer # "lower"
      BY <1>2, <2>3 DEF CarefulTouch, CarefulCopy, Careful, Disciplined
    <3>2. upper[p] \in Contents
      BY <2>1, <2>3, <3>1, HandleUpper
    <3>3. CalmElse(a, {})
      BY <1>3, <3>2, NodeFacts DEF CalmElse
    <3> QED
      BY <1>1, <2>1, <3>3, HandleStays
  <2> QED
    BY <2>2, <2>3
<1> QED
  BY <1>3, <1>4, <1>5, GoodStep

\* unlink that fails changes nothing.
LEMMA UnlinkAnswers ==
  ASSUME NEW p, NEW remove_dir, unlinkat(p, remove_dir).res # "ok"
  PROVE  unlinkat(p, remove_dir).upper = upper /\ unlinkat(p, remove_dir).ts = tombstones
BY DEF unlinkat, Fails, With, Answer

\* unlink and rmdir.
LEMMA UnlinkGood ==
  ASSUME ViewInv, HostInv', Disciplined, NEW p \in Paths, Open(p), NEW remove_dir \in BOOLEAN,
         sys_unlinkat(p, remove_dir)
  PROVE  Good
<1> DEFINE a == unlinkat(p, remove_dir)
           w == IF remove_dir THEN KRmdir(View, p).tree ELSE KUnlink(View, p).tree
<1>1. Sound /\ CarefulUnlink(p, remove_dir)
  BY ViewSound DEF sys_unlinkat
<1>2. /\ CalmElse(a, {p})
      /\ \/ Leaves(a, View)
         \/ Leaves(a, w) /\ \A q \in Paths : q # p => w[q] = View[q]
  BY <1>1, UnlinkLeaves
<1>3. a.res # "ok" => a.upper = upper /\ a.ts = tombstones
  BY UnlinkAnswers
<1> HIDE DEF a, w
<1>4. /\ Apply(a) /\ UNCHANGED cwd
      /\ handle' = [h \in Handles |->
           IF a.res = "ok" /\ handle[h].name = p THEN [handle[h] EXCEPT !.name = Gone] ELSE handle[h]]
  BY DEF sys_unlinkat, a
<1>5. ASSUME NEW g \in Handles PROVE HandleAt(a.upper, a.ts, handle'[g])
  <2>1. HandleAt(upper, tombstones, handle[g])
    BY HandleOld
  <2>2. CASE a.res # "ok"
    BY <1>3, <1>4, <2>1, <2>2
  <2>3. CASE a.res = "ok" /\ handle[g].name = p
    <3>1. handle[g] \in HandleType
      BY HandlesHarmless DEF ViewInv, Harmless
    <3>2. handle'[g].name = Gone
      BY <1>4, <2>3, <3>1 DEF HandleType
    <3> QED
      BY <3>2 DEF HandleAt
  <2>4. CASE handle[g].name # p
    <3>1. handle'[g] = handle[g]
      BY <1>4, <2>4
    <3> QED
      BY <1>1, <1>2, <2>1, <2>4, <3>1, HandleStays
  <2> QED
    BY <2>2, <2>3, <2>4
<1>6. CASE Leaves(a, View)
  BY <1>4, <1>5, <1>6, GoodStep
<1>7. CASE Leaves(a, w) /\ \A q \in Paths : q # p => w[q] = View[q]
  <2>1. w \in {Plain!Unlink(View, p), Plain!Rmdir(View, p)}
    BY OpsSame DEF w
  <2>2. w = View \/ Plain!Changes(View, w)
    BY <1>1, <1>7, <2>1, OneChange DEF Plain!Changes
  <2> QED
    BY <1>4, <1>5, <1>7, <2>2, GoodStep
<1> QED
  BY <1>2, <1>6, <1>7

\* rename, also of what is open.
LEMMA RenameGood ==
  ASSUME ViewInv, HostInv', Disciplined, NEW p \in Paths, NEW q \in Paths, Open(p), Open(q), sys_renameat(p, q)
  PROVE  Good
<1> DEFINE a == renameat(p, q, FALSE)
           w == KRename(View, p, q, FALSE).tree
<1>1. Sound /\ CarefulRename(p, q)
  BY ViewSound DEF sys_renameat
<1>2. /\ CalmElse(a, {p, q})
      /\ \/ a.res # "ok" /\ Leaves(a, View) /\ a.upper = upper /\ a.ts = tombstones
         \/ p = q /\ Leaves(a, View) /\ a.upper[p] = View[p]
         \/ /\ p # q /\ a.res = "ok" /\ Leaves(a, w) /\ a.upper[q] = View[p]
            /\ w[p] # View[p] /\ \A r \in Paths \ {p, q} : w[r] = View[r]
  BY <1>1, RenameLeaves
<1> HIDE DEF a, w
<1>3. /\ Apply(a) /\ UNCHANGED cwd
      /\ handle' = [h \in Handles |->
           CASE a.res = "ok" /\ p # q /\ handle[h].name = q -> [handle[h] EXCEPT !.name = Gone]
             [] a.res = "ok" /\ p # q /\ handle[h].name = p -> [handle[h] EXCEPT !.name = q, !.at = q]
             [] OTHER -> handle[h]]
  BY DEF sys_renameat, a
<1>4. ASSUME NEW g \in Handles, handle[g].name = Gone \/ handle[g].name \notin {p, q}
      PROVE  HandleAt(a.upper, a.ts, handle[g])
  BY <1>1, <1>2, <1>4, HandleOld, HandleStays DEF HandleAt
<1>5. ASSUME NEW g \in Handles, handle[g].name \in {p, q}, handle[g].name # Gone
      PROVE  /\ handle[g].layer # "lower" /\ upper[handle[g].name] \in Contents
             /\ View[handle[g].name] = upper[handle[g].name]
  <2>1. handle[g].layer # "lower"
    BY <1>1, <1>5 DEF CarefulRename, Careful, Disciplined
  <2>2. upper[handle[g].name] \in Contents
    BY <1>5, <2>1, HandleOld, HandleUpper
  <2>3. View[handle[g].name] = upper[handle[g].name]
    BY <1>1, <1>5, <2>2, Found, NodeFacts DEF Sees, Sound, Layers
  <2> QED
    BY <2>1, <2>2, <2>3
<1>6. CASE a.res # "ok" /\ Leaves(a, View) /\ a.upper = upper /\ a.ts = tombstones
  <2>1. handle' = [h \in Handles |-> handle[h]]
    BY <1>3, <1>6
  <2> QED
    BY <1>3, <1>6, <2>1, HandleOld, GoodStep
<1>7. CASE p = q /\ Leaves(a, View) /\ a.upper[p] = View[p]
  <2>1. handle' = [h \in Handles |-> handle[h]]
    BY <1>3, <1>7
  <2>2. ASSUME NEW g \in Handles PROVE HandleAt(a.upper, a.ts, handle[g])
    <3>1. CASE handle[g].name = Gone \/ handle[g].name \notin {p, q}
      BY <1>4, <3>1
    <3>2. CASE handle[g].name # Gone /\ handle[g].name \in {p, q}
      BY <1>5, <1>7, <3>2, HandleOld, HandleUpper
    <3> QED
      BY <3>1, <3>2
  <2> QED
    BY <1>3, <1>7, <2>1, <2>2, GoodStep
<1>8. CASE /\ p # q /\ a.res = "ok" /\ Leaves(a, w) /\ a.upper[q] = View[p]
           /\ w[p] # View[p] /\ \A r \in Paths \ {p, q} : w[r] = View[r]
  <2>1. ASSUME NEW g \in Handles PROVE HandleAt(a.upper, a.ts, handle'[g])
    <3>1. handle[g] \in HandleType
      BY HandlesHarmless DEF ViewInv, Harmless
    <3>2. CASE handle[g].name = q
      <4>1. handle'[g].name = Gone
        BY <1>3, <1>8, <3>1, <3>2 DEF HandleType
      <4> QED
        BY <4>1 DEF HandleAt
    <3>3. CASE handle[g].name # q /\ handle[g].name = p
      <4>1. handle'[g] = [handle[g] EXCEPT !.name = q, !.at = q]
        BY <1>3, <1>8, <3>3
      <4>2. handle'[g].name = q /\ handle'[g].at = q /\ handle'[g].layer = handle[g].layer
        BY <3>1, <4>1 DEF HandleType
      <4>3. CASE handle[g].name # Gone
        <5>1. handle[g].layer # "lower" /\ a.upper[q] \in Contents
          BY <1>5, <1>8, <3>3, <4>3
        <5> QED
          BY <4>2, <5>1 DEF HandleAt, HeldIn
      <4> QED
        BY <3>3, <4>3, GoneAssumption DEF Everywhere
    <3>4. CASE handle[g].name \notin {p, q}
      <4>1. handle'[g] = handle[g]
        BY <1>3, <1>8, <3>4
      <4> QED
        BY <1>4, <3>4, <4>1
    <3> QED
      BY <3>2, <3>3, <3>4
  <2>2. w = Plain!Rename(View, p, q)
    BY OpsSame DEF w
  <2>3. Plain!Changes(View, w)
    BY <1>8, <2>2 DEF Plain!Changes
  <2> QED
    BY <1>3, <1>8, <2>1, <2>3, GoodStep
<1> QED
  BY <1>2, <1>6, <1>7, <1>8

\* A write reaches the copy under the name it has now, and the guest sees it there.
LEMMA WriteGood ==
  ASSUME ViewInv, HostInv', NEW h \in Handles, sys_write(h)
  PROVE  Good
<1> DEFINE p == handle[h].at
<1>1. Sound /\ Harmless(handle[h]) /\ handle[h].layer = "upper"
  BY ViewSound, HandlesHarmless DEF ViewInv, Harmless, sys_write
<1>2. lower' = lower /\ UNCHANGED <<tombstones, cwd, handle>>
  BY <1>1 DEF sys_write
<1>3. CASE handle[h].name = Gone
  <2>1. upper' = upper
    BY <1>3 DEF sys_write
  <2>2. Sound' /\ View' = View
    <3>1. Sound'
      BY <1>1, <1>2, <2>1 DEF Sound
    <3> QED
      BY <1>1, <1>2, <2>1, <3>1, ViewLater, ShownSeen DEF Sound
  <2> QED
    BY <1>2, <2>1, <2>2, SameTree DEF Good, ViewInv, Tracked
<1>4. CASE handle[h].name # Gone
  <2> DEFINE v == [upper EXCEPT ![p] = "new"]
  <2>1. p \in Paths /\ p = handle[h].name /\ upper[p] \in Contents
    BY <1>1, <1>4, HandleOld, HandleUpper DEF HandleAt
  <2>2. upper' = v
    BY <1>1, <1>4 DEF sys_write
  <2>3. Open(p) /\ ~Covered(tombstones, p) /\ View[p] = upper[p]
    BY <1>1, <2>1, Found, NodeFacts DEF Sound, Layers, Sees
  <2>4. Layers(v, tombstones) /\ Seen(v, tombstones) = [View EXCEPT ![p] = "new"]
    <3>1. "new" \in Nodes \ {"none"} /\ upper[p] # "dir" /\ Layers(upper, tombstones) /\ View = Seen(upper, tombstones)
      BY <1>1, <2>1, NodeFacts, ShownSeen DEF Sound
    <3>2. (\A b \in Between[p] : upper[b] = "dir") /\ (Served[p] = "cow" => HostTree[p] # "dir")
      BY <2>1, <3>1, NodeFacts DEF Layers
    <3> QED
      BY <2>1, <2>3, <3>1, <3>2, PutSeen
  <2>5. upper \in Trees
    BY <1>1 DEF Sound, Layers
  <2>6. v[p] = "new" /\ \A q \in Paths : q # p => v[q] = upper[q]
    BY <2>1, <2>5 DEF Trees
  <2> HIDE DEF v, p
  <2>7. ASSUME NEW g \in Handles PROVE HandleAt(v, tombstones, handle[g])
    <3>1. HandleAt(upper, tombstones, handle[g])
      BY HandleOld
    <3>2. CASE handle[g].name = Gone
      BY <3>2 DEF HandleAt
    <3>3. CASE handle[g].name # Gone /\ handle[g].name # p
      BY <2>6, <3>1, <3>3 DEF HandleAt, HeldIn
    <3>4. CASE handle[g].name # Gone /\ handle[g].name = p
      BY <2>1, <2>6, <3>1, <3>4, NodeFacts DEF HandleAt, HeldIn, Contents
    <3> QED
      BY <3>2, <3>3, <3>4
  <2>8. Sound' /\ View' = [View EXCEPT ![p] = "new"]
    <3>1. Sound'
      BY <1>1, <1>2, <2>2, <2>4 DEF Sound
    <3> QED
      BY <1>2, <2>2, <2>4, <3>1, ViewLater
  <2>9. ViewInv'
    BY <1>2, <2>2, <2>4, <2>7 DEF ViewInv, Tracked
  <2>10. View' = Plain!Write(View, p)
    <3>1. View[p] \in Plain!Contents
      BY <2>1, <2>3 DEF Plain!Contents, Contents
    <3> QED
      BY <2>8, <3>1 DEF Plain!Write
  <2>11. CASE View' = View
    BY <1>2, <2>9, <2>11, SameTree DEF Good
  <2>12. CASE View' # View
    <3>1. View[p] # View'[p]
      <4>1. View \in Trees
        BY <1>1, SeenTree, ShownSeen DEF Sound
      <4> QED
        BY <2>1, <2>8, <2>12, <4>1 DEF Trees
    <3>2. Plain!Changes(View, View')
      BY <2>1, <2>10, <3>1 DEF Plain!Changes
    <3> QED
      BY <1>2, <2>9, <3>2 DEF Good, PlainStep, Plain!Next
  <2> QED
    BY <2>11, <2>12
<1> QED
  BY <1>3, <1>4

\* Steps that leave layers and tombstones alone and open nothing.
LEMMA QuietView ==
  ASSUME ViewInv, HostInv', UNCHANGED <<lower, upper, tombstones>>,
         \A g \in Handles : handle'[g] = handle[g] \/ handle'[g] = NoHandle
  PROVE  ViewInv' /\ View' = View
<1>1. Sound /\ Sound'
  BY ViewSound DEF Sound
<1>2. View' = View
  BY <1>1, ViewLater, ShownSeen DEF Sound
<1>3. \A g \in Handles : HandleAt(upper, tombstones, handle'[g])
  BY HandleOld DEF HandleAt, NoHandle
<1>4. Tracked(upper, tombstones, handle)'
  BY <1>1, <1>3 DEF Tracked, Sound
<1> QED
  BY <1>2, <1>4 DEF ViewInv

\* The listing and close leave the tree and the working directory alone.
LEMMA ListGood ==
  ASSUME ViewInv, HostInv', (\E p : opendir(p)) \/ sys_getdents64 \/ closedir \/ \E h \in Handles : sys_close(h)
  PROVE  Good
<1>1. UNCHANGED <<lower, upper, tombstones, cwd>>
  BY DEF opendir, sys_getdents64, closedir, sys_close
<1>2. \A g \in Handles : handle'[g] = handle[g] \/ handle'[g] = NoHandle
  BY Before DEF ViewInv, opendir, sys_getdents64, closedir, sys_close
<1> QED
  BY <1>1, <1>2, QuietView, SameTree DEF Good

\* chdir and fchdir.
LEMMA MoveGood ==
  ASSUME ViewInv, HostInv', Disciplined, (\E p : Open(p) /\ sys_chdir(p)) \/ sys_fchdir
  PROVE  Good
<1>1. UNCHANGED <<lower, upper, tombstones, handle>>
  BY DEF sys_chdir, sys_fchdir
<1>2. ViewInv' /\ View' = View
  BY <1>1, QuietView
<1>3. CASE \E p : Open(p) /\ sys_chdir(p)
  <2>1. PICK p : Open(p) /\ sys_chdir(p)
    BY <1>3
  <2>2. p \in Everywhere /\ ~Hidden(p) /\ chdir(p) = "ok" /\ cwd' = p
    BY <2>1 DEF Open, sys_chdir, CarefulLook, Careful, Disciplined
  <2>3. Look(View, p) = "dir"
    <3>1. CASE p \in Roots
      <4>1. Look(View, p) = At(View, p)
        BY <2>2, Looks, ShownSeen, ViewSound DEF Sound
      <4> QED
        BY <3>1, <4>1 DEF At
    <3>2. CASE p \in Paths
      <4>1. Look(Layer(p), p) = "dir"
        BY <2>2 DEF chdir, KChdir
      <4>2. Look(Layer(p), p) = View[p]
        BY <2>1, <2>2, <3>2, Found, ViewSound DEF Layer, Open, Sees
      <4> QED
        BY <3>2, <4>1, <4>2, Found, ViewSound
    <3> QED
      BY <2>2, <3>1, <3>2 DEF Everywhere
  <2>4. Plain!Look(View, p) = Look(View, p)
    BY DEF Plain!Look, Look, Plain!At, At, Plain!Roots, Roots, Plain!Between, Between, Plain!Above, Above
  <2>5. Plain!Chdir(p) /\ p \in Paths \cup Plain!Roots
    BY <2>2, <2>3, <2>4 DEF Plain!Chdir, Plain!Roots, Everywhere, Roots
  <2>6. Plain!Next
    BY <1>2, <2>5 DEF Plain!Next
  <2> QED
    BY <1>2, <2>6 DEF Good, PlainStep
<1>4. CASE sys_fchdir
  <2>1. cwd' = ls.dir /\ ls.dir \in Everywhere
    BY <1>4 DEF sys_fchdir, Listing, ViewInv, HostInv, ListingTyped
  <2>2. Plain!Fchdir(ls.dir) /\ ls.dir \in Paths \cup Plain!Roots
    BY <2>1 DEF Plain!Fchdir, Plain!Roots, Everywhere, Roots
  <2>3. Plain!Next
    BY <1>2, <2>2 DEF Plain!Next
  <2> QED
    BY <1>2, <2>3 DEF Good, PlainStep
<1> QED
  BY <1>3, <1>4

\* The next run finds the tree as the last one left it.
LEMMA RerunGood ==
  ASSUME ViewInv, HostInv', Disciplined, make_supervisor
  PROVE  Good
<1>1. UNCHANGED <<lower, upper, tombstones>> /\ cwd' = <<>>
  BY DEF make_supervisor, Careful, Disciplined
<1>2. \A g \in Handles : handle'[g] = NoHandle
  BY DEF make_supervisor
<1>3. ViewInv' /\ View' = View
  BY <1>1, <1>2, QuietView
<1>4. Plain!Next
  BY <1>1, <1>3 DEF Plain!Next, Plain!Rerun
<1> QED
  BY <1>3, <1>4 DEF Good, PlainStep

\* Every step.
LEMMA ViewKeeps ==
  ASSUME ViewInv, Disciplined, [Next]_vars
  PROVE  Good
<1>1. HostInv'
  BY HostStep DEF ViewInv
<1>2. ASSUME NEW p \in Named, NEW flags \in OpenFlags, NEW h \in Handles, sys_openat(p, flags, h) PROVE Good
  BY <1>1, <1>2, NamedOpen, OpenGood
<1>3. ASSUME NEW p \in Named, opendir(p) \/ sys_chdir(p) PROVE Good
  BY <1>1, <1>3, NamedOpen, ListGood, MoveGood
<1>4. ASSUME NEW p \in Named \ Roots,
             sys_mkdirat(p) \/ sys_symlinkat(p) \/ sys_fchmodat(p) \/ sys_utimensat(p)
      PROVE  Good
  BY <1>1, <1>4, NamedOpen, MakeGood, TouchGood
<1>5. ASSUME NEW p \in Named \ Roots, NEW remove_dir \in BOOLEAN, sys_unlinkat(p, remove_dir) PROVE Good
  BY <1>1, <1>5, NamedOpen, UnlinkGood
<1>6. ASSUME NEW p \in Named \ Roots, NEW q \in Named \ Roots, sys_renameat(p, q) PROVE Good
  BY <1>1, <1>6, NamedOpen, RenameGood
<1>7. ASSUME NEW h \in Handles, sys_close(h) \/ sys_write(h) PROVE Good
  BY <1>1, <1>7, ListGood, WriteGood
<1>8. CASE sys_getdents64 \/ closedir \/ sys_fchdir
  BY <1>1, <1>8, ListGood, MoveGood
<1>9. CASE make_supervisor
  BY <1>1, <1>9, RerunGood
<1>10. CASE UNCHANGED vars
  <2>1. UNCHANGED <<lower, upper, tombstones, cwd, handle>>
    BY <1>10 DEF vars
  <2> QED
    BY <1>1, <2>1, QuietView, SameTree DEF Good
<1> QED
  BY <1>2, <1>3, <1>4, <1>5, <1>6, <1>7, <1>8, <1>9, <1>10 DEF Next

\* The empty upper layer shows the tree of the host.
LEMMA ViewStart == Init => ViewInv /\ Plain!Init
<1> SUFFICES ASSUME Init PROVE ViewInv /\ Plain!Init
  OBVIOUS
<1>1. HostInv /\ TreesTyped /\ cwd = <<>>
  BY InitHost DEF HostInv, Init
<1>2. Layers(upper, tombstones)
  BY <1>1 DEF Layers, Init, TreesTyped
<1>3. \A h \in Handles : HandleAt(upper, tombstones, handle[h])
  BY DEF HandleAt, Init, NoHandle
<1>4. ViewInv
  BY <1>1, <1>2, <1>3 DEF ViewInv, Tracked
<1>5. View \in Trees
  BY <1>2, <1>4, ViewSound, SeenTree, ShownSeen DEF Sound
<1>6. Trees = [Paths -> Plain!Nodes]
  BY DEF Trees, Plain!Nodes, Nodes, Plain!Contents, Contents
<1> QED
  BY <1>1, <1>4, <1>5, <1>6 DEF Plain!Init

\* What is open is what its name shows.
LEMMA ViewTells == ASSUME ViewInv PROVE HandlesTrue
<1>1. Sound /\ HostInv
  BY ViewSound DEF ViewInv
<1>2. TypeOK
  BY <1>1 DEF TypeOK, HostInv, TreesTyped, Trees, HandleType, ListingTyped
<1>3. ASSUME NEW h \in Handles, handle[h].name # Gone
      PROVE  Shown(handle[h].name) = IF handle[h].layer = "lower" THEN lower[handle[h].at] ELSE upper[handle[h].at]
  <2> DEFINE p == handle[h].name
  <2>1. p \in Paths /\ handle[h].at = p /\ HeldIn(upper, tombstones, p, handle[h].layer)
    BY <1>3, HandleOld DEF HandleAt
  <2>2. Shown(p) = Sees(upper, tombstones, p) /\ lower = HostTree /\ (upper[p] # "none" => ~Covered(tombstones, p))
    BY <1>1, <2>1, Found DEF Sound, Layers
  <2> QED
    BY <2>1, <2>2, NodeFacts DEF HeldIn, Sees
<1> QED
  BY <1>2, <1>3 DEF HandlesTrue, HandlesCurrent

\* Whatever a guest does that keeps away from the known differences: a file it holds
\* open is the one that its name shows, through copies, renames, deletions and writes
\* (cow_open, copy_up, sys_renameat), for any tree of the host.
THEOREM HandlesAlwaysTrue == ASSUME Disciplined PROVE Spec => []HandlesTrue
<1>1. ViewInv /\ [Next]_vars => ViewInv'
  BY ViewKeeps DEF Good
<1>2. ViewInv => HandlesTrue
  BY ViewTells
<1> QED
  BY <1>1, <1>2, ViewStart, PTL DEF Spec

\* The two layers and the tombstones are one private tree: every call of the
\* guest changes what it sees as the kernel would change a tree of its own.
THEOREM TreeAlwaysImplemented == ASSUME Disciplined PROVE Spec => ImplementsTree
<1>1. ViewInv /\ [Next]_vars => ViewInv'
  BY ViewKeeps DEF Good
<1>2. ViewInv /\ [Next]_vars => [Plain!Next]_(Plain!vars)
  BY ViewKeeps DEF Good, PlainStep
<1> QED
  BY <1>1, <1>2, ViewStart, PTL DEF Spec, ImplementsTree, Plain!Spec

-----------------------------------------------------------------------------
(* What the calls answer.                                                  *)

\* Calls that only look, and find a path through the layer it is served from.
LEMMA LooksAgree ==
  ASSUME Sound, NEW p \in Paths, Open(p)
  PROVE  /\ fstatat(p) = KStat(View, p) /\ statx(p) = KStat(View, p)
         /\ ~Hidden(p) => Look(Layer(p), p) = Look(View, p)
<1>1. Shown(p) = View[p] /\ Look(View, p) = View[p] /\ p \notin Roots
  BY Found
<1>2. Hidden(p) \/ Shown(p) = statx_routed(p)
  BY <1>1 DEF Shown
<1>3. Hidden(p) => Shown(p) = "none"
  BY <1>1 DEF Shown
<1>4. ~Hidden(p) => Look(Layer(p), p) = View[p]
  BY Found DEF Layer, Open, Sees
<1> QED
  BY <1>1, <1>2, <1>3, <1>4 DEF fstatat, statx, KStat, Exists

\* readlink, chdir and execve.
LEMMA LinksAgree ==
  ASSUME Sound, Disciplined, NEW p \in Paths, Open(p), CarefulLook(p)
  PROVE  readlinkat(p) = KReadlink(View, p) /\ chdir(p) = KChdir(View, p) /\ execve(p) = KExec(View, p)
<1>1. Look(Layer(p), p) = Look(View, p)
  BY LooksAgree DEF CarefulLook, Careful, Disciplined
<1> QED
  BY <1>1 DEF readlinkat, KReadlink, chdir, KChdir, execve, KExec

\* The layers that the permission bits are asked of.
LEMMA AccessAgrees ==
  ASSUME Sound, "access_upper" \notin Careless, NEW p \in Paths, Open(p), NEW mode, CarefulAccess(p, mode)
  PROVE  faccessat(p, mode) = KAccess(View, p)
<1>1. (guest_path_exists(p) /\ (Served[p] = "cow" => ~Hidden(p))) <=> View[p] # "none"
  BY Probed
<1>2. /\ cow_exists(p) <=> upper[p] # "none"
      /\ Exists(lower, p) <=> HostTree[p] # "none"
      /\ Hidden(p) <=> Covered(tombstones, p)
      /\ View[p] = Sees(upper, tombstones, p) /\ Look(View, p) = View[p]
  BY Found
<1>3. mode # "F_OK" /\ Served[p] = "cow" /\ View[p] # "none" => Exists(lower, p)
  BY <1>2 DEF CarefulAccess, Careful, Sees
<1>4. KAccess(View, p) = IF View[p] # "none" THEN "ok" ELSE "ENOENT"
  BY <1>2 DEF KAccess, Exists
<1>5. Hidden(p) => View[p] = "none"
  BY <1>2 DEF Sees
<1>6. CASE Hidden(p) \/ ~guest_path_exists(p)
  BY <1>1, <1>4, <1>5, <1>6 DEF faccessat
<1>7. CASE ~Hidden(p) /\ guest_path_exists(p)
  <2>1. KAccess(View, p) = "ok"
    BY <1>1, <1>4, <1>7
  <2>2. mode # "F_OK" /\ Served[p] = "cow" => KAccess(lower, p) = "ok"
    BY <1>1, <1>3, <1>7 DEF KAccess
  <2> QED
    BY <1>7, <2>1, <2>2 DEF faccessat
<1> QED
  BY <1>6, <1>7

\* fchmod and utimensat.
LEMMA TouchAgrees ==
  ASSUME Sound, Disciplined, NEW p \in Paths, Open(p), NEW checks \in BOOLEAN, CarefulTouch(p)
  PROVE  touch(p, checks).res = KAccess(View, p)
<1>1. /\ ~Hidden(p) /\ ~is_tombstoned(p)
      /\ ~(View[p] = "dir" /\ ~cow_exists(p))
  BY Found DEF CarefulTouch, CarefulLook, CarefulCopy, Careful, Disciplined, Hidden
<1>2. /\ cow_exists(p) <=> upper[p] # "none"
      /\ Exists(lower, p) <=> HostTree[p] # "none"
      /\ Look(upper, p) = upper[p]
      /\ View[p] = (IF upper[p] # "none" THEN upper[p] ELSE IF Served[p] = "cow" THEN HostTree[p] ELSE "none")
      /\ Look(View, p) = View[p]
  BY <1>1, Found DEF Sees
<1>3. CASE Served[p] = "cow" /\ ~cow_exists(p) /\ Exists(lower, p)
  <2>1. touch(p, checks) = With(copy_up(p), tombstones)
    BY <1>1, <1>3 DEF touch
  <2>2. copy_up(p).res = "ok" /\ View[p] # "none"
    BY <1>1, <1>2, <1>3, CopySeen
  <2> QED
    BY <1>2, <2>1, <2>2 DEF With, KAccess, Exists
<1>4. CASE ~(Served[p] = "cow" /\ ~cow_exists(p) /\ Exists(lower, p))
  <2>1. touch(p, checks) = Fails(KAccess(upper, p))
    BY <1>1, <1>4 DEF touch
  <2>2. upper[p] = View[p]
    BY <1>2, <1>4
  <2> QED
    BY <1>2, <2>1, <2>2, FailsLeave DEF KAccess, Exists
<1> QED
  BY <1>3, <1>4

\* RENAME_NOREPLACE adds nothing but the refusal to replace.
LEMMA RenameAgrees ==
  ASSUME Sound, Disciplined, NEW p \in Paths, NEW q \in Paths, Open(p), Open(q), CarefulRename(p, q),
         NEW nr \in BOOLEAN
  PROVE  renameat(p, q, nr).res \in {"EXDEV", KRename(View, p, q, nr).res}
<1>1. CASE nr = FALSE
  BY <1>1, RenameLeaves
<1>2. CASE nr = TRUE
  <2>1. (rename_probe(p) <=> Exists(View, p)) /\ (rename_probe(q) <=> Exists(View, q))
    BY Probed, Found DEF rename_probe, Exists
  <2>2. CASE Served[p] = Served[q] /\ rename_probe(p) /\ ~is_guest_dir(p) /\ rename_probe(q)
    <3>1. renameat(p, q, nr) = Fails("EEXIST")
      BY <1>2, <2>2 DEF renameat
    <3>2. KRename(View, p, q, nr).res = "EEXIST"
      <4>1. Look(View, p) # "none" /\ Look(View, q) # "none" /\ nr
        BY <1>2, <2>1, <2>2 DEF Exists
      <4>2. Look(View, Parent(q)) = "dir"
        BY CreateFacts, Looks, ParentAbove, ShownSeen DEF Sound, CarefulRename
      <4> QED
        BY <4>1, <4>2 DEF KRename, Exists, Answer
    <3> QED
      BY <3>1, <3>2, FailsLeave
  <2>3. CASE ~(Served[p] = Served[q] /\ rename_probe(p) /\ ~is_guest_dir(p) /\ rename_probe(q))
    <3>1. renameat(p, q, nr) = renameat(p, q, FALSE)
      BY <1>2, <2>3 DEF renameat
    <3>2. renameat(p, q, FALSE).res \in {"EXDEV", KRename(View, p, q, FALSE).res}
      BY RenameLeaves
    <3>3. KRename(View, p, q, nr).res = KRename(View, p, q, FALSE).res \/ renameat(p, q, FALSE).res = "EXDEV"
      <4>1. CASE ~rename_probe(p) \/ ~rename_probe(q)
        BY <2>1, <4>1 DEF KRename, Exists, Answer
      <4>2. CASE rename_probe(p) /\ rename_probe(q)
        <5>1. renameat(p, q, FALSE) = Fails("EXDEV")
          BY <2>3, <4>2 DEF renameat
        <5> QED
          BY <5>1, FailsLeave
      <4> QED
        BY <4>1, <4>2
    <3> QED
      BY <3>1, <3>2, <3>3
  <2> QED
    BY <2>2, <2>3
<1> QED
  BY <1>1, <1>2

\* All calls together.
LEMMA AllAgree ==
  ASSUME ViewInv, Disciplined, "access_upper" \notin Careless
  PROVE  RepliesAgree
<1>1. Sound
  BY ViewSound
<1> SUFFICES ASSUME NEW p \in Named \ Roots
             PROVE
    /\ fstatat(p) = KStat(View, p) /\ statx(p) = KStat(View, p)
    /\ \A mode \in {"F_OK", "R_OK"} : CarefulAccess(p, mode) => faccessat(p, mode) = KAccess(View, p)
    /\ CarefulLook(p) => readlinkat(p) = KReadlink(View, p) /\ chdir(p) = KChdir(View, p) /\ execve(p) = KExec(View, p)
    /\ CarefulTouch(p) => \A checks \in BOOLEAN : touch(p, checks).res = KAccess(View, p)
    /\ \A flags \in OpenFlags : CarefulOpen(p, flags) => openat(p, flags).res = KOpen(View, p, flags).res
    /\ CarefulCreate(p) => make(p, "dir").res = KMake(View, p, "dir").res
    /\ CarefulUnlink(p, TRUE) => unlinkat(p, TRUE).res = KRmdir(View, p).res
    /\ CarefulUnlink(p, FALSE) => unlinkat(p, FALSE).res = KUnlink(View, p).res
    /\ \A q \in Named \ Roots : CarefulRename(p, q) =>
         \A nr \in BOOLEAN : renameat(p, q, nr).res \in {"EXDEV", KRename(View, p, q, nr).res}
  BY DEF RepliesAgree
<1>2. p \in Paths /\ Open(p)
  BY NamedOpen
<1>3. fstatat(p) = KStat(View, p) /\ statx(p) = KStat(View, p)
  BY <1>1, <1>2, LooksAgree
<1>4. \A mode \in {"F_OK", "R_OK"} : CarefulAccess(p, mode) => faccessat(p, mode) = KAccess(View, p)
  BY <1>1, <1>2, AccessAgrees
<1>5. CarefulLook(p) => readlinkat(p) = KReadlink(View, p) /\ chdir(p) = KChdir(View, p) /\ execve(p) = KExec(View, p)
  BY <1>1, <1>2, LinksAgree
<1>6. CarefulTouch(p) => \A checks \in BOOLEAN : touch(p, checks).res = KAccess(View, p)
  BY <1>1, <1>2, TouchAgrees
<1>7. \A flags \in OpenFlags : CarefulOpen(p, flags) => openat(p, flags).res = KOpen(View, p, flags).res
  BY <1>1, <1>2, OpenLeaves DEF OpenFine
<1>8. CarefulCreate(p) => make(p, "dir").res = KMake(View, p, "dir").res
  BY <1>1, <1>2, MakeLeaves
<1>9. CarefulUnlink(p, TRUE) => unlinkat(p, TRUE).res = KRmdir(View, p).res
  BY <1>1, <1>2, UnlinkLeaves
<1>10. CarefulUnlink(p, FALSE) => unlinkat(p, FALSE).res = KUnlink(View, p).res
  BY <1>1, <1>2, UnlinkLeaves
<1>11. \A q \in Named \ Roots : CarefulRename(p, q) =>
         \A nr \in BOOLEAN : renameat(p, q, nr).res \in {"EXDEV", KRename(View, p, q, nr).res}
  BY <1>1, <1>2, NamedOpen, RenameAgrees
<1> QED
  BY <1>3, <1>4, <1>5, <1>6, <1>7, <1>8, <1>9, <1>10, <1>11

\* At every moment, whatever the guest has done so far, every call on files would
\* be answered as the kernel would answer it on the guest's own tree, or with the
\* EXDEV that the handler of rename documents (sys_openat to sys_renameat).
THEOREM RepliesAlwaysAgree == ASSUME Disciplined, "access_upper" \notin Careless PROVE Spec => []RepliesAgree
<1>1. ViewInv /\ [Next]_vars => ViewInv'
  BY ViewKeeps DEF Good
<1>2. ViewInv => RepliesAgree
  BY AllAgree
<1> QED
  BY <1>1, <1>2, ViewStart, PTL DEF Spec

-----------------------------------------------------------------------------
(* A directory read page by page.                                          *)

\* A set of numbers that is not empty has a least one.
LEMMA LeastOne ==
  ASSUME NEW T \in SUBSET Nat, T # {}
  PROVE  Min(T) \in T /\ \A y \in T : Min(T) <= y
<1>1. IsWellFoundedOn(OpToRel(<, Nat), Nat)
  BY NatLessThanWellFounded
<1>2. \E x \in T : \A y \in T : <<y, x>> \notin OpToRel(<, Nat)
  BY <1>1, WFMin
<1>3. PICK x \in T : \A y \in T : <<y, x>> \notin OpToRel(<, Nat)
  BY <1>2
<1>4. \A y \in T : ~(y < x)
  BY <1>3 DEF OpToRel
<1>5. \A y \in T : x <= y
  BY <1>4
<1> QED
  BY <1>5 DEF Min

\* The place of an entry is its number in the listing.
LEMMA Places ==
  ASSUME NEW S \in SUBSET (1..2 * Len(Order))
  PROVE  /\ Cardinality(S) \in Nat /\ Cardinality(S) <= 2 * Len(Order)
         /\ \A i : Place(S, i) \in Nat /\ Place(S, i) <= Cardinality(S)
         /\ \A i, j \in S : i <= j => Place(S, i) <= Place(S, j)
         /\ \A i, j \in S : i < j => Place(S, i) < Place(S, j)
         /\ S # {} => Min(S) \in S /\ (\A j \in S : Min(S) <= j) /\ Place(S, Min(S)) = 1
         /\ \A i \in S : Place(S, i) >= 1
<1> DEFINE upto(i) == {j \in S : j <= i}
<1>1. Len(Order) \in Nat /\ S \subseteq Nat
  BY OrderAssumption
<1>2. IsFiniteSet(1..2 * Len(Order)) /\ Cardinality(1..2 * Len(Order)) = 2 * Len(Order)
  <2> DEFINE n == 2 * Len(Order)
  <2>1. n \in Int /\ n >= 0 /\ 1 \in Int
    BY <1>1
  <2> HIDE DEF n
  <2>2. IsFiniteSet(1..n) /\ Cardinality(1..n) = IF 1 > n THEN 0 ELSE n - 1 + 1
    BY ONLY <2>1, FS_Interval
  <2>3. Cardinality(1..n) = n
    BY <2>1, <2>2
  <2> QED
    BY <2>2, <2>3 DEF n
<1>3. IsFiniteSet(S) /\ Cardinality(S) <= 2 * Len(Order) /\ Cardinality(S) \in Nat
  <2>1. IsFiniteSet(S) /\ Cardinality(S) <= Cardinality(1..2 * Len(Order))
    BY <1>2, FS_Subset
  <2> QED
    BY <1>2, <2>1, FS_CardinalityType
<1>4. ASSUME NEW i PROVE IsFiniteSet(upto(i)) /\ Cardinality(upto(i)) \in Nat /\ Cardinality(upto(i)) <= Cardinality(S)
  <2>1. upto(i) \in SUBSET S
    OBVIOUS
  <2> HIDE DEF upto
  <2>2. IsFiniteSet(upto(i)) /\ Cardinality(upto(i)) <= Cardinality(S)
    BY <1>3, <2>1, FS_Subset
  <2> QED
    BY <2>2, FS_CardinalityType
<1>5. \A i : Place(S, i) = Cardinality(upto(i))
  BY DEF Place
<1>6. ASSUME NEW i \in S, NEW j \in S, i <= j PROVE Cardinality(upto(i)) <= Cardinality(upto(j))
  <2>1. upto(i) \in SUBSET upto(j)
    <3>1. \A x \in S : x <= i => x <= j
      BY ONLY <1>1, <1>6, i \in S, j \in S
    <3> QED
      BY <3>1
  <2> HIDE DEF upto
  <2> QED
    BY <1>4, <2>1, FS_Subset
<1>7. ASSUME NEW i \in S, NEW j \in S, i < j PROVE Cardinality(upto(i)) < Cardinality(upto(j))
  <2>1. upto(i) \cup {j} \in SUBSET upto(j) /\ j \notin upto(i)
    <3>1. (\A x \in S : x <= i => x <= j) /\ j <= j /\ ~(j <= i)
      BY ONLY <1>1, <1>7, i \in S, j \in S
    <3> QED
      BY <3>1
  <2> HIDE DEF upto
  <2>2. Cardinality(upto(i) \cup {j}) = Cardinality(upto(i)) + 1
    BY <1>4, <2>1, FS_AddElement
  <2>3. Cardinality(upto(i) \cup {j}) <= Cardinality(upto(j))
    BY <1>4, <2>1, FS_Subset
  <2> QED
    BY <1>4, <2>2, <2>3
<1>8. ASSUME S # {} PROVE Min(S) \in S /\ (\A j \in S : Min(S) <= j) /\ Cardinality(upto(Min(S))) = 1
  <2>1. Min(S) \in S /\ \A j \in S : Min(S) <= j
    BY <1>1, <1>8, LeastOne
  <2>2. upto(Min(S)) = {Min(S)}
    <3>1. \A x \in S : x <= Min(S) <=> x = Min(S)
      <4>1. ASSUME NEW m \in S, \A x \in S : m <= x, NEW x \in S PROVE x <= m <=> x = m
        <5>1. m \in Nat /\ x \in Nat /\ m <= x
          BY <1>1, <4>1
        <5> QED
          BY ONLY <5>1
      <4> QED
        BY <2>1, <4>1
    <3> QED
      BY <2>1, <3>1
  <2> HIDE DEF upto
  <2> QED
    BY <2>1, <2>2, FS_Singleton
<1>9. ASSUME NEW i \in S PROVE Cardinality(upto(i)) >= 1
  <2>1. Min(S) \in S /\ Min(S) <= i /\ Cardinality(upto(Min(S))) = 1
    BY <1>8
  <2>2. Cardinality(upto(Min(S))) <= Cardinality(upto(i))
    BY <1>6, <2>1
  <2> HIDE DEF upto
  <2> QED
    BY <1>4, <2>1, <2>2
<1> HIDE DEF upto
<1> QED
  BY <1>3, <1>4, <1>5, <1>6, <1>7, <1>8, <1>9

\* What the lower layer lists in d.
Below(d) == {q \in Directly[d] : Served[d] = "cow" /\ HostTree[q] # "none"}

\* The kinds of entries in a directory.
LEMMA InDir ==
  ASSUME NEW d \in Everywhere, NEW q \in Directly[d]
  PROVE  /\ q \in Paths /\ d \in Above[q] /\ Parent(q) = d
         /\ d \in Roots \/ d \in Between[q]
         /\ Served[q] = "cow" => Served[d] = "cow"
<1>1. q \in Paths /\ Len(q) = Len(d) + 1 /\ d \in Above[q]
  BY DEF Directly, Everywhere
<1>2. q \in Seq(STRING) /\ d \in Seq(STRING) /\ Len(d) \in Nat /\ q \in Everywhere /\ q # <<>>
  BY <1>1, PathNames, NamesAssumption DEF Everywhere
<1>3. PICK n \in 0..Len(q) - 1 : d = SubSeq(q, 1, n)
  BY <1>1, <1>2 DEF Above, Everywhere
<1>4. Len(d) = n
  BY <1>1, <1>2, <1>3
<1>5. Parent(q) = d
  BY <1>1, <1>2, <1>3, <1>4 DEF Parent
<1>6. d \in Roots \/ d \in Between[q]
  BY <1>1, <1>2 DEF Between, Everywhere
<1>7. Served[q] = "cow" => Served[d] = "cow"
  <2> SUFFICES ASSUME Served[q] = "cow" PROVE Served[d] = "cow"
    OBVIOUS
  <2>1. CASE d \in Between[q]
    BY <1>1, <1>2, <2>1, OpenBetween DEF Open
  <2>2. CASE d = <<>>
    BY <2>2 DEF Served, route, Everywhere
  <2>3. CASE d = <<"tmp">>
    <3>1. q[1] = d[1] /\ d[1] = "tmp"
      BY <1>1, <1>2, <1>3, <1>4, <2>3
    <3>2. route(q) \in {"tmp", "block"}
      BY <1>2, <3>1 DEF route
    <3> QED
      BY <1>2, <3>2 DEF Served
  <2> QED
    BY <1>6, <2>1, <2>2, <2>3 DEF Roots
<1> QED
  BY <1>1, <1>5, <1>6, <1>7

\* What the merge of the two directories consists of.
LEMMA Dirents ==
  ASSUME Sound, NEW d \in Everywhere
  PROVE  /\ low_dirents(d) = Below(d)
         /\ up_dirents(d) = Children(upper, d)
         /\ up_dirents(d) \ low_dirents(d) = {q \in Directly[d] \ Below(d) : View[q] # "none"}
<1>1. Look(upper, d) = At(upper, d) /\ Look(lower, d) = At(HostTree, d) /\ lower = HostTree
  BY Looks DEF Sound
<1>2. ASSUME NEW q \in Directly[d], upper[q] # "none" PROVE At(upper, d) = "dir" /\ ~Covered(tombstones, q)
  BY <1>2, InDir DEF Sound, Layers, At
<1>3. ASSUME NEW q \in Directly[d], HostTree[q] # "none" PROVE At(HostTree, d) = "dir"
  BY <1>3, InDir, TreeAssumption DEF At
<1>4. low_dirents(d) = Below(d)
  BY <1>1, <1>3 DEF low_dirents, Below, Children
<1>5. up_dirents(d) = Children(upper, d)
  BY <1>1, <1>2 DEF up_dirents, Children
<1>6. ASSUME NEW q \in Directly[d] \ Below(d) PROVE upper[q] # "none" <=> View[q] # "none"
  <2>1. q \in Paths /\ (Served[q] = "cow" => HostTree[q] = "none")
    BY InDir DEF Below
  <2> QED
    BY <1>2, <2>1, Found DEF Sees
<1> QED
  BY <1>4, <1>5, <1>6 DEF Children, Below

\* One page: what is on it lies between the old and the new offset, and between
\* them is nothing else that is not tombstoned.
LEMMA PageTaken ==
  ASSUME NEW map \in SUBSET (1..2 * Len(Order)), ls.off \in 0..Cardinality(map)
  PROVE  LET s == serialize_entries(map) IN
         \E page \in SUBSET map :
           /\ s.names = Entries(page)
           /\ s.off \in 0..Cardinality(map) /\ ls.off <= s.off
           /\ \A i \in page : Place(map, i) > ls.off /\ Place(map, i) <= s.off
           /\ \A i \in map : Place(map, i) <= s.off /\ i \notin page => Place(map, i) <= ls.off \/ Entry(i) \in tombstones
           /\ page = {} => \A i \in map : Place(map, i) <= ls.off \/ Entry(i) \in tombstones
<1> DEFINE live == {i \in map : Place(map, i) > ls.off /\ Entry(i) \notin tombstones}
           page == {i \in live : Place(live, i) <= Page}
           rest == live \ page
           s == serialize_entries(map)
<1>1. /\ s.names = Entries(page)
      /\ rest # {} => s.off = Place(map, Min(rest)) - 1
      /\ rest = {} => s.off = IF ls.off > Cardinality(map) THEN ls.off ELSE Cardinality(map)
  BY DEF serialize_entries
<1>2. /\ Cardinality(map) \in Nat /\ ls.off \in Nat /\ ls.off <= Cardinality(map) /\ Page \in Nat /\ Page >= 1
      /\ \A i \in map : i \in Nat
  BY Places, OrderAssumption, PathsAssumption
<1>3. live \in SUBSET (1..2 * Len(Order)) /\ rest \in SUBSET (1..2 * Len(Order))
      /\ page \in SUBSET map /\ page \in SUBSET live /\ rest \in SUBSET live /\ live \in SUBSET map
  OBVIOUS
<1>4. \A i \in live : Place(map, i) > ls.off /\ Entry(i) \notin tombstones
  OBVIOUS
<1>5. \A i \in map : i \in live \/ Place(map, i) <= ls.off \/ Entry(i) \in tombstones
  BY <1>2, Places
<1>6. \A i \in live : (i \in page <=> Place(live, i) <= Page) /\ (i \in rest <=> i \notin page)
  OBVIOUS
<1> HIDE DEF live, page, rest, s
<1>7. CASE rest # {}
  <2> DEFINE m == Min(rest)
  <2>1. m \in rest /\ \A j \in rest : m <= j
    BY <1>3, <1>7, Places
  <2> HIDE DEF m
  <2>2. m \in map /\ m \in live /\ m \in Nat /\ s.off = Place(map, m) - 1
    BY <1>1, <1>2, <1>3, <1>7, <2>1 DEF m
  <2>3. Place(map, m) \in Nat /\ Place(map, m) >= 1 /\ Place(map, m) <= Cardinality(map) /\ Place(map, m) > ls.off
    BY <1>4, <2>2, Places
  <2>4. s.off \in 0..Cardinality(map) /\ ls.off <= s.off
    BY <1>2, <2>2, <2>3
  <2>5. ASSUME NEW i \in page PROVE Place(map, i) > ls.off /\ Place(map, i) <= s.off
    <3>1. i \in live /\ i \in map /\ i \in Nat /\ Place(live, i) <= Page
      BY <1>2, <1>3, <1>6
    <3>2. ~(Place(live, m) <= Page) /\ Place(live, m) \in Nat /\ Place(live, i) \in Nat
      BY <1>3, <1>6, <2>1, <2>2, Places
    <3>3. ~(m <= i)
      <4>1. m <= i => Place(live, m) <= Place(live, i)
        BY <1>3, <2>2, <3>1, Places
      <4> QED
        BY <1>2, <3>1, <3>2, <4>1
    <3>4. Place(map, i) < Place(map, m) /\ Place(map, i) \in Nat
      <4>1. i < m
        BY <2>2, <3>1, <3>3
      <4> QED
        BY <2>2, <3>1, <4>1, Places
    <3> QED
      BY <1>4, <2>2, <2>3, <3>1, <3>4
  <2>6. ASSUME NEW i \in map, Place(map, i) <= s.off, i \notin page
        PROVE  Place(map, i) <= ls.off \/ Entry(i) \in tombstones
    <3>1. CASE i \in live
      <4>1. i \in rest /\ m <= i
        BY <1>6, <2>1, <2>6, <3>1
      <4>2. Place(map, m) <= Place(map, i) /\ Place(map, i) \in Nat
        BY <2>2, <4>1, Places
      <4> QED
        BY <2>2, <2>3, <2>6, <4>2
    <3> QED
      BY <1>5, <3>1
  <2>7. page # {}
    <3>1. SUFFICES ASSUME page = {} PROVE FALSE
      OBVIOUS
    <3>2. Place(live, Min(live)) = 1 /\ Min(live) \in live
      BY <1>3, <2>2, Places
    <3> QED
      BY <1>2, <1>6, <3>1, <3>2
  <2> QED
    BY <1>1, <1>3, <2>4, <2>5, <2>6, <2>7 DEF s
<1>8. CASE rest = {}
  <2>1. s.off = Cardinality(map)
    BY <1>1, <1>2, <1>8
  <2>2. \A i \in live : i \in page
    BY <1>6, <1>8
  <2>3. \A i \in map : Place(map, i) <= Cardinality(map)
    BY Places
  <2>4. \A i \in map : i \in page \/ Place(map, i) <= ls.off \/ Entry(i) \in tombstones
    BY <1>5, <2>2
  <2>5. s.off \in 0..Cardinality(map) /\ ls.off <= s.off
    BY <1>2, <2>1
  <2>6. \A i \in page : Place(map, i) > ls.off /\ Place(map, i) <= s.off
    BY <1>3, <1>4, <2>1, <2>3
  <2> QED
    BY <1>1, <1>3, <2>4, <2>5, <2>6 DEF s
<1> QED
  BY <1>7, <1>8

\* The directory that is being read.
Listed == cow_merged_dirents(ls.dir)

\* A name is in one place, and every name that the guest sees is there.
LEMMA MapFacts ==
  ASSUME Sound, NEW d \in Everywhere
  PROVE  LET places == cow_merged_dirents(d) IN
         /\ places \in SUBSET (1..2 * Len(Order))
         /\ \A i \in places : Entry(i) \in Directly[d]
         /\ \A i, j \in places : Entry(i) = Entry(j) => i = j
         /\ \A q \in Children(View, d) : \E i \in places : Entry(i) = q
<1> DEFINE places == cow_merged_dirents(d)
           up == up_dirents(d) \ low_dirents(d)
           n == Len(Order)
<1>1. n \in Nat /\ (\A i \in 1..n : Order[i] \in Paths)
  BY OrderAssumption
<1>2. places \in SUBSET (1..2 * n)
  BY DEF cow_merged_dirents
<1>3. \A i \in 1..2 * n : i \in places <=> Entry(i) \in IF i <= n THEN low_dirents(d) ELSE up
  BY DEF cow_merged_dirents
<1>4. low_dirents(d) = Below(d) /\ up = {q \in Directly[d] \ Below(d) : View[q] # "none"}
  BY Dirents
<1>5. \A i \in 1..2 * n : (i <= n => i \in 1..n /\ Entry(i) = Order[i]) /\ (~(i <= n) => i - n \in 1..n /\ Entry(i) = Order[i - n])
  BY <1>1 DEF Entry
<1>6. \A i \in 1..n : i \in 1..2 * n /\ n + i \in 1..2 * n /\ Entry(i) = Order[i] /\ Entry(n + i) = Order[i] /\ i <= n /\ ~(n + i <= n)
  BY <1>1 DEF Entry
<1> HIDE DEF places, up, n
<1>7. \A i \in places : Entry(i) \in Directly[d]
  <2>1. Below(d) \subseteq Directly[d] /\ up \subseteq Directly[d]
    BY <1>4 DEF Below
  <2> QED
    BY <1>2, <1>3, <1>4, <2>1
<1>8. ASSUME NEW i \in places, NEW j \in places, Entry(i) = Entry(j) PROVE i = j
  <2>1. i \in 1..2 * n /\ j \in 1..2 * n /\ i \in Int /\ j \in Int /\ n \in Int
    BY <1>1, <1>2
  <2>2. low_dirents(d) \cap up = {}
    BY DEF up
  <2>3. i <= n <=> j <= n
    BY <1>3, <1>8, <2>1, <2>2
  <2>4. \A k, l \in 1..n : Order[k] = Order[l] => k = l
    BY OrderAssumption DEF n
  <2>5. CASE i <= n
    <3>1. i \in 1..n /\ j \in 1..n /\ Order[i] = Order[j]
      BY <1>5, <1>8, <2>1, <2>3, <2>5
    <3> QED
      BY <2>4, <3>1
  <2>6. CASE ~(i <= n)
    <3>1. i - n \in 1..n /\ j - n \in 1..n /\ Order[i - n] = Order[j - n]
      BY <1>5, <1>8, <2>1, <2>3, <2>6
    <3>2. i - n = j - n
      BY <2>4, <3>1
    <3> QED
      BY <2>1, <3>2
  <2> QED
    BY <2>5, <2>6
<1>9. ASSUME NEW q \in Children(View, d) PROVE \E i \in places : Entry(i) = q
  <2>1. q \in Directly[d] /\ View[q] # "none" /\ q \in Paths
    BY <1>9, InDir DEF Children
  <2>2. PICK i \in 1..n : Order[i] = q
    BY <2>1, OrderAssumption DEF n
  <2>3. CASE q \in Below(d)
    BY <1>3, <1>4, <1>6, <2>2, <2>3
  <2>4. CASE q \notin Below(d)
    <3>1. q \in up
      BY <1>4, <2>1, <2>4
    <3> QED
      BY <1>3, <1>6, <2>2, <3>1
  <2> QED
    BY <2>3, <2>4
<1> QED
  BY <1>2, <1>7, <1>8, <1>9 DEF places, n

\* Nothing comes to or goes from the directory that is being read, but
\* what the host has there.
EntriesStay ==
  \A q \in Directly[ls.dir] \ Below(ls.dir) : View'[q] = "none" <=> View[q] = "none"

\* What a listing is built from.
Built ==
  Sound => \A d \in Everywhere : cow_merged_dirents(d) =
    {i \in 1..2 * Len(Order) : Entry(i) \in IF i <= Len(Order) THEN Below(d)
                                            ELSE {q \in Directly[d] \ Below(d) : View[q] # "none"}}

LEMMA MapBuilt == Built
BY Dirents DEF Built, cow_merged_dirents

\* If they stay, it is built alike for the next page.
LEMMA MapStays ==
  ASSUME Sound, Sound', ls.dir \in Everywhere, ls'.dir = ls.dir, EntriesStay
  PROVE  Listed' = Listed
<1>1. Built
  BY MapBuilt
<1>2. Built'
  BY MapBuilt, PTL
<1>3. PICK d \in Everywhere : d = ls.dir
  OBVIOUS
<1>4. cow_merged_dirents(d)' = cow_merged_dirents(d)
  BY <1>1, <1>2, <1>3 DEF EntriesStay, Built
<1>5. Listed' = cow_merged_dirents(d)'
  BY <1>3 DEF Listed, cow_merged_dirents, low_dirents, up_dirents
<1> QED
  BY <1>3, <1>4, <1>5 DEF Listed

\* What is on the pages so far and what is before the offset are the same names.
ListInv ==
  \/ ls = NoListing
  \/ /\ ls.dir \in Everywhere
     /\ ls.off \in 0..Cardinality(Listed) /\ ls.got \subseteq Paths
     /\ \A q \in ls.still : q \in Paths /\ View[q] # "none" /\ \E i \in Listed : Entry(i) = q
     /\ \A i \in Listed : Entry(i) \in ls.still => (Place(Listed, i) <= ls.off <=> Entry(i) \in ls.got)
     /\ ls.twice = {}
     /\ ls.done => ls.still \subseteq ls.got

\* Then no entry is shown twice, and at the end none is missing.
LEMMA ListTells == ASSUME Sound, ListInv PROVE ListedOnce
<1>1. CASE ls = NoListing
  BY <1>1, OrderAssumption DEF ListedOnce, NoListing
<1>2. CASE ls # NoListing
  <2>1. Listed \in SUBSET (1..2 * Len(Order))
    BY <1>2, MapFacts DEF ListInv, Listed
  <2>2. Cardinality(Listed) \in Nat /\ Cardinality(Listed) <= 2 * Len(Order)
    BY <2>1, Places
  <2>3. Len(Order) \in Nat
    BY OrderAssumption
  <2>4. ls.off \in 0..2 * Len(Order)
    BY <1>2, <2>2, <2>3 DEF ListInv
  <2> QED
    BY <1>2, <2>4 DEF ListInv, ListedOnce
<1> QED
  BY <1>1, <1>2

\* The guest leaves the directory that it reads as it is.
ReadsUndisturbed == Disciplined /\ "list_changes" \notin Careless

\* What a call that changes at most p leaves in the directory.
LEMMA OnlyAt ==
  ASSUME Sound, NEW p \in Paths, NEW w, View' = w, \A q \in Paths : q # p => w[q] = View[q],
         ls.dir \in Everywhere,
         \/ w[p] = "none" <=> View[p] = "none"
         \/ ls.dir # Parent(p)
         \/ Served[p] = "cow" /\ HostTree[p] # "none"
  PROVE  EntriesStay
<1> SUFFICES ASSUME NEW q \in Directly[ls.dir], q \notin Below(ls.dir) PROVE View'[q] = "none" <=> View[q] = "none"
  BY DEF EntriesStay
<1>1. q \in Paths /\ Parent(q) = ls.dir
  BY InDir
<1>2. ~(Served[q] = "cow" /\ HostTree[q] # "none")
  BY InDir DEF Below
<1>3. CASE q = p
  BY <1>1, <1>2, <1>3
<1>4. CASE q # p
  BY <1>1, <1>4
<1> QED
  BY <1>3, <1>4

\* A call that changes nothing that the guest sees.
LEMMA SameStay == ASSUME View' = View PROVE EntriesStay
BY DEF EntriesStay

\* The calls that make something.
LEMMA CreateStays ==
  ASSUME ViewInv, HostInv', ReadsUndisturbed, ls.dir \in Everywhere, NEW p \in Paths, Open(p),
         sys_mkdirat(p) \/ sys_symlinkat(p)
  PROVE  EntriesStay
<1>1. Sound
  BY ViewSound
<1>2. PICK n \in {"dir", "link"} : CarefulCreate(p) /\ Apply(make(p, n))
  BY DEF sys_mkdirat, sys_symlinkat
<1>3. View[p] # "none" \/ ls.dir # Parent(p)
  BY <1>1, <1>2, Found DEF CarefulCreate, Careful, ReadsUndisturbed
<1> DEFINE w == KMake(View, p, n).tree
<1>4. \/ Leaves(make(p, n), View)
      \/ Leaves(make(p, n), w) /\ \A q \in Paths : q # p => w[q] = View[q]
  BY <1>1, <1>2, MakeLeaves DEF ReadsUndisturbed
<1>5. View[p] # "none" => w = View
  BY <1>1, Found DEF KMake, Answer, Exists
<1> HIDE DEF w
<1>6. CASE Leaves(make(p, n), View)
  BY <1>2, <1>6, ApplyView, SameStay
<1>7. CASE Leaves(make(p, n), w) /\ \A q \in Paths : q # p => w[q] = View[q]
  <2>1. View' = w
    BY <1>2, <1>7, ApplyView
  <2> QED
    BY <1>1, <1>3, <1>5, <1>7, <2>1, OnlyAt
<1> QED
  BY <1>4, <1>6, <1>7

\* open.
LEMMA OpenStays ==
  ASSUME ViewInv, HostInv', ReadsUndisturbed, ls.dir \in Everywhere, NEW p, Open(p), NEW flags, NEW h,
         sys_openat(p, flags, h)
  PROVE  EntriesStay
<1> DEFINE a == openat(p, flags)
           w == KOpen(View, p, flags).tree
<1>1. Sound /\ CarefulOpen(p, flags) /\ Apply(a)
  BY ViewSound DEF sys_openat
<1>2. OpenFine(a, p, flags)
  BY <1>1, OpenLeaves DEF ReadsUndisturbed
<1>3. Leaves(a, View) \/ (p \in Paths /\ Leaves(a, w) /\ \A q \in Paths : q # p => w[q] = View[q])
  BY <1>2 DEF OpenFine
<1>4. ~has_write_flags(flags) => a.upper = upper /\ a.ts = tombstones
  BY <1>2 DEF OpenFine
<1>5. p \in Paths /\ has_write_flags(flags) => View[p] # "none" \/ ls.dir # Parent(p)
  BY <1>1, Found DEF CarefulOpen, CarefulCreate, Careful, ReadsUndisturbed
<1>6. p \in Paths /\ View[p] # "none" => w[p] # "none"
  <2>1. View \in Trees
    BY <1>1, SeenTree, ShownSeen DEF Sound
  <2> QED
    BY <1>1, <2>1, Found, NodeFacts DEF KOpen, Put, Answer, Trees
<1> HIDE DEF a, w
<1>7. CASE Leaves(a, View)
  BY <1>1, <1>7, ApplyView, SameStay
<1>8. CASE ~has_write_flags(flags)
  <2>1. Leaves(a, View)
    BY <1>1, <1>4, <1>8, NothingLeft
  <2> QED
    BY <1>7, <2>1
<1>9. CASE has_write_flags(flags) /\ p \in Paths /\ Leaves(a, w) /\ \A q \in Paths : q # p => w[q] = View[q]
  <2>1. View' = w
    BY <1>1, <1>9, ApplyView
  <2> QED
    BY <1>1, <1>5, <1>6, <1>9, <2>1, OnlyAt
<1> QED
  BY <1>3, <1>7, <1>8, <1>9

\* unlink and rmdir, which take nothing but entries of the host.
LEMMA UnlinkStays ==
  ASSUME ViewInv, HostInv', ReadsUndisturbed, ls.dir \in Everywhere, NEW p \in Paths, Open(p),
         NEW remove_dir \in BOOLEAN, sys_unlinkat(p, remove_dir)
  PROVE  EntriesStay
<1> DEFINE a == unlinkat(p, remove_dir)
           w == IF remove_dir THEN KRmdir(View, p).tree ELSE KUnlink(View, p).tree
<1>1. Sound /\ CarefulUnlink(p, remove_dir) /\ Apply(a)
  BY ViewSound DEF sys_unlinkat
<1>2. Leaves(a, View) \/ (Leaves(a, w) /\ \A q \in Paths : q # p => w[q] = View[q])
  BY <1>1, UnlinkLeaves DEF ReadsUndisturbed
<1>3. ls.dir # Parent(p) \/ (Served[p] = "cow" /\ HostTree[p] # "none")
  BY <1>1, Found DEF CarefulUnlink, CarefulRemove, Careful, ReadsUndisturbed
<1> HIDE DEF a, w
<1>4. CASE Leaves(a, View)
  BY <1>1, <1>4, ApplyView, SameStay
<1>5. CASE Leaves(a, w) /\ \A q \in Paths : q # p => w[q] = View[q]
  <2>1. View' = w
    BY <1>1, <1>5, ApplyView
  <2> QED
    BY <1>1, <1>3, <1>5, <2>1, OnlyAt
<1> QED
  BY <1>2, <1>4, <1>5

\* rename, from an entry of the host to one that is there.
LEMMA RenameStays ==
  ASSUME ViewInv, HostInv', ReadsUndisturbed, ls.dir \in Everywhere, NEW p \in Paths, NEW q \in Paths,
         Open(p), Open(q), sys_renameat(p, q)
  PROVE  EntriesStay
<1> DEFINE a == renameat(p, q, FALSE)
           w == KRename(View, p, q, FALSE).tree
<1>1. Sound /\ CarefulRename(p, q) /\ Apply(a)
  BY ViewSound DEF sys_renameat
<1>2. \/ Leaves(a, View)
      \/ Leaves(a, w) /\ a.upper[q] = View[p] /\ w[p] # View[p] /\ \A r \in Paths \ {p, q} : w[r] = View[r]
  BY <1>1, RenameLeaves DEF ReadsUndisturbed
<1>3. /\ ls.dir # Parent(p) \/ (Served[p] = "cow" /\ HostTree[p] # "none")
      /\ View[q] # "none" \/ ls.dir # Parent(q)
  BY <1>1, Found DEF CarefulRename, CarefulCreate, CarefulRemove, Careful, ReadsUndisturbed
<1> HIDE DEF a, w
<1>4. CASE Leaves(a, View)
  BY <1>1, <1>4, ApplyView, SameStay
<1>5. CASE Leaves(a, w) /\ w[p] # View[p] /\ \A r \in Paths \ {p, q} : w[r] = View[r]
  <2>1. View' = w
    BY <1>1, <1>5, ApplyView
  <2>2. w[q] # "none"
    <3>1. View \in Trees /\ Look(View, p) = View[p] /\ Look(View, q) = View[q]
      BY <1>1, SeenTree, ShownSeen, Found DEF Sound
    <3> QED
      BY <1>5, <3>1 DEF KRename, Answer, Trees, w
  <2> SUFFICES ASSUME NEW r \in Directly[ls.dir], r \notin Below(ls.dir) PROVE View'[r] = "none" <=> View[r] = "none"
    BY DEF EntriesStay
  <2>3. r \in Paths /\ Parent(r) = ls.dir /\ ~(Served[r] = "cow" /\ HostTree[r] # "none")
    BY InDir DEF Below
  <2>4. r # p
    BY <1>3, <2>3
  <2> QED
    BY <1>3, <1>5, <2>1, <2>2, <2>3, <2>4
<1> QED
  BY <1>2, <1>4, <1>5

\* fchmod and utimensat.
LEMMA TouchStays ==
  ASSUME ViewInv, HostInv', ReadsUndisturbed, NEW p \in Paths, Open(p), sys_fchmodat(p) \/ sys_utimensat(p)
  PROVE  EntriesStay
<1>1. PICK checks \in BOOLEAN : CarefulTouch(p) /\ Apply(touch(p, checks))
  BY DEF sys_fchmodat, sys_utimensat
<1>2. Leaves(touch(p, checks), View)
  BY <1>1, ViewSound, TouchLeaves DEF ReadsUndisturbed
<1> QED
  BY <1>1, <1>2, ApplyView, SameStay

\* A write removes nothing.
LEMMA WriteStays ==
  ASSUME ViewInv, HostInv', Disciplined, NEW h \in Handles, sys_write(h)
  PROVE  \A q \in Paths : View'[q] = "none" <=> View[q] = "none"
<1>1. Sound /\ Good
  BY ViewSound, WriteGood
<1>2. Sound'
  <2>1. ViewInv'
    BY <1>1 DEF Good
  <2> QED
    BY <2>1 DEF ViewInv, Tracked, Sound, HostInv, HostUntouched, LowerKept
<1>3. View = Seen(upper, tombstones) /\ View' = Seen(upper', tombstones)
  <2>1. View' = Seen(upper', tombstones')
    BY <1>2, ViewLater
  <2> QED
    BY <1>1, <2>1, ShownSeen DEF Sound, sys_write
<1> DEFINE at == handle[h].at
<1>4. \A q \in Paths : upper'[q] = upper[q] \/ (upper'[q] = "new" /\ upper[q] \in Contents)
  <2>1. CASE handle[h].layer = "upper" /\ handle[h].name # Gone
    <3>1. at \in Paths /\ upper[at] \in Contents
      BY <2>1, HandleOld, HandleUpper DEF HandleAt
    <3>2. upper' = [upper EXCEPT ![at] = "new"]
      BY <2>1 DEF sys_write
    <3>3. upper \in Trees
      BY <1>1 DEF Sound, Layers
    <3> QED
      BY <3>1, <3>2, <3>3 DEF Trees
  <2>2. CASE ~(handle[h].layer = "upper" /\ handle[h].name # Gone)
    BY <2>2 DEF sys_write
  <2> QED
    BY <2>1, <2>2
<1>5. \A q \in Paths : upper'[q] = "none" <=> upper[q] = "none"
  BY <1>4, NodeFacts
<1> QED
  BY <1>3, <1>5 DEF Seen, Sees

\* A step that leaves the directory as it is leaves its reading as it is.
LEMMA ListKept ==
  ASSUME Sound, Sound', ListInv, ls # NoListing, EntriesStay,
         \/ ls' = [ls EXCEPT !.still = {q \in @ : Shown(q)' # "none"}]
         \/ ls' = ls /\ \A q \in Paths : View'[q] = "none" <=> View[q] = "none",
         ListingTyped
  PROVE  ListInv'
<1>1. ls.dir \in Everywhere
  BY DEF ListInv
<1>2. /\ ls'.dir = ls.dir /\ ls'.off = ls.off /\ ls'.got = ls.got /\ ls'.twice = ls.twice /\ ls'.done = ls.done
      /\ ls'.still \subseteq ls.still
  BY DEF ListingTyped
<1>3. \A q \in ls'.still : View'[q] # "none"
  <2>1. \A q \in ls.still : q \in Paths /\ View[q] # "none"
    BY DEF ListInv
  <2>2. CASE ls' = [ls EXCEPT !.still = {q \in @ : Shown(q)' # "none"}]
    <3>1. ls'.still = {q \in ls.still : Shown(q)' # "none"}
      BY <2>2 DEF ListingTyped
    <3>2. \A q \in Paths : Shown(q)' = View'[q]
      BY DEF View
    <3> QED
      BY <2>1, <3>1, <3>2
  <2>3. CASE ls' = ls /\ \A q \in Paths : View'[q] = "none" <=> View[q] = "none"
    BY <2>1, <2>3
  <2> QED
    BY <2>2, <2>3
<1>4. Listed' = Listed
  BY <1>1, <1>2, MapStays
<1> QED
  BY <1>1, <1>2, <1>3, <1>4 DEF ListInv

\* The directory is opened.
LEMMA ListOpened ==
  ASSUME Sound, NEW p, Open(p), opendir(p)
  PROVE  ListInv'
<1>1. /\ ls'.dir = p /\ ls'.off = 0 /\ ls'.got = {} /\ ls'.still = Children(View, p) /\ ls'.twice = {} /\ ls'.done = FALSE
      /\ p \in Everywhere
  BY DEF opendir, NoListing, Open
<1>2. UNCHANGED <<lower, upper, tombstones>>
  BY DEF opendir
<1>3. Sound'
  BY <1>2 DEF Sound
<1>4. View' = View
  BY <1>3, <1>2, ViewLater, ShownSeen DEF Sound
<1> DEFINE places == cow_merged_dirents(p)
<1>5. /\ places \in SUBSET (1..2 * Len(Order))
      /\ \A q \in Children(View, p) : \E i \in places : Entry(i) = q
  BY <1>1, MapFacts
<1>6. Listed' = places
  BY <1>1, <1>2 DEF Listed, cow_merged_dirents, low_dirents, up_dirents
<1> HIDE DEF places
<1>7. Cardinality(places) \in Nat /\ \A i \in places : Place(places, i) >= 1 /\ Place(places, i) \in Nat
  BY <1>5, Places
<1>8. \A q \in Children(View, p) : q \in Paths /\ View[q] # "none"
  BY <1>1, InDir DEF Children
<1> QED
  BY <1>1, <1>4, <1>5, <1>6, <1>7, <1>8 DEF ListInv

\* A page is read.
LEMMA ListRead ==
  ASSUME Sound, ListInv, ListingTyped, sys_getdents64
  PROVE  ListInv'
<1> DEFINE s == serialize_entries(Listed)
<1>1. /\ ls.dir \in Everywhere /\ ls.off \in 0..Cardinality(Listed) /\ ls.got \subseteq Paths
      /\ \A q \in ls.still : q \in Paths /\ View[q] # "none" /\ \E i \in Listed : Entry(i) = q
      /\ \A i \in Listed : Entry(i) \in ls.still => (Place(Listed, i) <= ls.off <=> Entry(i) \in ls.got)
      /\ ls.twice = {}
  BY DEF ListInv, sys_getdents64, Listing, NoListing
<1>2. UNCHANGED <<lower, upper, tombstones>>
  BY DEF sys_getdents64
<1>3. /\ ls'.dir = ls.dir /\ ls'.still = ls.still /\ ls'.off = s.off /\ ls'.got = ls.got \cup s.names
      /\ ls'.twice = ls.twice \cup (s.names \cap ls.got \cap ls.still) /\ ls'.done = (s.names = {})
  BY DEF sys_getdents64, ListingTyped, Listed
<1>4. Sound'
  BY <1>2 DEF Sound
<1>5. View' = View
  BY <1>2, <1>4, ViewLater, ShownSeen DEF Sound
<1>6. Listed' = Listed
  BY <1>2, <1>3 DEF Listed, cow_merged_dirents, low_dirents, up_dirents
<1>7. /\ Listed \in SUBSET (1..2 * Len(Order))
      /\ \A i \in Listed : Entry(i) \in Directly[ls.dir]
      /\ \A i, j \in Listed : Entry(i) = Entry(j) => i = j
  BY <1>1, MapFacts DEF Listed
<1> HIDE DEF s
<1>8. PICK page \in SUBSET Listed :
           /\ s.names = Entries(page)
           /\ s.off \in 0..Cardinality(Listed) /\ ls.off <= s.off
           /\ \A i \in page : Place(Listed, i) > ls.off /\ Place(Listed, i) <= s.off
           /\ \A i \in Listed : Place(Listed, i) <= s.off /\ i \notin page => Place(Listed, i) <= ls.off \/ Entry(i) \in tombstones
           /\ page = {} => \A i \in Listed : Place(Listed, i) <= ls.off \/ Entry(i) \in tombstones
  BY <1>1, <1>7, PageTaken DEF s
<1>9. \A i \in Listed : Place(Listed, i) \in Nat /\ Entry(i) \in Paths
  BY <1>1, <1>7, Places, InDir
<1>10. \A i \in Listed : Entry(i) \in ls.still => Entry(i) \notin tombstones
  <2>1. \A q \in Paths : View[q] # "none" => q \notin tombstones
    BY Found DEF Sees, Covered
  <2> QED
    BY <1>1, <2>1
<1>11. \A i \in Listed : Entry(i) \in s.names <=> i \in page
  BY <1>7, <1>8 DEF Entries
<1>12. ls.off \in Nat /\ s.off \in Nat
  BY <1>1, <1>7, <1>8, Places
<1>13. \A i \in Listed : Entry(i) \in ls.still => (Place(Listed, i) <= s.off <=> Entry(i) \in ls.got \/ Entry(i) \in s.names)
  <2> SUFFICES ASSUME NEW i \in Listed, Entry(i) \in ls.still
               PROVE  Place(Listed, i) <= s.off <=> Entry(i) \in ls.got \/ i \in page
    BY <1>11
  <2>1. Place(Listed, i) <= ls.off <=> Entry(i) \in ls.got
    BY <1>1
  <2>2. Place(Listed, i) <= s.off /\ i \notin page => Place(Listed, i) <= ls.off
    BY <1>8, <1>10
  <2>3. Place(Listed, i) <= ls.off => Place(Listed, i) <= s.off
    BY <1>8, <1>9, <1>12
  <2>4. i \in page => Place(Listed, i) <= s.off
    BY <1>8
  <2> QED
    BY <2>1, <2>2, <2>3, <2>4
<1>14. s.names \cap ls.got \cap ls.still = {}
  <2> SUFFICES ASSUME NEW q \in s.names, q \in ls.got, q \in ls.still PROVE FALSE
    OBVIOUS
  <2>1. PICK i \in page : Entry(i) = q
    BY <1>8 DEF Entries
  <2>2. Place(Listed, i) <= ls.off /\ Place(Listed, i) > ls.off /\ Place(Listed, i) \in Nat
    BY <1>1, <1>8, <1>9, <2>1
  <2> QED
    BY <1>12, <2>2
<1>15. s.names = {} => ls.still \subseteq ls.got
  <2> SUFFICES ASSUME s.names = {}, NEW q \in ls.still PROVE q \in ls.got
    OBVIOUS
  <2>1. PICK i \in Listed : Entry(i) = q
    BY <1>1
  <2>2. page = {}
    BY <1>8, <1>11
  <2> QED
    BY <1>1, <1>8, <1>10, <2>1, <2>2
<1>16. s.names \subseteq Paths
  BY <1>8, <1>9 DEF Entries
<1> QED
  BY <1>1, <1>3, <1>5, <1>6, <1>8, <1>13, <1>14, <1>15, <1>16 DEF ListInv

\* Every step, while a directory is read.
LEMMA StepStays ==
  ASSUME ViewInv, HostInv', ReadsUndisturbed, [Next]_vars, ls.dir \in Everywhere
  PROVE  \/ EntriesStay /\ ls' = [ls EXCEPT !.still = {q \in @ : Shown(q)' # "none"}]
         \/ EntriesStay /\ ls' = ls /\ \A q \in Paths : View'[q] = "none" <=> View[q] = "none"
         \/ sys_getdents64
         \/ ls' = NoListing
<1> DEFINE Changing == EntriesStay /\ ls' = [ls EXCEPT !.still = {q \in @ : Shown(q)' # "none"}]
           Quiet == ls' = ls /\ \A q \in Paths : View'[q] = "none" <=> View[q] = "none"
<1>1. Disciplined
  BY DEF ReadsUndisturbed
<1>2. ASSUME NEW p \in Named, NEW flags \in OpenFlags, NEW h \in Handles, sys_openat(p, flags, h) PROVE Changing
  BY <1>2, NamedOpen, OpenStays DEF sys_openat, Apply
<1>3. ASSUME NEW p \in Named \ Roots,
             sys_mkdirat(p) \/ sys_symlinkat(p)
      PROVE  Changing
  BY <1>3, NamedOpen, CreateStays DEF sys_mkdirat, sys_symlinkat, Apply
<1>4. ASSUME NEW p \in Named \ Roots, sys_fchmodat(p) \/ sys_utimensat(p) PROVE Changing
  BY <1>4, NamedOpen, TouchStays DEF sys_fchmodat, sys_utimensat, Apply
<1>5. ASSUME NEW p \in Named \ Roots, NEW remove_dir \in BOOLEAN, sys_unlinkat(p, remove_dir) PROVE Changing
  BY <1>5, NamedOpen, UnlinkStays DEF sys_unlinkat, Apply
<1>6. ASSUME NEW p \in Named \ Roots, NEW q \in Named \ Roots, sys_renameat(p, q) PROVE Changing
  BY <1>6, NamedOpen, RenameStays DEF sys_renameat, Apply
<1>7. ASSUME NEW h \in Handles, sys_write(h) PROVE Quiet
  <2>1. ls' = ls
    BY <1>7 DEF sys_write
  <2> QED
    BY <1>1, <1>7, <2>1, WriteStays
<1>8. ASSUME UNCHANGED <<lower, upper, tombstones, ls>> PROVE Quiet
  <2>1. Sound /\ Sound'
    BY <1>8, ViewSound DEF Sound
  <2>2. View' = View
    BY <1>8, <2>1, ViewLater, ShownSeen DEF Sound
  <2> QED
    BY <1>8, <2>2
<1>9. ASSUME NEW p, opendir(p) PROVE FALSE
  BY <1>9, GoneAssumption DEF opendir, Listing
<1>10. ASSUME Quiet PROVE EntriesStay
  <2>1. \A q \in Directly[ls.dir] : q \in Paths
    BY InDir
  <2> QED
    BY <1>10, <2>1 DEF EntriesStay
<1>11. ASSUME NEW h \in Handles, sys_close(h) PROVE Quiet
  BY <1>8, <1>11 DEF sys_close
<1>12. ASSUME NEW p, sys_chdir(p) PROVE Quiet
  BY <1>8, <1>12 DEF sys_chdir
<1>13. CASE sys_fchdir
  BY <1>8, <1>10, <1>13 DEF sys_fchdir
<1>14. CASE UNCHANGED vars
  BY <1>8, <1>10, <1>14 DEF vars
<1>15. CASE closedir \/ make_supervisor
  BY <1>15 DEF closedir, make_supervisor
<1> HIDE DEF Quiet, Changing
<1>16. Quiet => EntriesStay
  BY <1>10
<1>17. Changing \/ Quiet \/ sys_getdents64 \/ closedir \/ make_supervisor \/ sys_fchdir \/ UNCHANGED vars
  BY <1>2, <1>3, <1>4, <1>5, <1>6, <1>7, <1>9, <1>11, <1>12 DEF Next
<1> QED
  BY <1>13, <1>14, <1>15, <1>16, <1>17 DEF Quiet, Changing

\* The third invariant is kept, given the second one.
LEMMA ListKeeps ==
  ASSUME ViewInv, ListInv, ReadsUndisturbed, [Next]_vars
  PROVE  ListInv'
<1>1. HostInv' /\ Sound /\ ListingTyped /\ ViewInv'
  BY HostStep, ViewSound, ViewKeeps DEF ViewInv, HostInv, ReadsUndisturbed, Good
<1>2. Sound'
  BY <1>1 DEF ViewInv, Tracked, Sound, HostInv, HostUntouched, LowerKept
<1>3. CASE ls = NoListing
  <2>1. CASE \E p : Open(p) /\ opendir(p)
    BY <1>1, <2>1, ListOpened
  <2>2. CASE ~(\E p : Open(p) /\ opendir(p))
    <3>1. ls' = ls \/ ls' = [ls EXCEPT !.still = {q \in @ : Shown(q)' # "none"}] \/ ls' = NoListing
      <4>1. ~Listing
        BY <1>3 DEF Listing, NoListing
      <4>2. \A p \in Named : ~opendir(p)
        BY <2>2, NamedOpen
      <4> QED
        BY <4>1, <4>2 DEF Next, vars, Apply, sys_openat, sys_mkdirat, sys_symlinkat, sys_unlinkat, sys_renameat, sys_fchmodat,
             sys_utimensat, sys_chdir, sys_fchdir, sys_close, sys_write, sys_getdents64, closedir, make_supervisor
    <3>2. ASSUME ls' = [ls EXCEPT !.still = {q \in @ : Shown(q)' # "none"}] PROVE ls' = NoListing
      <4> DEFINE S == {q \in ls.still : Shown(q)' # "none"}
      <4>1. S = {}
        BY <1>3 DEF NoListing
      <4>2. ls' = [ls EXCEPT !.still = S]
        BY <3>2
      <4> HIDE DEF S
      <4> QED
        BY <1>3, <4>1, <4>2 DEF NoListing
    <3> QED
      BY <1>3, <3>1, <3>2 DEF ListInv
  <2> QED
    BY <2>1, <2>2
<1>4. CASE ls # NoListing
  <2>1. ls.dir \in Everywhere
    BY <1>4 DEF ListInv
  <2>2. CASE sys_getdents64
    BY <1>1, <2>2, ListRead
  <2>3. CASE ls' = NoListing
    BY <2>3 DEF ListInv
  <2> QED
    BY <1>1, <1>2, <1>4, <2>1, <2>2, <2>3, StepStays, ListKept
<1> QED
  BY <1>3, <1>4

\* A directory that is read page by page while the guest goes on shows what is there
\* all the time, and shows it once, whatever is written, renamed over or deleted from
\* the host's entries between two pages (cow_merged_dirents, serialize_entries), as
\* long as no other entry of it comes or goes.
THEOREM ListingAlwaysOnce ==
  ASSUME Disciplined, "list_changes" \notin Careless
  PROVE  Spec => []ListedOnce
<1>1. ViewInv /\ ListInv /\ [Next]_vars => (ViewInv /\ ListInv)'
  BY ViewKeeps, ListKeeps DEF Good, ReadsUndisturbed
<1>2. Init => ViewInv /\ ListInv
  BY ViewStart DEF Init, ListInv
<1>3. ViewInv /\ ListInv => ListedOnce
  BY ViewSound, ListTells
<1> QED
  BY <1>1, <1>2, <1>3, PTL DEF Spec
=============================================================================
