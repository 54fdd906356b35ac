------------------------------ MODULE Storage ------------------------------
(* Trees of files that the host copies: overlays of sandboxes, snapshots,   *)
(* cached archives and directories of the host (snapshot.rs, fileio.rs,     *)
(* cache.rs, archive.rs, and the requests of registry.rs that call them).   *)
(* Every copy works file by file while guests write and other requests run. *)
(*                                                                         *)
(* One directory of a guest is followed.  A tree says whether the directory *)
(* is there and which version each of its files has; 0 is no file.          *)
EXTENDS Integers, FiniteSets, Sequences, SequencesExt

CONSTANTS
  Clients,         \* requests in flight (spawn_blocking threads)
  Uids, Ids, Keys, \* sandboxes, snapshot ids, cache keys
  Names, Ignored,  \* files of the directory; those an ignore file excludes
  MaxVersion,      \* versions of a file
  MaxOps,          \* requests started
  MaxWrites,       \* writes and deletions by guests
  Extends,         \* for each key, the keys it is a proper prefix of
  Starts,          \* contents to start from
  Careless         \* what requests and guests may do beyond the usual

Versions == 0..MaxVersion
Tree == [there : BOOLEAN, f : [Names -> Versions]]
NoTree == [there |-> FALSE, f |-> [n \in Names |-> 0]]
NoKey == "none"
Places == {<<"sb", u>> : u \in Uids} \cup {<<"snap", i>> : i \in Ids}
          \cup {<<"obj", k>> : k \in Keys} \cup {<<"host">>, <<"lower">>}

ASSUME StorageAssumption ==
  /\ Names # {} /\ IsFiniteSet(Keys) /\ NoKey \notin Keys /\ "guest" \notin Clients
  /\ Ignored \subseteq Names /\ {MaxVersion, MaxOps, MaxWrites} \subseteq Nat
  /\ Extends \in [Keys -> SUBSET Keys]
  /\ \A s \in Starts : /\ s.files \in [Places -> Tree]
                       /\ \A p \in Places : s.files[p].there \/ s.files[p] = NoTree
                       /\ s.boxes \subseteq Uids /\ s.stamp \in [Keys -> Nat]

VARIABLES
  files,           \* the tree at every place
  boxes,           \* uids of the sandboxes that are registered
  whole, stamp,    \* archives that are complete; their modification times
  tomb,            \* tombstones of the running guests
  op,              \* the request of each client
  started, writes  \* counters for the bounds
vars == <<files, boxes, whole, stamp, tomb, op, started, writes>>

Nothing == [n \in Names |-> {}]
NoOp == [what |-> "none", pc |-> "idle", src |-> <<"host">>, dst |-> <<"host">>, key |-> NoKey,
         todo |-> {}, held |-> NoTree.f, cut |-> FALSE, seen |-> Nothing, wrote |-> Nothing]

Init ==
  /\ \E s \in Starts : files = s.files /\ boxes = s.boxes /\ stamp = s.stamp
  /\ whole = {k \in Keys : files[<<"obj", k>>].there}
  /\ tomb = [u \in Uids |-> {}]
  /\ op = [c \in Clients |-> NoOp]
  /\ started = 0 /\ writes = 0

-----------------------------------------------------------------------------
(* What a guest sees of the directory, and what the host reads for it.      *)
Lower == files[<<"lower">>]
GuestView(u, n) ==
  IF n \in tomb[u] THEN 0
  ELSE IF files[<<"sb", u>>].f[n] # 0 THEN files[<<"sb", u>>].f[n] ELSE Lower.f[n]

\* Mutant: only the upper layer is looked at.
read_file_upper(u, n) == files[<<"sb", u>>].f[n]
read_file(u, n) ==
  IF files[<<"sb", u>>].f[n] # 0 THEN files[<<"sb", u>>].f[n] ELSE Lower.f[n]

(* The layer a directory is read from: the upper one as soon as it is there.*)
read_real_path(u) == IF files[<<"sb", u>>].there THEN <<"sb", u>> ELSE <<"lower">>

With(p, tree) == [files EXCEPT ![p] = tree]
\* Mutant: writing a file does not make its directory.
Put_bare(p, n, x) == With(p, [files[p] EXCEPT !.f[n] = x])
Put(p, n, x) == With(p, [there |-> TRUE, f |-> [files[p].f EXCEPT ![n] = x]])

-----------------------------------------------------------------------------
(* Bookkeeping of the properties: seen has every version a request's source *)
(* showed while it ran, wrote what others gave its destination meanwhile.   *)
Active(o) == o.pc \in {"list", "copy", "ok"}
Shown(o, fs, n) ==
  IF o.what = "save" /\ o.src[1] = "sb" /\ fs[o.src].f[n] = 0 THEN fs[<<"lower">>].f[n]
  ELSE fs[o.src].f[n]
Watched(o, fs, mine) ==
  IF ~Active(o) THEN o
  ELSE [o EXCEPT !.seen = [n \in Names |-> @[n] \cup {Shown(o, fs, n)}],
                 !.wrote = [n \in Names |-> IF mine \/ fs[o.dst].f[n] = files[o.dst].f[n]
                                            THEN @[n] ELSE @[n] \cup {fs[o.dst].f[n]}]]
Commit(who, fs, ops) ==
  /\ files' = fs
  /\ op' = [d \in Clients |-> Watched(ops[d], fs, d = who)]
To(c, o) == [op EXCEPT ![c] = o]

-----------------------------------------------------------------------------
(* Requests arrive.  fork and branch make their sandbox first.              *)
Idle(c) == op[c].pc = "idle" /\ started < MaxOps
Ask(c, what, src, dst, key) ==
  /\ op' = To(c, [NoOp EXCEPT !.what = what, !.pc = "begin", !.src = src, !.dst = dst, !.key = key])
  /\ started' = started + 1
  /\ UNCHANGED <<files, whole, stamp, tomb, writes>>

(* The sandbox that branch or fork is filling is registered already; that  *)
(* nobody uses it before they return is an assumption.                      *)
Usable == {u \in boxes : "early_use" \in Careless
                          \/ \A c \in Clients : op[c].what \in {"branch", "fork"} => op[c].dst # <<"sb", u>>}

(* The tombstones of a running guest hide what the host puts where the      *)
(* guest has deleted; the host waits for the guest's end.                   *)
Refillable(u) == "write_deleted" \in Careless \/ tomb[u] = {}
Unfilled(u) == "write_deleted" \in Careless \/ \A c \in Clients : op[c].dst # <<"sb", u>>

snapshot(c) == \E u \in Usable, i \in Ids :
  Ask(c, "snapshot", <<"sb", u>>, <<"snap", i>>, NoKey) /\ UNCHANGED boxes
rollback(c) == \E u \in Usable, i \in Ids :
  Refillable(u) /\ Ask(c, "rollback", <<"snap", i>>, <<"sb", u>>, NoKey) /\ UNCHANGED boxes
(* A uid is drawn at random; no earlier sandbox had it.                    *)
Fresh == {u \in Uids \ boxes : tomb[u] = {} /\ \A c \in Clients : <<"sb", u>> \notin {op[c].src, op[c].dst}}

branch(c) == \E u \in Fresh, i \in Ids :
  Ask(c, "branch", <<"snap", i>>, <<"sb", u>>, NoKey) /\ boxes' = boxes \cup {u}
fork(c) == \E u \in Fresh, s \in Usable :
  Ask(c, "fork", <<"sb", s>>, <<"sb", u>>, NoKey) /\ boxes' = boxes \cup {u}

OneLayer(u) == "two_layers" \in Careless \/ ~(files[<<"sb", u>>].there /\ Lower.there)
Unused(k) == "same_key" \in Careless
             \/ \A d \in Clients : <<"obj", k>> # op[d].dst /\ (<<"obj", k>> = op[d].src => op[d].pc # "copy")

save(c) == \E u \in Usable, k \in Keys :
  /\ OneLayer(u) /\ Unused(k)
  /\ Ask(c, "save", read_real_path(u), <<"obj", k>>, k) /\ UNCHANGED boxes
restore(c) == \E u \in Usable, k \in Keys :
  Refillable(u) /\ Ask(c, "restore", <<"obj", k>>, <<"sb", u>>, k) /\ UNCHANGED boxes
copy_into(c) == \E u \in Usable :
  Refillable(u) /\ Ask(c, "copy_into", <<"host">>, <<"sb", u>>, NoKey) /\ UNCHANGED boxes
copy_out_of(c) == \E u \in Usable :
  OneLayer(u) /\ Ask(c, "copy_out", read_real_path(u), <<"host">>, NoKey) /\ UNCHANGED boxes

Request(c) ==
  /\ Idle(c)
  /\ \/ snapshot(c) \/ rollback(c) \/ branch(c) \/ fork(c)
     \/ save(c) \/ restore(c) \/ copy_into(c) \/ copy_out_of(c)

-----------------------------------------------------------------------------
(* The start of a copy: whether there is a source, and what becomes of the  *)
(* destination before the first file is copied.                             *)
End(c, pc) == [op[c] EXCEPT !.pc = pc, !.todo = {}]

\* Mutant: the target is not cleared before a copy.
remove_dir_all_never(p) == files
remove_dir_all(p) == With(p, NoTree)

begin_copy(c) ==
  LET o == op[c] IN
  /\ o.pc = "begin" /\ o.what \in {"snapshot", "rollback", "branch", "fork"}
  /\ \/ /\ files[o.src].there
        /\ Commit(c, remove_dir_all(o.dst), To(c, [o EXCEPT !.pc = "list"]))
     \/ /\ ~files[o.src].there /\ o.what = "snapshot"
        /\ Commit(c, With(o.dst, [NoTree EXCEPT !.there = TRUE]), To(c, End(c, "ok")))
     \/ /\ ~files[o.src].there /\ o.what = "fork"
        /\ Commit(c, remove_dir_all(o.dst), To(c, End(c, "ok")))
     \/ /\ ~files[o.src].there /\ o.what \in {"rollback", "branch"}
        /\ Commit(c, files, To(c, End(c, "failed")))
  /\ UNCHANGED <<boxes, whole, stamp, tomb, started, writes>>

Now == 1 + CHOOSE x \in {stamp[k] : k \in Keys} : \A k \in Keys : stamp[k] <= x

begin_save(c) ==
  LET o == op[c] IN
  /\ o.pc = "begin" /\ o.what = "save"
  /\ IF files[o.src].there
     THEN /\ Commit(c, With(o.dst, [NoTree EXCEPT !.there = TRUE]), To(c, [o EXCEPT !.pc = "list"]))
          /\ whole' = whole \ {o.key} /\ stamp' = [stamp EXCEPT ![o.key] = Now]
     ELSE Commit(c, files, To(c, End(c, "failed"))) /\ UNCHANGED <<whole, stamp>>
  /\ UNCHANGED <<boxes, tomb, started, writes>>

(* resolve: the loop over the entries of the cache directory keeps the      *)
(* first newest archive whose name starts with the key.                     *)
Stored(k) == files[<<"obj", k>>].there
\* Mutant: the last entry with the prefix wins, whatever its age.
Better_last(best, k) == TRUE
Better(best, k) == best = NoKey \/ stamp[k] > stamp[best]
resolve(key, order) ==
  LET best[n \in 0..Len(order)] ==
        IF n = 0 THEN NoKey
        ELSE IF Stored(order[n]) /\ order[n] \in Extends[key] /\ Better(best[n - 1], order[n])
             THEN order[n] ELSE best[n - 1]
  IN IF Stored(key) THEN key ELSE best[Len(order)]

begin_restore(c) ==
  LET o == op[c] IN
  /\ o.pc = "begin" /\ o.what = "restore"
  /\ \E order \in SetToSeqs(Keys) :
       LET hit == resolve(o.key, order) IN
       IF hit = NoKey THEN Commit(c, files, To(c, End(c, "failed")))
       ELSE Commit(c, With(o.dst, [files[o.dst] EXCEPT !.there = TRUE]),
                   To(c, [o EXCEPT !.pc = "list", !.src = <<"obj", hit>>]))
  /\ UNCHANGED <<boxes, whole, stamp, tomb, started, writes>>

begin_transfer(c) ==
  LET o == op[c] IN
  /\ o.pc = "begin" /\ o.what \in {"copy_into", "copy_out"}
  /\ Commit(c, files, To(c, IF files[o.src].there THEN [o EXCEPT !.pc = "list"]
                            ELSE End(c, "failed")))
  /\ UNCHANGED <<boxes, whole, stamp, tomb, started, writes>>

-----------------------------------------------------------------------------
(* walk, read_dir and the entries of an archive; then one file after the    *)
(* other.  A file that is gone by its turn ends the request with an error.  *)
Present(p) == {n \in Names : files[p].f[n] # 0}
Makes(o) == o.what \in {"snapshot", "rollback", "branch", "fork"}

\* Mutant: build and cache directories are archived too.
walk_dirty(o) == Present(o.src)
walk(o) == Present(o.src) \ (IF Makes(o) \/ o.what = "restore" THEN {} ELSE Ignored)

list(c) ==
  LET o == op[c] IN
  /\ o.pc = "list"
  /\ IF files[o.src].there
     THEN Commit(c, IF Makes(o) THEN With(o.dst, [files[o.dst] EXCEPT !.there = TRUE]) ELSE files,
                 To(c, [o EXCEPT !.pc = "copy", !.todo = walk(o), !.held = files[o.src].f,
                                 !.cut = o.what = "restore" /\ o.src[2] \notin whole]))
     ELSE Commit(c, files, To(c, End(c, "failed")))
  /\ UNCHANGED <<boxes, whole, stamp, tomb, started, writes>>

(* An archive that is open stays readable, other files may have gone.       *)
Source(o, n) == IF o.what = "restore" THEN o.held[n] ELSE files[o.src].f[n]

copy_file(c) ==
  LET o == op[c] IN
  /\ o.pc = "copy"
  /\ \E n \in o.todo :
       IF Source(o, n) = 0
       THEN Commit(c, files, To(c, End(c, "failed")))
       ELSE Commit(c, Put(o.dst, n, Source(o, n)), To(c, [o EXCEPT !.todo = @ \ {n}]))
  /\ UNCHANGED <<boxes, whole, stamp, tomb, started, writes>>

\* Mutant: an archive that was cut short is extracted as it is.
Complete_any(o) == TRUE
(* The end of an archive that was cut short is an error of its reader.      *)
Complete(o) == ~o.cut

finish(c) ==
  LET o == op[c] IN
  /\ o.pc = "copy" /\ o.todo = {}
  /\ Commit(c, files, To(c, End(c, IF Complete(o) THEN "ok" ELSE "failed")))
  /\ whole' = (IF o.what = "save" THEN whole \cup {o.key} ELSE whole)
  /\ stamp' = (IF o.what = "save" THEN [stamp EXCEPT ![o.key] = Now] ELSE stamp)
  /\ UNCHANGED <<boxes, tomb, started, writes>>

\* Mutant: nothing is undone.
undo_none(o) == {}
\* Mutant: the partial archive stays.
undo_keeps(o) == IF o.what \in {"branch", "fork"} THEN {o.dst} ELSE {}
(* What a request undoes when it fails: save removes its archive, branch    *)
(* and fork free the sandbox they had made.                                 *)
undo(o) == IF o.what \in {"branch", "fork"} THEN {o.dst}
           ELSE IF o.what = "save" /\ o.seen # Nothing THEN {o.dst} ELSE {}

cleanup(c) ==
  LET o == op[c] IN
  /\ o.pc = "failed"
  /\ Commit(c, [p \in Places |-> IF p \in undo(o) THEN NoTree ELSE files[p]],
            To(c, [o EXCEPT !.pc = "undone"]))
  /\ boxes' = boxes \ {u \in Uids : <<"sb", u>> \in undo(o)}
  /\ UNCHANGED <<whole, stamp, tomb, started, writes>>

answer(c) ==
  /\ op[c].pc \in {"ok", "undone"}
  /\ op' = To(c, NoOp)
  /\ UNCHANGED <<files, boxes, whole, stamp, tomb, started, writes>>

-----------------------------------------------------------------------------
(* Requests that are one step on a tree.                                    *)
Quick(c) == Idle(c) /\ started' = started + 1

write_file(c) ==
  /\ Quick(c)
  /\ \E u \in Usable, n \in Names, x \in 1..MaxVersion :
       Refillable(u) /\ Commit(c, Put(<<"sb", u>>, n, x), op)
  /\ UNCHANGED <<boxes, whole, stamp, tomb, writes>>

delete_snapshot(c) ==
  /\ Quick(c)
  /\ \E i \in Ids : files[<<"snap", i>>].there /\ Commit(c, With(<<"snap", i>>, NoTree), op)
  /\ UNCHANGED <<boxes, whole, stamp, tomb, writes>>

remove(c) ==
  /\ Quick(c)
  /\ \E k \in Keys : /\ Stored(k) /\ Unused(k)
                     /\ Commit(c, With(<<"obj", k>>, NoTree), op) /\ whole' = whole \ {k}
  /\ UNCHANGED <<boxes, stamp, tomb, writes>>

clear(c) ==
  /\ Quick(c)
  /\ \A k \in Keys : Unused(k)
  /\ Commit(c, [p \in Places |-> IF p[1] = "obj" THEN NoTree ELSE files[p]], op)
  /\ whole' = {}
  /\ UNCHANGED <<boxes, stamp, tomb, writes>>

-----------------------------------------------------------------------------
(* The guests, through the overlay of their sandbox.                        *)
GuestWrites ==
  /\ writes < MaxWrites /\ writes' = writes + 1
  /\ \E u \in Usable, n \in Names :
       /\ \E x \in 1..MaxVersion : Commit("guest", Put(<<"sb", u>>, n, x), op)
       /\ tomb' = [tomb EXCEPT ![u] = @ \ {n}]
  /\ UNCHANGED <<boxes, whole, stamp, started>>

(* A directory that the host does not have is taken for one of /tmp, where  *)
(* deletions leave no tombstones.                                           *)
GuestDeletes ==
  /\ writes < MaxWrites /\ writes' = writes + 1
  /\ \E u \in Usable, n \in Names :
       /\ GuestView(u, n) # 0 /\ (Lower.f[n] = 0 \/ "delete_lower" \in Careless)
       /\ Lower.there => Unfilled(u)
       /\ Commit("guest", With(<<"sb", u>>, [files[<<"sb", u>>] EXCEPT !.f[n] = 0]), op)
       /\ tomb' = (IF Lower.there THEN [tomb EXCEPT ![u] = @ \cup {n}] ELSE tomb)
  /\ UNCHANGED <<boxes, whole, stamp, started>>

(* Tombstones are in the memory of a supervisor; the next run has its own.  *)
GuestEnds ==
  /\ \E u \in Uids : tomb[u] # {} /\ tomb' = [tomb EXCEPT ![u] = {}]
  /\ UNCHANGED <<files, boxes, whole, stamp, op, started, writes>>

(* The daemon dies, and with it the requests, the guests and tombstones. *)
Crash ==
  /\ "crash_in_save" \in Careless \/ \A c \in Clients : op[c].what # "save"
  /\ op' = [c \in Clients |-> NoOp] /\ tomb' = [u \in Uids |-> {}]
  /\ UNCHANGED <<files, boxes, whole, stamp, started, writes>>

Step(c) ==
  \/ begin_copy(c) \/ begin_save(c) \/ begin_restore(c) \/ begin_transfer(c)
  \/ list(c) \/ copy_file(c) \/ finish(c) \/ cleanup(c) \/ answer(c)

Next ==
  \/ \E c \in Clients : \/ Request(c) \/ Step(c)
                        \/ write_file(c) \/ delete_snapshot(c) \/ remove(c) \/ clear(c)
  \/ GuestWrites \/ GuestDeletes \/ GuestEnds \/ Crash

Spec == Init /\ [][Next]_vars

-----------------------------------------------------------------------------
TypeOK ==
  /\ files \in [Places -> Tree] /\ boxes \subseteq Uids /\ whole \subseteq Keys
  /\ \A p \in Places : ~files[p].there => files[p] = NoTree
  /\ tomb \in [Uids -> SUBSET Names]
  /\ \A c \in Clients : op[c].todo \subseteq Names
                        /\ op[c].pc \in {"idle", "begin", "list", "copy", "ok", "failed", "undone"}

(* A snapshot, rollback, branch or fork that succeeds leaves, for every     *)
(* file, a version its source really had while it ran or one that a guest   *)
(* or another request wrote to the copy meanwhile: nothing of what the      *)
(* destination held before (snapshot.rs).                                   *)
CopyFaithful ==
  \A c \in Clients : op[c].pc = "ok" /\ Makes(op[c]) =>
    \A n \in Names : files[op[c].dst].f[n] \in op[c].seen[n] \cup op[c].wrote[n]

(* A branch or fork that fails leaves neither a sandbox nor an overlay      *)
(* (registry.rs branch, fork).                                              *)
FailedBranchGone ==
  \A c \in Clients : op[c].pc = "undone" /\ op[c].what \in {"branch", "fork"} =>
    op[c].dst[2] \notin boxes /\ ~files[op[c].dst].there

(* An archive that nobody is writing is complete: a save that fails does    *)
(* not leave a truncated one behind (cache.rs save).                        *)
ArchivesWhole ==
  \A k \in Keys : Stored(k) /\ (\A c \in Clients : op[c].dst # <<"obj", k>>) => k \in whole

(* A saved archive holds the files of the directory as the sandbox saw them *)
(* while it was packed, without those its ignore files exclude (cache.rs    *)
(* save, archive.rs walk).                                                  *)
SaveIsView ==
  \A c \in Clients : op[c].pc = "ok" /\ op[c].what = "save" =>
    \A n \in Names : files[op[c].dst].f[n] \in IF n \in Ignored THEN {0} ELSE op[c].seen[n]

(* A restore uses the archive of the key itself if there is one, else a     *)
(* newest one whose key the given one starts, whatever the order in which   *)
(* the directory is read (cache.rs resolve).                                *)
ResolveNewest ==
  \A key \in Keys : \A order \in SetToSeqs(Keys) :
    LET r == resolve(key, order)
        hits == {k \in Extends[key] : Stored(k)}
    IN IF Stored(key) THEN r = key
       ELSE IF hits = {} THEN r = NoKey
       ELSE r \in hits /\ \A k \in hits : stamp[k] <= stamp[r]

(* A restore that succeeds has read a complete archive and has put every    *)
(* file of it into the overlay; one that meets an archive still being       *)
(* written fails (cache.rs restore, archive.rs unpack_tar).                 *)
RestoreComplete ==
  \A c \in Clients : op[c].pc = "ok" /\ op[c].what = "restore" =>
    /\ ~op[c].cut
    /\ \A n \in Names : op[c].held[n] # 0 =>
         files[op[c].dst].f[n] \in {op[c].held[n]} \cup op[c].wrote[n]

(* The host reads a file of a sandbox as its running guest sees it, whose   *)
(* tombstones it cannot see (fileio.rs read_file, write_file).              *)
ReadAsGuest == \A u \in boxes, n \in Names : read_file(u, n) = GuestView(u, n)

(* Copies of overlays hold what their source had, and one that fails leaves *)
(* no sandbox (snapshot, rollback, branch, fork).                           *)
CopiesRight == TypeOK /\ CopyFaithful /\ FailedBranchGone

(* An archive is whole and holds what the sandbox saw (save, pack).         *)
ArchivesRight == ArchivesWhole /\ SaveIsView

(* A restore takes the right archive and all of it (resolve, restore).      *)
RestoresRight == ResolveNewest /\ RestoreComplete
=============================================================================
