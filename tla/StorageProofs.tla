---------------------------- MODULE StorageProofs ----------------------------
(***************************************************************************)
(* Proofs about the copies of trees, for any number of requests, guests'   *)
(* writes, sandboxes, snapshots, archives and files: what a copy, an       *)
(* archive or a restore that succeeds holds, and what one that fails       *)
(* leaves behind.                                                          *)
(***************************************************************************)
EXTENDS Storage, FiniteSetTheorems, WellFoundedInduction, TLAPS

-----------------------------------------------------------------------------
(* The loop of resolve.                                                    *)

\* A set of numbers that is not empty has a least element.
LEMMA LeastOf ==
  ASSUME NEW S \in SUBSET Nat, S # {}
  PROVE  \E x \in S : \A y \in S : x <= y
<1> DEFINE R == OpToRel(<, Nat)
<1>1. IsWellFoundedOn(R, Nat)
  BY NatLessThanWellFounded
<1>2. PICK x \in S : \A y \in S : ~(<<y, x>> \in R)
  <2> HIDE DEF R
  <2> QED
    BY <1>1, WFMin
<1>3. ASSUME NEW y \in S PROVE x <= y
  <2>1. ~(<<y, x>> \in {ss \in Nat \X Nat : ss[1] < ss[2]})
    BY <1>2 DEF OpToRel
  <2> QED
    BY <2>1
<1> QED
  BY <1>3

\* A loop over numbered entries that carries a value has a result after each of them.
Follows(g, L, start, next) == g[0] = start /\ \A n \in 1..L : g[n] = next[n][g[n - 1]]

LEMMA LoopDefined ==
  ASSUME NEW L \in Nat, NEW V, NEW start \in V, NEW next \in [1..L -> [V -> V]]
  PROVE  \E g \in [0..L -> V] : Follows(g, L, start, next)
<1> USE DEF Follows
<1> DEFINE Runs(m) == {g \in [0..m -> V] : Follows(g, m, start, next)}
           Stuck == {m \in 0..L : Runs(m) = {}}
<1>1. SUFFICES Stuck = {}
  <2>1. L \in 0..L
    OBVIOUS
  <2>2. Runs(L) # {}
    BY <1>1, <2>1
  <2> QED
    BY <2>2
<1>2. SUFFICES ASSUME Stuck # {} PROVE FALSE
  OBVIOUS
<1>3. PICK m \in Stuck : \A y \in Stuck : m <= y
  <2>1. Stuck \in SUBSET Nat
    OBVIOUS
  <2> QED
    BY <1>2, <2>1, LeastOf
<1>4. CASE m = 0
  <2> DEFINE g == [n \in 0..0 |-> start]
  <2>1. g \in Runs(0)
    OBVIOUS
  <2> QED
    BY <1>4, <2>1
<1>5. CASE m # 0
  <2>0. m \in 0..L /\ \A y \in Stuck : m <= y
    BY <1>3
  <2> HIDE DEF Stuck
  <2>1. m - 1 \in 0..L /\ m \in 1..L /\ m - 1 \notin Stuck
    BY <1>5, <2>0
  <2> USE DEF Stuck
  <2>2. PICK h \in Runs(m - 1) : TRUE
    BY <2>1
  <2>3. h \in [0..m - 1 -> V] /\ h[0] = start /\ \A n \in 1..m - 1 : h[n] = next[n][h[n - 1]]
    BY <2>2
  <2> DEFINE last == next[m][h[m - 1]]
             g == [n \in 0..m |-> IF n = m THEN last ELSE h[n]]
  <2>4. last \in V
    BY <2>1, <2>3
  <2> HIDE DEF last
  <2>5. g \in [0..m -> V] /\ g[0] = start
    BY <2>1, <2>3, <2>4
  <2>6. \A n \in 1..m : g[n] = next[n][g[n - 1]]
    BY <2>1, <2>3 DEF last
  <2>7. g \in Runs(m)
    BY <2>5, <2>6
  <2> QED
    BY <1>3, <2>7
<1> QED
  BY <1>4, <1>5

\* What the loop of resolve keeps after each entry.
Hit(key, k) == Stored(k) /\ k \in Extends[key]
Kept(key, order, n, b) ==
  /\ b = NoKey => \A i \in 1..n : ~Hit(key, order[i])
  /\ b # NoKey => /\ b \in Keys /\ Hit(key, b)
                  /\ \A i \in 1..n : Hit(key, order[i]) => stamp[order[i]] <= stamp[b]

LEMMA ResolveLoop ==
  ASSUME stamp \in [Keys -> Nat], NEW key \in Keys, NEW L \in Nat, NEW order \in [1..L -> Keys],
         Len(order) = L, ~Stored(key)
  PROVE  Kept(key, order, L, resolve(key, order))
<1> DEFINE V == Keys \cup {NoKey}
           Takes(b, k) == Stored(k) /\ k \in Extends[key] /\ Better(b, k)
           next == [n \in 1..L |-> [b \in V |-> IF Takes(b, order[n]) THEN order[n] ELSE b]]
           Loop(g) == g = [n \in 0..Len(order) |->
                             IF n = 0 THEN NoKey
                             ELSE IF Stored(order[n]) /\ order[n] \in Extends[key] /\ Better(g[n - 1], order[n])
                                  THEN order[n] ELSE g[n - 1]]
<1>1. PICK g \in [0..L -> V] : g[0] = NoKey /\ \A n \in 1..L : g[n] = next[n][g[n - 1]]
  <2>1. next \in [1..L -> [V -> V]] /\ NoKey \in V
    OBVIOUS
  <2> HIDE DEF next, V
  <2>2. \E g \in [0..L -> V] : Follows(g, L, NoKey, next)
    BY <2>1, LoopDefined
  <2> QED
    BY <2>2 DEF Follows
<1>2. \A n \in 1..L : g[n - 1] \in V /\ g[n] = IF Takes(g[n - 1], order[n]) THEN order[n] ELSE g[n - 1]
  <2> TAKE n \in 1..L
  <2>1. PICK b \in V : b = g[n - 1]
    BY <1>1
  <2>2. next[n][b] = IF Takes(b, order[n]) THEN order[n] ELSE b
    <3> HIDE DEF Takes
    <3> QED
      OBVIOUS
  <2> QED
    BY <1>1, <2>1, <2>2
<1>3. Loop(g)
  <2>1. \A n \in 0..L : g[n] = IF n = 0 THEN NoKey
                               ELSE IF Takes(g[n - 1], order[n]) THEN order[n] ELSE g[n - 1]
    BY <1>1, <1>2
  <2> QED
    BY <2>1
<1> DEFINE best == CHOOSE b : Loop(b)
<1>4. Loop(best)
  <2> HIDE DEF Loop
  <2> QED
    BY <1>3
<1>5. resolve(key, order) = best[L]
  BY Zenon DEF resolve
<1> HIDE DEF best
<1>6. best[0] = NoKey /\ \A n \in 1..L : best[n] = IF Takes(best[n - 1], order[n])
                                            THEN order[n] ELSE best[n - 1]
  BY <1>4
<1> HIDE DEF Takes, next, Loop
<1> DEFINE Wrong == {n \in 0..L : ~Kept(key, order, n, best[n])}
<1>7. SUFFICES Wrong = {}
  BY <1>5, <1>7
<1>8. SUFFICES ASSUME Wrong # {} PROVE FALSE
  OBVIOUS
<1>9. PICK n \in Wrong : \A y \in Wrong : n <= y
  <2>1. Wrong \in SUBSET Nat
    OBVIOUS
  <2> QED
    BY <1>8, <2>1, LeastOf
<1>10. n # 0
  <2>1. Kept(key, order, 0, best[0])
    BY <1>6 DEF Kept
  <2> QED
    BY <1>9, <2>1
<1>11. n \in 1..L /\ n - 1 \in 0..L /\ n - 1 \notin Wrong
  BY <1>9, <1>10
<1>12. PICK b : b = best[n - 1] /\ Kept(key, order, n - 1, b)
  BY <1>11
<1>13. PICK k \in Keys : k = order[n]
  BY <1>11
<1>14. best[n] = IF Takes(b, k) THEN k ELSE b
  BY <1>6, <1>11, <1>12, <1>13
<1>15. \A i \in 1..n : i \in 1..n - 1 \/ order[i] = k
  BY <1>11, <1>13
<1>16. stamp[k] \in Nat /\ NoKey \notin Keys /\ (b # NoKey => b \in Keys /\ stamp[b] \in Nat)
       /\ \A i \in 1..n : order[i] \in Keys /\ stamp[order[i]] \in Nat
  BY <1>11, <1>12, StorageAssumption DEF Kept
<1>17. Takes(b, k) <=> Hit(key, k) /\ (b = NoKey \/ stamp[k] > stamp[b])
  BY DEF Takes, Hit, Better
<1>18. Kept(key, order, n, best[n])
  <2>1. CASE Takes(b, k)
    <3>1. best[n] = k /\ k # NoKey /\ Hit(key, k)
      BY <1>14, <1>16, <1>17, <2>1
    <3>2. ASSUME NEW i \in 1..n, Hit(key, order[i]) PROVE stamp[order[i]] <= stamp[k]
      <4>1. CASE order[i] = k
        BY <1>16, <4>1
      <4>2. CASE i \in 1..n - 1
        BY <1>12, <1>16, <1>17, <2>1, <3>2, <4>2 DEF Kept
      <4> QED
        BY <1>15, <4>1, <4>2
    <3> QED
      BY <3>1, <3>2 DEF Kept
  <2>2. CASE ~Takes(b, k)
    BY <1>12, <1>14, <1>15, <1>16, <1>17, <2>2 DEF Kept
  <2> QED
    BY <2>1, <2>2
<1> QED
  BY <1>9, <1>18

\* Every archive is an entry of the directory.
LEMMA AllListed ==
  ASSUME NEW order \in SetToSeqs(Keys)
  PROVE  /\ Cardinality(Keys) \in Nat /\ order \in [1..Cardinality(Keys) -> Keys]
         /\ Len(order) = Cardinality(Keys)
         /\ \A k \in Keys : \E i \in 1..Cardinality(Keys) : order[i] = k
<1>1. IsFiniteSet(Keys) /\ Cardinality(Keys) \in Nat
  BY StorageAssumption, FS_CardinalityType
<1> DEFINE L == Cardinality(Keys)
<1>2. order \in [1..L -> Keys] /\ \A i, j \in 1..L : i # j => order[i] # order[j]
  BY DEF SetToSeqs
<1>3. IsFiniteSet(1..L) /\ Cardinality(1..L) = L
  BY <1>1, FS_Interval
<1>4. order \in Injection(1..L, Keys)
  BY <1>2 DEF Injection, IsInjective
<1>5. order \in Surjection(1..L, Keys)
  BY <1>1, <1>3, <1>4, FS_Injection
<1> QED
  BY <1>1, <1>2, <1>5 DEF Surjection

LEMMA NewestResolved == ASSUME stamp \in [Keys -> Nat] PROVE ResolveNewest
<1> SUFFICES ASSUME NEW key \in Keys, NEW order \in SetToSeqs(Keys)
             PROVE  LET r == resolve(key, order)
                        hits == {k \in Extends[key] : Stored(k)}
                    IN IF Stored(key) THEN r = key
                       ELSE IF hits = {} THEN r = NoKey
                       ELSE r \in hits /\ \A k \in hits : stamp[k] <= stamp[r]
  BY DEF ResolveNewest
<1>1. CASE Stored(key)
  BY <1>1, Zenon DEF resolve
<1>2. CASE ~Stored(key)
  <2>1. Kept(key, order, Cardinality(Keys), resolve(key, order))
    BY <1>2, AllListed, ResolveLoop
  <2>2. Extends[key] \subseteq Keys
    BY StorageAssumption
  <2>3. \A k \in Keys : Hit(key, k) => \E i \in 1..Cardinality(Keys) : order[i] = k
    BY AllListed
  <2> QED
    BY <1>2, <2>1, <2>2, <2>3 DEF Kept, Hit
<1> QED
  BY <1>1, <1>2

-----------------------------------------------------------------------------
(* Types.                                                                  *)

Whats == {"none", "snapshot", "rollback", "branch", "fork", "save", "restore", "copy_into", "copy_out"}
Stages == {"idle", "begin", "list", "copy", "ok", "failed", "undone"}
OpRecord == [what : Whats, pc : Stages, src : Places, dst : Places, key : Keys \cup {NoKey},
             todo : SUBSET Names, held : [Names -> Versions], cut : BOOLEAN,
             seen : [Names -> SUBSET Versions], wrote : [Names -> SUBSET Versions]]

\* A directory that is not there has no files.
Tidy(fs) == fs \in [Places -> Tree] /\ \A p \in Places : fs[p].there \/ fs[p] = NoTree

\* Between which places each request copies.
KindOK(o) ==
  /\ o.what = "none" <=> o.pc = "idle"
  /\ o.what = "none" => o.dst = <<"host">>
  /\ o.what = "snapshot" => o.dst[1] = "snap" /\ o.src[1] = "sb"
  /\ o.what \in {"rollback", "branch"} => o.dst[1] = "sb" /\ o.src[1] = "snap"
  /\ o.what = "fork" => o.dst[1] = "sb" /\ o.src[1] = "sb"
  /\ o.what = "copy_into" => o.dst[1] = "sb" /\ o.src[1] = "host"
  /\ o.what = "restore" => o.dst[1] = "sb" /\ o.src[1] = "obj" /\ o.key \in Keys
  /\ o.what = "save" => o.dst = <<"obj", o.key>> /\ o.key \in Keys /\ o.src[1] \in {"sb", "lower"}
  /\ o.what = "copy_out" => o.dst = <<"host">> /\ o.src[1] \in {"sb", "lower"}
  /\ o.what # "none" => o.src # o.dst
  /\ o.pc \notin {"list", "copy"} => o.todo = {}
  /\ o.what = "save" => ~o.cut

StorageTypes ==
  /\ Tidy(files) /\ boxes \subseteq Uids /\ whole \subseteq Keys /\ stamp \in [Keys -> Nat]
  /\ tomb \in [Uids -> SUBSET Names]
  /\ op \in [Clients -> OpRecord] /\ \A c \in Clients : KindOK(op[c])

LEMMA PlaceFacts ==
  /\ \A u \in Uids : <<"sb", u>> \in Places /\ <<"sb", u>>[1] = "sb"
  /\ \A i \in Ids : <<"snap", i>> \in Places /\ <<"snap", i>>[1] = "snap"
  /\ \A k \in Keys : <<"obj", k>> \in Places /\ <<"obj", k>>[1] = "obj"
  /\ <<"host">> \in Places /\ <<"host">>[1] = "host" /\ <<"lower">> \in Places /\ <<"lower">>[1] = "lower"
  /\ \A p \in Places : /\ p[1] \in {"sb", "snap", "obj", "host", "lower"}
                       /\ p[1] = "sb" => \E u \in Uids : p = <<"sb", u>>
                       /\ p[1] = "obj" => \E k \in Keys : p = <<"obj", k>>
                       /\ p[1] = "lower" => p = <<"lower">>
BY DEF Places

LEMMA TreeFacts ==
  /\ NoTree \in Tree /\ \A n \in Names : NoTree.f[n] = 0
  /\ [NoTree EXCEPT !.there = TRUE] \in Tree
  /\ \A t \in Tree : [t EXCEPT !.there = TRUE] \in Tree /\ [t EXCEPT !.there = TRUE].there
                     /\ [t EXCEPT !.there = TRUE].f = t.f
  /\ [NoTree EXCEPT !.there = TRUE].there /\ [NoTree EXCEPT !.there = TRUE].f = NoTree.f
  /\ ~NoTree.there /\ 0 \in Versions
  /\ \A t \in Tree, n \in Names, x \in Versions :
       /\ [there |-> TRUE, f |-> [t.f EXCEPT ![n] = x]] \in Tree
       /\ [t EXCEPT !.f[n] = x] \in Tree /\ [t EXCEPT !.f[n] = x].there = t.there
<1>1. MaxVersion \in Nat /\ 0 \in Versions
  BY StorageAssumption DEF Versions
<1>2. NoTree \in Tree /\ ~NoTree.there /\ \A n \in Names : NoTree.f[n] = 0
  BY <1>1 DEF NoTree, Tree
<1>3. \A t \in Tree : [t EXCEPT !.there = TRUE] \in Tree /\ [t EXCEPT !.there = TRUE].there
                     /\ [t EXCEPT !.there = TRUE].f = t.f
  BY DEF Tree
<1>4. ASSUME NEW t \in Tree, NEW n \in Names, NEW x \in Versions
      PROVE  /\ [there |-> TRUE, f |-> [t.f EXCEPT ![n] = x]] \in Tree
             /\ [t EXCEPT !.f[n] = x] \in Tree /\ [t EXCEPT !.f[n] = x].there = t.there
  <2>1. PICK g \in [Names -> Versions] : g = [t.f EXCEPT ![n] = x]
    BY DEF Tree
  <2>2. [t EXCEPT !.f[n] = x] = [t EXCEPT !.f = g]
    BY <2>1
  <2> QED
    BY <2>1, <2>2 DEF Tree
<1> QED
  BY <1>1, <1>2, <1>3, <1>4

\* A tree is put at one place.
LEMMA WithTidy ==
  ASSUME Tidy(files), NEW p \in Places, NEW t \in Tree, t.there \/ t = NoTree
  PROVE  Tidy(With(p, t)) /\ With(p, t)[p] = t /\ \A q \in Places \ {p} : With(p, t)[q] = files[q]
BY DEF Tidy, With

LEMMA PutTidy ==
  ASSUME Tidy(files), NEW p \in Places, NEW n \in Names, NEW x \in Versions
  PROVE  /\ Tidy(Put(p, n, x)) /\ \A q \in Places \ {p} : Put(p, n, x)[q] = files[q]
         /\ Put(p, n, x)[p].f = [files[p].f EXCEPT ![n] = x]
<1> DEFINE t == [there |-> TRUE, f |-> [files[p].f EXCEPT ![n] = x]]
<1>1. t \in Tree /\ t.there /\ t.f = [files[p].f EXCEPT ![n] = x]
  BY TreeFacts DEF Tidy
<1> HIDE DEF t
<1>2. Put(p, n, x) = With(p, t)
  BY DEF Put, t
<1> QED
  BY <1>1, <1>2, WithTidy

\* What watching adds to the record of a request.
IsWatched(o, fs, mine, q) ==
  /\ q \in OpRecord
  /\ q.what = o.what /\ q.pc = o.pc /\ q.src = o.src /\ q.dst = o.dst /\ q.key = o.key
  /\ q.todo = o.todo /\ q.held = o.held /\ q.cut = o.cut
  /\ ~Active(o) => q = o
  /\ Active(o) => \A n \in Names :
       /\ q.seen[n] = o.seen[n] \cup {Shown(o, fs, n)}
       /\ q.wrote[n] = IF mine \/ fs[o.dst].f[n] = files[o.dst].f[n]
                       THEN o.wrote[n] ELSE o.wrote[n] \cup {fs[o.dst].f[n]}
  /\ mine => q.wrote = o.wrote

LEMMA WatchedIs ==
  ASSUME Tidy(files), NEW o \in OpRecord, NEW fs, Tidy(fs), NEW mine \in BOOLEAN
  PROVE  IsWatched(o, fs, mine, Watched(o, fs, mine))
<1> USE DEF IsWatched
<1>1. CASE ~Active(o)
  BY <1>1 DEF Watched
<1>2. CASE Active(o)
  <2>1. o.src \in Places /\ o.dst \in Places /\ <<"lower">> \in Places
    BY PlaceFacts DEF OpRecord
  <2>2. \A n \in Names : Shown(o, fs, n) \in Versions /\ fs[o.dst].f[n] \in Versions
    BY <2>1 DEF Tidy, Tree, Shown
  <2>3. o.seen \in [Names -> SUBSET Versions] /\ o.wrote \in [Names -> SUBSET Versions]
    BY DEF OpRecord
  <2>4. PICK s \in [Names -> SUBSET Versions] : s = [n \in Names |-> o.seen[n] \cup {Shown(o, fs, n)}]
    BY <2>2, <2>3
  <2>5. PICK w \in [Names -> SUBSET Versions] :
          w = [n \in Names |-> IF mine \/ fs[o.dst].f[n] = files[o.dst].f[n]
                               THEN o.wrote[n] ELSE o.wrote[n] \cup {fs[o.dst].f[n]}]
    BY <2>2, <2>3
  <2>6. Watched(o, fs, mine) = [o EXCEPT !.seen = s, !.wrote = w]
    BY <1>2, <2>4, <2>5 DEF Watched
  <2>7. mine => w = o.wrote
    BY <2>3, <2>5
  <2>8. LET q == [o EXCEPT !.seen = s, !.wrote = w] IN
        /\ q \in OpRecord /\ q.seen = s /\ q.wrote = w
        /\ q.what = o.what /\ q.pc = o.pc /\ q.src = o.src /\ q.dst = o.dst /\ q.key = o.key
        /\ q.todo = o.todo /\ q.held = o.held /\ q.cut = o.cut
    BY DEF OpRecord
  <2>9. \A n \in Names : /\ s[n] = o.seen[n] \cup {Shown(o, fs, n)}
                         /\ w[n] = IF mine \/ fs[o.dst].f[n] = files[o.dst].f[n]
                                   THEN o.wrote[n] ELSE o.wrote[n] \cup {fs[o.dst].f[n]}
    BY <2>4, <2>5
  <2> QED
    BY <1>2, <2>6, <2>7, <2>8, <2>9
<1> QED
  BY <1>1, <1>2

-----------------------------------------------------------------------------
(* What a step does to requests.                                           *)

SameRequest(o, q) ==
  /\ q.what = o.what /\ q.src = o.src /\ q.dst = o.dst /\ q.key = o.key /\ q.held = o.held /\ q.cut = o.cut

\* A request that another actor's step leaves where it is: it has seen its source and
\* knows what was written to its destination.
Watches(d) ==
  LET o == op[d]
      q == op'[d] IN
  /\ SameRequest(o, q) /\ q.pc = o.pc /\ q.todo = o.todo
  /\ ~Active(o) => q = o
  /\ Active(o) => \A n \in Names :
       /\ o.seen[n] \subseteq q.seen[n] /\ Shown(o, files', n) \in q.seen[n]
       /\ o.wrote[n] \subseteq q.wrote[n]
       /\ files'[o.dst].f[n] = files[o.dst].f[n] \/ files'[o.dst].f[n] \in q.wrote[n]

LEMMA CommitIs ==
  ASSUME StorageTypes, NEW fs, Tidy(fs), NEW who, NEW ops \in [Clients -> OpRecord], Commit(who, fs, ops)
  PROVE  /\ files' = fs /\ op' \in [Clients -> OpRecord]
         /\ \A d \in Clients : IsWatched(ops[d], fs, d = who, op'[d])
         /\ \A d \in Clients : d # who /\ ops[d] = op[d] => Watches(d)
<1>1. files' = fs /\ op' = [d \in Clients |-> Watched(ops[d], fs, d = who)]
  BY DEF Commit
<1>2. ASSUME NEW d \in Clients
      PROVE  IsWatched(ops[d], fs, d = who, Watched(ops[d], fs, d = who))
  BY WatchedIs DEF StorageTypes
<1>3. \A d \in Clients : op'[d] = Watched(ops[d], fs, d = who) /\ IsWatched(ops[d], fs, d = who, op'[d])
  BY <1>1, <1>2
<1>4. op' \in [Clients -> OpRecord]
  <2>1. \A d \in Clients : Watched(ops[d], fs, d = who) \in OpRecord
    BY <1>2 DEF IsWatched
  <2> QED
    BY <1>1, <2>1
<1>5. ASSUME NEW d \in Clients, d # who, ops[d] = op[d]
      PROVE  Watches(d)
  <2>1. IsWatched(op[d], fs, FALSE, op'[d])
    BY <1>3, <1>5
  <2>2. PICK o, q : o = op[d] /\ q = op'[d] /\ IsWatched(o, fs, FALSE, q)
    BY <2>1
  <2>3. SameRequest(o, q) /\ q.pc = o.pc /\ q.todo = o.todo /\ (~Active(o) => q = o)
    BY <2>2 DEF IsWatched, SameRequest
  <2>4. ASSUME Active(o), NEW n \in Names
        PROVE  /\ o.seen[n] \subseteq q.seen[n] /\ Shown(o, fs, n) \in q.seen[n]
               /\ o.wrote[n] \subseteq q.wrote[n]
               /\ fs[o.dst].f[n] = files[o.dst].f[n] \/ fs[o.dst].f[n] \in q.wrote[n]
    <3>1. PICK x : x = Shown(o, fs, n)
      OBVIOUS
    <3>2. PICK y, z : y = fs[o.dst].f[n] /\ z = files[o.dst].f[n]
      OBVIOUS
    <3>3. q.seen[n] = o.seen[n] \cup {x} /\ q.wrote[n] = IF y = z THEN o.wrote[n] ELSE o.wrote[n] \cup {y}
      BY <2>2, <2>4, <3>1, <3>2 DEF IsWatched
    <3> QED
      BY <3>1, <3>2, <3>3
  <2> QED
    BY <1>1, <2>2, <2>3, <2>4 DEF Watches
<1> QED
  BY <1>1, <1>3, <1>4, <1>5

\* The step of a request on its own behalf.
LEMMA OwnIs ==
  ASSUME StorageTypes, NEW c \in Clients, NEW o2 \in OpRecord, NEW fs, Tidy(fs), Commit(c, fs, To(c, o2))
  PROVE  LET q == op'[c] IN
         /\ files' = fs /\ op' \in [Clients -> OpRecord]
         /\ \A d \in Clients \ {c} : Watches(d)
         /\ SameRequest(o2, q) /\ q.pc = o2.pc /\ q.todo = o2.todo /\ q.wrote = o2.wrote
         /\ Active(o2) => \A n \in Names : q.seen[n] = o2.seen[n] \cup {Shown(o2, fs, n)}
         /\ ~Active(o2) => q = o2
<1>1. To(c, o2) \in [Clients -> OpRecord] /\ To(c, o2)[c] = o2
      /\ \A d \in Clients \ {c} : To(c, o2)[d] = op[d]
  BY DEF To, StorageTypes
<1>2. IsWatched(o2, fs, TRUE, op'[c]) /\ files' = fs /\ op' \in [Clients -> OpRecord]
      /\ \A d \in Clients \ {c} : Watches(d)
  <2>1. IsWatched(To(c, o2)[c], fs, c = c, op'[c]) /\ files' = fs /\ op' \in [Clients -> OpRecord]
        /\ \A d \in Clients : d # c /\ To(c, o2)[d] = op[d] => Watches(d)
    BY <1>1, CommitIs
  <2> QED
    BY <1>1, <2>1
<1> QED
  BY <1>2 DEF IsWatched, SameRequest

\* How a request goes on.
Blank(t) == \A n \in Names : t.f[n] = 0
Starts_list(c, o, q) ==
  /\ o.pc = "begin" /\ q.pc = "list" /\ q.todo = {}
  /\ IF o.what = "restore" THEN \E k \in Keys : q.src = <<"obj", k>> ELSE q.src = o.src
  /\ Makes(o) => Blank(files'[o.dst])
  /\ o.what = "save" => Blank(files'[o.dst]) /\ files'[o.dst].there
  /\ whole' = IF o.what = "save" THEN whole \ {o.key} ELSE whole
  /\ q.cut = o.cut
Starts_ok(c, o, q) ==
  /\ o.pc = "begin" /\ q.pc = "ok" /\ q.todo = {} /\ q.src = o.src /\ q.cut = o.cut
  /\ o.what \in {"snapshot", "fork"} /\ ~files[o.src].there /\ Blank(files'[o.dst])
  /\ UNCHANGED whole
Fails(c, o, q) ==
  /\ o.pc \in {"begin", "list", "copy"} /\ q.pc = "failed" /\ q.todo = {} /\ q.src = o.src /\ q.cut = o.cut
  /\ UNCHANGED files /\ (UNCHANGED whole \/ (o.what = "save" /\ o.cut))
Lists(c, o, q) ==
  /\ o.pc = "list" /\ q.pc = "copy" /\ q.src = o.src
  /\ q.todo = walk(o) /\ q.held = files[o.src].f
  /\ q.cut = (o.what = "restore" /\ o.src[2] \notin whole)
  /\ files'[o.dst].f = files[o.dst].f /\ (files[o.dst].there => files'[o.dst].there)
  /\ UNCHANGED whole
Copies(c, o, q) ==
  /\ o.pc = "copy" /\ q.pc = "copy" /\ q.src = o.src /\ q.held = o.held /\ q.cut = o.cut
  /\ \E n \in o.todo : /\ q.todo = o.todo \ {n} /\ Source(o, n) # 0
                       /\ files'[o.dst].f = [files[o.dst].f EXCEPT ![n] = Source(o, n)]
  /\ UNCHANGED whole
Ends(c, o, q) ==
  /\ o.pc = "copy" /\ o.todo = {} /\ q.pc = "ok" /\ q.todo = {} /\ ~o.cut
  /\ q.src = o.src /\ q.held = o.held /\ q.cut = o.cut
  /\ UNCHANGED files
  /\ whole' = IF o.what = "save" THEN whole \cup {o.key} ELSE whole
Undoes(c, o, q) ==
  /\ o.pc = "failed" /\ q.pc = "undone" /\ q.todo = {} /\ q.src = o.src /\ q.cut = o.cut
  /\ \A p \in Places : files'[p] = IF p \in undo(o) THEN NoTree ELSE files[p]
  /\ UNCHANGED whole

\* The record a request has after its own step, and the only place it has changed.
OwnMove(c) ==
  LET o == op[c]
      q == op'[c] IN
  /\ q.what = o.what /\ q.dst = o.dst /\ q.key = o.key /\ q.wrote = o.wrote
  /\ IF q.pc \in {"list", "copy", "ok"}
     THEN \A n \in Names : q.seen[n] = o.seen[n] \cup {Shown(q, files', n)} ELSE q.seen = o.seen
  /\ \A p \in Places \ {o.dst} : files'[p] = files[p]
  /\ boxes' = IF o.pc = "failed" THEN boxes \ {u \in Uids : <<"sb", u>> \in undo(o)} ELSE boxes
  /\ \/ Starts_list(c, o, q) \/ Starts_ok(c, o, q) \/ Fails(c, o, q) \/ Lists(c, o, q)
     \/ Copies(c, o, q) \/ Ends(c, o, q) \/ Undoes(c, o, q)
Worked(c) ==
  /\ OwnMove(c) /\ \A d \in Clients \ {c} : Watches(d)
  /\ op' \in [Clients -> OpRecord] /\ Tidy(files')

\* What holds of every step of a request, and what the record it writes has.
WorkBase(c) ==
  LET o == op[c]
      q == op'[c] IN
  /\ q.what = o.what /\ q.dst = o.dst /\ q.key = o.key /\ q.wrote = o.wrote
  /\ IF q.pc \in {"list", "copy", "ok"}
     THEN \A n \in Names : q.seen[n] = o.seen[n] \cup {Shown(q, files', n)} ELSE q.seen = o.seen
  /\ \A p \in Places \ {o.dst} : files'[p] = files[p]
  /\ \A d \in Clients \ {c} : Watches(d)
  /\ op' \in [Clients -> OpRecord] /\ Tidy(files')
Has(q, pc, src, todo, held, cut) ==
  q.pc = pc /\ q.src = src /\ q.todo = todo /\ q.held = held /\ q.cut = cut
Kin(o, r) ==
  r \in OpRecord /\ r.what = o.what /\ r.dst = o.dst /\ r.key = o.key /\ r.seen = o.seen /\ r.wrote = o.wrote

LEMMA WorkIs ==
  ASSUME StorageTypes, NEW c \in Clients, NEW r, Kin(op[c], r), NEW fs, Tidy(fs),
         \A p \in Places \ {op[c].dst} : fs[p] = files[p], Commit(c, fs, To(c, r))
  PROVE  /\ WorkBase(c) /\ files' = fs
         /\ Has(op'[c], r.pc, r.src, r.todo, r.held, r.cut)
<1> DEFINE q == op'[c]
<1>0. r \in OpRecord
  BY DEF Kin
<1>1. /\ files' = fs /\ op' \in [Clients -> OpRecord] /\ \A d \in Clients \ {c} : Watches(d)
      /\ SameRequest(r, q) /\ q.pc = r.pc /\ q.todo = r.todo /\ q.wrote = r.wrote
      /\ Active(r) => \A n \in Names : q.seen[n] = r.seen[n] \cup {Shown(r, fs, n)}
      /\ ~Active(r) => q = r
  BY <1>0, OwnIs
<1>2. Active(r) <=> q.pc \in {"list", "copy", "ok"}
  BY <1>1 DEF Active
<1>3. \A n \in Names : Shown(r, fs, n) = Shown(q, files', n)
  BY <1>1 DEF Shown, SameRequest
<1> QED
  BY <1>1, <1>2, <1>3 DEF WorkBase, Has, Kin, SameRequest

LEMMA RecordFacts ==
  ASSUME NEW o \in OpRecord, NEW pc \in Stages
  PROVE  /\ Kin(o, [o EXCEPT !.pc = pc])
         /\ Has([o EXCEPT !.pc = pc], pc, o.src, o.todo, o.held, o.cut)
         /\ Kin(o, [o EXCEPT !.pc = pc, !.todo = {}])
         /\ Has([o EXCEPT !.pc = pc, !.todo = {}], pc, o.src, {}, o.held, o.cut)
<1>1. /\ Kin(o, [o EXCEPT !.pc = pc])
      /\ Has([o EXCEPT !.pc = pc], pc, o.src, o.todo, o.held, o.cut)
  BY DEF OpRecord, Kin, Has
<1>2. /\ Kin(o, [o EXCEPT !.pc = pc, !.todo = {}])
      /\ Has([o EXCEPT !.pc = pc, !.todo = {}], pc, o.src, {}, o.held, o.cut)
  BY DEF OpRecord, Kin, Has
<1> QED
  BY <1>1, <1>2

LEMMA SourceFacts ==
  ASSUME NEW o \in OpRecord, NEW pc \in Stages, NEW s \in Places
  PROVE  /\ Kin(o, [o EXCEPT !.pc = pc, !.src = s])
         /\ Has([o EXCEPT !.pc = pc, !.src = s], pc, s, o.todo, o.held, o.cut)
BY DEF OpRecord, Kin, Has

LEMMA TodoFacts ==
  ASSUME NEW o \in OpRecord, NEW t \in SUBSET Names
  PROVE  /\ Kin(o, [o EXCEPT !.todo = t])
         /\ Has([o EXCEPT !.todo = t], o.pc, o.src, t, o.held, o.cut)
BY DEF OpRecord, Kin, Has

LEMMA ListFacts ==
  ASSUME NEW o \in OpRecord, NEW pc \in Stages, NEW t \in SUBSET Names, NEW h \in [Names -> Versions],
         NEW b \in BOOLEAN
  PROVE  /\ Kin(o, [o EXCEPT !.pc = pc, !.todo = t, !.held = h, !.cut = b])
         /\ Has([o EXCEPT !.pc = pc, !.todo = t, !.held = h, !.cut = b], pc, o.src, t, h, b)
BY DEF OpRecord, Kin, Has

\* What is known of the record of a request.
LEMMA OpFacts ==
  ASSUME StorageTypes, NEW c \in Clients
  PROVE  /\ op[c] \in OpRecord /\ KindOK(op[c])
         /\ op[c].src \in Places /\ op[c].dst \in Places /\ op[c].todo \in SUBSET Names
         /\ op[c].held \in [Names -> Versions] /\ op[c].cut \in BOOLEAN
         /\ \A pc : End(c, pc) = [op[c] EXCEPT !.pc = pc, !.todo = {}]
BY DEF StorageTypes, OpRecord, End

LEMMA EndIs ==
  ASSUME StorageTypes, NEW c \in Clients, NEW pc \in Stages
  PROVE  Kin(op[c], End(c, pc)) /\ Has(End(c, pc), pc, op[c].src, {}, op[c].held, op[c].cut)
<1> DEFINE o == op[c]
<1>1. o \in OpRecord /\ End(c, pc) = [o EXCEPT !.pc = pc, !.todo = {}]
  BY OpFacts
<1> HIDE DEF o
<1>2. Kin(o, End(c, pc)) /\ Has(End(c, pc), pc, o.src, {}, o.held, o.cut)
  BY <1>1, RecordFacts
<1> QED
  BY <1>2 DEF o

\* A request that ends with an error has changed nothing in this step.
LEMMA FailStep ==
  ASSUME StorageTypes, NEW c \in Clients, op[c].pc \in {"begin", "list", "copy"},
         Commit(c, files, To(c, End(c, "failed"))), UNCHANGED boxes,
         UNCHANGED whole \/ (op[c].what = "save" /\ op[c].cut)
  PROVE  Worked(c)
<1> DEFINE r == End(c, "failed")
<1>1. Kin(op[c], r) /\ Has(r, "failed", op[c].src, {}, op[c].held, op[c].cut)
  BY EndIs DEF Stages
<1>2. Tidy(files)
  BY DEF StorageTypes
<1> HIDE DEF r
<1>3. /\ WorkBase(c) /\ files' = files
      /\ Has(op'[c], r.pc, r.src, r.todo, r.held, r.cut)
  BY <1>1, <1>2, WorkIs DEF r
<1>4. Fails(c, op[c], op'[c])
  BY <1>1, <1>3 DEF Has, Fails
<1> QED
  BY <1>3, <1>4 DEF WorkBase, Worked, OwnMove

LEMMA BeginCopy == ASSUME StorageTypes, NEW c \in Clients, begin_copy(c) PROVE Worked(c)
<1> DEFINE o == op[c]
           q == op'[c]
<1>0. /\ o \in OpRecord /\ KindOK(o) /\ o.src \in Places /\ o.dst \in Places /\ Tidy(files)
      /\ o.pc = "begin" /\ o.what \in {"snapshot", "rollback", "branch", "fork"} /\ o.todo = {}
      /\ UNCHANGED <<boxes, whole>>
  BY OpFacts DEF StorageTypes, begin_copy, KindOK
<1>1. CASE /\ files[o.src].there
           /\ Commit(c, remove_dir_all(o.dst), To(c, [o EXCEPT !.pc = "list"]))
  <2> DEFINE r == [o EXCEPT !.pc = "list"]
             fs == With(o.dst, NoTree)
  <2>1. Kin(o, r) /\ Has(r, "list", o.src, {}, o.held, o.cut)
    BY <1>0, RecordFacts DEF Stages
  <2>2. Tidy(fs) /\ fs[o.dst] = NoTree /\ \A p \in Places \ {o.dst} : fs[p] = files[p]
    BY <1>0, TreeFacts, WithTidy
  <2>3. Commit(c, fs, To(c, r))
    BY <1>1 DEF remove_dir_all
  <2> HIDE DEF r, fs
  <2>4. WorkBase(c) /\ files' = fs /\ Has(q, "list", o.src, {}, o.held, o.cut)
    <3>1. WorkBase(c) /\ files' = fs /\ Has(q, r.pc, r.src, r.todo, r.held, r.cut)
      BY <2>1, <2>2, <2>3, WorkIs
    <3> QED
      BY <2>1, <3>1 DEF Has
  <2>5. Starts_list(c, o, q)
    BY <1>0, <2>2, <2>4, TreeFacts DEF Starts_list, Has, Blank
  <2> QED
    BY <1>0, <2>4, <2>5 DEF WorkBase, Worked, OwnMove
<1>2. CASE /\ ~files[o.src].there /\ o.what \in {"snapshot", "fork"}
           /\ \E t \in {NoTree, [NoTree EXCEPT !.there = TRUE]} : Commit(c, With(o.dst, t), To(c, End(c, "ok")))
  <2>0. PICK t \in {NoTree, [NoTree EXCEPT !.there = TRUE]} : Commit(c, With(o.dst, t), To(c, End(c, "ok")))
    BY <1>2
  <2> DEFINE r == End(c, "ok")
             fs == With(o.dst, t)
  <2>1. Kin(o, r) /\ Has(r, "ok", o.src, {}, o.held, o.cut)
    BY EndIs DEF Stages
  <2>2. Tidy(fs) /\ Blank(fs[o.dst]) /\ \A p \in Places \ {o.dst} : fs[p] = files[p]
    <3>1. t \in Tree /\ (t.there \/ t = NoTree) /\ Blank(t)
      <4>1. PICK e \in Tree : e = [NoTree EXCEPT !.there = TRUE] /\ e.there /\ e.f = NoTree.f
        BY TreeFacts
      <4>2. t = NoTree \/ t = e
        BY <2>0, <4>1
      <4>3. NoTree \in Tree /\ \A n \in Names : NoTree.f[n] = 0
        BY TreeFacts
      <4> QED
        BY <4>1, <4>2, <4>3 DEF Blank
    <3> QED
      BY <1>0, <3>1, WithTidy
  <2>3. Commit(c, fs, To(c, r))
    BY <2>0
  <2> HIDE DEF r, fs
  <2>4. WorkBase(c) /\ files' = fs /\ Has(q, "ok", o.src, {}, o.held, o.cut)
    <3>1. WorkBase(c) /\ files' = fs /\ Has(q, r.pc, r.src, r.todo, r.held, r.cut)
      BY <2>1, <2>2, <2>3, WorkIs
    <3> QED
      BY <2>1, <3>1 DEF Has
  <2>5. Starts_ok(c, o, q)
    BY <1>0, <1>2, <2>2, <2>4 DEF Starts_ok, Has
  <2> QED
    BY <1>0, <2>4, <2>5 DEF WorkBase, Worked, OwnMove
<1>3. CASE Commit(c, files, To(c, End(c, "failed")))
  BY <1>0, <1>3, FailStep
<1> QED
  BY <1>1, <1>2, <1>3 DEF begin_copy, remove_dir_all

LEMMA BeginSave == ASSUME StorageTypes, NEW c \in Clients, begin_save(c) PROVE Worked(c)
<1> DEFINE o == op[c]
           q == op'[c]
<1>0. /\ o \in OpRecord /\ KindOK(o) /\ o.src \in Places /\ o.dst \in Places /\ Tidy(files)
      /\ o.pc = "begin" /\ o.what = "save" /\ o.todo = {} /\ UNCHANGED boxes
  BY OpFacts DEF StorageTypes, begin_save, KindOK
<1>1. CASE files[o.src].there
  <2> DEFINE r == [o EXCEPT !.pc = "list"]
             t == [NoTree EXCEPT !.there = TRUE]
             fs == With(o.dst, t)
  <2>1. Kin(o, r) /\ Has(r, "list", o.src, {}, o.held, o.cut)
    BY <1>0, RecordFacts DEF Stages
  <2>2. Tidy(fs) /\ fs[o.dst].there /\ Blank(fs[o.dst]) /\ \A p \in Places \ {o.dst} : fs[p] = files[p]
    <3>1. t \in Tree /\ t.there /\ Blank(t)
      BY TreeFacts DEF Blank
    <3> HIDE DEF t
    <3> QED
      BY <1>0, <3>1, WithTidy
  <2>3. Commit(c, fs, To(c, r)) /\ whole' = whole \ {o.key}
    BY <1>1 DEF begin_save
  <2> HIDE DEF r, fs
  <2>4. WorkBase(c) /\ files' = fs /\ Has(q, "list", o.src, {}, o.held, o.cut)
    <3>1. WorkBase(c) /\ files' = fs /\ Has(q, r.pc, r.src, r.todo, r.held, r.cut)
      BY <2>1, <2>2, <2>3, WorkIs
    <3> QED
      BY <2>1, <3>1 DEF Has
  <2>5. Starts_list(c, o, q)
    BY <1>0, <2>2, <2>3, <2>4 DEF Starts_list, Has, Makes
  <2> QED
    BY <1>0, <2>4, <2>5 DEF WorkBase, Worked, OwnMove
<1>2. CASE ~files[o.src].there
  BY <1>0, <1>2, FailStep DEF begin_save
<1> QED
  BY <1>1, <1>2

LEMMA BeginRestore == ASSUME StorageTypes, NEW c \in Clients, begin_restore(c) PROVE Worked(c)
<1> DEFINE o == op[c]
           q == op'[c]
<1>0. /\ o \in OpRecord /\ KindOK(o) /\ o.src \in Places /\ o.dst \in Places /\ Tidy(files)
      /\ o.pc = "begin" /\ o.what = "restore" /\ o.todo = {} /\ o.key \in Keys /\ UNCHANGED <<boxes, whole>>
      /\ stamp \in [Keys -> Nat]
  BY OpFacts DEF StorageTypes, begin_restore, KindOK
<1>1. PICK order \in SetToSeqs(Keys) :
        LET hit == resolve(o.key, order) IN
        IF hit = NoKey THEN Commit(c, files, To(c, End(c, "failed")))
        ELSE Commit(c, With(o.dst, [files[o.dst] EXCEPT !.there = TRUE]),
                    To(c, [o EXCEPT !.pc = "list", !.src = <<"obj", hit>>]))
  BY DEF begin_restore
<1>2. resolve(o.key, order) \in Keys \cup {NoKey}
  <2>1. CASE Stored(o.key)
    BY <1>0, <2>1, Zenon DEF resolve
  <2>2. CASE ~Stored(o.key)
    <3>1. Kept(o.key, order, Cardinality(Keys), resolve(o.key, order))
      BY <1>0, <2>2, AllListed, ResolveLoop
    <3> QED
      BY <3>1 DEF Kept
  <2> QED
    BY <2>1, <2>2
<1>3. PICK hit \in Keys \cup {NoKey} : hit = resolve(o.key, order)
  BY <1>2
<1>4. CASE hit = NoKey
  BY <1>0, <1>1, <1>3, <1>4, FailStep
<1>5. CASE hit \in Keys
  <2> DEFINE s == <<"obj", hit>>
             r == [o EXCEPT !.pc = "list", !.src = s]
             fs == With(o.dst, [files[o.dst] EXCEPT !.there = TRUE])
  <2>0. s \in Places
    BY <1>5, PlaceFacts
  <2>1. Kin(o, r) /\ Has(r, "list", s, {}, o.held, o.cut)
    <3> HIDE DEF s
    <3> QED
      BY <1>0, <2>0, SourceFacts DEF Stages
  <2>2. Tidy(fs) /\ \A p \in Places \ {o.dst} : fs[p] = files[p]
    <3>1. PICK t \in Tree : t = [files[o.dst] EXCEPT !.there = TRUE] /\ t.there
      BY <1>0, TreeFacts DEF Tidy
    <3> QED
      BY <1>0, <3>1, WithTidy
  <2>3. Commit(c, fs, To(c, r))
    BY <1>1, <1>3, <1>5, StorageAssumption
  <2> HIDE DEF r, fs
  <2>4. WorkBase(c) /\ files' = fs /\ Has(q, "list", s, {}, o.held, o.cut)
    <3>1. WorkBase(c) /\ files' = fs /\ Has(q, r.pc, r.src, r.todo, r.held, r.cut)
      BY <2>1, <2>2, <2>3, WorkIs
    <3> QED
      BY <2>1, <3>1 DEF Has
  <2>5. Starts_list(c, o, q)
    BY <1>0, <1>5, <2>4 DEF Starts_list, Has, Makes
  <2> QED
    BY <1>0, <2>4, <2>5 DEF WorkBase, Worked, OwnMove
<1> QED
  BY <1>4, <1>5

LEMMA BeginTransfer == ASSUME StorageTypes, NEW c \in Clients, begin_transfer(c) PROVE Worked(c)
<1> DEFINE o == op[c]
           q == op'[c]
<1>0. /\ o \in OpRecord /\ KindOK(o) /\ o.src \in Places /\ o.dst \in Places /\ Tidy(files)
      /\ o.pc = "begin" /\ o.what \in {"copy_into", "copy_out"} /\ o.todo = {} /\ UNCHANGED <<boxes, whole>>
  BY OpFacts DEF StorageTypes, begin_transfer, KindOK
<1>1. CASE files[o.src].there
  <2> DEFINE r == [o EXCEPT !.pc = "list"]
  <2>1. Kin(o, r) /\ Has(r, "list", o.src, {}, o.held, o.cut)
    BY <1>0, RecordFacts DEF Stages
  <2>3. Commit(c, files, To(c, r))
    BY <1>1 DEF begin_transfer
  <2> HIDE DEF r
  <2>4. WorkBase(c) /\ files' = files /\ Has(q, "list", o.src, {}, o.held, o.cut)
    <3>1. WorkBase(c) /\ files' = files /\ Has(q, r.pc, r.src, r.todo, r.held, r.cut)
      BY <1>0, <2>1, <2>3, WorkIs
    <3> QED
      BY <2>1, <3>1 DEF Has
  <2>5. Starts_list(c, o, q)
    BY <1>0, <2>4 DEF Starts_list, Has, Makes
  <2> QED
    BY <1>0, <2>4, <2>5 DEF WorkBase, Worked, OwnMove
<1>2. CASE ~files[o.src].there
  BY <1>0, <1>2, FailStep DEF begin_transfer
<1> QED
  BY <1>1, <1>2

LEMMA ListStep == ASSUME StorageTypes, NEW c \in Clients, list(c) PROVE Worked(c)
<1> DEFINE o == op[c]
           q == op'[c]
<1>0. /\ o \in OpRecord /\ KindOK(o) /\ o.src \in Places /\ o.dst \in Places /\ Tidy(files)
      /\ o.pc = "list" /\ UNCHANGED <<boxes, whole>>
  BY OpFacts DEF StorageTypes, list
<1>1. CASE files[o.src].there
  <2>0. PICK t \in SUBSET Names, h \in [Names -> Versions], b \in BOOLEAN :
          t = walk(o) /\ h = files[o.src].f /\ b = (o.what = "restore" /\ o.src[2] \notin whole)
    BY <1>0 DEF walk, Present, Tidy, Tree
  <2>9. PICK fs : fs = IF Makes(o) THEN With(o.dst, [files[o.dst] EXCEPT !.there = TRUE]) ELSE files
    OBVIOUS
  <2> DEFINE r == [o EXCEPT !.pc = "copy", !.todo = t, !.held = h, !.cut = b]
  <2>1. Kin(o, r) /\ Has(r, "copy", o.src, t, h, b)
    <3>1. o \in OpRecord /\ "copy" \in Stages
      BY <1>0 DEF Stages
    <3> HIDE DEF o
    <3> QED
      BY <3>1, ListFacts
  <2>2. /\ Tidy(fs) /\ \A p \in Places \ {o.dst} : fs[p] = files[p]
        /\ fs[o.dst].f = files[o.dst].f /\ (files[o.dst].there => fs[o.dst].there)
    <3>1. PICK x \in Tree : x = [files[o.dst] EXCEPT !.there = TRUE] /\ x.there /\ x.f = files[o.dst].f
      BY <1>0, TreeFacts DEF Tidy
    <3>2. CASE Makes(o)
      <4>1. fs = With(o.dst, x) /\ x \in Tree /\ x.there
        BY <2>9, <3>1, <3>2
      <4>2. Tidy(fs) /\ fs[o.dst] = x /\ \A p \in Places \ {o.dst} : fs[p] = files[p]
        <5> HIDE DEF o
        <5> QED
          BY <1>0, <4>1, WithTidy
      <4> QED
        BY <3>1, <4>2
    <3> QED
      BY <1>0, <2>9, <3>2
  <2>3. Commit(c, fs, To(c, r))
    BY <1>1, <2>0, <2>9 DEF list
  <2> HIDE DEF r
  <2>4. WorkBase(c) /\ files' = fs /\ Has(q, "copy", o.src, t, h, b)
    <3>1. WorkBase(c) /\ files' = fs /\ Has(q, r.pc, r.src, r.todo, r.held, r.cut)
      BY <2>1, <2>2, <2>3, WorkIs
    <3> QED
      BY <2>1, <3>1 DEF Has
  <2>5. Lists(c, o, q)
    BY <1>0, <2>0, <2>2, <2>4 DEF Lists, Has
  <2> QED
    BY <1>0, <2>4, <2>5 DEF WorkBase, Worked, OwnMove
<1>2. CASE ~files[o.src].there
  BY <1>0, <1>2, FailStep DEF list
<1> QED
  BY <1>1, <1>2

LEMMA CopyStep == ASSUME StorageTypes, NEW c \in Clients, copy_file(c) PROVE Worked(c)
<1> DEFINE o == op[c]
           q == op'[c]
<1>0. /\ o \in OpRecord /\ KindOK(o) /\ o.src \in Places /\ o.dst \in Places /\ Tidy(files)
      /\ o.pc = "copy" /\ UNCHANGED <<boxes, whole>> /\ o.todo \in SUBSET Names
      /\ o.held \in [Names -> Versions]
  BY OpFacts DEF StorageTypes, copy_file
<1>1. PICK n \in o.todo :
       IF Source(o, n) = 0
       THEN Commit(c, files, To(c, End(c, "failed")))
       ELSE Commit(c, Put(o.dst, n, Source(o, n)), To(c, [o EXCEPT !.todo = @ \ {n}]))
  BY DEF copy_file
<1>2. CASE Source(o, n) = 0
  BY <1>0, <1>1, <1>2, FailStep
<1>3. CASE Source(o, n) # 0
  <2>0. PICK t \in SUBSET Names, x \in Versions : t = o.todo \ {n} /\ x = Source(o, n)
    BY <1>0 DEF Source, Tidy, Tree
  <2> DEFINE r == [o EXCEPT !.todo = t]
             fs == Put(o.dst, n, x)
  <2>1. Kin(o, r) /\ Has(r, "copy", o.src, t, o.held, o.cut)
    BY <1>0, TodoFacts
  <2>2. /\ Tidy(fs) /\ \A p \in Places \ {o.dst} : fs[p] = files[p]
        /\ fs[o.dst].f = [files[o.dst].f EXCEPT ![n] = x]
    BY <1>0, PutTidy
  <2>3. Commit(c, fs, To(c, r))
    BY <1>1, <1>3, <2>0
  <2> HIDE DEF r, fs
  <2>4. WorkBase(c) /\ files' = fs /\ Has(q, "copy", o.src, t, o.held, o.cut)
    <3>1. WorkBase(c) /\ files' = fs /\ Has(q, r.pc, r.src, r.todo, r.held, r.cut)
      BY <2>1, <2>2, <2>3, WorkIs
    <3> QED
      BY <2>1, <3>1 DEF Has
  <2>5. Copies(c, o, q)
    BY <1>0, <1>3, <2>0, <2>2, <2>4 DEF Copies, Has
  <2> QED
    BY <1>0, <2>4, <2>5 DEF WorkBase, Worked, OwnMove
<1> QED
  BY <1>2, <1>3

LEMMA FinishStep == ASSUME StorageTypes, NEW c \in Clients, finish(c) PROVE Worked(c)
<1> DEFINE o == op[c]
           q == op'[c]
<1>0. /\ KindOK(o) /\ o.src \in Places /\ o.dst \in Places /\ Tidy(files)
      /\ o.pc = "copy" /\ o.todo = {} /\ UNCHANGED boxes
      /\ whole' = (IF o.what = "save" THEN whole \cup {o.key} ELSE whole)
      /\ Commit(c, files, To(c, End(c, IF ~o.cut THEN "ok" ELSE "failed")))
  BY OpFacts DEF StorageTypes, finish, Complete
<1>1. CASE ~o.cut
  <2> DEFINE r == End(c, "ok")
  <2>1. Kin(o, r) /\ Has(r, "ok", o.src, {}, o.held, o.cut)
    BY EndIs DEF Stages
  <2>3. Commit(c, files, To(c, r))
    BY <1>0, <1>1
  <2> HIDE DEF r
  <2>4. WorkBase(c) /\ files' = files /\ Has(q, "ok", o.src, {}, o.held, o.cut)
    <3>1. WorkBase(c) /\ files' = files /\ Has(q, r.pc, r.src, r.todo, r.held, r.cut)
      BY <1>0, <2>1, <2>3, WorkIs
    <3> QED
      BY <2>1, <3>1 DEF Has
  <2>5. Ends(c, o, q)
    BY <1>0, <1>1, <2>4 DEF Ends, Has
  <2> QED
    BY <1>0, <2>4, <2>5 DEF WorkBase, Worked, OwnMove
<1>2. CASE o.cut
  BY <1>0, <1>2, FailStep
<1> QED
  BY <1>1, <1>2

LEMMA CleanupStep == ASSUME StorageTypes, NEW c \in Clients, cleanup(c) PROVE Worked(c)
<1> DEFINE o == op[c]
           q == op'[c]
           fs == [p \in Places |-> IF p \in undo(o) THEN NoTree ELSE files[p]]
           r == [o EXCEPT !.pc = "undone"]
<1>0. /\ o \in OpRecord /\ KindOK(o) /\ o.src \in Places /\ o.dst \in Places /\ Tidy(files)
      /\ o.pc = "failed" /\ o.todo = {} /\ UNCHANGED whole
      /\ boxes' = boxes \ {u \in Uids : <<"sb", u>> \in undo(o)}
      /\ Commit(c, fs, To(c, r))
  BY OpFacts DEF StorageTypes, cleanup, KindOK
<1>1. Kin(o, r) /\ Has(r, "undone", o.src, {}, o.held, o.cut)
  BY <1>0, RecordFacts DEF Stages
<1>2. /\ Tidy(fs) /\ \A p \in Places \ {o.dst} : fs[p] = files[p]
      /\ \A p \in Places : fs[p] = IF p \in undo(o) THEN NoTree ELSE files[p]
  BY <1>0, TreeFacts DEF Tidy, undo
<1> HIDE DEF r, fs
<1>3. WorkBase(c) /\ files' = fs /\ Has(q, "undone", o.src, {}, o.held, o.cut)
  <2>1. WorkBase(c) /\ files' = fs /\ Has(q, r.pc, r.src, r.todo, r.held, r.cut)
    BY <1>0, <1>1, <1>2, WorkIs
  <2> QED
    BY <1>1, <2>1 DEF Has
<1>4. Undoes(c, o, q)
  BY <1>0, <1>2, <1>3 DEF Undoes, Has
<1> QED
  BY <1>0, <1>3, <1>4 DEF WorkBase, Worked, OwnMove

-----------------------------------------------------------------------------
(* Every step.                                                             *)

Made == {"branch", "fork"}

\* A request arrives.
Asked(c) ==
  /\ op[c].pc = "idle" /\ UNCHANGED <<files, whole>>
  /\ \E r \in OpRecord :
       /\ op' = [op EXCEPT ![c] = r]
       /\ KindOK(r) /\ r.pc = "begin" /\ r.seen = Nothing /\ r.wrote = Nothing /\ ~r.cut
       /\ \/ r.what \in Made /\ \E u \in Fresh : r.dst = <<"sb", u>> /\ boxes' = boxes \cup {u}
          \/ /\ r.what \notin Made /\ UNCHANGED boxes
             /\ r.dst[1] = "sb" => \E u \in Usable : Refillable(u) /\ r.dst = <<"sb", u>>
       /\ r.what = "save" => /\ Unused(r.key)
                             /\ r.src[1] = "sb" => "two_layers" \in Careless \/ ~Lower.there

\* A request that is one step, or a guest, changes one tree; clear removes all archives.
AtOnce ==
  /\ UNCHANGED boxes /\ op' \in [Clients -> OpRecord] /\ Tidy(files')
  /\ \A d \in Clients : Watches(d)
  /\ \/ UNCHANGED whole /\ \E u \in Usable : \A p \in Places \ {<<"sb", u>>} : files'[p] = files[p]
     \/ UNCHANGED whole /\ \E i \in Ids : \A p \in Places \ {<<"snap", i>>} : files'[p] = files[p]
     \/ \E gone \in SUBSET Keys :
          /\ \A k \in gone : Unused(k)
          /\ whole' = whole \ gone
          /\ \A p \in Places : files'[p] = IF \E k \in gone : p = <<"obj", k>> THEN NoTree ELSE files[p]

Answered(c) ==
  /\ op' = [op EXCEPT ![c] = NoOp] /\ op[c].pc \in {"ok", "undone"}
  /\ UNCHANGED <<files, boxes, whole>>
Crashed ==
  /\ op' = [c \in Clients |-> NoOp] /\ UNCHANGED <<files, boxes, whole>>
  /\ "crash_in_save" \in Careless \/ \A c \in Clients : op[c].what # "save"
\* The run of a guest ends.
Ended == UNCHANGED <<files, boxes, whole, op>>

LEMMA NoOpFacts ==
  /\ NoOp \in OpRecord /\ KindOK(NoOp) /\ NoOp.what = "none" /\ NoOp.pc = "idle" /\ NoOp.todo = {}
  /\ NoOp.dst = <<"host">> /\ ~NoOp.cut /\ NoOp.seen = Nothing /\ NoOp.wrote = Nothing
<1>1. <<"host">> \in Places /\ NoTree.f \in [Names -> Versions] /\ Nothing \in [Names -> SUBSET Versions]
  BY PlaceFacts, TreeFacts DEF Tree, Nothing
<1>2. NoOp.what = "none" /\ NoOp.pc = "idle" /\ NoOp.todo = {} /\ NoOp.dst = <<"host">> /\ ~NoOp.cut
      /\ NoOp.seen = Nothing /\ NoOp.wrote = Nothing
  BY DEF NoOp
<1>3. NoOp \in OpRecord
  <2> DEFINE none == NoTree.f
             empty == Nothing
             host == <<"host">>
  <2>1. NoOp = [what |-> "none", pc |-> "idle", src |-> host, dst |-> host, key |-> NoKey,
                todo |-> {}, held |-> none, cut |-> FALSE, seen |-> empty, wrote |-> empty]
    BY DEF NoOp
  <2>2. host \in Places /\ none \in [Names -> Versions] /\ empty \in [Names -> SUBSET Versions]
    BY <1>1
  <2> HIDE DEF none, empty, host
  <2> QED
    BY <2>1, <2>2 DEF OpRecord, Whats, Stages
<1>4. KindOK(NoOp)
  BY <1>2 DEF KindOK
<1> QED
  BY <1>2, <1>3, <1>4

\* The record of a request that has arrived.
Born(c, what, src, dst, key) ==
  \E r \in OpRecord : /\ op' = [op EXCEPT ![c] = r]
                      /\ r.what = what /\ r.src = src /\ r.dst = dst /\ r.key = key /\ r.todo = {}
                      /\ r.pc = "begin" /\ r.seen = Nothing /\ r.wrote = Nothing /\ ~r.cut

LEMMA AskIs ==
  ASSUME StorageTypes, NEW c \in Clients, NEW what \in Whats, NEW src \in Places, NEW dst \in Places,
         NEW key \in Keys \cup {NoKey}, Ask(c, what, src, dst, key)
  PROVE  Born(c, what, src, dst, key)
<1> DEFINE r == [NoOp EXCEPT !.what = what, !.pc = "begin", !.src = src, !.dst = dst, !.key = key]
<1>1. /\ r \in OpRecord /\ r.what = what /\ r.src = src /\ r.dst = dst /\ r.key = key /\ r.todo = NoOp.todo
      /\ r.pc = "begin" /\ r.seen = NoOp.seen /\ r.wrote = NoOp.wrote /\ r.cut = NoOp.cut
  BY NoOpFacts DEF OpRecord, Stages
<1>2. op' = [op EXCEPT ![c] = r]
  BY DEF Ask, To
<1> HIDE DEF r
<1> QED
  BY <1>1, <1>2, NoOpFacts DEF Born

\* A request that makes no sandbox.
LEMMA PlainAsked ==
  ASSUME StorageTypes, NEW c \in Clients, op[c].pc = "idle", UNCHANGED <<files, whole, boxes>>,
         NEW what \in {"snapshot", "rollback", "restore", "copy_into", "save", "copy_out"},
         NEW s \in Places, NEW d \in Places, NEW key \in Keys \cup {NoKey}, Ask(c, what, s, d, key), s # d,
         what = "snapshot" => d[1] = "snap" /\ s[1] = "sb",
         what = "rollback" => d[1] = "sb" /\ s[1] = "snap",
         what = "restore" => d[1] = "sb" /\ s[1] = "obj" /\ key \in Keys,
         what = "copy_into" => d[1] = "sb" /\ s[1] = "host",
         what = "save" => /\ d = <<"obj", key>> /\ key \in Keys /\ s[1] \in {"sb", "lower"} /\ Unused(key)
                          /\ (s[1] = "sb" => "two_layers" \in Careless \/ ~Lower.there),
         what = "copy_out" => d = <<"host">> /\ s[1] \in {"sb", "lower"},
         d[1] = "sb" => \E u \in Usable : Refillable(u) /\ d = <<"sb", u>>
  PROVE  Asked(c)
<1>1. Born(c, what, s, d, key)
  BY AskIs DEF Whats
<1>2. PICK r \in OpRecord :
          /\ op' = [op EXCEPT ![c] = r]
          /\ r.what = what /\ r.src = s /\ r.dst = d /\ r.key = key /\ r.todo = {}
          /\ r.pc = "begin" /\ r.seen = Nothing /\ r.wrote = Nothing /\ ~r.cut
  BY <1>1 DEF Born
<1>3. KindOK(r)
  BY <1>2 DEF KindOK
<1>4. /\ r.what \notin Made /\ (r.dst[1] = "sb" => \E u \in Usable : Refillable(u) /\ r.dst = <<"sb", u>>)
      /\ (r.what = "save" => /\ Unused(r.key)
                            /\ (r.src[1] = "sb" => "two_layers" \in Careless \/ ~Lower.there))
  BY <1>2 DEF Made
<1> QED
  BY <1>2, <1>3, <1>4 DEF Asked

\* A request that makes the sandbox it copies into.
LEMMA MakerAsked ==
  ASSUME StorageTypes, NEW c \in Clients, op[c].pc = "idle", UNCHANGED <<files, whole>>,
         NEW what \in Made, NEW s \in Places, NEW d \in Places,
         Ask(c, what, s, d, NoKey), s # d,
         what = "branch" => s[1] = "snap", what = "fork" => s[1] = "sb",
         NEW u \in Fresh, d = <<"sb", u>>, boxes' = boxes \cup {u}
  PROVE  Asked(c)
<1>1. Born(c, what, s, d, NoKey)
  BY AskIs DEF Whats, Made
<1>2. PICK r \in OpRecord :
          /\ op' = [op EXCEPT ![c] = r]
          /\ r.what = what /\ r.src = s /\ r.dst = d /\ r.key = NoKey /\ r.todo = {}
          /\ r.pc = "begin" /\ r.seen = Nothing /\ r.wrote = Nothing /\ ~r.cut
  BY <1>1 DEF Born
<1>3. KindOK(r)
  BY <1>2, PlaceFacts DEF KindOK, Fresh, Made
<1>4. r.what \in Made /\ r.what # "save" /\ \E x \in Fresh : r.dst = <<"sb", x>> /\ boxes' = boxes \cup {x}
  BY <1>2 DEF Made
<1> QED
  BY <1>2, <1>3, <1>4 DEF Asked

LEMMA RequestStep == ASSUME StorageTypes, NEW c \in Clients, Request(c) PROVE Asked(c)
<1>0. op[c].pc = "idle" /\ UNCHANGED <<files, whole>> /\ Usable \subseteq Uids /\ Fresh \subseteq Uids
  BY DEF Request, Idle, snapshot, rollback, branch, fork, save, restore, copy_into, copy_out_of, Ask, Usable,
         Fresh, StorageTypes
<1>1. CASE snapshot(c)
  <2>1. PICK u \in Usable, i \in Ids :
          Ask(c, "snapshot", <<"sb", u>>, <<"snap", i>>, NoKey) /\ UNCHANGED boxes
    BY <1>1 DEF snapshot
  <2>2. PICK s \in Places, d \in Places : s = <<"sb", u>> /\ d = <<"snap", i>>
                                           /\ s[1] = "sb" /\ d[1] = "snap"
    BY <1>0, <2>1, PlaceFacts
  <2>3. Ask(c, "snapshot", s, d, NoKey)
    BY <2>1, <2>2
  <2> QED
    BY <1>0, <2>1, <2>2, <2>3, PlainAsked
<1>2. CASE rollback(c)
  <2>1. PICK u \in Usable, i \in Ids :
          Refillable(u) /\ Ask(c, "rollback", <<"snap", i>>, <<"sb", u>>, NoKey) /\ UNCHANGED boxes
    BY <1>2 DEF rollback
  <2>2. PICK s \in Places, d \in Places : s = <<"snap", i>> /\ d = <<"sb", u>>
                                           /\ s[1] = "snap" /\ d[1] = "sb"
    BY <1>0, <2>1, PlaceFacts
  <2>3. Ask(c, "rollback", s, d, NoKey)
    BY <2>1, <2>2
  <2> QED
    BY <1>0, <2>1, <2>2, <2>3, PlainAsked
<1>3. CASE branch(c)
  <2>1. PICK u \in Fresh, i \in Ids :
          Ask(c, "branch", <<"snap", i>>, <<"sb", u>>, NoKey) /\ boxes' = boxes \cup {u}
    BY <1>3 DEF branch
  <2>2. PICK s \in Places, d \in Places : s = <<"snap", i>> /\ d = <<"sb", u>> /\ s[1] = "snap" /\ s # d
    BY <1>0, <2>1, PlaceFacts
  <2>3. Ask(c, "branch", s, d, NoKey)
    BY <2>1, <2>2
  <2> QED
    BY <1>0, <2>1, <2>2, <2>3, MakerAsked DEF Made
<1>4. CASE fork(c)
  <2>1. PICK u \in Fresh, x \in Usable :
          Ask(c, "fork", <<"sb", x>>, <<"sb", u>>, NoKey) /\ boxes' = boxes \cup {u}
    BY <1>4 DEF fork
  <2>2. PICK s \in Places, d \in Places : s = <<"sb", x>> /\ d = <<"sb", u>> /\ s[1] = "sb" /\ s # d
    BY <1>0, <2>1, PlaceFacts DEF Fresh, Usable
  <2>3. Ask(c, "fork", s, d, NoKey)
    BY <2>1, <2>2
  <2> QED
    BY <1>0, <2>1, <2>2, <2>3, MakerAsked DEF Made
<1>5. CASE save(c)
  <2>1. PICK u \in Usable, k \in Keys :
          /\ OneLayer(u) /\ Unused(k)
          /\ Ask(c, "save", read_real_path(u), <<"obj", k>>, k) /\ UNCHANGED boxes
    BY <1>5 DEF save
  <2>2. PICK s \in Places, d \in Places : s = read_real_path(u) /\ d = <<"obj", k>>
          /\ s # d /\ s[1] \in {"sb", "lower"}
          /\ (s[1] = "sb" => "two_layers" \in Careless \/ ~Lower.there)
    BY <1>0, <2>1, PlaceFacts DEF read_real_path, OneLayer
  <2>3. Ask(c, "save", s, d, k)
    BY <2>1, <2>2
  <2> QED
    BY <1>0, <2>1, <2>2, <2>3, PlainAsked
<1>6. CASE restore(c)
  <2>1. PICK u \in Usable, k \in Keys :
          Refillable(u) /\ Ask(c, "restore", <<"obj", k>>, <<"sb", u>>, k) /\ UNCHANGED boxes
    BY <1>6 DEF restore
  <2>2. PICK s \in Places, d \in Places : s = <<"obj", k>> /\ d = <<"sb", u>> /\ s[1] = "obj" /\ d[1] = "sb"
    BY <1>0, <2>1, PlaceFacts
  <2>3. Ask(c, "restore", s, d, k)
    BY <2>1, <2>2
  <2> QED
    BY <1>0, <2>1, <2>2, <2>3, PlainAsked
<1>7. CASE copy_into(c)
  <2>1. PICK u \in Usable : Refillable(u) /\ Ask(c, "copy_into", <<"host">>, <<"sb", u>>, NoKey) /\ UNCHANGED boxes
    BY <1>7 DEF copy_into
  <2>2. PICK s \in Places, d \in Places : s = <<"host">> /\ d = <<"sb", u>> /\ s[1] = "host" /\ d[1] = "sb"
    BY <1>0, <2>1, PlaceFacts
  <2>3. Ask(c, "copy_into", s, d, NoKey)
    BY <2>1, <2>2
  <2> QED
    BY <1>0, <2>1, <2>2, <2>3, PlainAsked
<1>8. CASE copy_out_of(c)
  <2>1. PICK u \in Usable : Ask(c, "copy_out", read_real_path(u), <<"host">>, NoKey) /\ UNCHANGED boxes
    BY <1>8 DEF copy_out_of
  <2>2. PICK s \in Places, d \in Places : s = read_real_path(u) /\ d = <<"host">>
          /\ s # d /\ s[1] \in {"sb", "lower"} /\ d[1] # "sb"
    BY <1>0, <2>1, PlaceFacts DEF read_real_path
  <2>3. Ask(c, "copy_out", s, d, NoKey)
    BY <2>1, <2>2
  <2> QED
    BY <1>0, <2>1, <2>2, <2>3, PlainAsked
<1> QED
  BY <1>1, <1>2, <1>3, <1>4, <1>5, <1>6, <1>7, <1>8 DEF Request

-----------------------------------------------------------------------------
(* Requests that are one step, guests, answers and crashes.                *)

LEMMA QuickIs ==
  ASSUME StorageTypes, NEW fs, Tidy(fs), NEW who, who \in Clients => op[who].pc = "idle", Commit(who, fs, op)
  PROVE  files' = fs /\ op' \in [Clients -> OpRecord] /\ Tidy(files') /\ \A d \in Clients : Watches(d)
<1>1. op \in [Clients -> OpRecord]
  BY DEF StorageTypes
<1>2. /\ files' = fs /\ op' \in [Clients -> OpRecord]
      /\ \A d \in Clients : IsWatched(op[d], fs, d = who, op'[d])
      /\ \A d \in Clients : d # who /\ op[d] = op[d] => Watches(d)
  BY <1>1, CommitIs
<1>3. ASSUME who \in Clients PROVE Watches(who)
  <2>1. IsWatched(op[who], fs, who = who, op'[who]) /\ ~Active(op[who])
    BY <1>2, <1>3 DEF Active
  <2> QED
    BY <2>1 DEF IsWatched, Watches, SameRequest
<1> QED
  BY <1>2, <1>3

\* A tree is written or replaced in one step.
LEMMA OnTree ==
  ASSUME StorageTypes, NEW who, who \in Clients => op[who].pc = "idle", NEW p \in Places, NEW t \in Tree,
         t.there \/ t = NoTree, Commit(who, With(p, t), op), UNCHANGED boxes
  PROVE  /\ op' \in [Clients -> OpRecord] /\ Tidy(files') /\ \A d \in Clients : Watches(d)
         /\ files'[p] = t /\ \A x \in Places \ {p} : files'[x] = files[x]
<1>1. Tidy(files)
  BY DEF StorageTypes
<1>2. PICK fs : fs = With(p, t)
  OBVIOUS
<1>3. Tidy(fs) /\ fs[p] = t /\ \A x \in Places \ {p} : fs[x] = files[x]
  BY <1>1, <1>2, WithTidy
<1> QED
  BY <1>2, <1>3, QuickIs

LEMMA PutTree ==
  ASSUME StorageTypes, NEW p \in Places, NEW n \in Names, NEW x \in 1..MaxVersion
  PROVE  \E t \in Tree : t.there /\ Put(p, n, x) = With(p, t)
<1> DEFINE t == [there |-> TRUE, f |-> [files[p].f EXCEPT ![n] = x]]
<1>1. x \in Versions
  BY StorageAssumption DEF Versions
<1>2. t \in Tree /\ t.there
  BY <1>1, TreeFacts DEF StorageTypes, Tidy
<1> QED
  BY <1>2 DEF Put

LEMMA QuickStep ==
  ASSUME StorageTypes, NEW c \in Clients, write_file(c) \/ delete_snapshot(c) \/ remove(c) \/ clear(c)
  PROVE  AtOnce
<1>0. Usable \subseteq Uids /\ op[c].pc = "idle" /\ UNCHANGED boxes
  BY DEF Usable, StorageTypes, write_file, delete_snapshot, remove, clear, Quick, Idle
<1>1. CASE write_file(c)
  <2>1. PICK u \in Usable, n \in Names, x \in 1..MaxVersion : Commit(c, Put(<<"sb", u>>, n, x), op)
    BY <1>1 DEF write_file
  <2>2. PICK p \in Places : p = <<"sb", u>>
    BY <1>0, PlaceFacts
  <2>3. PICK t \in Tree : t.there /\ Put(p, n, x) = With(p, t)
    BY PutTree
  <2>4. op' \in [Clients -> OpRecord] /\ Tidy(files') /\ (\A d \in Clients : Watches(d))
        /\ \A y \in Places \ {p} : files'[y] = files[y]
    BY <1>0, <2>1, <2>2, <2>3, OnTree
  <2>5. UNCHANGED whole
    BY <1>1 DEF write_file
  <2> QED
    BY <1>0, <2>2, <2>4, <2>5 DEF AtOnce
<1>2. CASE delete_snapshot(c)
  <2>1. PICK i \in Ids : Commit(c, With(<<"snap", i>>, NoTree), op)
    BY <1>2 DEF delete_snapshot
  <2>2. PICK p \in Places : p = <<"snap", i>>
    BY PlaceFacts
  <2>4. op' \in [Clients -> OpRecord] /\ Tidy(files') /\ (\A d \in Clients : Watches(d))
        /\ \A y \in Places \ {p} : files'[y] = files[y]
    BY <1>0, <2>1, <2>2, OnTree, TreeFacts
  <2>5. UNCHANGED whole
    BY <1>2 DEF delete_snapshot
  <2> QED
    BY <1>0, <2>2, <2>4, <2>5 DEF AtOnce
<1>3. CASE remove(c)
  <2>1. PICK k \in Keys : Unused(k) /\ Commit(c, With(<<"obj", k>>, NoTree), op) /\ whole' = whole \ {k}
    BY <1>3 DEF remove
  <2>2. PICK p \in Places : p = <<"obj", k>>
    BY PlaceFacts
  <2>4. op' \in [Clients -> OpRecord] /\ Tidy(files') /\ (\A d \in Clients : Watches(d))
        /\ files'[p] = NoTree /\ \A y \in Places \ {p} : files'[y] = files[y]
    BY <1>0, <2>1, <2>2, OnTree, TreeFacts
  <2>5. \A y \in Places : files'[y] = IF \E g \in {k} : y = <<"obj", g>> THEN NoTree ELSE files[y]
    BY <2>2, <2>4
  <2>6. {k} \in SUBSET Keys /\ \A g \in {k} : Unused(g)
    BY <2>1
  <2> QED
    BY <1>0, <2>1, <2>4, <2>5, <2>6 DEF AtOnce
<1>4. CASE clear(c)
  <2>1. PICK fs : fs = [p \in Places |-> IF p[1] = "obj" THEN NoTree ELSE files[p]]
    OBVIOUS
  <2>2. Tidy(fs)
    BY <2>1, TreeFacts DEF StorageTypes, Tidy
  <2>3. Commit(c, fs, op) /\ whole' = {} /\ \A k \in Keys : Unused(k)
    BY <1>4, <2>1 DEF clear
  <2>4. op' \in [Clients -> OpRecord] /\ Tidy(files') /\ (\A d \in Clients : Watches(d)) /\ files' = fs
    BY <1>0, <2>2, <2>3, QuickIs
  <2>5. \A p \in Places : files'[p] = IF \E g \in Keys : p = <<"obj", g>> THEN NoTree ELSE files[p]
    BY <2>1, <2>4, PlaceFacts
  <2>6. whole' = whole \ Keys
    BY <2>3 DEF StorageTypes
  <2> QED
    BY <1>0, <2>3, <2>4, <2>5, <2>6 DEF AtOnce
<1> QED
  BY <1>1, <1>2, <1>3, <1>4

LEMMA GuestStep == ASSUME StorageTypes, GuestWrites \/ GuestDeletes PROVE AtOnce
<1>0. Usable \subseteq Uids /\ "guest" \notin Clients /\ UNCHANGED <<boxes, whole>>
  BY StorageAssumption DEF Usable, StorageTypes, GuestWrites, GuestDeletes
<1>1. CASE GuestWrites
  <2>1. PICK u \in Usable, n \in Names, x \in 1..MaxVersion : Commit("guest", Put(<<"sb", u>>, n, x), op)
    BY <1>1 DEF GuestWrites
  <2>2. PICK p \in Places : p = <<"sb", u>>
    BY <1>0, PlaceFacts
  <2>3. PICK t \in Tree : t.there /\ Put(p, n, x) = With(p, t)
    BY PutTree
  <2>4. op' \in [Clients -> OpRecord] /\ Tidy(files') /\ (\A d \in Clients : Watches(d))
        /\ \A y \in Places \ {p} : files'[y] = files[y]
    BY <1>0, <2>1, <2>2, <2>3, OnTree
  <2> QED
    BY <1>0, <2>2, <2>4 DEF AtOnce
<1>2. CASE GuestDeletes
  <2>1. PICK u \in Usable, n \in Names :
          Commit("guest", With(<<"sb", u>>, [files[<<"sb", u>>] EXCEPT !.f[n] = 0]), op)
    BY <1>2 DEF GuestDeletes
  <2>2. PICK p \in Places : p = <<"sb", u>>
    BY <1>0, PlaceFacts
  <2>3. PICK t \in Tree : t = [files[p] EXCEPT !.f[n] = 0] /\ (t.there \/ t = NoTree)
    <3>1. files[p] \in Tree /\ (files[p].there \/ files[p] = NoTree)
      BY DEF StorageTypes, Tidy
    <3>2. [files[p] EXCEPT !.f[n] = 0] \in Tree /\ [files[p] EXCEPT !.f[n] = 0].there = files[p].there
      <4>1. PICK d \in Tree : d = files[p]
        BY <3>1
      <4>2. [d EXCEPT !.f[n] = 0] \in Tree /\ [d EXCEPT !.f[n] = 0].there = d.there
        BY TreeFacts
      <4> QED
        BY <4>1, <4>2
    <3>3. [NoTree EXCEPT !.f[n] = 0] = NoTree
      <4>1. [NoTree.f EXCEPT ![n] = 0] = NoTree.f
        BY DEF NoTree
      <4>2. PICK g : g = NoTree.f /\ g = [NoTree.f EXCEPT ![n] = 0]
        BY <4>1
      <4>3. [NoTree EXCEPT !.f = g] = NoTree
        BY <4>2 DEF NoTree
      <4> QED
        BY <4>2, <4>3
    <3> QED
      BY <3>1, <3>2, <3>3
  <2>4. op' \in [Clients -> OpRecord] /\ Tidy(files') /\ (\A d \in Clients : Watches(d))
        /\ \A y \in Places \ {p} : files'[y] = files[y]
    BY <1>0, <2>1, <2>2, <2>3, OnTree
  <2> QED
    BY <1>0, <2>2, <2>4 DEF AtOnce
<1> QED
  BY <1>1, <1>2

\* Every step is one of these.
Moves == (\E c \in Clients : Asked(c) \/ Worked(c) \/ Answered(c)) \/ AtOnce \/ Ended \/ Crashed

LEMMA NextMoves == ASSUME StorageTypes, Next PROVE Moves
<1>1. ASSUME NEW c \in Clients, Request(c) PROVE Moves
  BY <1>1, RequestStep DEF Moves
<1>2. ASSUME NEW c \in Clients, Step(c) PROVE Moves
  <2>1. CASE answer(c)
    <3>1. Answered(c)
      BY <2>1 DEF answer, Answered, To
    <3> QED
      BY <3>1 DEF Moves
  <2>2. CASE ~answer(c)
    <3>1. Worked(c)
      BY <1>2, <2>2, BeginCopy, BeginSave, BeginRestore, BeginTransfer, ListStep, CopyStep, FinishStep,
         CleanupStep DEF Step
    <3> QED
      BY <3>1 DEF Moves
  <2> QED
    BY <2>1, <2>2
<1>3. ASSUME NEW c \in Clients, write_file(c) \/ delete_snapshot(c) \/ remove(c) \/ clear(c) PROVE Moves
  BY <1>3, QuickStep DEF Moves
<1>4. CASE GuestWrites \/ GuestDeletes
  BY <1>4, GuestStep DEF Moves
<1>5. CASE Crash
  <2>1. Crashed
    BY <1>5 DEF Crash, Crashed
  <2> QED
    BY <2>1 DEF Moves
<1>6. CASE GuestEnds
  BY <1>6 DEF GuestEnds, Ended, Moves
<1> QED
  BY <1>1, <1>2, <1>3, <1>4, <1>5, <1>6 DEF Next

-----------------------------------------------------------------------------
(* Types are kept.                                                         *)

\* Of finitely many archives one is the newest.
LEMMA NewestOf ==
  ASSUME NEW st \in [Keys -> Nat], Keys # {}
  PROVE  \E k \in Keys : \A j \in Keys : st[j] <= st[k]
<1> DEFINE Newest(T) == \E k \in T : \A j \in T : st[j] <= st[k]
           Bad == {T \in SUBSET Keys : T # {} /\ ~Newest(T)}
           Sizes == {Cardinality(T) : T \in Bad}
<1>1. SUFFICES ASSUME Bad # {} PROVE FALSE
  OBVIOUS
<1>2. \A T \in SUBSET Keys : IsFiniteSet(T) /\ Cardinality(T) \in Nat
  BY StorageAssumption, FS_Subset, FS_CardinalityType
<1>3. Sizes \in SUBSET Nat /\ Sizes # {}
  BY <1>1, <1>2
<1>4. PICK T \in Bad : \A U \in Bad : Cardinality(T) <= Cardinality(U)
  <2>1. \E x \in Sizes : \A y \in Sizes : x <= y
    <3> HIDE DEF Sizes
    <3> QED
      BY <1>3, LeastOf
  <2> QED
    BY <2>1
<1>5. PICK k \in T : TRUE
  BY <1>4
<1>6. T \ {k} \notin Bad
  <2>1. Cardinality(T \ {k}) = Cardinality(T) - 1
    BY <1>2, <1>4, <1>5, FS_RemoveElement
  <2>2. Cardinality(T) \in Nat /\ Cardinality(T) # 0 /\ T \ {k} \in SUBSET Keys
    BY <1>2, <1>4, <1>5, FS_EmptySet
  <2>3. ~(Cardinality(T) <= Cardinality(T \ {k}))
    BY <2>1, <2>2
  <2> HIDE DEF Bad
  <2> QED
    BY <1>4, <2>3
<1>7. CASE T \ {k} = {}
  BY <1>4, <1>5, <1>7
<1>8. CASE T \ {k} # {}
  <2>1. PICK b \in T \ {k} : \A j \in T \ {k} : st[j] <= st[b]
    BY <1>4, <1>6, <1>8
  <2>2. st[k] \in Nat /\ \A j \in T : st[j] \in Nat
    BY <1>4, <1>5
  <2>3. CASE st[k] <= st[b]
    <3>1. \A j \in T : st[j] <= st[b]
      BY <2>1, <2>3
    <3> QED
      BY <1>4, <2>1, <3>1
  <2>4. CASE st[b] <= st[k]
    <3>1. \A j \in T : st[j] <= st[k]
      BY <2>1, <2>2, <2>4
    <3> QED
      BY <1>4, <1>5, <3>1
  <2> QED
    BY <1>5, <2>1, <2>2, <2>3, <2>4
<1> QED
  BY <1>7, <1>8

LEMMA NowIs == ASSUME stamp \in [Keys -> Nat], Keys # {} PROVE Now \in Nat
<1>1. \E x \in {stamp[k] : k \in Keys} : \A k \in Keys : stamp[k] <= x
  BY NewestOf
<1>2. PICK m \in {stamp[k] : k \in Keys} : Now = 1 + m
  BY <1>1 DEF Now
<1> QED
  BY <1>2

LEMMA RestTyped ==
  ASSUME StorageTypes, Next
  PROVE  whole' \subseteq Keys /\ stamp' \in [Keys -> Nat] /\ tomb' \in [Uids -> SUBSET Names]
<1>0. whole \subseteq Keys /\ stamp \in [Keys -> Nat] /\ tomb \in [Uids -> SUBSET Names] /\ Usable \subseteq Uids
  BY DEF StorageTypes, Usable
<1>1. ASSUME NEW c \in Clients, begin_save(c) \/ finish(c)
      PROVE  whole' \subseteq Keys /\ stamp' \in [Keys -> Nat] /\ UNCHANGED tomb
  <2>1. KindOK(op[c])
    BY DEF StorageTypes
  <2>2. ASSUME op[c].what = "save" PROVE op[c].key \in Keys /\ Now \in Nat
    BY <1>0, <2>1, <2>2, NowIs DEF KindOK
  <2>3. CASE begin_save(c)
    BY <1>0, <2>2, <2>3 DEF begin_save
  <2>4. CASE finish(c)
    BY <1>0, <2>2, <2>4 DEF finish
  <2> QED
    BY <1>1, <2>3, <2>4
<1>2. ASSUME NEW c \in Clients,
             begin_copy(c) \/ begin_restore(c) \/ begin_transfer(c) \/ list(c) \/ copy_file(c)
             \/ cleanup(c) \/ answer(c)
      PROVE  UNCHANGED <<whole, stamp, tomb>>
  BY <1>2 DEF begin_copy, begin_restore, begin_transfer, list, copy_file, cleanup, answer
<1>3. ASSUME NEW c \in Clients, Request(c) PROVE UNCHANGED <<whole, stamp, tomb>>
  BY <1>3 DEF Request, snapshot, rollback, branch, fork, save, restore, copy_into, copy_out_of, Ask
<1>4. ASSUME NEW c \in Clients, write_file(c) \/ delete_snapshot(c) \/ remove(c) \/ clear(c)
      PROVE  whole' \subseteq whole /\ UNCHANGED <<stamp, tomb>>
  BY <1>4 DEF write_file, delete_snapshot, remove, clear
<1>5. CASE GuestWrites
  BY <1>0, <1>5 DEF GuestWrites
<1>6. CASE GuestDeletes
  <2>1. PICK u \in Usable, n \in Names :
          tomb' = (IF Lower.there THEN [tomb EXCEPT ![u] = @ \cup {n}] ELSE tomb)
    BY <1>6 DEF GuestDeletes
  <2> QED
    BY <1>0, <1>6, <2>1 DEF GuestDeletes
<1>7. CASE Crash
  BY <1>0, <1>7 DEF Crash
<1>8. CASE GuestEnds
  BY <1>0, <1>8 DEF GuestEnds
<1> QED
  BY <1>0, <1>1, <1>2, <1>3, <1>4, <1>5, <1>6, <1>7, <1>8 DEF Next, Step

LEMMA OwnKind == ASSUME StorageTypes, NEW c \in Clients, OwnMove(c) PROVE KindOK(op'[c])
<1>1. KindOK(op[c])
  BY DEF StorageTypes
<1>2. op'[c].what = op[c].what /\ op'[c].dst = op[c].dst /\ op'[c].key = op[c].key
  BY DEF OwnMove
<1>3. CASE Starts_list(c, op[c], op'[c])
  <2>1. CASE op[c].what = "restore"
    BY <1>1, <1>2, <1>3, <2>1, PlaceFacts DEF Starts_list, KindOK
  <2>2. CASE op[c].what # "restore"
    BY <1>1, <1>2, <1>3, <2>2 DEF Starts_list, KindOK
  <2> QED
    BY <2>1, <2>2
<1>4. CASE Starts_ok(c, op[c], op'[c])
  BY <1>1, <1>2, <1>4 DEF Starts_ok, KindOK
<1>5. CASE Fails(c, op[c], op'[c])
  BY <1>1, <1>2, <1>5 DEF Fails, KindOK
<1>6. CASE Lists(c, op[c], op'[c])
  BY <1>1, <1>2, <1>6 DEF Lists, KindOK
<1>7. CASE Copies(c, op[c], op'[c])
  BY <1>1, <1>2, <1>7 DEF Copies, KindOK
<1>8. CASE Ends(c, op[c], op'[c])
  BY <1>1, <1>2, <1>8 DEF Ends, KindOK
<1>9. CASE Undoes(c, op[c], op'[c])
  BY <1>1, <1>2, <1>9 DEF Undoes, KindOK
<1> QED
  BY <1>3, <1>4, <1>5, <1>6, <1>7, <1>8, <1>9 DEF OwnMove

LEMMA WatchedKind == ASSUME StorageTypes, NEW d \in Clients, Watches(d) PROVE KindOK(op'[d])
<1>1. KindOK(op[d])
  BY DEF StorageTypes
<1> QED
  BY <1>1 DEF Watches, SameRequest, KindOK

\* What a step is for one request.
Arrives(d) ==
  op[d].pc = "idle" /\ op'[d].pc = "begin" /\ op'[d].seen = Nothing /\ KindOK(op'[d]) /\ UNCHANGED files
Stays(d) == op'[d] = op[d] /\ UNCHANGED files
ForOne(d) == op'[d] = NoOp \/ Stays(d) \/ Arrives(d) \/ OwnMove(d) \/ Watches(d)

LEMMA EachMoves ==
  ASSUME StorageTypes, Next
  PROVE  op' \in [Clients -> OpRecord] /\ Tidy(files') /\ boxes' \subseteq Uids /\ \A d \in Clients : ForOne(d)
<1>0. Moves /\ op \in [Clients -> OpRecord] /\ Tidy(files) /\ boxes \subseteq Uids
  BY NextMoves DEF StorageTypes
<1>1. ASSUME NEW c \in Clients, Asked(c)
      PROVE  /\ op' \in [Clients -> OpRecord] /\ Tidy(files') /\ boxes' \subseteq Uids
             /\ \A d \in Clients : ForOne(d)
  <2>1. PICK r \in OpRecord : op' = [op EXCEPT ![c] = r] /\ KindOK(r) /\ r.pc = "begin" /\ r.seen = Nothing
    BY <1>1 DEF Asked
  <2>2. UNCHANGED files /\ op[c].pc = "idle" /\ boxes' \subseteq Uids
    BY <1>0, <1>1 DEF Asked, Fresh
  <2>3. op' \in [Clients -> OpRecord] /\ op'[c] = r /\ \A d \in Clients \ {c} : op'[d] = op[d]
    BY <1>0, <2>1
  <2> QED
    BY <1>0, <2>1, <2>2, <2>3 DEF ForOne, Arrives, Stays
<1>2. ASSUME NEW c \in Clients, Worked(c)
      PROVE  /\ op' \in [Clients -> OpRecord] /\ Tidy(files') /\ boxes' \subseteq Uids
             /\ \A d \in Clients : ForOne(d)
  BY <1>0, <1>2 DEF Worked, ForOne, OwnMove
<1>3. ASSUME NEW c \in Clients, Answered(c)
      PROVE  /\ op' \in [Clients -> OpRecord] /\ Tidy(files') /\ boxes' \subseteq Uids
             /\ \A d \in Clients : ForOne(d)
  <2>1. NoOp \in OpRecord
    BY NoOpFacts
  <2>2. op' \in [Clients -> OpRecord] /\ op'[c] = NoOp /\ \A d \in Clients \ {c} : op'[d] = op[d]
    BY <1>0, <1>3, <2>1 DEF Answered
  <2> QED
    BY <1>0, <1>3, <2>2 DEF Answered, ForOne, Stays
<1>4. CASE AtOnce
  BY <1>0, <1>4 DEF AtOnce, ForOne
<1>5. CASE Crashed
  BY <1>0, <1>5, NoOpFacts DEF Crashed, ForOne
<1>6. CASE Ended
  BY <1>0, <1>6 DEF Ended, ForOne, Stays
<1> QED
  BY <1>0, <1>1, <1>2, <1>3, <1>4, <1>5, <1>6 DEF Moves

LEMMA TypesStep == ASSUME StorageTypes, Next PROVE StorageTypes'
<1>1. /\ op' \in [Clients -> OpRecord] /\ Tidy(files') /\ boxes' \subseteq Uids /\ \A d \in Clients : ForOne(d)
      /\ whole' \subseteq Keys /\ stamp' \in [Keys -> Nat] /\ tomb' \in [Uids -> SUBSET Names]
  BY EachMoves, RestTyped
<1>2. ASSUME NEW d \in Clients PROVE KindOK(op'[d])
  <2>1. ForOne(d) /\ KindOK(op[d])
    BY <1>1 DEF StorageTypes
  <2> QED
    BY <2>1, OwnKind, WatchedKind, NoOpFacts DEF ForOne, Stays, Arrives
<1>3. Tidy(files)'
  BY <1>1 DEF Tidy
<1>4. \A d \in Clients : KindOK(op[d])'
  BY <1>2 DEF KindOK
<1> QED
  BY <1>1, <1>3, <1>4 DEF StorageTypes

LEMMA TypesInit == ASSUME Init PROVE StorageTypes
<1>1. PICK s \in Starts : files = s.files /\ boxes = s.boxes /\ stamp = s.stamp
  BY DEF Init
<1>2. Tidy(files) /\ boxes \subseteq Uids /\ stamp \in [Keys -> Nat]
  BY <1>1, StorageAssumption DEF Tidy
<1>3. whole \subseteq Keys /\ tomb \in [Uids -> SUBSET Names]
  BY DEF Init
<1>4. op \in [Clients -> OpRecord] /\ \A c \in Clients : KindOK(op[c])
  BY NoOpFacts DEF Init
<1> QED
  BY <1>2, <1>3, <1>4 DEF StorageTypes

-----------------------------------------------------------------------------
(* How far the copy of a request is.                                       *)

\* Before the first file the destination is empty; afterwards the files that are not to
\* be copied any more are right.
CopyAt(o) ==
  /\ Makes(o) /\ o.pc = "list" => \A n \in Names : files[o.dst].f[n] \in {0} \cup o.wrote[n]
  /\ Makes(o) /\ o.pc \in {"copy", "ok"} =>
       \A n \in Names \ o.todo : files[o.dst].f[n] \in o.seen[n] \cup o.wrote[n]
RestoreAt(o) ==
  /\ o.what = "restore" /\ o.pc \in {"copy", "ok"} =>
       \A n \in Names \ o.todo : o.held[n] # 0 => files[o.dst].f[n] \in {o.held[n]} \cup o.wrote[n]
  /\ o.what = "restore" /\ o.pc = "ok" => ~o.cut
CopiesAt == \A c \in Clients : CopyAt(op[c]) /\ RestoreAt(op[c])
CopyInv == StorageTypes /\ CopiesAt

\* The same of the next state, as a formula without a prime on the request.
CopyNext(q) ==
  /\ Makes(q) /\ q.pc = "list" => \A n \in Names : files'[q.dst].f[n] \in {0} \cup q.wrote[n]
  /\ Makes(q) /\ q.pc \in {"copy", "ok"} =>
       \A n \in Names \ q.todo : files'[q.dst].f[n] \in q.seen[n] \cup q.wrote[n]
RestoreNext(q) ==
  /\ q.what = "restore" /\ q.pc \in {"copy", "ok"} =>
       \A n \in Names \ q.todo : q.held[n] # 0 => files'[q.dst].f[n] \in {q.held[n]} \cup q.wrote[n]
  /\ q.what = "restore" /\ q.pc = "ok" => ~q.cut

LEMMA OwnCopy ==
  ASSUME StorageTypes, NEW c \in Clients, OwnMove(c), CopyAt(op[c])
  PROVE  CopyNext(op'[c])
<1> DEFINE o == op[c]
           q == op'[c]
<1>0. /\ o \in OpRecord /\ KindOK(o) /\ o.src \in Places /\ o.dst \in Places /\ o.todo \in SUBSET Names
  BY OpFacts
<1>1. /\ q.what = o.what /\ q.dst = o.dst /\ q.wrote = o.wrote
      /\ \A p \in Places \ {o.dst} : files'[p] = files[p]
  BY DEF OwnMove
<1>2. Makes(o) <=> Makes(q)
  BY <1>1 DEF Makes
<1> SUFFICES ASSUME Makes(q) PROVE CopyNext(q)
  BY DEF CopyNext, Makes
<1>3. o.what \in {"snapshot", "rollback", "branch", "fork"} /\ o.src # o.dst /\ files'[o.src] = files[o.src]
  BY <1>0, <1>1, <1>2 DEF Makes, KindOK
<1>4. ASSUME q.pc \in {"list", "copy", "ok"}, q.src = o.src, NEW n \in Names
      PROVE  files[o.src].f[n] \in q.seen[n] /\ o.seen[n] \subseteq q.seen[n]
  <2>1. q.seen[n] = o.seen[n] \cup {Shown(q, files', n)}
    BY <1>4 DEF OwnMove
  <2>2. Shown(q, files', n) = files[o.src].f[n]
    BY <1>1, <1>3, <1>4 DEF Shown
  <2> QED
    BY <2>1, <2>2
<1>5. CASE Starts_list(c, o, q)
  BY <1>1, <1>2, <1>5 DEF Starts_list, Blank, CopyNext
<1>6. CASE Starts_ok(c, o, q)
  <2>1. \A n \in Names : files[o.src].f[n] = 0 /\ files'[o.dst].f[n] = 0
    BY <1>0, <1>6, TreeFacts DEF Starts_ok, Blank, StorageTypes, Tidy
  <2> QED
    BY <1>1, <1>4, <1>6, <2>1 DEF Starts_ok, CopyNext
<1>7. CASE Fails(c, o, q)
  BY <1>7 DEF Fails, CopyNext
<1>8. CASE Lists(c, o, q)
  <2>1. q.pc = "copy" /\ q.src = o.src /\ q.todo = walk(o) /\ files'[o.dst].f = files[o.dst].f
    BY <1>8 DEF Lists
  <2>2. \A n \in Names \ q.todo : files[o.src].f[n] = 0
    BY <1>2, <2>1 DEF walk, Present
  <2>3. \A n \in Names : files[o.dst].f[n] \in {0} \cup o.wrote[n]
    BY <1>2, <1>8 DEF Lists, CopyAt
  <2> QED
    BY <1>1, <1>4, <2>1, <2>2, <2>3 DEF CopyNext
<1>9. CASE Copies(c, o, q)
  <2>1. q.pc = "copy" /\ q.src = o.src /\ o.pc = "copy"
    BY <1>9 DEF Copies
  <2>2. PICK n \in o.todo : /\ q.todo = o.todo \ {n}
                            /\ files'[o.dst].f = [files[o.dst].f EXCEPT ![n] = Source(o, n)]
    BY <1>9 DEF Copies
  <2>3. Source(o, n) = files[o.src].f[n] /\ n \in Names
    BY <1>0, <1>3 DEF Source
  <2>4. files[o.dst].f \in [Names -> Versions]
    BY <1>0 DEF StorageTypes, Tidy, Tree
  <2>5. \A m \in Names \ o.todo : files[o.dst].f[m] \in o.seen[m] \cup o.wrote[m]
    BY <1>2, <2>1 DEF CopyAt
  <2>6. ASSUME NEW m \in Names \ q.todo PROVE files'[o.dst].f[m] \in q.seen[m] \cup o.wrote[m]
    <3>1. CASE m = n
      BY <1>4, <2>1, <2>2, <2>3, <2>4, <3>1
    <3>2. CASE m # n
      <4>1. m \notin o.todo /\ files'[o.dst].f[m] = files[o.dst].f[m]
        BY <2>2, <2>4, <3>2
      <4> QED
        BY <1>4, <2>1, <2>5, <4>1
    <3> QED
      BY <3>1, <3>2
  <2> QED
    BY <1>1, <2>1, <2>6 DEF CopyNext
<1>10. CASE Ends(c, o, q)
  <2>1. q.pc = "ok" /\ q.src = o.src /\ o.pc = "copy" /\ o.todo = {} /\ files' = files
    BY <1>10 DEF Ends
  <2>2. \A m \in Names : files[o.dst].f[m] \in o.seen[m] \cup o.wrote[m]
    BY <1>2, <2>1 DEF CopyAt
  <2> QED
    BY <1>1, <1>4, <2>1, <2>2 DEF CopyNext
<1>11. CASE Undoes(c, o, q)
  BY <1>11 DEF Undoes, CopyNext
<1> QED
  BY <1>5, <1>6, <1>7, <1>8, <1>9, <1>10, <1>11 DEF OwnMove

LEMMA OwnRestore ==
  ASSUME StorageTypes, NEW c \in Clients, OwnMove(c), RestoreAt(op[c])
  PROVE  RestoreNext(op'[c])
<1> DEFINE o == op[c]
           q == op'[c]
<1>0. /\ o \in OpRecord /\ KindOK(o) /\ o.src \in Places /\ o.dst \in Places /\ o.todo \in SUBSET Names
  BY OpFacts
<1>1. q.what = o.what /\ q.dst = o.dst /\ q.wrote = o.wrote
  BY DEF OwnMove
<1> SUFFICES ASSUME o.what = "restore" PROVE RestoreNext(q)
  BY <1>1 DEF RestoreNext
<1>5. CASE Starts_list(c, o, q)
  BY <1>5 DEF Starts_list, RestoreNext
<1>6. CASE Starts_ok(c, o, q)
  BY <1>6 DEF Starts_ok
<1>7. CASE Fails(c, o, q)
  BY <1>7 DEF Fails, RestoreNext
<1>8. CASE Lists(c, o, q)
  BY <1>8 DEF Lists, RestoreNext, walk, Present
<1>9. CASE Copies(c, o, q)
  <2>1. q.pc = "copy" /\ q.held = o.held /\ o.pc = "copy"
    BY <1>9 DEF Copies
  <2>2. PICK n \in o.todo : /\ q.todo = o.todo \ {n}
                            /\ files'[o.dst].f = [files[o.dst].f EXCEPT ![n] = Source(o, n)]
    BY <1>9 DEF Copies
  <2>3. Source(o, n) = o.held[n] /\ n \in Names
    BY <1>0 DEF Source
  <2>4. files[o.dst].f \in [Names -> Versions]
    BY <1>0 DEF StorageTypes, Tidy, Tree
  <2>5. \A m \in Names \ o.todo : o.held[m] # 0 => files[o.dst].f[m] \in {o.held[m]} \cup o.wrote[m]
    BY <2>1 DEF RestoreAt
  <2>6. ASSUME NEW m \in Names \ q.todo, o.held[m] # 0 PROVE files'[o.dst].f[m] \in {o.held[m]} \cup o.wrote[m]
    <3>1. CASE m = n
      BY <2>2, <2>3, <2>4, <3>1
    <3>2. CASE m # n
      <4>1. m \notin o.todo /\ files'[o.dst].f[m] = files[o.dst].f[m]
        BY <2>2, <2>4, <3>2
      <4> QED
        BY <2>5, <2>6, <4>1
    <3> QED
      BY <3>1, <3>2
  <2> QED
    BY <1>1, <2>1, <2>6 DEF RestoreNext
<1>10. CASE Ends(c, o, q)
  BY <1>1, <1>10 DEF Ends, RestoreAt, RestoreNext
<1>11. CASE Undoes(c, o, q)
  BY <1>11 DEF Undoes, RestoreNext
<1> QED
  BY <1>5, <1>6, <1>7, <1>8, <1>9, <1>10, <1>11 DEF OwnMove

LEMMA WatchedCopy ==
  ASSUME StorageTypes, NEW d \in Clients, Watches(d), CopyAt(op[d]), RestoreAt(op[d])
  PROVE  CopyNext(op'[d]) /\ RestoreNext(op'[d])
<1> DEFINE o == op[d]
           q == op'[d]
<1>1. SameRequest(o, q) /\ q.pc = o.pc /\ q.todo = o.todo
  BY DEF Watches
<1>2. CASE ~Active(o)
  BY <1>1, <1>2 DEF Active, CopyNext, RestoreNext
<1>3. CASE Active(o)
  <2>1. \A n \in Names : /\ o.seen[n] \subseteq q.seen[n] /\ o.wrote[n] \subseteq q.wrote[n]
                         /\ files'[o.dst].f[n] = files[o.dst].f[n] \/ files'[o.dst].f[n] \in q.wrote[n]
    BY <1>3 DEF Watches
  <2>2. CopyNext(q)
    BY <1>1, <2>1 DEF SameRequest, Makes, CopyAt, CopyNext
  <2>3. RestoreNext(q)
    BY <1>1, <2>1 DEF SameRequest, RestoreAt, RestoreNext
  <2> QED
    BY <2>2, <2>3
<1> QED
  BY <1>2, <1>3

LEMMA CopyInvStep == ASSUME CopyInv, Next PROVE CopyInv'
<1>0. StorageTypes /\ StorageTypes' /\ \A d \in Clients : CopyAt(op[d]) /\ RestoreAt(op[d]) /\ ForOne(d)
  BY TypesStep, EachMoves DEF CopyInv, CopiesAt
<1>1. ASSUME NEW d \in Clients PROVE CopyNext(op'[d]) /\ RestoreNext(op'[d])
  <2>1. CASE op'[d] = NoOp
    BY <2>1, NoOpFacts DEF CopyNext, RestoreNext
  <2>2. CASE Stays(d)
    BY <1>0, <2>2 DEF Stays, CopyAt, RestoreAt, CopyNext, RestoreNext
  <2>3. CASE Arrives(d)
    BY <2>3 DEF Arrives, CopyNext, RestoreNext
  <2> QED
    BY <1>0, <2>1, <2>2, <2>3, OwnCopy, OwnRestore, WatchedCopy DEF ForOne
<1>2. CopiesAt'
  BY <1>1 DEF CopiesAt, CopyAt, RestoreAt, CopyNext, RestoreNext, Makes
<1> QED
  BY <1>0, <1>2 DEF CopyInv

LEMMA CopyInvUnchanged == ASSUME CopyInv, UNCHANGED vars PROVE CopyInv'
<1>1. StorageTypes' /\ CopiesAt'
  <2> USE DEF CopyInv, vars
  <2>1. Tidy(files)'
    BY DEF Tidy, StorageTypes
  <2>2. StorageTypes'
    BY <2>1 DEF StorageTypes, KindOK
  <2>3. CopiesAt'
    BY DEF CopiesAt, CopyAt, RestoreAt, Makes
  <2> QED
    BY <2>2, <2>3
<1> QED
  BY <1>1 DEF CopyInv

LEMMA CopyInvInit == ASSUME Init PROVE CopyInv
<1>1. StorageTypes /\ \A c \in Clients : op[c].pc = "idle"
  BY TypesInit, NoOpFacts DEF Init
<1> QED
  BY <1>1 DEF CopyInv, CopiesAt, CopyAt, RestoreAt

LEMMA CopyInvAlways == Spec => []CopyInv
<1>1. Init => CopyInv
  BY CopyInvInit
<1>2. CopyInv /\ [Next]_vars => CopyInv'
  BY CopyInvStep, CopyInvUnchanged
<1> QED
  BY <1>1, <1>2, PTL DEF Spec

\* A restore takes the archive of its key or else a newest one that the key starts, in
\* whatever order the cache directory is read, reads it to its end and puts every file of
\* it into the overlay (cache.rs resolve and restore, archive.rs unpack_tar).
THEOREM RestoresAlwaysRight == Spec => []RestoresRight
<1>1. CopyInv => RestoresRight
  <2> SUFFICES ASSUME CopyInv PROVE RestoresRight
    OBVIOUS
  <2>1. StorageTypes /\ CopiesAt
    BY DEF CopyInv
  <2>2. ResolveNewest
    BY <2>1, NewestResolved DEF StorageTypes
  <2>3. ASSUME NEW c \in Clients, op[c].pc = "ok", op[c].what = "restore"
        PROVE  /\ ~op[c].cut
               /\ \A n \in Names : op[c].held[n] # 0 =>
                    files[op[c].dst].f[n] \in {op[c].held[n]} \cup op[c].wrote[n]
    <3>1. op[c].todo = {} /\ RestoreAt(op[c])
      BY <2>1, <2>3 DEF StorageTypes, KindOK, CopiesAt
    <3> QED
      BY <2>3, <3>1 DEF RestoreAt
  <2>4. RestoreComplete
    BY <2>3 DEF RestoreComplete
  <2> QED
    BY <2>2, <2>4 DEF RestoresRight
<1> QED
  BY <1>1, CopyInvAlways, PTL

-----------------------------------------------------------------------------
(* Branch and fork: the sandbox they make is nobody else's.                *)

MadeAlone ==
  \A c, d \in Clients : c # d /\ op[c].what \in Made => op[d].dst # op[c].dst
UndoneGone ==
  \A c \in Clients : op[c].pc = "undone" /\ op[c].what \in Made =>
    op[c].dst[2] \notin boxes /\ ~files[op[c].dst].there
MadeInv == CopyInv /\ MadeAlone /\ UndoneGone

\* A request never changes its kind and its destination.
SameKind(d) == op'[d].what = op[d].what /\ op'[d].dst = op[d].dst

LEMMA WorkedKinds == ASSUME NEW c \in Clients, Worked(c) PROVE \A d \in Clients : SameKind(d)
BY DEF Worked, OwnMove, Watches, SameRequest, SameKind
LEMMA AtOnceKinds == ASSUME AtOnce PROVE \A d \in Clients : SameKind(d) /\ op'[d].pc = op[d].pc
BY DEF AtOnce, Watches, SameRequest, SameKind

LEMMA MadeAloneStep ==
  ASSUME StorageTypes, MadeAlone, "early_use" \notin Careless, Next
  PROVE  MadeAlone'
<1>0. /\ op \in [Clients -> OpRecord] /\ Moves
      /\ \A d \in Clients : op[d].what \in Made => op[d].dst[1] = "sb"
  BY NextMoves DEF StorageTypes, KindOK, Made
<1>1. ASSUME NEW c \in Clients, Asked(c) PROVE MadeAlone'
  <2>1. PICK r \in OpRecord :
          /\ op' = [op EXCEPT ![c] = r]
          /\ \/ r.what \in Made /\ \E u \in Fresh : r.dst = <<"sb", u>>
             \/ r.what \notin Made /\ (r.dst[1] = "sb" => \E u \in Usable : r.dst = <<"sb", u>>)
    BY <1>1 DEF Asked
  <2>2. op'[c] = r /\ \A d \in Clients \ {c} : op'[d] = op[d]
    BY <1>0, <2>1
  <2>3. ASSUME NEW d \in Clients \ {c} PROVE r.what \in Made => op[d].dst # r.dst
    BY <2>1, <2>3 DEF Fresh
  <2>4. ASSUME NEW d \in Clients \ {c} PROVE op[d].what \in Made => op[d].dst # r.dst
    <3>1. CASE r.what \in Made
      BY <2>3, <3>1
    <3>2. CASE r.what \notin Made
      BY <1>0, <2>1, <3>2 DEF Usable, Made
    <3> QED
      BY <3>1, <3>2
  <2> QED
    BY <2>2, <2>3, <2>4 DEF MadeAlone
<1>2. ASSUME \A d \in Clients : SameKind(d) PROVE MadeAlone'
  BY <1>2 DEF SameKind, MadeAlone
<1>3. ASSUME NEW c \in Clients, Answered(c) PROVE MadeAlone'
  <2>1. op'[c] = NoOp /\ \A d \in Clients \ {c} : op'[d] = op[d]
    BY <1>0, <1>3 DEF Answered
  <2>2. \A d \in Clients : op[d].what \in Made => op[d].dst # NoOp.dst
    BY <1>0, NoOpFacts
  <2> QED
    BY <2>1, <2>2, NoOpFacts DEF MadeAlone, Made
<1>4. CASE Crashed
  BY <1>4, NoOpFacts DEF Crashed, MadeAlone, Made
<1>5. CASE Ended
  BY <1>5 DEF Ended, MadeAlone
<1> QED
  BY <1>0, <1>1, <1>2, <1>3, <1>4, <1>5, WorkedKinds, AtOnceKinds DEF Moves

LEMMA UndoneGoneStep ==
  ASSUME StorageTypes, MadeAlone, UndoneGone, "early_use" \notin Careless, Next
  PROVE  UndoneGone'
<1>0. op \in [Clients -> OpRecord] /\ Moves /\ \A d \in Clients : op[d].dst \in Places /\ KindOK(op[d])
  BY NextMoves, OpFacts DEF StorageTypes
<1>u. \A d \in Clients : op[d].what \in Made => \E u \in Uids : op[d].dst = <<"sb", u>>
  BY <1>0, PlaceFacts DEF KindOK, Made
<1> SUFFICES ASSUME NEW e \in Clients, op'[e].pc = "undone", op'[e].what \in Made
             PROVE  op'[e].dst[2] \notin boxes' /\ ~files'[op'[e].dst].there
  BY DEF UndoneGone
<1>1. ASSUME NEW c \in Clients, Asked(c)
      PROVE  op'[e].dst[2] \notin boxes' /\ ~files'[op'[e].dst].there
  <2>1. PICK r \in OpRecord :
          /\ op' = [op EXCEPT ![c] = r] /\ r.pc = "begin"
          /\ \/ \E u \in Fresh : r.dst = <<"sb", u>> /\ boxes' = boxes \cup {u}
             \/ UNCHANGED boxes
    BY <1>1 DEF Asked
  <2>2. e # c /\ op'[e] = op[e] /\ UNCHANGED files
    BY <1>0, <1>1, <2>1 DEF Asked
  <2>3. op[e].dst[2] \notin boxes /\ ~files[op[e].dst].there
    BY <2>2 DEF UndoneGone
  <2>4. \A u \in Fresh : op[e].dst # <<"sb", u>>
    BY DEF Fresh
  <2>5. PICK x \in Uids : op[e].dst = <<"sb", x>>
    BY <1>u, <2>2
  <2> QED
    BY <2>1, <2>2, <2>3, <2>4, <2>5
<1>2. ASSUME NEW c \in Clients, Worked(c)
      PROVE  op'[e].dst[2] \notin boxes' /\ ~files'[op'[e].dst].there
  <2>1. SameKind(e) /\ OwnMove(c) /\ (e # c => Watches(e))
    BY <1>2, WorkedKinds DEF Worked
  <2>2. boxes' \subseteq boxes /\ \A p \in Places \ {op[c].dst} : files'[p] = files[p]
    BY <2>1 DEF OwnMove
  <2>3. CASE e # c
    <3>1. op[e].pc = "undone" /\ op[e].what \in Made /\ op[c].dst # op[e].dst
      BY <2>1, <2>3 DEF Watches, SameKind, MadeAlone
    <3> QED
      BY <1>0, <2>1, <2>2, <3>1 DEF UndoneGone, SameKind
  <2>4. CASE e = c
    <3>1. Undoes(c, op[c], op'[c])
      BY <2>1, <2>4 DEF OwnMove, Starts_list, Starts_ok, Fails, Lists, Copies, Ends
    <3>2. op[c].what \in Made /\ op'[c].dst = op[c].dst
      BY <2>1, <2>4 DEF SameKind
    <3>3. undo(op[c]) = {op[c].dst}
      BY <3>2 DEF undo, Made
    <3>4. ~files'[op[c].dst].there
      BY <1>0, <3>1, <3>3, TreeFacts DEF Undoes
    <3>5. boxes' = boxes \ {u \in Uids : <<"sb", u>> = op[c].dst}
      BY <2>1, <3>1, <3>3 DEF OwnMove, Undoes
    <3>6. PICK x \in Uids : op[c].dst = <<"sb", x>>
      BY <1>u, <3>2
    <3> QED
      BY <2>4, <3>2, <3>4, <3>5, <3>6
  <2> QED
    BY <2>3, <2>4
<1>3. ASSUME NEW c \in Clients, Answered(c)
      PROVE  op'[e].dst[2] \notin boxes' /\ ~files'[op'[e].dst].there
  <2>1. op'[c] = NoOp /\ \A d \in Clients \ {c} : op'[d] = op[d]
    BY <1>0, <1>3 DEF Answered
  <2>2. op'[e] = op[e] /\ UNCHANGED <<files, boxes>>
    BY <1>3, <2>1, NoOpFacts DEF Answered
  <2> QED
    BY <2>2 DEF UndoneGone
<1>4. CASE AtOnce
  <2>1. op[e].pc = "undone" /\ op[e].what \in Made /\ op'[e].dst = op[e].dst /\ UNCHANGED boxes
    BY <1>4, AtOnceKinds DEF SameKind, AtOnce
  <2>2. PICK x \in Uids : op[e].dst = <<"sb", x>>
    BY <1>u, <2>1
  <2>3. PICK p \in Places : p = op[e].dst /\ p[1] = "sb" /\ \A u \in Usable : p # <<"sb", u>>
    BY <1>0, <2>1, <2>2 DEF Usable, Made
  <2>4. files'[p] = files[p]
    <3>1. CASE \E u \in Usable : \A y \in Places \ {<<"sb", u>>} : files'[y] = files[y]
      BY <2>3, <3>1
    <3>2. CASE \E i \in Ids : \A y \in Places \ {<<"snap", i>>} : files'[y] = files[y]
      BY <2>3, <3>2
    <3>3. CASE \E gone \in SUBSET Keys :
                 \A y \in Places : files'[y] = IF \E k \in gone : y = <<"obj", k>> THEN NoTree ELSE files[y]
      BY <2>3, <3>3
    <3> QED
      BY <1>4, <3>1, <3>2, <3>3 DEF AtOnce
  <2> QED
    BY <2>1, <2>3, <2>4 DEF UndoneGone
<1>5. CASE Crashed
  BY <1>5, NoOpFacts DEF Crashed
<1>6. CASE Ended
  BY <1>6 DEF Ended, UndoneGone
<1> QED
  BY <1>0, <1>1, <1>2, <1>3, <1>4, <1>5, <1>6 DEF Moves

LEMMA MadeInvAlways == ASSUME "early_use" \notin Careless PROVE Spec => []MadeInv
<1>1. Init => MadeInv
  BY CopyInvInit, NoOpFacts DEF Init, MadeInv, MadeAlone, UndoneGone, Made
<1>2. MadeInv /\ [Next]_vars => MadeInv'
  <2>1. ASSUME MadeInv, Next PROVE MadeInv'
    BY <2>1, CopyInvStep, MadeAloneStep, UndoneGoneStep DEF MadeInv, CopyInv
  <2>2. ASSUME MadeInv, UNCHANGED vars PROVE MadeInv'
    BY <2>2, CopyInvUnchanged DEF MadeInv, MadeAlone, UndoneGone, vars
  <2> QED
    BY <2>1, <2>2
<1> QED
  BY <1>1, <1>2, PTL DEF Spec

\* A snapshot, rollback, branch or fork that succeeds holds, of every file, a version its
\* source had while it ran or one written to the copy meanwhile; a branch or fork that
\* fails leaves neither sandbox nor overlay, unless somebody uses the sandbox before it is
\* answered (snapshot.rs, registry.rs branch and fork).
THEOREM CopiesAlwaysRight == ASSUME "early_use" \notin Careless PROVE Spec => []CopiesRight
<1>1. MadeInv => CopiesRight
  <2> SUFFICES ASSUME MadeInv PROVE CopiesRight
    OBVIOUS
  <2>1. StorageTypes /\ CopiesAt /\ UndoneGone
    BY DEF MadeInv, CopyInv
  <2>2. TypeOK
    BY <2>1 DEF StorageTypes, Tidy, OpRecord, Stages, TypeOK
  <2>3. ASSUME NEW c \in Clients, op[c].pc = "ok", Makes(op[c])
        PROVE  \A n \in Names : files[op[c].dst].f[n] \in op[c].seen[n] \cup op[c].wrote[n]
    <3>1. op[c].todo = {} /\ CopyAt(op[c])
      BY <2>1, <2>3 DEF StorageTypes, KindOK, CopiesAt
    <3> QED
      BY <2>3, <3>1 DEF CopyAt
  <2>4. CopyFaithful
    BY <2>3 DEF CopyFaithful
  <2>5. FailedBranchGone
    BY <2>1 DEF FailedBranchGone, UndoneGone, Made
  <2> QED
    BY <2>2, <2>4, <2>5 DEF CopiesRight
<1> QED
  BY <1>1, MadeInvAlways, PTL

-----------------------------------------------------------------------------
(* Save: the archive it writes is nobody else's, and what it holds.        *)

SaveAlone ==
  \A c, d \in Clients : c # d /\ op[c].what = "save" => op[d].dst # op[c].dst
SeenAny(o) == \E n \in Names : o.seen[n] # {}
SaveAt(o) ==
  o.what = "save" =>
    /\ o.src[1] = "sb" => ~files[<<"lower">>].there
    /\ o.pc \in {"list", "copy", "ok"} => SeenAny(o)
    /\ o.pc = "list" => Blank(files[o.dst])
    /\ o.pc = "copy" => o.todo \cap Ignored = {}
    /\ o.pc \in {"copy", "ok"} =>
         \A n \in Names \ o.todo : files[o.dst].f[n] \in IF n \in Ignored THEN {0} ELSE o.seen[n]
SavesAt == \A c \in Clients : SaveAt(op[c])

\* Who writes an archive that is not complete, or is going to remove it.
Writes(o, k) ==
  /\ o.what = "save" /\ o.dst = <<"obj", k>>
  /\ o.pc \in {"list", "copy"} \/ (o.pc = "failed" /\ SeenAny(o))
WholeInv == \A k \in Keys : Stored(k) => k \in whole \/ \E c \in Clients : Writes(op[c], k)
SaveInv == StorageTypes /\ SaveAlone /\ SavesAt /\ WholeInv

Careful == {"same_key", "crash_in_save", "two_layers"} \cap Careless = {}

LEMMA SeenSome ==
  ASSUME NEW o \in OpRecord
  PROVE  o.seen # Nothing <=> SeenAny(o)
<1>1. o.seen \in [Names -> SUBSET Versions]
  BY DEF OpRecord
<1> QED
  BY <1>1 DEF SeenAny, Nothing

\* No step changes the layer of the host.
LEMMA LowerKept == ASSUME StorageTypes, Next PROVE files'[<<"lower">>] = files[<<"lower">>]
<1>0. PICK p \in Places : p = <<"lower">>
  BY PlaceFacts
<1>1. p[1] = "lower"
  BY <1>0
<1>2. Moves /\ \A c \in Clients : KindOK(op[c]) /\ op[c].what \in Whats
  BY NextMoves DEF StorageTypes, OpRecord
<1>3. \A c \in Clients : op[c].dst # p
  BY <1>0, <1>1, <1>2, PlaceFacts DEF KindOK, Whats
<1>4. ASSUME NEW c \in Clients, Worked(c) PROVE files'[p] = files[p]
  BY <1>3, <1>4 DEF Worked, OwnMove
<1>5. ASSUME AtOnce PROVE files'[p] = files[p]
  <2>2. CASE \E u \in Usable : \A y \in Places \ {<<"sb", u>>} : files'[y] = files[y]
    BY <1>1, <2>2
  <2>3. CASE \E i \in Ids : \A y \in Places \ {<<"snap", i>>} : files'[y] = files[y]
    BY <1>1, <2>3
  <2>4. CASE \E gone \in SUBSET Keys :
               \A y \in Places : files'[y] = IF \E k \in gone : y = <<"obj", k>> THEN NoTree ELSE files[y]
    BY <1>1, <2>4
  <2> QED
    BY <1>5, <2>2, <2>3, <2>4 DEF AtOnce
<1>6. ASSUME NEW c \in Clients, Asked(c) \/ Answered(c) PROVE files' = files
  BY <1>6 DEF Asked, Answered
<1>7. CASE Crashed \/ Ended
  BY <1>7 DEF Crashed, Ended
<1> QED
  BY <1>0, <1>2, <1>4, <1>5, <1>6, <1>7 DEF Moves

LEMMA SaveAloneStep ==
  ASSUME StorageTypes, SaveAlone, Careful, Next
  PROVE  SaveAlone'
<1>0. /\ op \in [Clients -> OpRecord] /\ Moves /\ "same_key" \notin Careless
      /\ \A d \in Clients : op[d].what = "save" => op[d].dst[1] = "obj"
  BY NextMoves DEF StorageTypes, KindOK, Careful
<1>1. ASSUME NEW c \in Clients, Asked(c) PROVE SaveAlone'
  <2>1. PICK r \in OpRecord :
          op' = [op EXCEPT ![c] = r] /\ KindOK(r) /\ r.pc = "begin" /\ (r.what = "save" => Unused(r.key))
    BY <1>1 DEF Asked
  <2>2. op'[c] = r /\ \A d \in Clients \ {c} : op'[d] = op[d]
    BY <1>0, <2>1
  <2>3. ASSUME NEW d \in Clients \ {c} PROVE r.what = "save" => op[d].dst # r.dst
    BY <1>0, <2>1 DEF Unused, KindOK
  <2>4. ASSUME NEW d \in Clients \ {c} PROVE op[d].what = "save" => op[d].dst # r.dst
    <3>1. CASE r.what = "save"
      BY <2>3, <3>1
    <3>2. CASE r.what # "save"
      <4>1. r.dst[1] # "obj"
        BY <2>1, <3>2, PlaceFacts DEF KindOK, OpRecord, Whats
      <4> QED
        BY <1>0, <4>1
    <3> QED
      BY <3>1, <3>2
  <2> QED
    BY <2>2, <2>3, <2>4 DEF SaveAlone
<1>2. ASSUME \A d \in Clients : SameKind(d) PROVE SaveAlone'
  BY <1>2 DEF SameKind, SaveAlone
<1>3. ASSUME NEW c \in Clients, Answered(c) PROVE SaveAlone'
  <2>1. op'[c] = NoOp /\ \A d \in Clients \ {c} : op'[d] = op[d]
    BY <1>0, <1>3 DEF Answered
  <2>2. \A d \in Clients : op[d].what = "save" => op[d].dst # NoOp.dst
    BY <1>0, NoOpFacts
  <2> QED
    BY <2>1, <2>2, NoOpFacts DEF SaveAlone
<1>4. CASE Crashed
  BY <1>4, NoOpFacts DEF Crashed, SaveAlone
<1>5. CASE Ended
  BY <1>5 DEF Ended, SaveAlone
<1> QED
  BY <1>0, <1>1, <1>2, <1>3, <1>4, <1>5, WorkedKinds, AtOnceKinds DEF Moves

\* Nobody but the save itself touches its archive.
LEMMA ArchiveKept ==
  ASSUME StorageTypes, SaveAlone, Careful, Moves, NEW d \in Clients, op[d].what = "save", ~Worked(d)
  PROVE  files'[op[d].dst] = files[op[d].dst]
<1>0. /\ op[d].dst = <<"obj", op[d].key>> /\ op[d].key \in Keys /\ "same_key" \notin Careless
  BY DEF StorageTypes, KindOK, Careful
<1>1. PICK p \in Places : p = op[d].dst /\ p[1] = "obj"
  BY <1>0, PlaceFacts
<1>2. ASSUME NEW c \in Clients, Worked(c) PROVE files'[p] = files[p]
  BY <1>1, <1>2 DEF Worked, OwnMove, SaveAlone
<1>3. ASSUME AtOnce PROVE files'[p] = files[p]
  <2>2. CASE \E u \in Usable : \A y \in Places \ {<<"sb", u>>} : files'[y] = files[y]
    BY <1>1, <2>2
  <2>3. CASE \E i \in Ids : \A y \in Places \ {<<"snap", i>>} : files'[y] = files[y]
    BY <1>1, <2>3
  <2>4. CASE \E gone \in SUBSET Keys :
               /\ \A k \in gone : Unused(k)
               /\ \A y \in Places : files'[y] = IF \E k \in gone : y = <<"obj", k>> THEN NoTree ELSE files[y]
    BY <1>0, <1>1, <2>4 DEF Unused
  <2> QED
    BY <1>3, <2>2, <2>3, <2>4 DEF AtOnce
<1>4. ASSUME NEW c \in Clients, Asked(c) \/ Answered(c) PROVE files' = files
  BY <1>4 DEF Asked, Answered
<1>5. CASE Crashed \/ Ended
  BY <1>5 DEF Crashed, Ended
<1> QED
  BY <1>1, <1>2, <1>3, <1>4, <1>5 DEF Moves

\* The same of the next state, as a formula without a prime on the request.
SaveNext(q) ==
  q.what = "save" =>
    /\ q.src[1] = "sb" => ~files'[<<"lower">>].there
    /\ q.pc \in {"list", "copy", "ok"} => SeenAny(q)
    /\ q.pc = "list" => Blank(files'[q.dst])
    /\ q.pc = "copy" => q.todo \cap Ignored = {}
    /\ q.pc \in {"copy", "ok"} =>
         \A n \in Names \ q.todo : files'[q.dst].f[n] \in IF n \in Ignored THEN {0} ELSE q.seen[n]

LEMMA OwnSave ==
  ASSUME StorageTypes, NEW c \in Clients, OwnMove(c), SaveAt(op[c]), files'[<<"lower">>] = files[<<"lower">>]
  PROVE  SaveNext(op'[c])
<1> DEFINE o == op[c]
           q == op'[c]
<1>0. /\ o \in OpRecord /\ KindOK(o) /\ o.src \in Places /\ o.dst \in Places /\ o.todo \in SUBSET Names
  BY OpFacts
<1>1. /\ q.what = o.what /\ q.dst = o.dst
      /\ \A p \in Places \ {o.dst} : files'[p] = files[p]
  BY DEF OwnMove
<1> SUFFICES ASSUME o.what = "save" PROVE SaveNext(q)
  BY <1>1 DEF SaveNext
<1>2. /\ o.src # o.dst /\ files'[o.src] = files[o.src] /\ o.src[1] \in {"sb", "lower"}
      /\ (o.src[1] = "lower" => o.src = <<"lower">>)
  BY <1>0, <1>1, PlaceFacts DEF KindOK
<1>3. q.src = o.src
  BY DEF OwnMove, Starts_list, Starts_ok, Fails, Lists, Copies, Ends, Undoes
<1>4. o.src[1] = "sb" => ~files'[<<"lower">>].there /\ \A n \in Names : files'[<<"lower">>].f[n] = 0
  <2>1. ASSUME o.src[1] = "sb" PROVE files[<<"lower">>] = NoTree /\ ~files[<<"lower">>].there
    BY <2>1, PlaceFacts DEF SaveAt, StorageTypes, Tidy
  <2> QED
    BY <2>1, TreeFacts
<1>5. ASSUME q.pc \in {"list", "copy", "ok"}, NEW n \in Names
      PROVE  files[o.src].f[n] \in q.seen[n] /\ o.seen[n] \subseteq q.seen[n] /\ SeenAny(q)
  <2>1. q.seen[n] = o.seen[n] \cup {Shown(q, files', n)}
    BY <1>5 DEF OwnMove
  <2>2. Shown(q, files', n) = files[o.src].f[n]
    BY <1>1, <1>2, <1>3, <1>4 DEF Shown
  <2> QED
    BY <2>1, <2>2 DEF SeenAny
<1>6. q.pc \in {"list", "copy", "ok"} => SeenAny(q)
  BY <1>5, StorageAssumption
<1>7. CASE Starts_list(c, o, q)
  BY <1>1, <1>3, <1>4, <1>6, <1>7 DEF Starts_list, SaveNext
<1>8. CASE Starts_ok(c, o, q)
  BY <1>8 DEF Starts_ok
<1>9. CASE Fails(c, o, q) \/ Undoes(c, o, q)
  <2>1. q.pc \in {"failed", "undone"}
    BY <1>9 DEF Fails, Undoes
  <2> QED
    BY <1>3, <1>4, <2>1 DEF SaveNext
<1>10. CASE Lists(c, o, q)
  <2>1. q.pc = "copy" /\ o.pc = "list" /\ q.todo = walk(o) /\ files'[o.dst].f = files[o.dst].f
    BY <1>10 DEF Lists
  <2>2. walk(o) = {n \in Names : files[o.src].f[n] # 0} \ Ignored
    BY DEF walk, Present, Makes
  <2>3. \A n \in Names : files'[o.dst].f[n] = 0
    BY <2>1 DEF SaveAt, Blank
  <2>4. \A n \in Names \ q.todo : n \in Ignored \/ files[o.src].f[n] = 0
    BY <2>1, <2>2
  <2>5. \A n \in Names \ q.todo : files'[o.dst].f[n] \in IF n \in Ignored THEN {0} ELSE q.seen[n]
    BY <1>5, <2>1, <2>3, <2>4
  <2> QED
    BY <1>1, <1>3, <1>4, <1>6, <2>1, <2>2, <2>5 DEF SaveNext
<1>11. CASE Copies(c, o, q)
  <2>1. q.pc = "copy" /\ o.pc = "copy"
    BY <1>11 DEF Copies
  <2>2. PICK n \in o.todo : /\ q.todo = o.todo \ {n}
                            /\ files'[o.dst].f = [files[o.dst].f EXCEPT ![n] = Source(o, n)]
    BY <1>11 DEF Copies
  <2>3. Source(o, n) = files[o.src].f[n] /\ n \in Names
    BY <1>0 DEF Source
  <2>4. files[o.dst].f \in [Names -> Versions]
    BY <1>0 DEF StorageTypes, Tidy, Tree
  <2>5. /\ o.todo \cap Ignored = {}
        /\ \A m \in Names \ o.todo : files[o.dst].f[m] \in IF m \in Ignored THEN {0} ELSE o.seen[m]
    BY <2>1 DEF SaveAt
  <2>6. ASSUME NEW m \in Names \ q.todo
        PROVE  files'[o.dst].f[m] \in IF m \in Ignored THEN {0} ELSE q.seen[m]
    <3>1. CASE m = n
      BY <1>5, <2>1, <2>2, <2>3, <2>4, <2>5, <3>1
    <3>2. CASE m # n
      <4>1. m \notin o.todo /\ files'[o.dst].f[m] = files[o.dst].f[m]
        BY <2>2, <2>4, <3>2
      <4> QED
        BY <1>5, <2>1, <2>5, <4>1
    <3> QED
      BY <3>1, <3>2
  <2>7. q.todo \cap Ignored = {}
    BY <2>2, <2>5
  <2> QED
    BY <1>1, <1>3, <1>4, <1>6, <2>1, <2>6, <2>7 DEF SaveNext
<1>12. CASE Ends(c, o, q)
  <2>1. q.pc = "ok" /\ o.pc = "copy" /\ o.todo = {} /\ files' = files
    BY <1>12 DEF Ends
  <2>2. \A m \in Names : files[o.dst].f[m] \in IF m \in Ignored THEN {0} ELSE o.seen[m]
    BY <2>1 DEF SaveAt
  <2>3. \A m \in Names : files'[o.dst].f[m] \in IF m \in Ignored THEN {0} ELSE q.seen[m]
    BY <1>5, <2>1, <2>2
  <2> QED
    BY <1>1, <1>3, <1>4, <1>6, <2>1, <2>3 DEF SaveNext
<1> QED
  BY <1>7, <1>8, <1>9, <1>10, <1>11, <1>12 DEF OwnMove

LEMMA SavesAtStep ==
  ASSUME StorageTypes, SaveAlone, SavesAt, Careful, Next
  PROVE  SavesAt'
<1>0. Moves /\ op \in [Clients -> OpRecord] /\ files'[<<"lower">>] = files[<<"lower">>]
      /\ \A d \in Clients : ForOne(d) /\ SaveAt(op[d])
  BY NextMoves, LowerKept, EachMoves DEF StorageTypes, SavesAt
<1>1. ASSUME NEW d \in Clients PROVE SaveNext(op'[d])
  <2>1. CASE op'[d] = NoOp
    BY <2>1, NoOpFacts DEF SaveNext
  <2>2. CASE Stays(d)
    BY <1>0, <2>2 DEF Stays, SaveAt, SaveNext
  <2>3. CASE Arrives(d)
    <3>1. PICK c \in Clients : Asked(c) /\ op'[c] # op[c]
      <4>1. op'[d] # op[d] /\ op[d].pc = "idle" /\ op'[d].pc = "begin"
        BY <2>3 DEF Arrives
      <4>2. ~Crashed /\ ~Ended
        BY <4>1, NoOpFacts DEF Crashed, Ended
      <4>3. ~AtOnce
        BY <4>1, AtOnceKinds
      <4>4. ASSUME NEW c \in Clients, Worked(c) PROVE FALSE
        <5>1. CASE c = d
          BY <4>1, <4>4, <5>1 DEF Worked, OwnMove, Starts_list, Starts_ok, Fails, Lists, Copies, Ends, Undoes
        <5>2. CASE c # d
          BY <4>1, <4>4, <5>2 DEF Worked, Watches
        <5> QED
          BY <5>1, <5>2
      <4>5. ASSUME NEW c \in Clients, Answered(c) PROVE FALSE
        BY <1>0, <4>1, <4>5, NoOpFacts DEF Answered
      <4>6. PICK c \in Clients : Asked(c)
        BY <1>0, <4>2, <4>3, <4>4, <4>5 DEF Moves
      <4>7. c = d
        BY <1>0, <4>1, <4>6 DEF Asked
      <4> QED
        BY <4>1, <4>6, <4>7
    <3>2. PICK r \in OpRecord :
            /\ op' = [op EXCEPT ![c] = r] /\ r.pc = "begin"
            /\ (r.what = "save" => (r.src[1] = "sb" => "two_layers" \in Careless \/ ~Lower.there))
      BY <3>1 DEF Asked
    <3>3. op'[c] = r /\ \A e \in Clients \ {c} : op'[e] = op[e]
      BY <1>0, <3>2
    <3>4. c = d
      BY <2>3, <3>3 DEF Arrives
    <3> QED
      BY <1>0, <3>2, <3>3, <3>4 DEF SaveNext, Careful, Lower
  <2>4. CASE OwnMove(d)
    BY <1>0, <2>4, OwnSave
  <2>5. CASE Watches(d) /\ ~Worked(d)
    <3> DEFINE o == op[d]
               q == op'[d]
    <3>1. SameRequest(o, q) /\ q.pc = o.pc /\ q.todo = o.todo /\ (~Active(o) => q = o)
          /\ (Active(o) => \A n \in Names : o.seen[n] \subseteq q.seen[n])
      BY <2>5 DEF Watches
    <3>2. o.what = "save" => files'[o.dst] = files[o.dst]
      BY <1>0, <2>5, ArchiveKept
    <3>3. o.pc \in {"list", "copy", "ok"} <=> Active(o)
      BY DEF Active
    <3>4. SaveAt(o)
      BY <1>0
    <3>5. SeenAny(o) => SeenAny(q)
      BY <3>1 DEF SeenAny
    <3> QED
      BY <1>0, <3>1, <3>2, <3>3, <3>4, <3>5 DEF SameRequest, SaveAt, SaveNext, Blank
  <2>6. CASE Worked(d)
    BY <1>0, <2>6, OwnSave DEF Worked
  <2> QED
    BY <1>0, <2>1, <2>2, <2>3, <2>4, <2>5, <2>6 DEF ForOne
<1> QED
  BY <1>1 DEF SavesAt, SaveAt, SaveNext, SeenAny, Blank

\* An archive that is not complete is being written, or about to be removed.
LEMMA WholeStep ==
  ASSUME StorageTypes, SavesAt, WholeInv, Careful, Next
  PROVE  WholeInv'
<1>0. /\ Moves /\ op \in [Clients -> OpRecord] /\ op' \in [Clients -> OpRecord]
      /\ \A d \in Clients : KindOK(op[d]) /\ SaveAt(op[d]) /\ op[d].dst \in Places
  BY NextMoves, EachMoves, OpFacts DEF StorageTypes, SavesAt
<1> SUFFICES ASSUME NEW k \in Keys, files'[<<"obj", k>>].there, k \notin whole'
             PROVE  \E e \in Clients : Writes(op'[e], k)
  BY DEF WholeInv, Stored, Writes, SeenAny
<1>p. PICK p \in Places : p = <<"obj", k>> /\ p[1] = "obj"
  BY PlaceFacts
<1>1. ASSUME NEW d \in Clients, Writes(op[d], k), Watches(d) \/ op'[d] = op[d] PROVE Writes(op'[d], k)
  <2>1. CASE Watches(d)
    <3>1. SeenAny(op[d]) => SeenAny(op'[d])
      BY <2>1 DEF Watches, SeenAny
    <3> QED
      BY <1>1, <2>1, <3>1 DEF Writes, Watches, SameRequest
  <2> QED
    BY <1>1, <2>1
<1>2. ASSUME UNCHANGED <<files, whole>>, \A d \in Clients : Writes(op[d], k) => op'[d] = op[d]
      PROVE  \E e \in Clients : Writes(op'[e], k)
  BY <1>2 DEF WholeInv, Stored
<1>3. ASSUME NEW c \in Clients, Asked(c) PROVE \E e \in Clients : Writes(op'[e], k)
  <2>1. op[c].pc = "idle" /\ UNCHANGED <<files, whole>> /\ \A d \in Clients \ {c} : op'[d] = op[d]
    BY <1>0, <1>3 DEF Asked
  <2>2. ~Writes(op[c], k)
    BY <2>1 DEF Writes
  <2> QED
    BY <1>2, <2>1, <2>2
<1>4. ASSUME NEW c \in Clients, Answered(c) PROVE \E e \in Clients : Writes(op'[e], k)
  <2>1. op[c].pc \in {"ok", "undone"} /\ UNCHANGED <<files, whole>> /\ \A d \in Clients \ {c} : op'[d] = op[d]
    BY <1>0, <1>4 DEF Answered
  <2>2. ~Writes(op[c], k)
    BY <2>1 DEF Writes
  <2> QED
    BY <1>2, <2>1, <2>2
<1>5. CASE Crashed
  <2>1. UNCHANGED <<files, whole>> /\ \A d \in Clients : ~Writes(op[d], k)
    BY <1>5 DEF Crashed, Careful, Writes
  <2> QED
    BY <1>2, <2>1
<1>6. CASE AtOnce
  <2>1. \A d \in Clients : Watches(d)
    BY <1>6 DEF AtOnce
  <2>2. CASE /\ UNCHANGED whole
             /\ \/ \E u \in Usable : \A y \in Places \ {<<"sb", u>>} : files'[y] = files[y]
                \/ \E i \in Ids : \A y \in Places \ {<<"snap", i>>} : files'[y] = files[y]
    <3>1. CASE \E u \in Usable : \A y \in Places \ {<<"sb", u>>} : files'[y] = files[y]
      BY <1>p, <1>1, <2>1, <2>2, <3>1 DEF WholeInv, Stored
    <3>2. CASE \E i \in Ids : \A y \in Places \ {<<"snap", i>>} : files'[y] = files[y]
      BY <1>p, <1>1, <2>1, <2>2, <3>2 DEF WholeInv, Stored
    <3> QED
      BY <2>2, <3>1, <3>2
  <2>3. CASE \E gone \in SUBSET Keys :
               /\ whole' = whole \ gone
               /\ \A y \in Places : files'[y] = IF \E g \in gone : y = <<"obj", g>> THEN NoTree ELSE files[y]
    <3>1. PICK gone \in SUBSET Keys :
               /\ whole' = whole \ gone
               /\ \A y \in Places : files'[y] = IF \E g \in gone : y = <<"obj", g>> THEN NoTree ELSE files[y]
      BY <2>3
    <3>2. k \notin gone /\ files'[p] = files[p]
      BY <1>p, <3>1, TreeFacts
    <3>3. k \notin whole /\ Stored(k)
      BY <1>p, <3>1, <3>2 DEF Stored
    <3> QED
      BY <1>1, <2>1, <3>3 DEF WholeInv
  <2> QED
    BY <1>6, <2>2, <2>3 DEF AtOnce
<1>7. ASSUME NEW c \in Clients, Worked(c) PROVE \E e \in Clients : Writes(op'[e], k)
  <2> DEFINE o == op[c]
             q == op'[c]
  <2>1. OwnMove(c) /\ \A d \in Clients \ {c} : Watches(d)
    BY <1>7 DEF Worked
  <2>2. /\ q.what = o.what /\ q.dst = o.dst /\ q.key = o.key /\ KindOK(o) /\ SaveAt(o)
        /\ \A y \in Places \ {o.dst} : files'[y] = files[y]
    BY <1>0, <2>1 DEF OwnMove
  <2>3. ASSUME k \in whole => k \in whole', files'[p].there => files[p].there,
               Writes(o, k) => Writes(q, k)
        PROVE  \E e \in Clients : Writes(op'[e], k)
    <3>1. Stored(k) /\ k \notin whole
      BY <1>p, <2>3 DEF Stored
    <3>2. PICK d \in Clients : Writes(op[d], k)
      BY <3>1 DEF WholeInv
    <3> QED
      BY <1>1, <2>1, <2>3, <3>2
  <2>4. CASE o.what # "save"
    <3>1. o.dst # p
      BY <1>0, <1>p, <2>2, <2>4, PlaceFacts DEF KindOK, OpRecord, Whats
    <3>2. files'[p] = files[p] /\ whole' = whole /\ ~Writes(o, k)
      BY <2>1, <2>2, <2>4, <3>1
      DEF OwnMove, Starts_list, Starts_ok, Fails, Lists, Copies, Ends, Undoes, Writes
    <3> QED
      BY <2>3, <3>2
  <2>5. CASE o.what = "save"
    <3>0. o.dst = <<"obj", o.key>> /\ o.key \in Keys /\ ~o.cut
      BY <2>2, <2>5 DEF KindOK
    <3>1. CASE o.key # k
      <4>1. o.dst # p /\ ~Writes(o, k)
        BY <1>p, <3>0, <3>1 DEF Writes
      <4>2. files'[p] = files[p] /\ (k \in whole => k \in whole')
        BY <2>1, <2>2, <3>0, <3>1, <4>1
        DEF OwnMove, Starts_list, Starts_ok, Fails, Lists, Copies, Ends, Undoes
      <4> QED
        BY <2>3, <4>1, <4>2
    <3>2. CASE o.key = k
      <4>0. o.dst = p /\ q.dst = <<"obj", k>> /\ q.what = "save"
        BY <1>p, <2>2, <2>5, <3>0, <3>2
      <4>1. CASE q.pc \in {"list", "copy"}
        BY <4>0, <4>1 DEF Writes
      <4>2. CASE Fails(c, o, q)
        <5>1. UNCHANGED <<files, whole>> /\ q.pc = "failed" /\ q.seen = o.seen /\ o.pc \in {"begin", "list", "copy"}
          BY <2>1, <3>0, <4>2 DEF Fails, OwnMove
        <5>2. Writes(o, k) => Writes(q, k)
          BY <2>2, <2>5, <4>0, <5>1 DEF Writes, SaveAt, SeenAny
        <5> QED
          BY <2>3, <5>1, <5>2
      <4>3. CASE Ends(c, o, q)
        BY <2>5, <3>2, <4>3 DEF Ends
      <4>4. CASE Undoes(c, o, q)
        <5>1. CASE o.seen = Nothing
          <6>1. undo(o) = {} /\ ~Writes(o, k)
            BY <1>0, <2>5, <4>4, <5>1, SeenSome DEF undo, Undoes, Writes
          <6> QED
            BY <2>3, <4>4, <6>1 DEF Undoes
        <5>2. CASE o.seen # Nothing
          <6>1. undo(o) = {o.dst}
            BY <2>5, <5>2 DEF undo
          <6>2. files'[p] = NoTree
            BY <4>0, <4>4, <6>1 DEF Undoes
          <6> QED
            BY <1>p, <6>2, TreeFacts
        <5> QED
          BY <5>1, <5>2
      <4>5. ~Starts_ok(c, o, q)
        BY <2>5 DEF Starts_ok
      <4>6. Starts_list(c, o, q) \/ Lists(c, o, q) \/ Copies(c, o, q) => q.pc \in {"list", "copy"}
        BY DEF Starts_list, Lists, Copies
      <4> QED
        BY <2>1, <4>1, <4>2, <4>3, <4>4, <4>5, <4>6 DEF OwnMove
    <3> QED
      BY <3>1, <3>2
  <2> QED
    BY <2>4, <2>5
<1>8. CASE Ended
  BY <1>2, <1>8 DEF Ended
<1> QED
  BY <1>0, <1>3, <1>4, <1>5, <1>6, <1>7, <1>8 DEF Moves

LEMMA SaveInvAlways == ASSUME Careful PROVE Spec => []SaveInv
<1>1. Init => SaveInv
  <2> SUFFICES ASSUME Init PROVE SaveInv
    OBVIOUS
  <2>1. StorageTypes /\ \A c \in Clients : op[c].what = "none"
    BY TypesInit, NoOpFacts DEF Init
  <2>2. WholeInv
    BY DEF Init, WholeInv, Stored
  <2> QED
    BY <2>1, <2>2 DEF SaveInv, SaveAlone, SavesAt, SaveAt
<1>2. SaveInv /\ [Next]_vars => SaveInv'
  <2>1. ASSUME SaveInv, Next PROVE SaveInv'
    BY <2>1, TypesStep, SaveAloneStep, SavesAtStep, WholeStep DEF SaveInv
  <2>2. ASSUME SaveInv, UNCHANGED vars PROVE SaveInv'
    <3>1. Tidy(files)'
      BY <2>2 DEF SaveInv, StorageTypes, Tidy, vars
    <3>2. StorageTypes'
      BY <2>2, <3>1 DEF SaveInv, StorageTypes, KindOK, vars
    <3>3. SaveAlone' /\ SavesAt' /\ WholeInv'
      BY <2>2 DEF SaveInv, SaveAlone, SavesAt, SaveAt, SeenAny, Blank, WholeInv, Stored, Writes, vars
    <3> QED
      BY <3>2, <3>3 DEF SaveInv
  <2> QED
    BY <2>1, <2>2
<1> QED
  BY <1>1, <1>2, PTL DEF Spec

\* An archive that nobody is writing is complete, and one that was saved holds the files as
\* the sandbox saw them, unless two requests use one key, the daemon dies during a save or
\* the directory exists in both layers (cache.rs save, archive.rs walk).
THEOREM ArchivesAlwaysRight == ASSUME Careful PROVE Spec => []ArchivesRight
<1>1. SaveInv => ArchivesRight
  <2> SUFFICES ASSUME SaveInv PROVE ArchivesRight
    OBVIOUS
  <2>1. StorageTypes /\ SavesAt /\ WholeInv
    BY DEF SaveInv
  <2>2. ArchivesWhole
    BY <2>1 DEF ArchivesWhole, WholeInv, Writes
  <2>3. ASSUME NEW c \in Clients, op[c].pc = "ok", op[c].what = "save"
        PROVE  \A n \in Names : files[op[c].dst].f[n] \in IF n \in Ignored THEN {0} ELSE op[c].seen[n]
    <3>1. op[c].todo = {} /\ SaveAt(op[c])
      BY <2>1, <2>3 DEF StorageTypes, KindOK, SavesAt
    <3> QED
      BY <2>3, <3>1 DEF SaveAt
  <2>4. SaveIsView
    BY <2>3 DEF SaveIsView
  <2> QED
    BY <2>2, <2>4 DEF ArchivesRight
<1> QED
  BY <1>1, SaveInvAlways, PTL

-----------------------------------------------------------------------------
(* What the host reads.                                                    *)

\* What a guest has deleted in this run is neither on the host nor back in its overlay, for
\* no request puts files where a guest has deleted.
HiddenGone == \A u \in Uids : \A n \in tomb[u] : Lower.f[n] = 0 /\ files[<<"sb", u>>].f[n] = 0
NotFilled == \A c \in Clients, u \in Uids : op[c].dst = <<"sb", u>> => tomb[u] = {}
ReadInv == StorageTypes /\ HiddenGone /\ NotFilled

Separate == {"delete_lower", "write_deleted"} \cap Careless = {}

\* Only a guest's deletion makes a tombstone.
LEMMA TombsKept ==
  ASSUME StorageTypes, Next, ~GuestWrites, ~GuestDeletes, NEW u \in Uids
  PROVE  tomb'[u] \subseteq tomb[u]
<1>0. tomb \in [Uids -> SUBSET Names]
  BY DEF StorageTypes
<1>1. ASSUME NEW c \in Clients, Request(c) PROVE UNCHANGED tomb
  BY <1>1 DEF Request, snapshot, rollback, branch, fork, save, restore, copy_into, copy_out_of, Ask
<1>2. ASSUME NEW c \in Clients, Step(c) PROVE UNCHANGED tomb
  BY <1>2 DEF Step, begin_copy, begin_save, begin_restore, begin_transfer, list, copy_file, finish, cleanup, answer
<1>3. ASSUME NEW c \in Clients, write_file(c) \/ delete_snapshot(c) \/ remove(c) \/ clear(c) PROVE UNCHANGED tomb
  BY <1>3 DEF write_file, delete_snapshot, remove, clear
<1>4. CASE Crash
  BY <1>4 DEF Crash
<1>5. CASE GuestEnds
  BY <1>0, <1>5 DEF GuestEnds
<1> QED
  BY <1>1, <1>2, <1>3, <1>4, <1>5 DEF Next

\* No request of the host changes a file of a sandbox whose guest has deleted something.
LEMMA HostStaysOut ==
  ASSUME ReadInv, Separate, Next, ~GuestWrites, ~GuestDeletes, NEW u \in Uids, tomb[u] # {}
  PROVE  files'[<<"sb", u>>] = files[<<"sb", u>>]
<1>0. StorageTypes /\ Tidy(files) /\ "write_deleted" \notin Careless /\ \A c \in Clients : op[c].dst # <<"sb", u>>
  BY DEF ReadInv, StorageTypes, NotFilled, Separate
<1>1. PICK p \in Places : p = <<"sb", u>> /\ p[1] = "sb"
  BY PlaceFacts
<1>2. ASSUME NEW c \in Clients, Request(c) PROVE files' = files
  BY <1>0, <1>2, RequestStep DEF Asked
<1>3. ASSUME NEW c \in Clients, Step(c) PROVE files'[p] = files[p]
  <2>1. CASE answer(c)
    BY <2>1 DEF answer
  <2>2. CASE ~answer(c)
    <3>1. Worked(c)
      BY <1>0, <1>3, <2>2, BeginCopy, BeginSave, BeginRestore, BeginTransfer, ListStep, CopyStep, FinishStep,
         CleanupStep DEF Step
    <3> QED
      BY <1>0, <1>1, <3>1 DEF Worked, OwnMove
  <2> QED
    BY <2>1, <2>2
<1>4. ASSUME NEW c \in Clients, write_file(c) PROVE files'[p] = files[p]
  <2>1. PICK w \in Usable, n \in Names, x \in 1..MaxVersion :
          Refillable(w) /\ Commit(c, Put(<<"sb", w>>, n, x), op)
    BY <1>4 DEF write_file
  <2>2. w \in Uids /\ w # u /\ x \in Versions
    BY <1>0, <2>1, StorageAssumption DEF Refillable, Usable, StorageTypes, Versions
  <2>3. PICK q \in Places : q = <<"sb", w>>
    BY <2>2, PlaceFacts
  <2>4. p # q
    BY <1>1, <2>2, <2>3
  <2>5. files' = Put(q, n, x)
    BY <2>1, <2>3 DEF Commit
  <2>6. Tidy(files) /\ x \in Versions
    BY <1>0, <2>2
  <2>7. Tidy(Put(q, n, x)) /\ \A y \in Places \ {q} : Put(q, n, x)[y] = files[y]
    BY <2>6, PutTidy
  <2> QED
    BY <2>4, <2>5, <2>7
<1>5. ASSUME NEW c \in Clients, delete_snapshot(c) \/ remove(c) \/ clear(c) PROVE files'[p] = files[p]
  <2>1. CASE delete_snapshot(c)
    <3>1. PICK i \in Ids : files' = With(<<"snap", i>>, NoTree)
      BY <2>1 DEF delete_snapshot, Commit
    <3>2. PICK q \in Places : q = <<"snap", i>> /\ q # p
      BY <1>1, PlaceFacts
    <3> QED
      BY <1>0, <3>1, <3>2, WithTidy, TreeFacts
  <2>2. CASE remove(c)
    <3>1. PICK k \in Keys : files' = With(<<"obj", k>>, NoTree)
      BY <2>2 DEF remove, Commit
    <3>2. PICK q \in Places : q = <<"obj", k>> /\ q # p
      BY <1>1, PlaceFacts
    <3> QED
      BY <1>0, <3>1, <3>2, WithTidy, TreeFacts
  <2>3. CASE clear(c)
    <3>1. files' = [q \in Places |-> IF q[1] = "obj" THEN NoTree ELSE files[q]]
      BY <2>3 DEF clear, Commit
    <3> QED
      BY <1>1, <3>1
  <2> QED
    BY <1>5, <2>1, <2>2, <2>3
<1>6. CASE Crash \/ GuestEnds
  BY <1>6 DEF Crash, GuestEnds
<1> QED
  BY <1>1, <1>2, <1>3, <1>4, <1>5, <1>6 DEF Next

\* A request keeps its destination, and one that arrives finds no tombstones there.
LEMMA FilledStep ==
  ASSUME ReadInv, Separate, Next, NEW d \in Clients, NEW u \in Uids, op'[d].dst = <<"sb", u>>
  PROVE  tomb[u] = {} /\ (GuestDeletes \/ GuestWrites => op[d].dst = <<"sb", u>>)
<1>0. Moves /\ StorageTypes /\ op \in [Clients -> OpRecord] /\ NoOp.dst # <<"sb", u>>
  BY NextMoves, NoOpFacts DEF ReadInv, StorageTypes
<1>1. op[d].dst = <<"sb", u>> => tomb[u] = {}
  BY DEF ReadInv, NotFilled
<1>2. ASSUME NEW c \in Clients, Asked(c) PROVE tomb[u] = {}
  <2>1. PICK r \in OpRecord :
          /\ op' = [op EXCEPT ![c] = r]
          /\ \/ \E w \in Fresh : r.dst = <<"sb", w>>
             \/ r.dst[1] = "sb" => \E w \in Usable : Refillable(w) /\ r.dst = <<"sb", w>>
    BY <1>2 DEF Asked
  <2>2. CASE d = c
    <3>1. r.dst = <<"sb", u>> /\ r.dst[1] = "sb"
      BY <1>0, <2>1, <2>2
    <3> QED
      BY <2>1, <3>1 DEF Fresh, Refillable, Separate
  <2>3. CASE d # c
    BY <1>0, <1>1, <2>1, <2>3
  <2> QED
    BY <2>2, <2>3
<1>3. ASSUME \A e \in Clients : SameKind(e) PROVE op[d].dst = <<"sb", u>>
  BY <1>3 DEF SameKind
<1>4. ASSUME NEW c \in Clients, Answered(c) PROVE op[d].dst = <<"sb", u>>
  BY <1>0, <1>4 DEF Answered
<1>5. ~Crashed
  BY <1>0 DEF Crashed
<1>6. ASSUME Ended PROVE op[d].dst = <<"sb", u>>
  BY <1>6 DEF Ended
<1>7. tomb[u] = {}
  BY <1>0, <1>1, <1>2, <1>3, <1>4, <1>5, <1>6, WorkedKinds, AtOnceKinds DEF Moves
<1>8. ASSUME GuestDeletes \/ GuestWrites PROVE op[d].dst = <<"sb", u>>
  <2>1. AtOnce
    BY <1>0, <1>8, GuestStep
  <2> QED
    BY <1>3, <2>1, AtOnceKinds
<1> QED
  BY <1>7, <1>8

LEMMA GuestWriteReads ==
  ASSUME ReadInv, GuestWrites
  PROVE  /\ \A w \in Uids : tomb'[w] \subseteq tomb[w]
         /\ \A w \in Uids : \A m \in tomb'[w] : files'[<<"sb", w>>].f[m] = files[<<"sb", w>>].f[m]
<1>0. Tidy(files) /\ tomb \in [Uids -> SUBSET Names] /\ Usable \subseteq Uids
  BY DEF ReadInv, StorageTypes, Usable
<1>1. PICK u \in Usable, n \in Names :
        /\ \E x \in 1..MaxVersion : Commit("guest", Put(<<"sb", u>>, n, x), op)
        /\ tomb' = [tomb EXCEPT ![u] = @ \ {n}]
  BY DEF GuestWrites
<1>2. PICK x \in 1..MaxVersion : files' = Put(<<"sb", u>>, n, x)
  BY <1>1 DEF Commit
<1>3. x \in Versions /\ u \in Uids
  BY <1>0, StorageAssumption DEF Versions
<1>4. PICK p \in Places : p = <<"sb", u>>
  BY <1>3, PlaceFacts
<1>5. (\A k \in Names \ {n} : files'[p].f[k] = files[p].f[k]) /\ \A q \in Places \ {p} : files'[q] = files[q]
  <2>1. Put(p, n, x)[p].f = [files[p].f EXCEPT ![n] = x] /\ \A q \in Places \ {p} : Put(p, n, x)[q] = files[q]
    BY <1>0, <1>3, PutTidy
  <2>2. files' = Put(p, n, x)
    BY <1>2, <1>4
  <2>3. PICK g : g = files[p].f /\ files'[p].f = [g EXCEPT ![n] = x]
    BY <2>1, <2>2
  <2>4. g \in [Names -> Versions]
    BY <1>0, <2>3 DEF Tidy, Tree
  <2>5. \A k \in Names \ {n} : files'[p].f[k] = files[p].f[k]
    BY <2>3, <2>4
  <2> QED
    BY <2>1, <2>2, <2>5
<1>6. ASSUME NEW w \in Uids, NEW m \in tomb'[w] PROVE files'[<<"sb", w>>].f[m] = files[<<"sb", w>>].f[m]
  <2>1. CASE w = u
    <3>1. m \in Names \ {n}
      BY <1>0, <1>1, <1>3, <1>6, <2>1
    <3> QED
      BY <1>4, <1>5, <2>1, <3>1
  <2>2. CASE w # u
    <3>1. PICK q \in Places : q = <<"sb", w>> /\ q # p
      BY <1>4, <2>2, PlaceFacts
    <3> QED
      BY <1>5, <3>1
  <2> QED
    BY <2>1, <2>2
<1>7. \A w \in Uids : tomb'[w] \subseteq tomb[w]
  BY <1>0, <1>1, <1>3
<1> QED
  BY <1>6, <1>7

LEMMA GuestDeleteReads ==
  ASSUME ReadInv, Separate, GuestDeletes
  PROVE  \E u \in Uids, n \in Names :
           /\ Unfilled(u) \/ tomb' = tomb
           /\ Lower.f[n] = 0 /\ files'[<<"sb", u>>].f[n] = 0
           /\ \A w \in Uids : \A m \in tomb'[w] : m \in tomb[w] \/ (w = u /\ m = n)
           /\ \A w \in Uids \ {u} : tomb'[w] = tomb[w]
           /\ \A w \in Uids : \A m \in Names : w # u \/ m # n =>
                files'[<<"sb", w>>].f[m] = files[<<"sb", w>>].f[m]
<1>0. Tidy(files) /\ tomb \in [Uids -> SUBSET Names] /\ Usable \subseteq Uids
  BY DEF ReadInv, StorageTypes, Usable
<1>1. PICK u \in Usable, n \in Names :
        /\ Lower.f[n] = 0 /\ (Lower.there => Unfilled(u))
        /\ Commit("guest", With(<<"sb", u>>, [files[<<"sb", u>>] EXCEPT !.f[n] = 0]), op)
        /\ tomb' = (IF Lower.there THEN [tomb EXCEPT ![u] = @ \cup {n}] ELSE tomb)
  BY DEF GuestDeletes, Separate
<1>2. PICK p \in Places : p = <<"sb", u>>
  BY <1>0, PlaceFacts
<1>3. PICK t : t = [files[p] EXCEPT !.f[n] = 0]
  OBVIOUS
<1>4. files' = [files EXCEPT ![p] = t]
  BY <1>1, <1>2, <1>3 DEF Commit, With
<1>5. t.f[n] = 0 /\ \A m \in Names \ {n} : t.f[m] = files[p].f[m]
  <2>1. PICK s \in Tree : s = files[p]
    BY <1>0 DEF Tidy
  <2>2. PICK g : g = [s.f EXCEPT ![n] = 0]
    OBVIOUS
  <2>3. s.f \in [Names -> Versions]
    BY DEF Tree
  <2>4. g[n] = 0 /\ \A m \in Names \ {n} : g[m] = s.f[m]
    BY <2>2, <2>3
  <2>5. t = [s EXCEPT !.f = g]
    BY <1>3, <2>1, <2>2
  <2>6. t.f = g
    BY <2>5 DEF Tree
  <2> QED
    BY <2>1, <2>4, <2>6
<1>6. files'[p] = t /\ \A q \in Places \ {p} : files'[q] = files[q]
  BY <1>0, <1>4 DEF Tidy
<1>7. \A w \in Uids : <<"sb", w>> \in Places /\ (w # u => <<"sb", w>> # p)
  BY <1>2, PlaceFacts
<1>8. \A w \in Uids : \A m \in Names : w # u \/ m # n =>
        files'[<<"sb", w>>].f[m] = files[<<"sb", w>>].f[m]
  <2> TAKE w \in Uids
  <2> TAKE m \in Names
  <2>1. CASE w = u
    BY <1>2, <1>5, <1>6, <2>1
  <2>2. CASE w # u
    BY <1>6, <1>7, <2>2
  <2> QED
    BY <2>1, <2>2
<1>9. (\A w \in Uids : \A m \in tomb'[w] : m \in tomb[w] \/ (w = u /\ m = n)) /\ (\A w \in Uids \ {u} : tomb'[w] = tomb[w])
  BY <1>0, <1>1
<1>10. files'[<<"sb", u>>].f[n] = 0 /\ u \in Uids /\ Lower.f[n] = 0 /\ (Unfilled(u) \/ tomb' = tomb)
  BY <1>0, <1>1, <1>2, <1>5, <1>6
<1> QED
  BY <1>8, <1>9, <1>10

LEMMA ReadStep == ASSUME ReadInv, Separate, Next PROVE ReadInv'
<1>0. /\ StorageTypes' /\ files'[<<"lower">>] = files[<<"lower">>]
      /\ tomb \in [Uids -> SUBSET Names] /\ tomb' \in [Uids -> SUBSET Names]
  BY TypesStep, LowerKept DEF ReadInv, StorageTypes
<1>1. HiddenGone'
  <2>1. SUFFICES ASSUME NEW w \in Uids, NEW m \in tomb'[w]
                 PROVE  files[<<"lower">>].f[m] = 0 /\ files'[<<"sb", w>>].f[m] = 0
    BY <1>0 DEF HiddenGone, Lower
  <2>2. m \in tomb[w] => files[<<"lower">>].f[m] = 0 /\ files[<<"sb", w>>].f[m] = 0
    BY DEF ReadInv, HiddenGone, Lower
  <2>3. CASE GuestWrites
    BY <2>1, <2>2, <2>3, GuestWriteReads
  <2>4. CASE GuestDeletes
    <3>1. PICK u \in Uids, n \in Names :
            /\ files[<<"lower">>].f[n] = 0 /\ files'[<<"sb", u>>].f[n] = 0
            /\ m \in tomb[w] \/ (w = u /\ m = n)
            /\ \A k \in Names : w # u \/ k # n => files'[<<"sb", w>>].f[k] = files[<<"sb", w>>].f[k]
      BY <2>1, <2>4, GuestDeleteReads DEF Lower
    <3>2. m \in Names
      BY <1>0, <2>1
    <3> QED
      BY <2>2, <3>1, <3>2
  <2>5. CASE ~GuestWrites /\ ~GuestDeletes
    <3>1. m \in tomb[w]
      BY <2>1, <2>5, TombsKept DEF ReadInv
    <3> QED
      BY <2>2, <2>5, <3>1, HostStaysOut
  <2> QED
    BY <2>3, <2>4, <2>5
<1>2. NotFilled'
  <2>1. SUFFICES ASSUME NEW d \in Clients, NEW w \in Uids, op'[d].dst = <<"sb", w>> PROVE tomb'[w] = {}
    BY DEF NotFilled
  <2>2. tomb[w] = {} /\ (GuestDeletes \/ GuestWrites => op[d].dst = <<"sb", w>>)
    BY <2>1, FilledStep
  <2>3. CASE GuestWrites
    BY <2>2, <2>3, GuestWriteReads
  <2>4. CASE GuestDeletes
    <3>1. PICK u \in Uids : (Unfilled(u) \/ tomb' = tomb) /\ \A x \in Uids \ {u} : tomb'[x] = tomb[x]
      BY <2>4, GuestDeleteReads
    <3>2. Unfilled(u) => w # u
      BY <2>2, <2>4 DEF Unfilled, Separate
    <3> QED
      BY <2>2, <3>1, <3>2
  <2>5. CASE ~GuestWrites /\ ~GuestDeletes
    BY <2>2, <2>5, TombsKept DEF ReadInv
  <2> QED
    BY <2>3, <2>4, <2>5
<1> QED
  BY <1>0, <1>1, <1>2 DEF ReadInv

\* The host reads a file of a sandbox as its running guest sees it, though it does not know
\* what the guest has deleted: unless a guest deletes a file of the host, or a request puts
\* files into a sandbox whose guest has deleted some (fileio.rs read_file).
THEOREM ReadAlwaysAsGuest == ASSUME Separate PROVE Spec => []ReadAsGuest
<1>1. Init => ReadInv
  <2> SUFFICES ASSUME Init PROVE ReadInv
    OBVIOUS
  <2>1. \A u \in Uids : tomb[u] = {}
    BY DEF Init
  <2> QED
    BY <2>1, TypesInit DEF ReadInv, HiddenGone, NotFilled
<1>2. ReadInv /\ [Next]_vars => ReadInv'
  <2>1. ASSUME ReadInv, Next PROVE ReadInv'
    BY <2>1, ReadStep
  <2>2. ASSUME ReadInv, UNCHANGED vars PROVE ReadInv'
    <3>1. Tidy(files)'
      BY <2>2 DEF ReadInv, StorageTypes, Tidy, vars
    <3>2. StorageTypes'
      BY <2>2, <3>1 DEF ReadInv, StorageTypes, KindOK, vars
    <3>3. HiddenGone' /\ NotFilled'
      BY <2>2 DEF ReadInv, HiddenGone, Lower, NotFilled, vars
    <3> QED
      BY <3>2, <3>3 DEF ReadInv
  <2> QED
    BY <2>1, <2>2
<1>3. ReadInv => ReadAsGuest
  <2> SUFFICES ASSUME ReadInv, NEW u \in boxes, NEW n \in Names PROVE read_file(u, n) = GuestView(u, n)
    BY DEF ReadAsGuest
  <2>1. u \in Uids /\ (n \in tomb[u] => Lower.f[n] = 0 /\ files[<<"sb", u>>].f[n] = 0)
    BY DEF ReadInv, StorageTypes, HiddenGone
  <2> QED
    BY <2>1 DEF read_file, GuestView
<1> QED
  BY <1>1, <1>2, <1>3, PTL DEF Spec
=============================================================================
