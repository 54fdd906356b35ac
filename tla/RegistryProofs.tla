--------------------------- MODULE RegistryProofs ---------------------------
(***************************************************************************)
(* Proofs about the daemon's registry.                                     *)
(***************************************************************************)
EXTENDS Registry, FiniteSetTheorems, SequenceTheorems, WellFoundedInduction, TLAPS

-----------------------------------------------------------------------------
(* Numbers that are chosen as the least that is free.                      *)

LEMMA LeastNatural ==
  ASSUME NEW T \in SUBSET Nat, T # {}
  PROVE  \E x \in T : \A y \in T : x <= y
<1> DEFINE R == OpToRel(<, Nat)
<1>1. IsWellFoundedOn(R, Nat)
  BY NatLessThanWellFounded
<1>2. PICK x \in T : \A y \in T : ~(<<y, x>> \in R)
  <2> HIDE DEF R
  <2> QED
    BY <1>1, WFMin
<1>3. ASSUME NEW y \in T PROVE x <= y
  <2>1. ~(<<y, x>> \in {ss \in Nat \X Nat : ss[1] < ss[2]})
    BY <1>2 DEF OpToRel
  <2> QED
    BY <2>1
<1> QED
  BY <1>2, <1>3

\* The slot of a new session is one that was never used.
LEMMA SlotUnstarted ==
  ASSUME Unstarted # {}, daemon.sids \in 0 .. MaxSid,
         NEW s, s = CHOOSE r \in Unstarted : \A o \in Unstarted : r <= o
  PROVE  s \in Sids /\ session[s].st = "none"
<1>1. Unstarted \in SUBSET Nat /\ Unstarted \subseteq Sids
  BY RegistryAssumption DEF Unstarted, Sids
<1>2. \E r \in Unstarted : \A o \in Unstarted : r <= o
  BY <1>1, LeastNatural
<1>3. s \in Unstarted
  BY <1>2
<1> QED
  BY <1>1, <1>3 DEF Unstarted

NamePairs == {<<n, k>> : n \in Names, k \in 1 .. (MaxUid + 1)}
BoxRecord == [name : NamePairs \cup {<<>>}, conf : Confs]

\* A sandbox's name is a pair, which the empty record of NoBox is not.
LEMMA BoxTypes ==
  /\ NoBox \in Box /\ NoBox.name = <<>> /\ <<>> \notin NamePairs
  /\ \A b \in Box : b \in BoxRecord
  /\ \A b \in Box : b # NoBox => b.name \in NamePairs
  /\ \A n \in NamePairs, v \in Confs : [name |-> n, conf |-> v] \in Box
                                       /\ [name |-> n, conf |-> v] # NoBox
  /\ \A b \in Box \ {NoBox}, v \in Confs :
       /\ [b EXCEPT !.conf = v] \in Box /\ [b EXCEPT !.conf = v] # NoBox
       /\ [b EXCEPT !.conf = v].name = b.name /\ [b EXCEPT !.conf = v].conf = v
<1>1. Box = [name : NamePairs, conf : Confs] \cup {NoBox}
  BY DEF Box, NamePairs
<1>2. NoBox.name = <<>> /\ NoBox.conf = Default /\ Default \in Confs /\ <<>> \notin NamePairs
  BY RegistryAssumption DEF NoBox, NamePairs
<1> QED
  BY <1>1, <1>2 DEF NoBox, BoxRecord

\* One of MaxUid + 1 suffixes is free: there are MaxUid sandboxes.
LEMMA NameIsFree ==
  ASSUME NEW base \in Names
  PROVE  /\ FreshName(base) \in NamePairs
         /\ FreshName(base) \notin Taken
<1> DEFINE Suffixes == 1 .. (MaxUid + 1)
           free == {k \in Suffixes : <<base, k>> \notin Taken}
<1>1. MaxUid \in Nat
  BY RegistryAssumption
<1>2. free # {}
  <2> SUFFICES ASSUME free = {} PROVE FALSE
    OBVIOUS
  <2>1. \A k \in Suffixes : \E u \in Uids : sandboxes[u].name = <<base, k>>
    BY DEF Taken
  <2> DEFINE f == [k \in Suffixes |-> CHOOSE u \in Uids : sandboxes[u].name = <<base, k>>]
  <2>2. f \in [Suffixes -> Uids] /\ \A k \in Suffixes : sandboxes[f[k]].name = <<base, k>>
    BY <2>1
  <2>3. /\ IsFiniteSet(Suffixes) /\ Cardinality(Suffixes) = MaxUid + 1
        /\ IsFiniteSet(Uids) /\ Cardinality(Uids) = MaxUid
    BY <1>1, FS_Interval DEF Uids
  <2>4. \E x, y \in Suffixes : x # y /\ f[x] = f[y]
    <3> HIDE DEF f, Suffixes
    <3> QED
      BY <1>1, <2>2, <2>3, FS_PigeonHole
  <2>5. PICK x \in Suffixes, y \in Suffixes : x # y /\ f[x] = f[y]
    BY <2>4
  <2>6. <<base, x>> = <<base, y>>
    BY <2>2, <2>5
  <2> QED
    BY <2>5, <2>6
<1>3. \E k \in free : \A j \in free : k <= j
  <2>1. free \in SUBSET Nat
    BY <1>1
  <2> HIDE DEF free
  <2> QED
    BY <1>2, <2>1, LeastNatural
<1>4. (CHOOSE k \in free : \A j \in free : k <= j) \in free
  <2> HIDE DEF free
  <2> QED
    BY <1>3
<1> QED
  BY <1>4 DEF FreshName, NamePairs

-----------------------------------------------------------------------------
(* The types, and how far a request has come.                              *)

NewPcs == {"resolve_new", "index_new", "prepare"}
Pcs == {"idle", "resolve_free", "remove", "update", "index", "execute", "spawn", "write", "rollback",
        "create", "push", "running", "insert", "kill", "sweep", "cleanup", "unpersist"} \cup NewPcs
CallNames == {"none", "create", "prepare", "fork", "free", "configure", "run", "session", "end",
              "write", "rollback"}
Request == [pc : Pcs, call : CallNames, uid : 0 .. MaxUid, new : 0 .. MaxUid, conf : Confs,
            eph : BOOLEAN, sid : 0 .. MaxSid, doomed : SUBSET Sids]
SessionRecord == [st : {"none", "spawned", "live", "ended", "lost"}, uid : 0 .. MaxUid,
                  eph : BOOLEAN, conf : Confs, alive : BOOLEAN]

\* What a request has drawn, found and taken when it is at its step.
RequestOK(q) ==
  /\ q.pc = "idle" => q = NoRequest
  /\ q.pc = "index" => q.call \in {"run", "session", "write", "rollback", "fork"}
  /\ q.pc \in {"resolve_free", "remove", "sweep", "unpersist"} => q.call = "free"
  /\ q.pc \in {"kill", "cleanup"} => q.call \in {"free", "end"}
  /\ q.pc = "cleanup" /\ q.call = "end" => q.eph
  /\ q.pc \in NewPcs <=> q.new # NoUid
  /\ q.pc \notin {"idle"} \cup NewPcs => q.uid # NoUid
  /\ q.doomed # {} => q.pc = "kill"
  /\ q.eph => \/ q.pc \in {"execute", "running"} /\ q.call = "run"
              \/ q.pc \in {"spawn", "insert"} /\ q.call = "session"
              \/ q.pc \in {"kill", "cleanup"} /\ q.call = "end"
  /\ q.pc \in {"execute", "running"} => q.call = "run"
  /\ q.pc \in {"spawn", "insert"} => q.call = "session"
  /\ q.pc = "insert" => q.sid \in Sids

RegistryTypes ==
  /\ daemon \in Deployments /\ drawn \in 0 .. MaxUid /\ poisoned \in BOOLEAN
  /\ sandboxes \in [Uids -> Box] /\ store \in [Uids -> Box]
  /\ overlay \in [Uids -> {"none", "here", "left"}]
  /\ session \in [Sids -> SessionRecord] /\ client \in [Clients -> Request]
  /\ writes \in Seq([uid : Uids, row : Box])

\* Nothing refers to a uid before it is drawn.
Drawn ==
  /\ \A u \in Uids : u > drawn => sandboxes[u] = NoBox /\ store[u] = NoBox /\ overlay[u] = "none"
  /\ \A i \in 1 .. Len(writes) : writes[i].uid <= drawn
  /\ \A s \in Sids : /\ session[s].uid <= drawn
                     /\ session[s].st = "none" => session[s] = NoSession
                     /\ session[s].st # "none" => session[s].uid # NoUid
  /\ \A c \in Clients : /\ client[c].uid <= drawn /\ client[c].new <= drawn
                        /\ RequestOK(client[c])

\* A session that is spawned is put in the map by the request that spawned it.
Inserts(c, s) == client[c].pc = "insert" /\ client[c].sid = s
Spawning ==
  /\ \A c \in Clients, s \in Sids : Inserts(c, s) =>
       /\ session[s].st = "spawned" /\ session[s].uid = client[c].uid
       /\ session[s].eph = client[c].eph
  /\ \A c, d \in Clients, s \in Sids : Inserts(c, s) /\ Inserts(d, s) => c = d

TypeInv == RegistryTypes /\ Drawn /\ Spawning

\* The request of c becomes q.
Becomes(c, q) ==
  /\ client' = [client EXCEPT ![c] = q]
  /\ client'[c] = q
  /\ \A d \in Clients \ {c} : client'[d] = client[d]

\* Only the step of a request changes.
Onward(q, r, pc) ==
  /\ q.pc = pc /\ q.call = r.call /\ q.uid = r.uid /\ q.new = r.new
  /\ q.conf = r.conf /\ q.eph = r.eph /\ q.sid = r.sid /\ q.doomed = r.doomed

LEMMA NoRequestOK ==
  /\ NoRequest \in Request /\ RequestOK(NoRequest)
  /\ NoRequest.pc = "idle" /\ NoRequest.uid = NoUid /\ NoRequest.new = NoUid
  /\ NoRequest.doomed = {} /\ NoRequest.eph = FALSE /\ NoRequest.sid = NoSid
  /\ NoRequest.call = "none" /\ NoRequest.conf = Default
<1>1. /\ NoRequest.pc = "idle" /\ NoRequest.uid = NoUid /\ NoRequest.new = NoUid
      /\ NoRequest.doomed = {} /\ NoRequest.eph = FALSE /\ NoRequest.sid = NoSid
      /\ NoRequest.call = "none" /\ NoRequest.conf = Default
  BY DEF NoRequest
<1>2. NoRequest \in Request
  <2>1. 0 \in 0 .. MaxUid /\ 0 \in 0 .. MaxSid /\ Default \in Confs /\ {} \in SUBSET Sids
    BY RegistryAssumption
  <2> QED
    BY <2>1 DEF NoRequest, Request, NoUid, NoSid, Pcs, CallNames
<1>3. RequestOK(NoRequest)
  BY <1>1 DEF RequestOK, NewPcs
<1> QED
  BY <1>1, <1>2, <1>3

\* The step that follows resolve, and the one that follows index.
LEMMA NextSteps ==
  /\ DOMAIN Second = {"free", "configure", "run", "session", "write", "rollback", "fork"}
  /\ Second["free"] = "remove" /\ Second["configure"] = "update"
  /\ \A call \in DOMAIN Second \ {"free", "configure"} : Second[call] = "index"
  /\ Third["run"] = "execute" /\ Third["session"] = "spawn" /\ Third["write"] = "write"
  /\ Third["rollback"] = "rollback" /\ Third["fork"] = "create"
BY DEF Second, Third

LEMMA BecomesType ==
  ASSUME RegistryTypes, NEW c \in Clients, NEW q \in Request, client' = [client EXCEPT ![c] = q]
  PROVE  Becomes(c, q) /\ client' \in [Clients -> Request]
BY DEF RegistryTypes, Becomes

LEMMA ReturnsBecomes ==
  ASSUME RegistryTypes, NEW c \in Clients, Returns(c)
  PROVE  Becomes(c, NoRequest)
BY NoRequestOK, BecomesType DEF Returns

LEMMA GoesBecomes ==
  ASSUME RegistryTypes, NEW c \in Clients, NEW pc \in Pcs, Goes(c, pc)
  PROVE  \E q \in Request : Becomes(c, q) /\ Onward(q, client[c], pc)
<1>1. client[c] \in Request
  BY DEF RegistryTypes
<1>2. PICK q : q = [client[c] EXCEPT !.pc = pc]
  OBVIOUS
<1>3. q \in Request /\ Onward(q, client[c], pc)
  BY <1>1, <1>2 DEF Request, Onward
<1> QED
  BY <1>2, <1>3, BecomesType DEF Goes

-----------------------------------------------------------------------------
(* What a step of a request does, in terms of the state it is about.       *)

New(c) == client[c].new
Ends(c) == \E s \in Sids : end_session(c, s)
BoxStep(c) == \/ \E n \in Names, call \in Calls : create_sandbox(c, n, call)
              \/ \E n \in Names : create_fork(c, n)
              \/ update(c) \/ remove(c)
SessionStep(c) == push(c) \/ spawn(c) \/ insert(c) \/ Ends(c) \/ sweep(c) \/ kill(c)

\* Where a request has a uid from: it had it, or drew it, or found it in the map of
\* the sandboxes or of the sessions.
Origin(c, q, u) ==
  \/ u \in {NoUid, Uid(c), New(c)}
  \/ drawn' = drawn + 1 /\ u = drawn + 1
  \/ /\ u \in 1 .. drawn /\ MayUse(u)
     /\ \/ Known(sandboxes, u)
        \/ \E s \in Sids : Live(s, u) /\ (q.eph <=> session[s].eph)

EphemeralOrigin(c, q) ==
  \/ client[c].eph /\ q.uid = Uid(c)
  \/ \E call \in Calls : ephemeral(c, call) /\ q.uid = drawn + 1 /\ q.pc \in {"execute", "spawn"}
  \/ \E s \in Sids : end_session(c, s) /\ session[s].eph /\ q.uid = session[s].uid

\* How a request comes to a step that others must respect.
Came(c, q) ==
  /\ q.pc = "index" => Known(sandboxes, q.uid) /\ UNCHANGED sandboxes
  /\ q.pc = "index_new" => Known(sandboxes, q.new) /\ UNCHANGED sandboxes
  /\ q.pc = "insert" => spawn(c)
  /\ q.pc = "sweep" => remove(c)
  /\ q.pc = "kill" => sweep(c) \/ Ends(c)
  /\ q.pc = "cleanup" => kill(c)
  /\ q.doomed # {} => sweep(c) \/ Ends(c)

OverlayStep(c) ==
  \/ UNCHANGED overlay
  \/ \E u \in {Uid(c), New(c)} \cap Uids : Makes(u)
  \/ Removes(Uid(c)) /\ (rollback(c) \/ cleanup_overlay(c) \/ (run_ends(c) /\ client[c].eph))

\* The request of c becomes q.
Moves(c, q) ==
  /\ q \in Request /\ Becomes(c, q) /\ RequestOK(q)
  /\ Origin(c, q, q.uid) /\ Origin(c, q, q.new)
  /\ client[c].eph /\ ~q.eph => q.uid = NoUid /\ q.new = NoUid
  /\ q.eph => EphemeralOrigin(c, q)
  /\ Came(c, q)

Draws(c) ==
  \/ UNCHANGED drawn
  \/ /\ drawn < MaxUid /\ drawn' = drawn + 1
     /\ \/ \E n \in Names, call \in Calls : create_sandbox(c, n, call)
        \/ \E n \in Names : create_fork(c, n)
        \/ \E call \in Calls : ephemeral(c, call)

\* What is not the request's own.
Changes(c) ==
  /\ UNCHANGED store /\ Draws(c)
  /\ UNCHANGED sandboxes \/ BoxStep(c)
  /\ UNCHANGED session \/ SessionStep(c)
  /\ UNCHANGED writes \/ BoxStep(c) \/ unpersist(c)
  /\ OverlayStep(c)
  /\ UNCHANGED poisoned \/ (poisoned' = TRUE /\ \/ At(c, "index") /\ ~Known(sandboxes, Uid(c))
                                                \/ At(c, "index_new") /\ ~Known(sandboxes, New(c)))

LEMMA StoreUnchanged ==
  ASSUME NEW c \in Clients, Step(c) PROVE UNCHANGED store
BY DEF Step, create_sandbox, create_fork, request, ephemeral, end_session, resolve_new,
     index_new, prepare, resolve_free, index, write_file, rollback, update, push, execute, run_ends,
     spawn, insert, remove, sweep, kill, cleanup_overlay, unpersist, Panics

LEMMA DrawsChange ==
  ASSUME NEW c \in Clients, Step(c) PROVE Draws(c)
BY DEF Draws, Step, create_sandbox, create_fork, request, ephemeral, end_session, resolve_new,
     index_new, prepare, resolve_free, index, write_file, rollback, update, push, execute, run_ends,
     spawn, insert, remove, sweep, kill, cleanup_overlay, unpersist, Panics

LEMMA BoxesChange ==
  ASSUME NEW c \in Clients, Step(c) PROVE UNCHANGED sandboxes \/ BoxStep(c)
BY DEF Step, BoxStep, request, ephemeral, end_session, resolve_new,
     index_new, prepare, resolve_free, index, write_file, rollback, push, execute, run_ends,
     spawn, insert, sweep, kill, cleanup_overlay, unpersist, Panics

LEMMA SessionsChange ==
  ASSUME NEW c \in Clients, Step(c) PROVE UNCHANGED session \/ SessionStep(c)
BY DEF Step, SessionStep, Ends, create_sandbox, create_fork, request, ephemeral, resolve_new,
     index_new, prepare, resolve_free, index, write_file, rollback, update, execute, run_ends,
     remove, cleanup_overlay, unpersist, Panics

LEMMA WritesChange ==
  ASSUME NEW c \in Clients, Step(c) PROVE UNCHANGED writes \/ BoxStep(c) \/ unpersist(c)
BY DEF Step, BoxStep, request, ephemeral, end_session, resolve_new,
     index_new, prepare, resolve_free, index, write_file, rollback, push, execute, run_ends,
     spawn, insert, sweep, kill, cleanup_overlay, Panics

LEMMA RequestFacts ==
  ASSUME TypeInv, NEW c \in Clients
  PROVE  /\ client[c] \in Request /\ RequestOK(client[c])
         /\ Uid(c) \in 0 .. MaxUid /\ Uid(c) <= drawn /\ New(c) \in 0 .. MaxUid /\ New(c) <= drawn
         /\ drawn \in Nat /\ MaxUid \in Nat
         /\ client[c].pc \in NewPcs => New(c) \in Uids
         /\ client[c].pc \notin {"idle"} \cup NewPcs => Uid(c) \in Uids
<1>1. client[c] \in Request /\ RequestOK(client[c]) /\ client[c].uid <= drawn /\ client[c].new <= drawn
  BY DEF TypeInv, RegistryTypes, Drawn
<1>2. client[c].uid \in 0 .. MaxUid /\ client[c].new \in 0 .. MaxUid /\ MaxUid \in Nat /\ drawn \in Nat
  BY <1>1, RegistryAssumption DEF Request, TypeInv, RegistryTypes
<1>3. /\ client[c].pc \in NewPcs => client[c].new # 0
      /\ client[c].pc \notin {"idle"} \cup NewPcs => client[c].uid # 0
  BY <1>1 DEF RequestOK, NoUid
<1> QED
  BY <1>1, <1>2, <1>3 DEF Uid, New, Uids

LEMMA OverlaysChange ==
  ASSUME TypeInv, NEW c \in Clients, Step(c) PROVE OverlayStep(c)
<1>1. CASE prepare(c)
  <2>1. New(c) \in Uids
    BY <1>1, RequestFacts DEF prepare, At, NewPcs
  <2> QED
    BY <1>1, <2>1 DEF prepare, OverlayStep, MayMake, New
<1>2. CASE write_file(c) \/ rollback(c) \/ execute(c) \/ run_ends(c) \/ spawn(c) \/ cleanup_overlay(c)
  <2>1. Uid(c) \in Uids
    BY <1>2, RequestFacts DEF write_file, rollback, execute, run_ends, spawn, cleanup_overlay, At, NewPcs
  <2>2. UNCHANGED overlay \/ Makes(Uid(c)) \/ Removes(Uid(c))
    BY <1>2 DEF write_file, rollback, execute, run_ends, spawn, cleanup_overlay, MayMake
  <2>3. Removes(Uid(c)) => UNCHANGED overlay \/ Makes(Uid(c))
                           \/ rollback(c) \/ cleanup_overlay(c) \/ (run_ends(c) /\ client[c].eph)
    <3>1. CASE run_ends(c)
      <4>1. IF client[c].eph THEN Removes(Uid(c)) ELSE UNCHANGED overlay
        BY <3>1 DEF run_ends
      <4> QED
        BY <3>1, <4>1
    <3>2. CASE write_file(c) \/ execute(c) \/ spawn(c)
      BY <3>2 DEF write_file, execute, spawn, MayMake
    <3> QED
      BY <1>2, <3>1, <3>2
  <2> QED
    BY <2>1, <2>2, <2>3 DEF OverlayStep
<1>3. CASE ~(prepare(c) \/ write_file(c) \/ rollback(c) \/ execute(c) \/ run_ends(c) \/ spawn(c)
             \/ cleanup_overlay(c))
  <2>1. UNCHANGED overlay
    BY <1>3 DEF Step, create_sandbox, create_fork, request, ephemeral, end_session, resolve_new,
         index_new, resolve_free, index, update, push, insert, remove, sweep, kill, unpersist, Panics
  <2> QED
    BY <2>1 DEF OverlayStep
<1> QED
  BY <1>1, <1>2, <1>3

LEMMA PoisonChanges ==
  ASSUME NEW c \in Clients, Step(c)
  PROVE  UNCHANGED poisoned \/ (poisoned' = TRUE /\ \/ At(c, "index") /\ ~Known(sandboxes, Uid(c))
                                                    \/ At(c, "index_new") /\ ~Known(sandboxes, New(c)))
BY DEF Step, create_sandbox, create_fork, request, ephemeral, end_session, resolve_new, Index, Locked, New,
     index_new, prepare, resolve_free, index, write_file, rollback, update, push, execute, run_ends,
     spawn, insert, remove, sweep, kill, cleanup_overlay, unpersist, Panics

LEMMA StepChanges ==
  ASSUME TypeInv, NEW c \in Clients, Step(c) PROVE Changes(c)
BY StoreUnchanged, DrawsChange, BoxesChange, SessionsChange, WritesChange, OverlaysChange, PoisonChanges
DEF Changes

-----------------------------------------------------------------------------
(* How a request goes on.                                                  *)

LEMMA ReturnsMoves ==
  ASSUME TypeInv, NEW c \in Clients, Returns(c) PROVE Moves(c, NoRequest)
<1>1. Becomes(c, NoRequest)
  BY ReturnsBecomes DEF TypeInv
<1> QED
  BY <1>1, NoRequestOK DEF Moves, Origin, Came

\* The request goes on to step pc.
LEMMA GoesMoves ==
  ASSUME TypeInv, NEW c \in Clients, NEW pc \in Pcs, Goes(c, pc),
         \A q : Onward(q, client[c], pc) => RequestOK(q) /\ Came(c, q)
  PROVE  \E q : Moves(c, q)
<1>1. PICK q \in Request : Becomes(c, q) /\ Onward(q, client[c], pc)
  BY GoesBecomes DEF TypeInv
<1>2. RequestOK(q) /\ Came(c, q)
  BY <1>1
<1>3. Origin(c, q, q.uid) /\ Origin(c, q, q.new) /\ (q.eph => EphemeralOrigin(c, q)) /\ q.eph = client[c].eph
  BY <1>1 DEF Onward, Origin, EphemeralOrigin, Uid, New
<1> QED
  BY <1>1, <1>2, <1>3 DEF Moves

\* It starts with a uid that was found or drawn.
LEMMA StartsMoves ==
  ASSUME TypeInv, NEW c \in Clients, NEW pc \in Pcs, NEW r \in Request, Starts(c, pc, r), ~client[c].eph,
         \A q : Onward(q, r, pc) => /\ RequestOK(q) /\ Came(c, q) /\ (q.eph => EphemeralOrigin(c, q))
                                    /\ Origin(c, q, q.uid) /\ Origin(c, q, q.new)
  PROVE  \E q : Moves(c, q)
<1>1. PICK q : q = [r EXCEPT !.pc = pc]
  OBVIOUS
<1>2. q \in Request /\ Onward(q, r, pc)
  BY <1>1 DEF Request, Onward
<1>3. Becomes(c, q)
  BY <1>1, <1>2, BecomesType DEF Starts, TypeInv
<1> QED
  BY <1>2, <1>3 DEF Moves

\* One lemma for each step that gives a request more than its next step.
LEMMA GoesOnMoves ==
  ASSUME TypeInv, NEW c \in Clients,
         \/ resolve_new(c) \/ index_new(c) \/ resolve_free(c) \/ update(c) \/ execute(c)
         \/ remove(c) \/ cleanup_overlay(c)
  PROVE  \E q : Moves(c, q)
<1>1. client[c] \in Request /\ RequestOK(client[c])
  BY RequestFacts
<1>2. ASSUME Returns(c) PROVE \E q : Moves(c, q)
  BY <1>2, ReturnsMoves
<1>3. CASE resolve_new(c)
  <2>1. ASSUME Goes(c, "index_new"), Known(sandboxes, New(c)) PROVE \E q : Moves(c, q)
    <3>1. \A q : Onward(q, client[c], "index_new") => RequestOK(q) /\ Came(c, q)
      BY <1>1, <1>3, <2>1 DEF resolve_new, Locked, At, Onward, RequestOK, Came, New, NewPcs
    <3> QED
      BY <2>1, <3>1, GoesMoves DEF Pcs, NewPcs
  <2> QED
    BY <1>2, <1>3, <2>1 DEF resolve_new, New
<1>4. CASE index_new(c)
  <2>1. ASSUME Goes(c, "prepare") PROVE \E q : Moves(c, q)
    <3>1. \A q : Onward(q, client[c], "prepare") => RequestOK(q) /\ Came(c, q)
      BY <1>1, <1>4 DEF index_new, Locked, At, Onward, RequestOK, Came, NewPcs
    <3> QED
      BY <2>1, <3>1, GoesMoves DEF Pcs, NewPcs
  <2> QED
    BY <1>2, <1>4, <2>1 DEF index_new, Index
<1>5. CASE resolve_free(c)
  <2>1. ASSUME Goes(c, "remove") PROVE \E q : Moves(c, q)
    <3>1. \A q : Onward(q, client[c], "remove") => RequestOK(q) /\ Came(c, q)
      BY <1>1, <1>5 DEF resolve_free, Locked, At, Onward, RequestOK, Came, NewPcs
    <3> QED
      BY <2>1, <3>1, GoesMoves DEF Pcs
  <2> QED
    BY <1>2, <1>5, <2>1 DEF resolve_free
<1>6. CASE update(c)
  <2>1. ASSUME Goes(c, "push") PROVE \E q : Moves(c, q)
    <3>1. \A q : Onward(q, client[c], "push") => RequestOK(q) /\ Came(c, q)
      BY <1>1, <1>6 DEF update, Locked, At, Onward, RequestOK, Came, NewPcs
    <3> QED
      BY <2>1, <3>1, GoesMoves DEF Pcs
  <2> QED
    BY <1>2, <1>6, <2>1 DEF update
<1>7. CASE execute(c)
  <2>1. ASSUME Goes(c, "running") PROVE \E q : Moves(c, q)
    <3>1. \A q : Onward(q, client[c], "running") => RequestOK(q) /\ Came(c, q)
      BY <1>1, <1>7 DEF execute, At, Onward, RequestOK, Came, NewPcs
    <3> QED
      BY <2>1, <3>1, GoesMoves DEF Pcs
  <2> QED
    BY <1>2, <1>7, <2>1 DEF execute
<1>8. CASE remove(c)
  <2>1. ASSUME NEW pc \in {"sweep", "unpersist"}, Goes(c, pc) PROVE \E q : Moves(c, q)
    <3>1. \A q : Onward(q, client[c], pc) => RequestOK(q) /\ Came(c, q)
      BY <1>1, <1>8 DEF remove, Locked, At, Onward, RequestOK, Came, NewPcs
    <3> QED
      BY <2>1, <3>1, GoesMoves DEF Pcs
  <2> QED
    BY <1>8, <2>1 DEF remove
<1>9. CASE cleanup_overlay(c)
  <2>1. ASSUME Goes(c, "unpersist"), Call(c) # "end" PROVE \E q : Moves(c, q)
    <3>1. \A q : Onward(q, client[c], "unpersist") => RequestOK(q) /\ Came(c, q)
      BY <1>1, <1>9, <2>1 DEF cleanup_overlay, At, Onward, RequestOK, Came, NewPcs, Call
    <3> QED
      BY <2>1, <3>1, GoesMoves DEF Pcs
  <2> QED
    BY <1>2, <1>9, <2>1 DEF cleanup_overlay
<1> QED
  BY <1>3, <1>4, <1>5, <1>6, <1>7, <1>8, <1>9

LEMMA MoreMoves ==
  ASSUME TypeInv, NEW c \in Clients,
         \/ index(c) \/ spawn(c) \/ sweep(c) \/ kill(c) \/ \E n \in Names : create_fork(c, n)
  PROVE  \E q : Moves(c, q)
<1>1. client[c] \in Request /\ RequestOK(client[c]) /\ (~At(c, "idle") /\ At(c, "index") => Uid(c) \in Uids)
  BY RequestFacts DEF At, NewPcs
<1>2. ASSUME Returns(c) PROVE \E q : Moves(c, q)
  BY <1>2, ReturnsMoves
<1>3. ASSUME NEW q \in Request, client' = [client EXCEPT ![c] = q], RequestOK(q), Came(c, q),
             q.uid = Uid(c), q.new = New(c) \/ (drawn' = drawn + 1 /\ q.new = drawn + 1),
             q.eph = client[c].eph
      PROVE  \E r : Moves(c, r)
  <2>1. Becomes(c, q)
    BY <1>3, BecomesType DEF TypeInv
  <2> QED
    BY <1>3, <2>1 DEF Moves, Origin, EphemeralOrigin
<1>4. CASE index(c)
  <2>1. CASE ~Known(sandboxes, Uid(c))
    BY <1>2, <1>4, <2>1 DEF index
  <2>2. CASE Known(sandboxes, Uid(c))
    <3>1. PICK q : q = [client[c] EXCEPT !.pc = Third[Call(c)], !.conf = sandboxes[Uid(c)].conf]
      OBVIOUS
    <3>2. client' = [client EXCEPT ![c] = q]
      BY <1>4, <2>2, <3>1 DEF index
    <3>3. At(c, "index") /\ client[c].call \in {"run", "session", "write", "rollback", "fork"}
      BY <1>1, <1>4 DEF index, Locked, At, RequestOK
    <3>4. PICK pc \in {"execute", "spawn", "write", "rollback", "create"} :
            /\ pc = Third[Call(c)]
            /\ pc = "execute" => client[c].call = "run"
            /\ pc = "spawn" => client[c].call = "session"
      BY <3>3, NextSteps DEF Call
    <3>5. sandboxes[Uid(c)].conf \in Confs
      BY <1>1, <3>3, BoxTypes DEF At, TypeInv, RegistryTypes, BoxRecord
    <3>6. /\ q \in Request /\ q.pc = pc /\ q.call = client[c].call /\ q.uid = client[c].uid
          /\ q.new = client[c].new /\ q.eph = client[c].eph /\ q.doomed = client[c].doomed
      BY <1>1, <3>1, <3>4, <3>5 DEF Request, Pcs
    <3>7. RequestOK(q) /\ Came(c, q)
      BY <1>1, <3>3, <3>4, <3>6 DEF RequestOK, Came, At, NewPcs
    <3> QED
      BY <1>3, <3>2, <3>6, <3>7 DEF Uid, New
  <2> QED
    BY <2>1, <2>2
<1>5. CASE spawn(c)
  <2>1. CASE Returns(c)
    BY <1>2, <2>1
  <2>2. CASE ~Returns(c)
    <3>1. PICK s : /\ s = CHOOSE r \in Unstarted : \A o \in Unstarted : r <= o
                   /\ client' = [client EXCEPT ![c] = [@ EXCEPT !.pc = "insert", !.sid = s]]
      BY <1>5, <2>2 DEF spawn
    <3>2. s \in Sids /\ s \in 0 .. MaxSid
      <4>1. daemon.sids \in 0 .. MaxSid
        BY RegistryAssumption DEF TypeInv, RegistryTypes, Deployment
      <4>2. s \in Sids
        BY <1>5, <3>1, <4>1, SlotUnstarted DEF spawn
      <4> QED
        BY <4>2, RegistryAssumption DEF Sids
    <3>3. PICK q : q = [client[c] EXCEPT !.pc = "insert", !.sid = s]
      OBVIOUS
    <3>4. client' = [client EXCEPT ![c] = q]
      BY <3>1, <3>3
    <3>5. /\ q \in Request /\ q.pc = "insert" /\ q.sid = s /\ q.call = client[c].call
          /\ q.uid = client[c].uid /\ q.new = client[c].new /\ q.eph = client[c].eph
          /\ q.doomed = client[c].doomed
      BY <1>1, <3>2, <3>3 DEF Request, Pcs
    <3>6. RequestOK(q) /\ Came(c, q)
      BY <1>1, <1>5, <3>2, <3>5 DEF spawn, At, RequestOK, Came, NewPcs
    <3> QED
      BY <1>3, <3>4, <3>5, <3>6 DEF Uid, New
  <2> QED
    BY <2>1, <2>2
<1>6. CASE sweep(c)
  <2>1. PICK D \in SUBSET Sids : D = {s \in Sids : Live(s, Uid(c))}
    OBVIOUS
  <2>2. PICK q : q = [client[c] EXCEPT !.pc = "kill", !.doomed = D]
    OBVIOUS
  <2>3. client' = [client EXCEPT ![c] = q]
    BY <1>6, <2>1, <2>2 DEF sweep
  <2>4. /\ q \in Request /\ q.pc = "kill" /\ q.call = client[c].call /\ q.uid = client[c].uid
        /\ q.new = client[c].new /\ q.eph = client[c].eph /\ q.doomed = D
    BY <1>1, <2>2 DEF Request, Pcs
  <2>5. RequestOK(q) /\ Came(c, q)
    BY <1>1, <1>6, <2>4 DEF sweep, At, RequestOK, Came, NewPcs
  <2> QED
    BY <1>3, <2>3, <2>4, <2>5 DEF Uid, New
<1>7. CASE kill(c)
  <2>1. CASE Call(c) = "end" /\ ~client[c].eph
    BY <1>2, <1>7, <2>1 DEF kill
  <2>2. CASE ~(Call(c) = "end" /\ ~client[c].eph)
    <3>1. PICK q : q = [client[c] EXCEPT !.pc = "cleanup", !.doomed = {}]
      OBVIOUS
    <3>2. client' = [client EXCEPT ![c] = q]
      BY <1>7, <2>2, <3>1 DEF kill
    <3>3. /\ q \in Request /\ q.pc = "cleanup" /\ q.call = client[c].call /\ q.uid = client[c].uid
          /\ q.new = client[c].new /\ q.eph = client[c].eph /\ q.doomed = {}
      BY <1>1, <3>1 DEF Request, Pcs
    <3>4. RequestOK(q) /\ Came(c, q)
      BY <1>1, <1>7, <2>2, <3>3 DEF kill, At, RequestOK, Came, NewPcs, Call
    <3> QED
      BY <1>3, <3>2, <3>3, <3>4 DEF Uid, New
  <2> QED
    BY <2>1, <2>2
<1>8. ASSUME NEW n \in Names, create_fork(c, n) PROVE \E q : Moves(c, q)
  <2>1. PICK q : q = [client[c] EXCEPT !.pc = "resolve_new", !.new = drawn + 1]
    OBVIOUS
  <2>2. client' = [client EXCEPT ![c] = q] /\ drawn' = drawn + 1
    BY <1>8, <2>1 DEF create_fork
  <2>3. drawn + 1 \in 0 .. MaxUid /\ drawn + 1 # 0
    BY <1>8, RequestFacts DEF create_fork
  <2>4. /\ q \in Request /\ q.pc = "resolve_new" /\ q.call = client[c].call /\ q.uid = client[c].uid
        /\ q.new = drawn + 1 /\ q.eph = client[c].eph /\ q.doomed = client[c].doomed
    BY <1>1, <2>1, <2>3 DEF Request, Pcs, NewPcs
  <2>5. RequestOK(q) /\ Came(c, q)
    BY <1>1, <1>8, <2>3, <2>4 DEF create_fork, Locked, At, RequestOK, Came, NewPcs, NoUid
  <2> QED
    BY <1>3, <2>2, <2>4, <2>5 DEF Uid
<1> QED
  BY <1>4, <1>5, <1>6, <1>7, <1>8

\* One lemma for the steps that start a request.
LEMMA StartingMoves ==
  ASSUME TypeInv, NEW c \in Clients,
         \/ \E n \in Names, call \in Calls : create_sandbox(c, n, call)
         \/ \E r \in Refs, v \in Confs, call \in Calls : request(c, call, r, v)
         \/ \E call \in Calls : ephemeral(c, call)
         \/ Ends(c) \/ prepare(c)
  PROVE  \E q : Moves(c, q)
<1>0. drawn \in Nat /\ MaxUid \in Nat
  BY RequestFacts
<1>1. client[c] \in Request /\ RequestOK(client[c]) /\ NoRequest \in Request
  BY RequestFacts, NoRequestOK
<1>7. ~client[c].eph
  <2>1. At(c, "idle") \/ At(c, "prepare")
    BY DEF create_sandbox, request, ephemeral, Ends, end_session, prepare, Locked, At
  <2> QED
    BY <1>1, <2>1, NoRequestOK DEF At, RequestOK
<1>2. ASSUME NEW n \in Names, NEW call \in Calls, create_sandbox(c, n, call)
      PROVE  \E q : Moves(c, q)
  <2>0. drawn < MaxUid /\ drawn' = drawn + 1 /\ client[c] = NoRequest
    BY <1>1, <1>2 DEF create_sandbox, Locked, At, RequestOK
  <2>1. drawn + 1 \in 0 .. MaxUid /\ drawn + 1 # 0 /\ drawn' = drawn + 1 /\ client[c] = NoRequest
    BY <1>0, <2>0
  <2>2. CASE call = "create"
    <3>1. Becomes(c, NoRequest)
      BY <1>1, <1>2, <2>1, <2>2 DEF create_sandbox, Becomes, TypeInv, RegistryTypes
    <3> QED
      BY <3>1, NoRequestOK DEF Moves, Origin, Came
  <2>3. CASE call # "create"
    <3>1. call = "prepare"
      BY <1>2, <2>3 DEF create_sandbox
    <3>2. PICK r : r = [NoRequest EXCEPT !.call = "prepare", !.new = drawn + 1]
      OBVIOUS
    <3>3. Starts(c, "resolve_new", r)
      BY <1>2, <2>3, <3>1, <3>2 DEF create_sandbox
    <3>4. /\ r \in Request /\ r.new = drawn + 1 /\ r.uid = NoUid /\ ~r.eph /\ r.doomed = {}
      BY <1>1, <2>1, <3>2, NoRequestOK DEF Request, CallNames
    <3>5. \A q : Onward(q, r, "resolve_new") =>
            /\ RequestOK(q) /\ Came(c, q) /\ ~q.eph /\ Origin(c, q, q.uid) /\ Origin(c, q, q.new)
      BY <2>1, <3>4 DEF Onward, RequestOK, Came, NewPcs, NoUid, Origin
    <3> QED
      BY <3>3, <3>4, <3>5, <1>7, StartsMoves DEF Pcs, NewPcs
  <2> QED
    BY <2>2, <2>3
<1>3. ASSUME NEW f \in Refs, NEW v \in Confs, NEW call \in Calls, request(c, call, f, v)
      PROVE  \E q : Moves(c, q)
  <2>1. PICK u \in resolve(f) :
          /\ MayUse(u)
          /\ Starts(c, Second[call], [NoRequest EXCEPT !.call = call, !.uid = u, !.conf = v])
    BY <1>3 DEF request
  <2>2. u \in Uids /\ Known(sandboxes, u)
    BY <2>1 DEF resolve
  <2>3. u \in 1 .. drawn /\ u \in 0 .. MaxUid /\ u # 0
    BY <2>2, RequestFacts DEF Uids, Known, TypeInv, Drawn
  <2>4. PICK r : r = [NoRequest EXCEPT !.call = call, !.uid = u, !.conf = v]
    OBVIOUS
  <2>5. call \in {"free", "configure", "run", "session", "write", "rollback", "fork"}
    BY <1>3, NextSteps DEF request
  <2>6. /\ r \in Request /\ r.uid = u /\ r.new = NoUid /\ ~r.eph /\ r.doomed = {} /\ r.call = call
    BY <1>1, <2>3, <2>4, <2>5, NoRequestOK DEF Request, CallNames
  <2>7. PICK pc \in Pcs : /\ pc = Second[call]
                          /\ \/ pc = "remove" /\ call = "free"
                             \/ pc = "update"
                             \/ pc = "index" /\ call \in {"run", "session", "write", "rollback", "fork"}
    BY <2>5, NextSteps DEF Pcs
  <2>8. UNCHANGED sandboxes
    BY <1>3 DEF request
  <2>9. \A q : Onward(q, r, pc) => RequestOK(q) /\ Came(c, q)
    BY <2>2, <2>3, <2>6, <2>7, <2>8 DEF Onward, RequestOK, Came, NewPcs, NoUid
  <2>10. \A q : Onward(q, r, pc) => ~q.eph /\ Origin(c, q, q.uid) /\ Origin(c, q, q.new)
    BY <2>1, <2>2, <2>3, <2>6 DEF Onward, Origin
  <2> QED
    BY <2>1, <2>4, <2>6, <2>7, <2>9, <2>10, <1>7, StartsMoves
<1>4. ASSUME NEW call \in Calls, ephemeral(c, call) PROVE \E q : Moves(c, q)
  <2>0. drawn < MaxUid /\ drawn' = drawn + 1 /\ call \in {"run", "session"}
    BY <1>4 DEF ephemeral
  <2>1. /\ drawn + 1 \in 0 .. MaxUid /\ drawn + 1 # 0 /\ drawn' = drawn + 1
        /\ call \in {"run", "session"}
    BY <1>0, <2>0
  <2>2. PICK r : r = [NoRequest EXCEPT !.call = call, !.uid = drawn + 1, !.eph = TRUE]
    OBVIOUS
  <2>3. PICK pc \in Pcs : /\ pc = Third[call]
                          /\ (pc = "execute" /\ call = "run") \/ (pc = "spawn" /\ call = "session")
    BY <2>1, NextSteps DEF Pcs
  <2>4. Starts(c, pc, r)
    BY <1>4, <2>2, <2>3 DEF ephemeral
  <2>5. /\ r \in Request /\ r.uid = drawn + 1 /\ r.new = NoUid /\ r.eph /\ r.doomed = {} /\ r.call = call
    BY <1>1, <2>1, <2>2, NoRequestOK DEF Request, CallNames
  <2>6. \A q : Onward(q, r, pc) => RequestOK(q) /\ Came(c, q)
    BY <2>1, <2>3, <2>5 DEF Onward, RequestOK, Came, NewPcs, NoUid
  <2>7. \A q : Onward(q, r, pc) => EphemeralOrigin(c, q) /\ Origin(c, q, q.uid) /\ Origin(c, q, q.new)
    BY <1>4, <2>1, <2>3, <2>5 DEF Onward, Origin, EphemeralOrigin
  <2> QED
    BY <2>4, <2>5, <2>6, <2>7, <1>7, StartsMoves
<1>5. ASSUME NEW s \in Sids, end_session(c, s) PROVE \E q : Moves(c, q)
  <2>1. PICK u, e : u = session[s].uid /\ e = session[s].eph
    OBVIOUS
  <2>2. /\ u \in 0 .. MaxUid /\ u \in 1 .. drawn /\ e \in BOOLEAN /\ u # 0 /\ session[s].st = "live"
    BY <1>5, <2>1, RegistryAssumption DEF end_session, TypeInv, RegistryTypes, Drawn, SessionRecord, NoUid
  <2>3. PICK r : r = [NoRequest EXCEPT !.call = "end", !.uid = u, !.eph = e, !.doomed = {s}]
    OBVIOUS
  <2>4. Starts(c, "kill", r) /\ MayUse(u)
    BY <1>5, <2>1, <2>3 DEF end_session
  <2>5. /\ r \in Request /\ r.uid = u /\ r.new = NoUid /\ r.eph = e /\ r.doomed = {s} /\ r.call = "end"
    BY <1>1, <2>2, <2>3, NoRequestOK DEF Request, CallNames
  <2>6. \A q : Onward(q, r, "kill") => RequestOK(q) /\ Came(c, q)
    BY <1>5, <2>2, <2>5 DEF Onward, RequestOK, Came, NewPcs, NoUid, Ends
  <2>7. \A q : Onward(q, r, "kill") => Origin(c, q, q.uid) /\ Origin(c, q, q.new)
    BY <2>1, <2>2, <2>4, <2>5 DEF Onward, Origin, Live
  <2>8. \A q : Onward(q, r, "kill") => (q.eph => EphemeralOrigin(c, q))
    BY <1>5, <2>1, <2>5 DEF Onward, EphemeralOrigin
  <2> QED
    BY <2>4, <2>5, <2>6, <2>7, <2>8, <1>7, StartsMoves DEF Pcs
<1>6. CASE prepare(c)
  <2>1. CASE Returns(c)
    BY <2>1, ReturnsMoves
  <2>2. CASE ~Returns(c)
    <3>1. PICK u : u = client[c].new
      OBVIOUS
    <3>2. PICK r : r = [NoRequest EXCEPT !.call = "free", !.uid = u]
      OBVIOUS
    <3>3. Starts(c, "resolve_free", r)
      BY <1>6, <2>2, <3>1, <3>2 DEF prepare
    <3>4. u \in 0 .. MaxUid /\ u # 0
      BY <1>1, <1>6, <3>1, RequestFacts DEF prepare, At, New, Uids, NewPcs
    <3>5. /\ r \in Request /\ r.uid = u /\ r.new = NoUid /\ ~r.eph /\ r.doomed = {} /\ r.call = "free"
      BY <1>1, <3>2, <3>4, NoRequestOK DEF Request, CallNames
    <3>6. \A q : Onward(q, r, "resolve_free") => RequestOK(q) /\ Came(c, q)
      BY <3>4, <3>5 DEF Onward, RequestOK, Came, NewPcs, NoUid
    <3>7. \A q : Onward(q, r, "resolve_free") => ~q.eph /\ Origin(c, q, q.uid) /\ Origin(c, q, q.new)
      BY <3>1, <3>5 DEF Onward, Origin, New
    <3> QED
      BY <3>3, <3>5, <3>6, <3>7, <1>7, StartsMoves DEF Pcs
  <2> QED
    BY <2>1, <2>2
<1> QED
  BY <1>2, <1>3, <1>4, <1>5, <1>6 DEF Ends

LEMMA StepMoves ==
  ASSUME TypeInv, NEW c \in Clients, Step(c) PROVE \E q : Moves(c, q)
<1>1. Default \in Confs /\ daemon.confs \subseteq Confs
  BY RegistryAssumption DEF TypeInv, RegistryTypes, Deployment
<1>2. ASSUME Returns(c) PROVE \E q : Moves(c, q)
  BY <1>2, ReturnsMoves
<1>3. CASE \/ write_file(c) \/ rollback(c) \/ push(c) \/ run_ends(c) \/ insert(c) \/ unpersist(c)
           \/ Panics(c)
  BY <1>2, <1>3 DEF write_file, rollback, push, run_ends, insert, unpersist, Panics
<1>4. CASE \/ \E r \in Refs, call \in Calls \ {"configure"} : request(c, call, r, Default)
           \/ \E r \in Refs, v \in daemon.confs : request(c, "configure", r, v)
  <2>1. \E r \in Refs, v \in Confs, call \in Calls : request(c, call, r, v)
    <3>1. CASE \E r \in Refs, call \in Calls \ {"configure"} : request(c, call, r, Default)
      BY <1>1, <3>1
    <3>2. ASSUME NEW r \in Refs, NEW v \in daemon.confs, request(c, "configure", r, v)
          PROVE  \E f \in Refs, w \in Confs, call \in Calls : request(c, call, f, w)
      <4>1. "configure" \in Calls
        BY <3>2 DEF request
      <4> QED
        BY <1>1, <3>2, <4>1
    <3> QED
      BY <1>4, <3>1, <3>2
  <2> QED
    BY <2>1, StartingMoves
<1>5. CASE \/ \E n \in Names, call \in Calls : create_sandbox(c, n, call)
           \/ \E call \in Calls : ephemeral(c, call)
           \/ \E s \in Sids : end_session(c, s)
           \/ prepare(c)
  BY <1>5, StartingMoves DEF Ends
<1>6. CASE \/ resolve_new(c) \/ index_new(c) \/ resolve_free(c) \/ update(c) \/ execute(c)
           \/ remove(c) \/ cleanup_overlay(c)
  BY <1>6, GoesOnMoves
<1>7. CASE \/ index(c) \/ spawn(c) \/ sweep(c) \/ kill(c) \/ \E n \in Names : create_fork(c, n)
  BY <1>7, MoreMoves
<1> QED
  BY <1>3, <1>4, <1>5, <1>6, <1>7 DEF Step

-----------------------------------------------------------------------------
(* What becomes of the sandboxes, of their sessions and of their rows.     *)

\* A sandbox is made, gets new settings or is removed.
BoxBecomes(c, u, b) ==
  /\ sandboxes' = [sandboxes EXCEPT ![u] = b]
  /\ \/ /\ u = drawn + 1 /\ drawn' = drawn + 1 /\ b # NoBox /\ b.name \notin Taken
     \/ /\ update(c) /\ u = Uid(c) /\ Known(sandboxes, u) /\ UNCHANGED drawn
        /\ b # NoBox /\ b.name = sandboxes[u].name /\ b.conf = client[c].conf
     \/ remove(c) /\ u = Uid(c) /\ b = NoBox /\ UNCHANGED drawn
  /\ IF daemon.stored /\ ~remove(c)
       THEN writes' = Append(writes, [uid |-> u, row |-> b])
       ELSE UNCHANGED writes

LEMMA InsertBecomes ==
  ASSUME TypeInv, NEW c \in Clients, NEW base \in Names, drawn < MaxUid, drawn' = drawn + 1,
         Insert(drawn + 1, base), ~remove(c)
  PROVE  \E u \in Uids, b \in Box : BoxBecomes(c, u, b)
<1>1. PICK n \in NamePairs : n = FreshName(base) /\ n \notin Taken
  BY NameIsFree
<1>2. PICK b \in Box : b = [name |-> n, conf |-> Default] /\ b # NoBox /\ b.name = n
  <2>1. Default \in Confs
    BY RegistryAssumption
  <2>2. [name |-> n, conf |-> Default] \in Box /\ [name |-> n, conf |-> Default] # NoBox
    BY <2>1, BoxTypes
  <2>3. [name |-> n, conf |-> Default].name = n
    OBVIOUS
  <2> QED
    BY <2>2, <2>3
<1>3. PICK u \in Uids : u = drawn + 1
  BY RequestFacts DEF Uids, TypeInv, RegistryTypes
<1>4. sandboxes' = [sandboxes EXCEPT ![u] = b]
  BY <1>1, <1>2, <1>3 DEF Insert
<1>5. IF daemon.stored THEN writes' = Append(writes, [uid |-> u, row |-> b]) ELSE UNCHANGED writes
  BY <1>1, <1>2, <1>3 DEF Insert, persist
<1> QED
  BY <1>1, <1>2, <1>3, <1>4, <1>5 DEF BoxBecomes

LEMMA BoxStepBecomes ==
  ASSUME TypeInv, NEW c \in Clients, BoxStep(c)
  PROVE  \/ UNCHANGED <<sandboxes, writes, drawn>>
         \/ \E u \in Uids, b \in Box : BoxBecomes(c, u, b)
<1>1. CASE \E n \in Names, call \in Calls : create_sandbox(c, n, call)
  <2>1. ~remove(c)
    BY <1>1 DEF create_sandbox, remove, Locked, At
  <2> QED
    BY <1>1, <2>1, InsertBecomes DEF create_sandbox
<1>2. CASE \E n \in Names : create_fork(c, n)
  <2>1. ~remove(c)
    BY <1>2 DEF create_fork, remove, Locked, At
  <2> QED
    BY <1>2, <2>1, InsertBecomes DEF create_fork
<1>3. CASE update(c)
  <2>1. CASE ~Known(sandboxes, Uid(c))
    BY <1>3, <2>1 DEF update
  <2>2. CASE Known(sandboxes, Uid(c))
    <3>1. Uid(c) \in Uids /\ client[c].conf \in Confs
      BY <1>3, RequestFacts DEF update, Locked, At, NewPcs, Request
    <3>2. PICK u \in Uids : u = Uid(c)
      BY <3>1
    <3>3. PICK x \in Box \ {NoBox} : x = sandboxes[u]
      BY <2>2, <3>2 DEF Known, TypeInv, RegistryTypes
    <3>4. PICK b \in Box : /\ b = [x EXCEPT !.conf = client[c].conf]
                           /\ b # NoBox /\ b.name = x.name /\ b.conf = client[c].conf
      <4>1. PICK v \in Confs : v = client[c].conf
        BY <3>1
      <4>2. /\ [x EXCEPT !.conf = v] \in Box /\ [x EXCEPT !.conf = v] # NoBox
            /\ [x EXCEPT !.conf = v].name = x.name /\ [x EXCEPT !.conf = v].conf = v
        BY BoxTypes
      <4> QED
        BY <4>1, <4>2
    <3>5. sandboxes' = [sandboxes EXCEPT ![u] = b] /\ UNCHANGED drawn
      BY <1>3, <2>2, <3>2, <3>3, <3>4 DEF update
    <3>6. IF daemon.stored THEN writes' = Append(writes, [uid |-> u, row |-> b]) ELSE UNCHANGED writes
      BY <1>3, <2>2, <3>2, <3>3, <3>4 DEF update, persist
    <3>7. ~remove(c)
      BY <1>3 DEF update, remove, Locked, At
    <3> QED
      BY <1>3, <2>2, <3>2, <3>3, <3>4, <3>5, <3>6, <3>7 DEF BoxBecomes
  <2> QED
    BY <2>1, <2>2
<1>4. CASE remove(c)
  <2>1. Uid(c) \in Uids
    BY <1>4, RequestFacts DEF remove, Locked, At, NewPcs
  <2>2. sandboxes' = [sandboxes EXCEPT ![Uid(c)] = NoBox] /\ UNCHANGED <<writes, drawn>>
    BY <1>4 DEF remove
  <2>3. NoBox \in Box
    BY BoxTypes
  <2> QED
    BY <1>4, <2>1, <2>2, <2>3 DEF BoxBecomes
<1> QED
  BY <1>1, <1>2, <1>3, <1>4 DEF BoxStep

\* Every session is left alone, or goes one step of its life.
SessionBecomes(c, s) ==
  LET x == session[s]
      y == session'[s]
  IN  \/ y = x
      \/ push(c) /\ y = [x EXCEPT !.conf = client[c].conf] /\ x.st = "live" /\ x.uid = Uid(c)
      \/ /\ spawn(c) /\ client'[c].pc = "insert" /\ client'[c].sid = s /\ x.st = "none"
         /\ y = [st |-> "spawned", uid |-> Uid(c), eph |-> client[c].eph, conf |-> client[c].conf,
                 alive |-> TRUE]
      \/ insert(c) /\ Inserts(c, s) /\ x.st = "spawned" /\ y = [x EXCEPT !.st = "live"]
      \/ /\ sweep(c) \/ end_session(c, s)
         /\ x.st = "live" /\ x.uid = client'[c].uid /\ s \in client'[c].doomed
         /\ y = [x EXCEPT !.st = "ended"]
      \/ kill(c) /\ s \in client[c].doomed /\ y = [x EXCEPT !.alive = FALSE]

LEMMA SessionStepBecomes ==
  ASSUME TypeInv, NEW c \in Clients, SessionStep(c), NEW s \in Sids
  PROVE  SessionBecomes(c, s)
<1>1. session \in [Sids -> SessionRecord] /\ client[c] \in Request /\ RequestOK(client[c])
      /\ client \in [Clients -> Request]
  BY RequestFacts DEF TypeInv, RegistryTypes
<1>2. CASE push(c)
  BY <1>2 DEF push, SessionBecomes, Live
<1>3. CASE insert(c)
  <2>1. CASE s = client[c].sid
    <3>1. Inserts(c, s) /\ session[s].st = "spawned"
      BY <1>3, <2>1 DEF insert, At, Inserts, TypeInv, Spawning
    <3> QED
      BY <1>1, <1>3, <2>1, <3>1 DEF insert, SessionBecomes
  <2>2. CASE s # client[c].sid
    BY <1>1, <1>3, <2>2 DEF insert, SessionBecomes
  <2> QED
    BY <2>1, <2>2
<1>4. CASE kill(c)
  BY <1>4 DEF kill, SessionBecomes
<1>5. CASE sweep(c)
  <2>1. /\ client'[c].doomed = {r \in Sids : Live(r, Uid(c))} /\ client'[c].uid = Uid(c)
    BY <1>1, <1>5 DEF sweep, Request, Uid
  <2>2. session'[s] = IF Live(s, Uid(c)) THEN [session[s] EXCEPT !.st = "ended"] ELSE session[s]
    BY <1>5 DEF sweep
  <2> QED
    BY <1>5, <2>1, <2>2 DEF SessionBecomes, Live
<1>6. ASSUME NEW r \in Sids, end_session(c, r) PROVE SessionBecomes(c, s)
  <2>1. session' = [session EXCEPT ![r] = [@ EXCEPT !.st = "ended"]] /\ session[r].st = "live"
    BY <1>6 DEF end_session
  <2>2. client'[c].doomed = {r} /\ client'[c].uid = session[r].uid
    BY <1>1, <1>6 DEF end_session, Starts, NoRequest
  <2> QED
    BY <1>1, <1>6, <2>1, <2>2 DEF SessionBecomes
<1>7. CASE spawn(c)
  <2>1. CASE UNCHANGED session
    BY <2>1 DEF SessionBecomes
  <2>2. CASE ~UNCHANGED session
    <3>1. PICK r : r = CHOOSE n \in Unstarted : \A o \in Unstarted : n <= o
      OBVIOUS
    <3>2. daemon.sids \in 0 .. MaxSid /\ Unstarted # {}
      BY <1>7, RegistryAssumption DEF spawn, TypeInv, RegistryTypes, Deployment
    <3>3. r \in Sids /\ session[r].st = "none"
      BY <3>1, <3>2, SlotUnstarted
    <3>4. /\ session' = [session EXCEPT ![r] =
                           [st |-> "spawned", uid |-> Uid(c), eph |-> client[c].eph,
                            conf |-> client[c].conf, alive |-> TRUE]]
          /\ client' = [client EXCEPT ![c] = [@ EXCEPT !.pc = "insert", !.sid = r]]
      BY <1>7, <2>2, <3>1 DEF spawn
    <3>5. client'[c].pc = "insert" /\ client'[c].sid = r
      BY <1>1, <3>4 DEF Request
    <3> QED
      BY <1>1, <1>7, <3>3, <3>4, <3>5 DEF SessionBecomes
  <2> QED
    BY <2>1, <2>2
<1> QED
  BY <1>2, <1>3, <1>4, <1>5, <1>6, <1>7 DEF SessionStep, Ends

-----------------------------------------------------------------------------
(* The types are kept.                                                     *)

RowType == [uid : Uids, row : Box]

LEMMA RowIs ==
  ASSUME NEW u \in Uids, NEW b \in Box
  PROVE  [uid |-> u, row |-> b] \in RowType /\ [uid |-> u, row |-> b].uid = u
                                           /\ [uid |-> u, row |-> b].row = b
BY DEF RowType

\* A row is appended to the writes.
LEMMA WritesAppended ==
  ASSUME NEW W \in Seq(RowType), NEW w \in RowType
  PROVE  /\ Append(W, w) \in Seq(RowType) /\ Len(Append(W, w)) = Len(W) + 1
         /\ \A i \in 1 .. Len(W) : Append(W, w)[i] = W[i]
         /\ Append(W, w)[Len(W) + 1] = w
BY AppendProperties

\* A store task takes its row out of them.
LEMMA WritesTaken ==
  ASSUME NEW W \in Seq(RowType), NEW i \in 1 .. Len(W), NEW V,
         V = SubSeq(W, 1, i - 1) \o SubSeq(W, i + 1, Len(W))
  PROVE  /\ V \in Seq(RowType) /\ Len(V) = Len(W) - 1
         /\ \A j \in 1 .. Len(V) : V[j] = IF j < i THEN W[j] ELSE W[j + 1]
<1>1. /\ SubSeq(W, 1, i - 1) \in Seq(RowType) /\ Len(SubSeq(W, 1, i - 1)) = i - 1
      /\ \A j \in 1 .. (i - 1) : SubSeq(W, 1, i - 1)[j] = W[j]
  BY SubSeqProperties
<1>2. /\ SubSeq(W, i + 1, Len(W)) \in Seq(RowType) /\ Len(SubSeq(W, i + 1, Len(W))) = Len(W) - i
      /\ \A j \in 1 .. (Len(W) - i) : SubSeq(W, i + 1, Len(W))[j] = W[i + j]
  BY SubSeqProperties
<1> DEFINE A == SubSeq(W, 1, i - 1)
           B == SubSeq(W, i + 1, Len(W))
<1> HIDE DEF A, B
<1>3. A \in Seq(RowType) /\ B \in Seq(RowType) /\ Len(A) = i - 1 /\ Len(B) = Len(W) - i
  BY <1>1, <1>2 DEF A, B
<1>4. /\ A \o B \in Seq(RowType) /\ Len(A \o B) = Len(A) + Len(B)
      /\ \A j \in 1 .. (Len(A) + Len(B)) : (A \o B)[j] = IF j <= Len(A) THEN A[j] ELSE B[j - Len(A)]
  BY <1>3, ConcatProperties
<1>5. V = A \o B
  BY DEF A, B
<1>8. PICK n \in Nat : n = Len(W) /\ i \in 1 .. n
  OBVIOUS
<1>9. Len(A) = i - 1 /\ Len(B) = n - i /\ Len(A) + Len(B) = n - 1
  BY <1>3, <1>8
<1>6. ASSUME NEW j \in 1 .. Len(V) PROVE V[j] = IF j < i THEN W[j] ELSE W[j + 1]
  <2>0. Len(V) = n - 1
    BY <1>4, <1>5, <1>9
  <2>1. j \in 1 .. (Len(A) + Len(B)) /\ j \in 1 .. (n - 1) /\ i \in Nat
    <3>1. j \in 1 .. Len(V)
      OBVIOUS
    <3>2. j \in 1 .. (n - 1)
      BY <2>0, <3>1
    <3>3. i \in Nat
      BY <1>8
    <3> QED
      BY <1>9, <3>2, <3>3
  <2>2. CASE j < i
    <3>1. A[j] = W[j]
      BY <1>1, <2>1, <2>2 DEF A
    <3> QED
      BY <1>3, <1>4, <1>5, <2>1, <2>2, <3>1
  <2>3. CASE ~(j < i)
    <3>1. j - (i - 1) \in 1 .. (Len(W) - i) /\ i + (j - (i - 1)) = j + 1
      BY <1>8, <2>1, <2>3
    <3>2. B[j - (i - 1)] = W[j + 1]
      BY <1>2, <3>1 DEF B
    <3>3. ~(j <= Len(A)) /\ j - Len(A) = j - (i - 1)
      BY <1>3, <2>1, <2>3
    <3>4. (A \o B)[j] = B[j - (i - 1)]
      BY <1>4, <2>1, <3>3
    <3> QED
      BY <1>5, <2>3, <3>2, <3>4
  <2> QED
    BY <2>2, <2>3
<1>7. V \in Seq(RowType) /\ Len(V) = Len(W) - 1
  BY <1>4, <1>5, <1>8, <1>9
<1> QED
  BY <1>6, <1>7

LEMMA SessionTypes ==
  ASSUME TypeInv, NEW c \in Clients, Step(c), NEW s \in Sids, drawn' >= drawn, drawn' \in Nat
  PROVE  /\ session'[s] \in SessionRecord /\ session'[s].uid <= drawn'
         /\ session'[s].st = "none" => session'[s] = NoSession
         /\ session'[s].st # "none" => session'[s].uid # NoUid
<1>1. /\ session[s] \in SessionRecord /\ session[s].uid <= drawn /\ session[s].uid \in Nat
      /\ session[s].st = "none" => session[s] = NoSession
      /\ session[s].st # "none" => session[s].uid # NoUid
      /\ drawn \in Nat
  BY RegistryAssumption DEF TypeInv, RegistryTypes, Drawn, SessionRecord
<1>2. client[c] \in Request /\ RequestOK(client[c])
  BY RequestFacts
<1>3. UNCHANGED session \/ SessionBecomes(c, s)
  BY StepChanges, SessionStepBecomes DEF Changes
<1>4. CASE session'[s] = session[s]
  BY <1>1, <1>4
<1>5. CASE push(c) /\ session'[s] = [session[s] EXCEPT !.conf = client[c].conf] /\ session[s].st = "live"
  BY <1>1, <1>2, <1>5 DEF SessionRecord, Request
<1>6. CASE /\ spawn(c)
           /\ session'[s] = [st |-> "spawned", uid |-> Uid(c), eph |-> client[c].eph,
                             conf |-> client[c].conf, alive |-> TRUE]
  <2>1. Uid(c) # NoUid /\ Uid(c) <= drawn /\ Uid(c) \in 0 .. MaxUid
    BY <1>2, <1>6, RequestFacts DEF spawn, At, RequestOK, NewPcs, Uid
  <2> QED
    BY <1>1, <1>2, <1>6, <2>1 DEF SessionRecord, Request
<1>8. CASE session[s].st = "live" /\ session'[s] = [session[s] EXCEPT !.st = "ended"]
  <2>1. session'[s].st = "ended" /\ session'[s].uid = session[s].uid /\ session'[s] \in SessionRecord
    BY <1>1, <1>8 DEF SessionRecord
  <2> QED
    BY <1>1, <1>8, <2>1
<1>9. CASE kill(c) /\ session'[s] = [session[s] EXCEPT !.alive = FALSE]
  <2>1. /\ session'[s].st = session[s].st /\ session'[s].uid = session[s].uid
        /\ session'[s] \in SessionRecord
    BY <1>1, <1>9 DEF SessionRecord
  <2>2. ASSUME session[s].st = "none" PROVE session'[s] = NoSession
    <3>1. session[s].alive = FALSE
      BY <1>1, <2>2 DEF NoSession
    <3>2. session'[s] = session[s]
      BY <1>1, <1>9, <3>1 DEF SessionRecord
    <3> QED
      BY <1>1, <2>2, <3>2
  <2> QED
    BY <1>1, <2>1, <2>2
<1>10. CASE session[s].st = "spawned" /\ session'[s] = [session[s] EXCEPT !.st = "live"]
  <2>1. session'[s].st = "live" /\ session'[s].uid = session[s].uid /\ session'[s] \in SessionRecord
    BY <1>1, <1>10 DEF SessionRecord
  <2> QED
    BY <1>1, <1>10, <2>1
<1> QED
  BY <1>3, <1>4, <1>5, <1>6, <1>8, <1>9, <1>10 DEF SessionBecomes

LEMMA Growing ==
  ASSUME TypeInv, NEW c \in Clients, Step(c)
  PROVE  drawn' \in 0 .. MaxUid /\ drawn' \in Nat /\ drawn' >= drawn
<1>1. drawn' = drawn \/ (drawn < MaxUid /\ drawn' = drawn + 1)
  BY StepChanges DEF Changes, Draws
<1>2. drawn \in Nat /\ MaxUid \in Nat /\ drawn <= MaxUid
  BY RegistryAssumption DEF TypeInv, RegistryTypes
<1> QED
  BY <1>1, <1>2

LEMMA RequestTypes ==
  ASSUME TypeInv, NEW c \in Clients, Step(c)
  PROVE  /\ client' \in [Clients -> Request]
         /\ \A d \in Clients : /\ client'[d].uid <= drawn' /\ client'[d].new <= drawn'
                               /\ RequestOK(client'[d])
<1>1. PICK q : Moves(c, q)
  BY StepMoves
<1>2. q \in Request /\ Becomes(c, q) /\ RequestOK(q) /\ Origin(c, q, q.uid) /\ Origin(c, q, q.new)
  BY <1>1 DEF Moves
<1>3. ASSUME NEW u, Origin(c, q, u) PROVE u <= drawn'
  <2>1. u \in 1 .. drawn => u <= drawn'
    BY Growing, RequestFacts
  <2>2. drawn' \in Nat /\ drawn' >= drawn /\ drawn \in Nat /\ Uid(c) <= drawn /\ New(c) <= drawn
        /\ Uid(c) \in Nat /\ New(c) \in Nat
    BY Growing, RequestFacts
  <2>3. u \in {NoUid, Uid(c), New(c)} \/ (drawn' = drawn + 1 /\ u = drawn + 1) \/ u \in 1 .. drawn
    BY <1>3 DEF Origin
  <2> QED
    BY <2>1, <2>2, <2>3 DEF NoUid
<1>4. q.uid <= drawn' /\ q.new <= drawn'
  BY <1>2, <1>3
<1>5. client' \in [Clients -> Request]
  BY <1>2 DEF Becomes, TypeInv, RegistryTypes
<1>6. ASSUME NEW d \in Clients
      PROVE  client'[d].uid <= drawn' /\ client'[d].new <= drawn' /\ RequestOK(client'[d])
  <2>1. CASE d = c
    BY <1>2, <1>4, <2>1 DEF Becomes
  <2>2. CASE d # c
    <3>1. /\ client'[d] = client[d] /\ client[d].uid <= drawn /\ client[d].new <= drawn
          /\ RequestOK(client[d]) /\ client[d].uid \in Nat /\ client[d].new \in Nat
      BY <1>2, <2>2, RequestFacts DEF Becomes, Uid, New
    <3> QED
      BY <3>1, Growing, RequestFacts
  <2> QED
    BY <2>1, <2>2
<1> QED
  BY <1>5, <1>6

\* The rows, the sandboxes and the overlays.
LEMMA RowTypes ==
  ASSUME TypeInv, NEW c \in Clients, Step(c)
  PROVE  /\ sandboxes' \in [Uids -> Box] /\ writes' \in Seq(RowType)
         /\ \A u \in Uids : u > drawn' => sandboxes'[u] = NoBox
         /\ \A i \in 1 .. Len(writes') : writes'[i].uid <= drawn'
<1>1. /\ sandboxes \in [Uids -> Box] /\ writes \in Seq(RowType)
      /\ \A u \in Uids : u > drawn => sandboxes[u] = NoBox
      /\ \A i \in 1 .. Len(writes) : writes[i].uid <= drawn
      /\ Uids \subseteq Nat
  BY DEF TypeInv, RegistryTypes, Drawn, RowType, Uids
<1>2. drawn \in Nat /\ drawn' \in Nat /\ drawn' >= drawn
  BY Growing, RequestFacts
<1>3. /\ \A u \in Uids : u > drawn' => u > drawn
      /\ \A u \in Uids : u <= drawn => u <= drawn'
  BY <1>1, <1>2
<1>4. \A i \in 1 .. Len(writes) : writes[i] \in RowType /\ writes[i].uid \in Uids /\ writes[i].uid <= drawn'
  <2>1. \A i \in 1 .. Len(writes) : writes[i] \in RowType
    BY <1>1
  <2> QED
    BY <1>1, <1>3, <2>1 DEF RowType
<1>5. ASSUME NEW u \in Uids, NEW b \in Box, u <= drawn', writes' = Append(writes, [uid |-> u, row |-> b])
      PROVE  writes' \in Seq(RowType) /\ \A i \in 1 .. Len(writes') : writes'[i].uid <= drawn'
  <2>1. PICK w \in RowType : w = [uid |-> u, row |-> b] /\ w.uid = u
    BY RowIs
  <2>2. /\ writes' \in Seq(RowType) /\ Len(writes') = Len(writes) + 1
        /\ \A i \in 1 .. Len(writes) : writes'[i] = writes[i]
        /\ writes'[Len(writes) + 1] = w
    BY <1>1, <1>5, <2>1, WritesAppended
  <2>3. ASSUME NEW i \in 1 .. Len(writes') PROVE writes'[i].uid <= drawn'
    <3>1. i \in 1 .. Len(writes) \/ i = Len(writes) + 1
      BY <1>1, <2>2
    <3> QED
      BY <1>4, <1>5, <2>1, <2>2, <3>1
  <2> QED
    BY <2>2, <2>3
<1>6. CASE UNCHANGED <<sandboxes, writes>>
  BY <1>1, <1>3, <1>4, <1>6
<1>7. ASSUME NEW u \in Uids, NEW b \in Box, BoxBecomes(c, u, b)
      PROVE  /\ sandboxes' \in [Uids -> Box] /\ writes' \in Seq(RowType)
             /\ \A v \in Uids : v > drawn' => sandboxes'[v] = NoBox
             /\ \A i \in 1 .. Len(writes') : writes'[i].uid <= drawn'
  <2>1. u <= drawn'
    BY <1>2, <1>7, RequestFacts DEF BoxBecomes
  <2>2. sandboxes' = [sandboxes EXCEPT ![u] = b]
    BY <1>7 DEF BoxBecomes
  <2>3. \A v \in Uids : v > drawn' => v # u /\ sandboxes'[v] = NoBox
    BY <1>1, <1>2, <1>3, <2>1, <2>2
  <2>4. UNCHANGED writes \/ writes' = Append(writes, [uid |-> u, row |-> b])
    BY <1>7 DEF BoxBecomes
  <2>5. writes' \in Seq(RowType) /\ \A i \in 1 .. Len(writes') : writes'[i].uid <= drawn'
    BY <1>1, <1>4, <1>5, <2>1, <2>4
  <2> QED
    BY <1>1, <2>2, <2>3, <2>5
<1>8. CASE UNCHANGED sandboxes /\ unpersist(c)
  <2>1. PICK u \in Uids : u = Uid(c) /\ u <= drawn'
    BY <1>3, <1>8, RequestFacts DEF unpersist, At, NewPcs
  <2>2. UNCHANGED writes \/ writes' = Append(writes, [uid |-> u, row |-> NoBox])
    BY <1>8, <2>1 DEF unpersist, persist
  <2>3. writes' \in Seq(RowType) /\ \A i \in 1 .. Len(writes') : writes'[i].uid <= drawn'
    BY <1>1, <1>4, <1>5, <2>1, <2>2, BoxTypes
  <2> QED
    BY <1>1, <1>3, <1>8, <2>3
<1>9. CASE BoxStep(c)
  BY <1>6, <1>7, <1>9, BoxStepBecomes
<1> QED
  BY <1>6, <1>8, <1>9, StepChanges DEF Changes

LEMMA OverlayTypes ==
  ASSUME TypeInv, NEW c \in Clients, Step(c)
  PROVE  /\ overlay' \in [Uids -> {"none", "here", "left"}]
         /\ \A u \in Uids : u > drawn' => overlay'[u] = "none"
<1>1. /\ overlay \in [Uids -> {"none", "here", "left"}] /\ Uids \subseteq Nat
      /\ \A u \in Uids : u > drawn => overlay[u] = "none"
  BY DEF TypeInv, RegistryTypes, Drawn, Uids
<1>2. drawn \in Nat /\ drawn' \in Nat /\ drawn' >= drawn
  BY Growing, RequestFacts
<1>3. \A u \in Uids : u > drawn' => u > drawn
  BY <1>1, <1>2
<1>5. OverlayStep(c)
  BY StepChanges DEF Changes
<1>6. CASE UNCHANGED overlay
  BY <1>1, <1>3, <1>6
<1>7. ASSUME NEW u \in {Uid(c), New(c)} \cap Uids, Makes(u)
      PROVE  /\ overlay' \in [Uids -> {"none", "here", "left"}]
             /\ \A v \in Uids : v > drawn' => overlay'[v] = "none"
  <2>1. u <= drawn
    BY RequestFacts
  <2>2. \A v \in Uids : v > drawn' => v > drawn /\ v # u
    BY <1>1, <1>2, <1>3, <2>1
  <2> QED
    BY <1>1, <1>7, <2>2 DEF Makes
<1>8. CASE Removes(Uid(c))
  BY <1>1, <1>3, <1>8 DEF Removes
<1> QED
  BY <1>5, <1>6, <1>7, <1>8 DEF OverlayStep

\* A session is spawned for one request.
LEMMA SpawningKept ==
  ASSUME TypeInv, NEW c \in Clients, Step(c) PROVE Spawning'
<1>1. PICK q : Moves(c, q)
  BY StepMoves
<1>2. q \in Request /\ client'[c] = q /\ \A d \in Clients \ {c} : client'[d] = client[d]
  BY <1>1 DEF Moves, Becomes
<1>3. q.pc = "insert" => spawn(c)
  BY <1>1 DEF Moves, Came
<1>4. \A d \in Clients, s \in Sids : Inserts(d, s) =>
        session[s].st = "spawned" /\ session[s].uid = client[d].uid /\ session[s].eph = client[d].eph
  BY DEF TypeInv, Spawning
<1>5. \A d, e \in Clients, s \in Sids : Inserts(d, s) /\ Inserts(e, s) => d = e
  BY DEF TypeInv, Spawning
<1>6. ASSUME NEW s \in Sids, q.pc = "insert", q.sid = s
      PROVE  /\ session[s].st = "none" /\ session'[s].st = "spawned" /\ session'[s].uid = q.uid
             /\ session'[s].eph = q.eph
  <2>1. spawn(c) /\ ~Returns(c)
    BY <1>2, <1>3, <1>6 DEF Returns, NoRequest, TypeInv, RegistryTypes
  <2>2. PICK r : /\ r = CHOOSE n \in Unstarted : \A o \in Unstarted : n <= o
                 /\ session' = [session EXCEPT ![r] =
                                  [st |-> "spawned", uid |-> Uid(c), eph |-> client[c].eph,
                                   conf |-> client[c].conf, alive |-> TRUE]]
                 /\ client' = [client EXCEPT ![c] = [@ EXCEPT !.pc = "insert", !.sid = r]]
    BY <2>1 DEF spawn
  <2>3. daemon.sids \in 0 .. MaxSid /\ Unstarted # {}
    BY <2>1, RegistryAssumption DEF spawn, TypeInv, RegistryTypes, Deployment
  <2>4. session[r].st = "none"
    BY <2>2, <2>3, SlotUnstarted
  <2>5. client[c] \in Request
    BY RequestFacts
  <2>6. q.sid = r /\ q.uid = Uid(c) /\ q.eph = client[c].eph
    BY <1>2, <2>2, <2>5 DEF Request, Uid, TypeInv, RegistryTypes
  <2> QED
    BY <1>6, <2>2, <2>4, <2>6 DEF TypeInv, RegistryTypes
<1>7. ASSUME NEW d \in Clients, d # c, NEW s \in Sids, Inserts(d, s)
      PROVE  /\ session'[s].st = session[s].st /\ session'[s].uid = session[s].uid
             /\ session'[s].eph = session[s].eph
  <2>1. session[s].st = "spawned" /\ ~Inserts(c, s)
    BY <1>4, <1>5, <1>7
  <2>2. UNCHANGED session \/ SessionStep(c)
    BY StepChanges DEF Changes
  <2>3. SessionStep(c) => SessionBecomes(c, s)
    BY SessionStepBecomes
  <2>4. session[s] \in SessionRecord
    BY DEF TypeInv, RegistryTypes
  <2>5. session'[s] = session[s] \/ session'[s] = [session[s] EXCEPT !.alive = FALSE]
    BY <2>1, <2>2, <2>3 DEF SessionBecomes
  <2> QED
    BY <2>4, <2>5 DEF SessionRecord
<1>8. \A d \in Clients, s \in Sids : Inserts(d, s)' =>
        IF d = c THEN q.pc = "insert" /\ q.sid = s ELSE Inserts(d, s)
  BY <1>2 DEF Inserts
<1>9. ASSUME NEW d \in Clients, NEW s \in Sids, Inserts(d, s)'
      PROVE  session'[s].st = "spawned" /\ session'[s].uid = client'[d].uid /\ session'[s].eph = client'[d].eph
  <2>1. CASE d = c
    BY <1>2, <1>6, <1>8, <1>9, <2>1
  <2>2. CASE d # c
    BY <1>2, <1>4, <1>7, <1>8, <1>9, <2>2
  <2> QED
    BY <2>1, <2>2
<1>10. ASSUME NEW d \in Clients, NEW e \in Clients, NEW s \in Sids, Inserts(d, s)', Inserts(e, s)'
       PROVE  d = e
  <2>1. CASE d # c /\ e # c
    BY <1>5, <1>8, <1>10, <2>1
  <2>2. CASE d = c /\ e # c
    BY <1>4, <1>6, <1>8, <1>10, <2>2
  <2>3. CASE d # c /\ e = c
    BY <1>4, <1>6, <1>8, <1>10, <2>3
  <2> QED
    BY <2>1, <2>2, <2>3
<1> QED
  BY <1>9, <1>10 DEF Spawning

\* Every step of a client keeps the types.
LEMMA StepTypes ==
  ASSUME TypeInv, NEW c \in Clients, Step(c), UNCHANGED daemon PROVE TypeInv'
<1>1. /\ drawn' \in 0 .. MaxUid /\ drawn' \in Nat /\ drawn' >= drawn /\ drawn \in Nat
      /\ UNCHANGED store /\ Uids \subseteq Nat
  <2>1. drawn' \in 0 .. MaxUid /\ drawn' \in Nat /\ drawn' >= drawn
    BY Growing
  <2>2. drawn \in Nat /\ Uids \subseteq Nat
    BY RequestFacts DEF Uids
  <2>3. UNCHANGED store
    BY StepChanges DEF Changes
  <2> QED
    BY <2>1, <2>2, <2>3
<1>2. poisoned' \in BOOLEAN
  BY StepChanges DEF Changes, TypeInv, RegistryTypes
<1>3. session' \in [Sids -> SessionRecord]
  <2>1. session' = [s \in Sids |-> session'[s]]
    BY StepChanges DEF Changes, SessionStep, Ends, push, spawn, insert, end_session, sweep, kill,
       TypeInv, RegistryTypes
  <2> QED
    BY <1>1, <2>1, SessionTypes
<1>4. RegistryTypes'
  BY <1>1, <1>2, <1>3, RequestTypes, RowTypes, OverlayTypes DEF TypeInv, RegistryTypes, RowType
<1>5. Drawn'
  <2>1. \A u \in Uids : u > drawn' => u > drawn
    BY <1>1
  <2>2. \A u \in Uids : u > drawn' => sandboxes'[u] = NoBox /\ store'[u] = NoBox /\ overlay'[u] = "none"
    BY <1>1, <2>1, RowTypes, OverlayTypes DEF TypeInv, Drawn
  <2>3. \A s \in Sids : /\ session'[s].uid <= drawn'
                        /\ session'[s].st = "none" => session'[s] = NoSession
                        /\ session'[s].st # "none" => session'[s].uid # NoUid
    BY <1>1, SessionTypes
  <2> QED
    BY <2>2, <2>3, RequestTypes, RowTypes DEF Drawn
<1> QED
  BY <1>4, <1>5, SpawningKept DEF TypeInv

LEMMA InitTypes == Init => TypeInv
<1> SUFFICES ASSUME Init PROVE TypeInv
  OBVIOUS
<1>1. RegistryTypes
  <2>0. drawn = 0 /\ poisoned = FALSE /\ daemon \in Deployments
    BY DEF Init
  <2>1. drawn \in 0 .. MaxUid /\ poisoned \in BOOLEAN /\ daemon \in Deployments
    <3>1. 0 \in 0 .. MaxUid /\ FALSE \in BOOLEAN
      BY RegistryAssumption
    <3> QED
      BY <2>0, <3>1
  <2>2. sandboxes \in [Uids -> Box] /\ store \in [Uids -> Box] /\ overlay \in [Uids -> {"none", "here", "left"}]
    BY BoxTypes DEF Init
  <2>3. NoSession \in SessionRecord
    <3>1. 0 \in 0 .. MaxUid /\ Default \in Confs
      BY RegistryAssumption
    <3> QED
      BY <3>1 DEF NoSession, SessionRecord, NoUid
  <2>4. session \in [Sids -> SessionRecord] /\ client \in [Clients -> Request]
    BY <2>3, NoRequestOK DEF Init
  <2>5. writes \in Seq([uid : Uids, row : Box])
    BY DEF Init
  <2> QED
    BY <2>1, <2>2, <2>4, <2>5 DEF RegistryTypes
<1>2. Drawn
  <2>1. /\ \A u \in Uids : sandboxes[u] = NoBox /\ store[u] = NoBox /\ overlay[u] = "none"
        /\ Len(writes) = 0 /\ drawn = 0
        /\ \A s \in Sids : session[s] = NoSession
        /\ \A c \in Clients : client[c] = NoRequest
    BY DEF Init
  <2>2. NoSession.uid = 0 /\ NoSession.st = "none"
    BY DEF NoSession, NoUid
  <2> QED
    BY <2>1, <2>2, NoRequestOK DEF Drawn, NoUid
<1>3. Spawning
  BY NoRequestOK DEF Init, Spawning, Inserts
<1> QED
  BY <1>1, <1>2, <1>3 DEF TypeInv

\* One row is stored.
LEMMA StoreTaskIs ==
  ASSUME TypeInv, NEW i \in 1 .. Len(writes), StoreTask(i)
  PROVE  /\ writes' \in Seq(RowType) /\ Len(writes') = Len(writes) - 1
         /\ \A j \in 1 .. Len(writes') : \/ writes'[j] = writes[j] /\ j \in 1 .. Len(writes)
                                         \/ writes'[j] = writes[j + 1] /\ j + 1 \in 1 .. Len(writes)
         /\ writes[i].uid \in Uids /\ writes[i].row \in Box /\ writes[i].uid <= drawn
         /\ store' = [store EXCEPT ![writes[i].uid] = writes[i].row]
         /\ UNCHANGED <<sandboxes, poisoned, session, overlay, drawn, client>>
<1>1. writes \in Seq(RowType)
  BY DEF TypeInv, RegistryTypes, RowType
<1>2. /\ writes' \in Seq(RowType) /\ Len(writes') = Len(writes) - 1
      /\ \A j \in 1 .. Len(writes') : writes'[j] = IF j < i THEN writes[j] ELSE writes[j + 1]
  BY <1>1, WritesTaken DEF StoreTask
<1>3. writes[i] \in RowType
  BY <1>1
<1>4. writes[i].uid \in Uids /\ writes[i].row \in Box /\ writes[i].uid <= drawn
  BY <1>3 DEF RowType, TypeInv, Drawn
<1>5. PICK n \in Nat : n = Len(writes) /\ Len(writes') = n - 1
  BY <1>1, <1>2
<1>6. ASSUME NEW j \in 1 .. Len(writes')
      PROVE  \/ writes'[j] = writes[j] /\ j \in 1 .. Len(writes)
             \/ writes'[j] = writes[j + 1] /\ j + 1 \in 1 .. Len(writes)
  <2>1. j \in 1 .. (n - 1)
    <3>1. j \in 1 .. Len(writes')
      OBVIOUS
    <3> QED
      BY <1>5, <3>1
  <2>2. j \in 1 .. n /\ j + 1 \in 1 .. n
    BY <2>1
  <2> QED
    BY <1>2, <1>5, <2>2
<1> QED
  BY <1>2, <1>4, <1>6 DEF StoreTask

LEMMA StoreTaskTypes ==
  ASSUME TypeInv, NEW i \in 1 .. Len(writes), StoreTask(i), UNCHANGED daemon
  PROVE  TypeInv'
<1>1. /\ writes' \in Seq(RowType)
      /\ \A j \in 1 .. Len(writes') : \E k \in 1 .. Len(writes) : writes'[j] = writes[k]
      /\ store' = [store EXCEPT ![writes[i].uid] = writes[i].row]
      /\ writes[i].uid \in Uids /\ writes[i].row \in Box /\ writes[i].uid <= drawn
      /\ UNCHANGED <<sandboxes, poisoned, session, overlay, drawn, client>>
  BY StoreTaskIs
<1>2. RegistryTypes'
  BY <1>1 DEF TypeInv, RegistryTypes, RowType
<1>3. \A u \in Uids : u > drawn => store'[u] = NoBox
  <2>1. drawn \in Nat /\ Uids \subseteq Nat
    BY RegistryAssumption DEF TypeInv, RegistryTypes, Uids
  <2>2. \A u \in Uids : u > drawn => u # writes[i].uid
    <3>1. PICK v \in Uids : v = writes[i].uid /\ v <= drawn
      BY <1>1
    <3> QED
      BY <2>1, <3>1
  <2> QED
    BY <1>1, <2>2 DEF TypeInv, RegistryTypes, Drawn
<1>4. \A j \in 1 .. Len(writes') : writes'[j].uid <= drawn
  BY <1>1 DEF TypeInv, Drawn
<1>5. Drawn'
  BY <1>1, <1>3, <1>4 DEF TypeInv, Drawn
<1>6. Spawning'
  BY <1>1 DEF TypeInv, Spawning, Inserts
<1> QED
  BY <1>2, <1>5, <1>6 DEF TypeInv

\* After a restart no request is under way and no session is in the map.
LEMMA RestartIs ==
  ASSUME TypeInv, Restart
  PROVE  /\ sandboxes' = store /\ UNCHANGED <<store, drawn>> /\ ~poisoned'
         /\ writes' = <<>> /\ Len(writes') = 0 /\ \A c \in Clients : client'[c] = NoRequest
         /\ session' \in [Sids -> SessionRecord] /\ overlay' \in [Uids -> {"none", "here", "left"}]
         /\ \A s \in Sids : /\ session'[s].st = IF session[s].st = "none" THEN "none" ELSE "lost"
                            /\ session'[s].uid = session[s].uid /\ session'[s].eph = session[s].eph
                            /\ session[s].st = "none" => session'[s] = session[s]
         /\ \A u \in Uids : overlay'[u] = "none" <=> overlay[u] = "none"
         /\ \A u \in Uids : overlay'[u] # "here"
<1>1. session \in [Sids -> SessionRecord] /\ overlay \in [Uids -> {"none", "here", "left"}]
  BY DEF TypeInv, RegistryTypes
<1>2. /\ sandboxes' = store /\ UNCHANGED <<store, drawn>> /\ ~poisoned'
      /\ writes' = <<>> /\ Len(writes') = 0 /\ \A c \in Clients : client'[c] = NoRequest
      /\ session' = Unsupervised /\ overlay' = Inherited
  BY DEF Restart
<1>3. ASSUME NEW s \in Sids
      PROVE  /\ session'[s] \in SessionRecord
             /\ session'[s].st = IF session[s].st = "none" THEN "none" ELSE "lost"
             /\ session'[s].uid = session[s].uid /\ session'[s].eph = session[s].eph
             /\ session[s].st = "none" => session'[s] = session[s]
  <2>1. PICK x \in SessionRecord : x = session[s]
    BY <1>1
  <2>2. session'[s] = [x EXCEPT !.st = IF @ = "none" THEN @ ELSE "lost"]
    BY <1>2, <2>1 DEF Unsupervised
  <2> QED
    BY <2>1, <2>2 DEF SessionRecord
<1>4. session' \in [Sids -> SessionRecord]
  BY <1>2, <1>3 DEF Unsupervised
<1>5. /\ overlay' \in [Uids -> {"none", "here", "left"}]
      /\ \A u \in Uids : overlay'[u] = "none" <=> overlay[u] = "none"
      /\ \A u \in Uids : overlay'[u] # "here"
  BY <1>1, <1>2 DEF Inherited
<1> QED
  BY <1>2, <1>3, <1>4, <1>5

LEMMA RestartTypes ==
  ASSUME TypeInv, Restart, UNCHANGED daemon PROVE TypeInv'
<1>1. /\ sandboxes' = store /\ UNCHANGED <<store, drawn>> /\ poisoned' = FALSE
      /\ writes' = <<>> /\ Len(writes') = 0 /\ client' = [c \in Clients |-> NoRequest]
  BY DEF Restart
<1>2. RegistryTypes'
  <2>1. client' \in [Clients -> Request] /\ poisoned' \in BOOLEAN
    BY <1>1, NoRequestOK
  <2>2. session' \in [Sids -> SessionRecord] /\ overlay' \in [Uids -> {"none", "here", "left"}]
    BY RestartIs
  <2>3. writes' \in Seq([uid : Uids, row : Box])
    BY <1>1
  <2> QED
    BY <1>1, <2>1, <2>2, <2>3 DEF TypeInv, RegistryTypes
<1>3. Drawn'
  <2>1. \A u \in Uids : u > drawn => sandboxes'[u] = NoBox /\ store'[u] = NoBox /\ overlay'[u] = "none"
    BY <1>1, RestartIs DEF TypeInv, Drawn
  <2>2. \A s \in Sids : /\ session'[s].uid <= drawn
                        /\ session'[s].st = "none" => session'[s] = NoSession
                        /\ session'[s].st # "none" => session'[s].uid # NoUid
    BY RestartIs DEF TypeInv, Drawn
  <2>3. \A c \in Clients : client'[c].uid <= drawn /\ client'[c].new <= drawn /\ RequestOK(client'[c])
    BY <1>1, NoRequestOK DEF TypeInv, RegistryTypes, NoUid
  <2> QED
    BY <1>1, <2>1, <2>2, <2>3 DEF Drawn
<1>4. Spawning'
  BY <1>1, NoRequestOK DEF Spawning, Inserts
<1> QED
  BY <1>2, <1>3, <1>4 DEF TypeInv

LEMMA NextTypes == TypeInv /\ [Next]_vars => TypeInv'
<1> SUFFICES ASSUME TypeInv, [Next]_vars PROVE TypeInv'
  OBVIOUS
<1>1. ASSUME NEW c \in Clients, Step(c), UNCHANGED daemon PROVE TypeInv'
  BY <1>1, StepTypes
<1>2. ASSUME NEW i \in 1 .. Len(writes), StoreTask(i), UNCHANGED daemon PROVE TypeInv'
  BY <1>2, StoreTaskTypes
<1>3. CASE Restart /\ UNCHANGED daemon
  BY <1>3, RestartTypes
<1>4. CASE UNCHANGED vars
  BY <1>4 DEF vars, TypeInv, RegistryTypes, Drawn, Spawning, Inserts
<1> QED
  BY <1>1, <1>2, <1>3, <1>4 DEF Next

-----------------------------------------------------------------------------
(* Names, and sessions that were taken out of the map.                     *)

LEMMA NamesStep == TypeInv /\ NamesUnique /\ [Next]_vars => NamesUnique'
<1> SUFFICES ASSUME TypeInv, NamesUnique, [Next]_vars, ~daemon'.stored,
                    NEW u \in Uids, NEW v \in Uids, Known(sandboxes', u), Known(sandboxes', v),
                    sandboxes'[u].name = sandboxes'[v].name
             PROVE  u = v
  BY DEF NamesUnique
<1>1. daemon' = daemon
  BY DEF Next, vars
<1>2. \A x, y \in Uids : Known(sandboxes, x) /\ Known(sandboxes, y)
                         /\ sandboxes[x].name = sandboxes[y].name => x = y
  BY <1>1 DEF NamesUnique
<1>3. CASE UNCHANGED sandboxes
  BY <1>2, <1>3
<1>4. ASSUME NEW c \in Clients, NEW w \in Uids, NEW b \in Box, BoxBecomes(c, w, b) PROVE u = v
  <2>1. sandboxes' = [sandboxes EXCEPT ![w] = b] /\ sandboxes \in [Uids -> Box]
    BY <1>4 DEF BoxBecomes, TypeInv, RegistryTypes
  <2>2. CASE b = NoBox
    BY <1>2, <2>1, <2>2 DEF Known
  <2>3. CASE b.name \notin Taken
    <3>1. \A x \in Uids : sandboxes[x].name # b.name
      BY <2>3 DEF Taken
    <3> QED
      BY <1>2, <2>1, <3>1 DEF Known
  <2>4. CASE Known(sandboxes, w) /\ b.name = sandboxes[w].name
    BY <1>2, <2>1, <2>4 DEF Known
  <2> QED
    BY <1>4, <2>2, <2>3, <2>4 DEF BoxBecomes
<1>5. ASSUME NEW c \in Clients, Step(c) PROVE u = v
  <2>1. UNCHANGED sandboxes \/ BoxStep(c)
    BY <1>5, StepChanges DEF Changes
  <2> QED
    BY <1>3, <1>4, <2>1, BoxStepBecomes
<1>6. ASSUME NEW i \in 1 .. Len(writes), StoreTask(i) PROVE u = v
  BY <1>3, <1>6 DEF StoreTask
<1>7. CASE UNCHANGED vars
  BY <1>3, <1>7 DEF vars
<1> QED
  BY <1>1, <1>5, <1>6, <1>7 DEF Next, Restart

\* A session that a request took out of the map has ended, and is of its sandbox.
DoomedEnded ==
  \A c \in Clients : \A s \in client[c].doomed : session[s].st = "ended" /\ session[s].uid = Uid(c)

LEMMA DoomedStep ==
  ASSUME TypeInv, TypeInv', DoomedEnded, NoneForgotten, NEW c \in Clients, Step(c)
  PROVE  DoomedEnded' /\ NoneForgotten'
<1>1. PICK q : Moves(c, q)
  BY StepMoves
<1>2. q \in Request /\ client'[c] = q /\ \A d \in Clients \ {c} : client'[d] = client[d]
  BY <1>1 DEF Moves, Becomes
<1>3. \A s \in Sids : session'[s] = session[s] \/ SessionBecomes(c, s)
  BY StepChanges, SessionStepBecomes DEF Changes
<1>4. \A s \in Sids : session[s] \in SessionRecord /\ session'[s] \in SessionRecord
  BY DEF TypeInv, RegistryTypes
<1>5. \A d \in Clients : client[d].doomed \in SUBSET Sids /\ client'[d].doomed \in SUBSET Sids
  BY DEF TypeInv, RegistryTypes, Request
<1>6. ASSUME NEW s \in Sids, session[s].st = "ended"
      PROVE  /\ session'[s].st = "ended" /\ session'[s].uid = session[s].uid
             /\ session'[s].alive => session[s].alive
             /\ kill(c) /\ s \in client[c].doomed => ~session'[s].alive
  <2>1. session'[s] = session[s] \/ session'[s] = [session[s] EXCEPT !.alive = FALSE]
    BY <1>3, <1>6 DEF SessionBecomes
  <2>2. kill(c) /\ s \in client[c].doomed => session'[s].alive = FALSE
    BY <1>4 DEF kill, SessionRecord, TypeInv, RegistryTypes
  <2> QED
    BY <1>4, <1>6, <2>1, <2>2 DEF SessionRecord
\* Sessions are taken out of the map by sweep and end_session only.
<1>7. ASSUME NEW s \in Sids, session[s].st # "ended", session'[s].st = "ended"
      PROVE  s \in q.doomed /\ session'[s].uid = q.uid
  <2>1. SessionBecomes(c, s) /\ session'[s] # session[s]
    BY <1>3, <1>7
  <2>2. CASE /\ session[s].uid = q.uid /\ s \in q.doomed
             /\ session'[s] = [session[s] EXCEPT !.st = "ended"]
    BY <1>4, <2>2 DEF SessionRecord
  <2> QED
    BY <1>2, <1>4, <1>7, <2>1, <2>2 DEF SessionBecomes, SessionRecord
<1>8. ASSUME NEW s \in q.doomed
      PROVE  session[s].st = "live" /\ session'[s].st = "ended" /\ session'[s].uid = q.uid
  <2>1. sweep(c) \/ Ends(c)
    BY <1>1, <1>8 DEF Moves, Came
  <2>2. s \in Sids
    BY <1>2, <1>8 DEF Request
  <2>3. CASE sweep(c)
    <3>1. q.doomed = {r \in Sids : Live(r, Uid(c))} /\ q.uid = Uid(c)
      BY <1>2, <2>3, RequestFacts DEF sweep, Uid, Request, TypeInv, RegistryTypes
    <3>2. Live(s, Uid(c))
      BY <1>8, <3>1
    <3>3. session'[s] = [session[s] EXCEPT !.st = "ended"]
      BY <2>2, <2>3, <3>2 DEF sweep
    <3> QED
      BY <1>4, <2>2, <3>1, <3>2, <3>3 DEF Live, SessionRecord
  <2>4. ASSUME NEW r \in Sids, end_session(c, r)
        PROVE  session[s].st = "live" /\ session'[s].st = "ended" /\ session'[s].uid = q.uid
    <3>1. q.doomed = {r} /\ q.uid = session[r].uid
      BY <1>2, <2>4 DEF end_session, Starts, NoRequest, TypeInv, RegistryTypes
    <3> QED
      BY <1>4, <1>8, <2>2, <2>4, <3>1 DEF end_session, SessionRecord, TypeInv, RegistryTypes
  <2> QED
    BY <2>1, <2>3, <2>4 DEF Ends
<1>9. DoomedEnded'
  <2> SUFFICES ASSUME NEW d \in Clients, NEW s \in client'[d].doomed
               PROVE  session'[s].st = "ended" /\ session'[s].uid = client'[d].uid
    BY DEF DoomedEnded, Uid
  <2>1. CASE d = c
    BY <1>2, <1>8, <2>1
  <2>2. CASE d # c
    BY <1>2, <1>5, <1>6, <2>2 DEF DoomedEnded, Uid
  <2> QED
    BY <2>1, <2>2
\* Whoever had it in hand still has, or has killed it.
<1>10. ASSUME NEW s \in Sids, session'[s].st = "ended", session'[s].alive
       PROVE  \E d \in Clients : s \in client'[d].doomed
  <2>1. CASE session[s].st # "ended"
    BY <1>2, <1>7, <1>10, <2>1
  <2>2. CASE session[s].st = "ended"
    <3>1. session[s].alive /\ ~(kill(c) /\ s \in client[c].doomed)
      BY <1>6, <1>10, <2>2
    <3>2. PICK d \in Clients : s \in client[d].doomed
      BY <2>2, <3>1 DEF NoneForgotten
    <3>3. CASE d # c
      BY <1>2, <3>2, <3>3
    <3>4. CASE d = c
      <4>1. client[c].pc = "kill"
        BY <3>2, <3>4, RequestFacts DEF RequestOK
      <4>2. kill(c)
        BY <4>1 DEF Step, create_sandbox, create_fork, request, ephemeral, end_session, resolve_new,
           index_new, prepare, resolve_free, index, write_file, rollback, update, push, execute, run_ends,
           spawn, insert, remove, sweep, cleanup_overlay, unpersist, Panics, Locked, At
      <4> QED
        BY <3>1, <3>2, <3>4, <4>2
    <3> QED
      BY <3>3, <3>4
  <2> QED
    BY <2>1, <2>2
<1>11. ASSUME NEW d \in Clients, NEW e \in Clients, NEW s, s \in client'[d].doomed, s \in client'[e].doomed
       PROVE  d = e
  <2>1. \A f \in Clients, r \in Sids : r \in client[f].doomed => session[r].st = "ended"
    BY DEF DoomedEnded
  <2>2. s \in Sids
    BY <1>5, <1>11
  <2>3. CASE d # c /\ e # c
    <3>1. s \in client[d].doomed \cap client[e].doomed
      BY <1>2, <1>11, <2>3
    <3> QED
      BY <3>1 DEF NoneForgotten
  <2>4. CASE d = c /\ e # c
    BY <1>2, <1>8, <1>11, <2>1, <2>2, <2>4
  <2>5. CASE d # c /\ e = c
    BY <1>2, <1>8, <1>11, <2>1, <2>2, <2>5
  <2> QED
    BY <2>3, <2>4, <2>5
<1>12. NoneForgotten'
  <2>1. \A d, e \in Clients : client'[d].doomed \cap client'[e].doomed # {} => d = e
    BY <1>11
  <2> QED
    BY <1>10, <2>1 DEF NoneForgotten
<1> QED
  BY <1>9, <1>12

\* Names are unique in a registry that has no store, whatever requests its clients
\* make at the same time (create_sandbox, fork, free_sandbox).
THEOREM NamesAlwaysUnique == Spec => []NamesUnique
<1>1. Init => NamesUnique
  BY DEF Init, NamesUnique, Known
<1> QED
  BY <1>1, InitTypes, NextTypes, NamesStep, PTL DEF Spec

LEMMA DoomedNext ==
  TypeInv /\ TypeInv' /\ DoomedEnded /\ NoneForgotten /\ [Next]_vars => DoomedEnded' /\ NoneForgotten'
<1> SUFFICES ASSUME TypeInv, TypeInv', DoomedEnded, NoneForgotten, [Next]_vars
             PROVE  DoomedEnded' /\ NoneForgotten'
  OBVIOUS
<1>1. CASE UNCHANGED <<session, client>>
  BY <1>1 DEF DoomedEnded, NoneForgotten, Uid
<1>2. ASSUME NEW i \in 1 .. Len(writes), StoreTask(i) PROVE UNCHANGED <<session, client>>
  BY <1>2 DEF StoreTask
<1>3. CASE Restart
  <2>1. \A c \in Clients : client'[c].doomed = {}
    BY <1>3, RestartIs, NoRequestOK
  <2>2. \A s \in Sids : session'[s].st # "ended"
    BY <1>3, RestartIs
  <2> QED
    BY <2>1, <2>2 DEF DoomedEnded, NoneForgotten
<1>4. ASSUME NEW c \in Clients, Step(c) PROVE DoomedEnded' /\ NoneForgotten'
  BY <1>4, DoomedStep
<1> QED
  BY <1>1, <1>2, <1>3, <1>4 DEF Next, vars

\* A guest whose session left the map is killed by the one request that took it out,
\* whatever free_sandbox and end_session run at the same time.
THEOREM NoneEverForgotten == Spec => []NoneForgotten
<1>1. Init => DoomedEnded /\ NoneForgotten
  BY NoRequestOK DEF Init, DoomedEnded, NoneForgotten, NoSession
<1> QED
  BY <1>1, InitTypes, NextTypes, DoomedNext, PTL DEF Spec

-----------------------------------------------------------------------------
(* Uids without a sandbox: of ephemeral runs and sessions, and of sandboxes *)
(* that are being freed.                                                   *)

\* No sandbox has this uid, and no row or restart brings one.
Rowless(u) == /\ sandboxes[u] = NoBox /\ store[u] = NoBox
              /\ \A i \in 1 .. Len(writes) : writes[i].uid = u => writes[i].row = NoBox

\* What a session has to do with the ephemeral request it belongs to.
Belongs(c, s) ==
  \/ Inserts(c, s)
  \/ /\ client[c].pc \in {"kill", "cleanup"} /\ session[s].st = "ended"
     /\ session[s].alive => s \in client[c].doomed

EphemeralRequests ==
  \A c \in Clients : client[c].eph =>
    /\ Rowless(Uid(c))
    /\ \A d \in Clients \ {c} : Uid(c) \notin {Uid(d), New(d)}
    /\ \A s \in Sids : session[s].uid = Uid(c) => Belongs(c, s)
EphemeralSessions ==
  \A s \in Sids : session[s].eph =>
    /\ Rowless(session[s].uid)
    /\ \A r \in Sids : session[r].uid = session[s].uid => r = s
    /\ \A d \in Clients : ~client[d].eph => session[s].uid \notin {Uid(d), New(d)}

\* free_sandbox removes the sandbox before anything else of it.
FreedGone ==
  \A c \in Clients : Call(c) = "free" /\ client[c].pc \in {"sweep", "kill", "cleanup"}
                       => ~Known(sandboxes, Uid(c))

DataInv == EphemeralRequests /\ EphemeralSessions /\ FreedGone

\* A sandbox is made with a new uid only.
LEMMA UnknownKept ==
  ASSUME TypeInv, NEW c \in Clients, Step(c), NEW u \in Uids, u <= drawn, ~Known(sandboxes, u)
  PROVE  ~Known(sandboxes, u)'
<1>1. CASE UNCHANGED sandboxes
  BY <1>1 DEF Known
<1>2. ASSUME NEW w \in Uids, NEW b \in Box, BoxBecomes(c, w, b) PROVE ~Known(sandboxes, u)'
  <2>1. sandboxes' = [sandboxes EXCEPT ![w] = b] /\ sandboxes \in [Uids -> Box]
    BY <1>2 DEF BoxBecomes, TypeInv, RegistryTypes
  <2>2. w # drawn + 1 \/ w # u
    BY RequestFacts
  <2>3. w # u \/ b = NoBox
    BY <1>2, <2>2 DEF BoxBecomes
  <2> QED
    BY <2>1, <2>3 DEF Known
<1> QED
  BY <1>1, <1>2, StepChanges, BoxStepBecomes DEF Changes

LEMMA RowlessStep ==
  ASSUME TypeInv, NEW c \in Clients, Step(c), NEW u \in Uids, u <= drawn, Rowless(u)
  PROVE  Rowless(u)'
<1>1. sandboxes'[u] = NoBox
  BY UnknownKept DEF Rowless, Known
<1>2. store' = store /\ writes \in Seq(RowType)
  BY StepChanges DEF Changes, TypeInv, RegistryTypes, RowType
<1>3. CASE UNCHANGED writes
  BY <1>1, <1>2, <1>3 DEF Rowless
<1>4. ASSUME NEW w \in Uids, NEW b \in Box, w # u \/ b = NoBox,
             writes' = Append(writes, [uid |-> w, row |-> b])
      PROVE  Rowless(u)'
  <2>1. PICK x \in RowType : x = [uid |-> w, row |-> b] /\ x.uid = w /\ x.row = b
    BY RowIs
  <2>2. /\ Len(writes') = Len(writes) + 1
        /\ \A i \in 1 .. Len(writes) : writes'[i] = writes[i]
        /\ writes'[Len(writes) + 1] = x
    BY <1>2, <1>4, <2>1, WritesAppended
  <2>3. ASSUME NEW i \in 1 .. Len(writes'), writes'[i].uid = u PROVE writes'[i].row = NoBox
    <3>1. i \in 1 .. Len(writes) \/ i = Len(writes) + 1
      BY <1>2, <2>2
    <3> QED
      BY <1>4, <2>1, <2>2, <2>3, <3>1 DEF Rowless
  <2> QED
    BY <1>1, <1>2, <2>3 DEF Rowless
<1>5. ASSUME NEW w \in Uids, NEW b \in Box, BoxBecomes(c, w, b) PROVE Rowless(u)'
  <2>1. UNCHANGED writes \/ writes' = Append(writes, [uid |-> w, row |-> b])
    BY <1>5 DEF BoxBecomes
  <2>2. w # drawn + 1 \/ w # u
    BY RequestFacts
  <2>3. w # u \/ b = NoBox
    BY <1>5, <2>2 DEF BoxBecomes, Rowless, Known
  <2> QED
    BY <1>3, <1>4, <2>1, <2>3
<1>6. CASE unpersist(c)
  <2>1. PICK w \in Uids : w = Uid(c)
    BY <1>6, RequestFacts DEF unpersist, At, NewPcs
  <2>2. UNCHANGED writes \/ writes' = Append(writes, [uid |-> w, row |-> NoBox])
    BY <1>6, <2>1 DEF unpersist, persist
  <2> QED
    BY <1>3, <1>4, <2>2, BoxTypes
<1>7. CASE BoxStep(c)
  BY <1>3, <1>5, <1>7, BoxStepBecomes
<1> QED
  BY <1>3, <1>6, <1>7, StepChanges DEF Changes

LEMMA RowlessStore ==
  ASSUME TypeInv, NEW i \in 1 .. Len(writes), StoreTask(i), NEW u \in Uids, Rowless(u)
  PROVE  Rowless(u)'
<1>1. /\ \A j \in 1 .. Len(writes') : \E k \in 1 .. Len(writes) : writes'[j] = writes[k]
      /\ store' = [store EXCEPT ![writes[i].uid] = writes[i].row] /\ sandboxes' = sandboxes
  BY StoreTaskIs
<1>2. store \in [Uids -> Box]
  BY DEF TypeInv, RegistryTypes
<1> QED
  BY <1>1, <1>2 DEF Rowless

LEMMA RowlessRestart ==
  ASSUME TypeInv, Restart, NEW u \in Uids, Rowless(u) PROVE Rowless(u)'
<1>1. sandboxes' = store /\ store' = store /\ Len(writes') = 0
  BY RestartIs
<1> QED
  BY <1>1 DEF Rowless

\* A uid that is drawn is nobody's yet.
LEMMA FreshRowless ==
  ASSUME TypeInv, drawn < MaxUid
  PROVE  /\ drawn + 1 \in Uids /\ Rowless(drawn + 1)
         /\ \A d \in Clients : drawn + 1 \notin {Uid(d), New(d)}
         /\ \A s \in Sids : session[s].uid # drawn + 1
<1>1. drawn \in Nat /\ MaxUid \in Nat
  BY RegistryAssumption DEF TypeInv, RegistryTypes
<1>2. drawn + 1 \in Uids /\ drawn + 1 > drawn
  BY <1>1 DEF Uids
<1>3. PICK u \in Uids : u = drawn + 1 /\ u > drawn /\ u \in Nat
  BY <1>1, <1>2
<1>4. sandboxes[u] = NoBox /\ store[u] = NoBox
  BY <1>3 DEF TypeInv, Drawn
<1>5. \A i \in 1 .. Len(writes) : writes[i].uid # u
  <2> SUFFICES ASSUME NEW i \in 1 .. Len(writes) PROVE writes[i].uid # u
    OBVIOUS
  <2>1. writes[i].uid \in Uids /\ writes[i].uid <= drawn
    <3>0. writes \in Seq(RowType)
      BY DEF TypeInv, RegistryTypes, RowType
    <3>1. writes[i] \in RowType
      BY <3>0
    <3> QED
      BY <3>1 DEF TypeInv, Drawn, RowType
  <2> QED
    BY <1>1, <1>3, <2>1 DEF Uids
<1>6. \A d \in Clients : u \notin {Uid(d), New(d)}
  BY <1>1, <1>3, RequestFacts
<1>7. \A s \in Sids : session[s].uid # u
  <2> SUFFICES ASSUME NEW s \in Sids PROVE session[s].uid # u
    OBVIOUS
  <2>1. session[s].uid \in Nat /\ session[s].uid <= drawn
    BY <1>1 DEF TypeInv, RegistryTypes, Drawn, SessionRecord
  <2> QED
    BY <1>1, <1>3, <2>1
<1> QED
  BY <1>2, <1>3, <1>4, <1>5, <1>6, <1>7 DEF Rowless

\* A request that inserts, kills or cleans up does that next.
LEMMA NextOfRequest ==
  ASSUME TypeInv, NEW c \in Clients, Step(c)
  PROVE  /\ At(c, "insert") => insert(c)
         /\ At(c, "kill") => kill(c)
         /\ At(c, "cleanup") => cleanup_overlay(c)
<1>1. ASSUME At(c, "insert") PROVE insert(c)
  BY <1>1 DEF Step, create_sandbox, create_fork, request, ephemeral, end_session, resolve_new,
     index_new, prepare, resolve_free, index, write_file, rollback, update, push, execute, run_ends,
     spawn, remove, sweep, kill, cleanup_overlay, unpersist, Panics, Locked, At
<1>2. ASSUME At(c, "kill") PROVE kill(c)
  BY <1>2 DEF Step, create_sandbox, create_fork, request, ephemeral, end_session, resolve_new,
     index_new, prepare, resolve_free, index, write_file, rollback, update, push, execute, run_ends,
     spawn, insert, remove, sweep, cleanup_overlay, unpersist, Panics, Locked, At
<1>3. ASSUME At(c, "cleanup") PROVE cleanup_overlay(c)
  BY <1>3 DEF Step, create_sandbox, create_fork, request, ephemeral, end_session, resolve_new,
     index_new, prepare, resolve_free, index, write_file, rollback, update, push, execute, run_ends,
     spawn, insert, remove, sweep, kill, unpersist, Panics, Locked, At
<1> QED
  BY <1>1, <1>2, <1>3

\* A session keeps what it is, but for one that is spawned now.
LEMMA SessionMoves ==
  ASSUME TypeInv, NEW c \in Clients, Step(c), NEW s \in Sids
  PROVE  \/ /\ session'[s].uid = session[s].uid /\ session'[s].eph = session[s].eph
            /\ session'[s].alive => session[s].alive
            /\ kill(c) /\ s \in client[c].doomed => ~session'[s].alive
            /\ \/ session'[s].st = session[s].st
               \/ insert(c) /\ Inserts(c, s) /\ session[s].st = "spawned" /\ session'[s].st = "live"
               \/ /\ session[s].st = "live" /\ session'[s].st = "ended" /\ s \in client'[c].doomed
                  /\ session[s].uid = client'[c].uid
         \/ /\ spawn(c) /\ session[s].st = "none" /\ client'[c].pc = "insert" /\ client'[c].sid = s
            /\ session'[s].st = "spawned" /\ session'[s].uid = Uid(c) /\ session'[s].alive
            /\ session'[s].eph = client[c].eph /\ session'[s].conf = client[c].conf
<1>1. session[s] \in SessionRecord /\ session \in [Sids -> SessionRecord]
  BY DEF TypeInv, RegistryTypes
<1>2. ~(kill(c) /\ s \in client[c].doomed) \/ session'[s] = [session[s] EXCEPT !.alive = FALSE]
  BY DEF kill
<1>3. kill(c) => ~insert(c) /\ ~sweep(c) /\ ~push(c) /\ ~spawn(c) /\ ~end_session(c, s)
  BY DEF kill, insert, sweep, push, spawn, end_session, At
<1>4. CASE session'[s] = session[s]
  BY <1>1, <1>2, <1>4 DEF SessionRecord
<1>5. CASE push(c) /\ session'[s] = [session[s] EXCEPT !.conf = client[c].conf]
  BY <1>1, <1>3, <1>5 DEF SessionRecord
<1>6. CASE /\ spawn(c) /\ client'[c].pc = "insert" /\ client'[c].sid = s /\ session[s].st = "none"
           /\ session'[s] = [st |-> "spawned", uid |-> Uid(c), eph |-> client[c].eph,
                             conf |-> client[c].conf, alive |-> TRUE]
  BY <1>6
<1>7. CASE /\ insert(c) /\ Inserts(c, s) /\ session[s].st = "spawned"
           /\ session'[s] = [session[s] EXCEPT !.st = "live"]
  BY <1>1, <1>3, <1>7 DEF SessionRecord
<1>8. CASE /\ sweep(c) \/ end_session(c, s)
           /\ session[s].st = "live" /\ session[s].uid = client'[c].uid /\ s \in client'[c].doomed
           /\ session'[s] = [session[s] EXCEPT !.st = "ended"]
  BY <1>1, <1>3, <1>8 DEF SessionRecord
<1>9. CASE kill(c) /\ session'[s] = [session[s] EXCEPT !.alive = FALSE]
  BY <1>1, <1>9 DEF SessionRecord
<1>10. session'[s] = session[s] \/ SessionBecomes(c, s)
  BY StepChanges, SessionStepBecomes DEF Changes
<1> QED
  BY <1>4, <1>5, <1>6, <1>7, <1>8, <1>9, <1>10 DEF SessionBecomes

LEMMA EphemeralStep ==
  ASSUME TypeInv, TypeInv', DoomedEnded, DataInv, NEW c \in Clients, Step(c)
  PROVE  EphemeralRequests' /\ EphemeralSessions'
<1>1. PICK q : Moves(c, q)
  BY StepMoves
<1>2. q \in Request /\ client'[c] = q /\ \A d \in Clients \ {c} : client'[d] = client[d]
  BY <1>1 DEF Moves, Becomes
<1>3. /\ Origin(c, q, q.uid) /\ Origin(c, q, q.new) /\ (q.eph => EphemeralOrigin(c, q))
      /\ client[c].eph /\ ~q.eph => q.uid = NoUid /\ q.new = NoUid
  BY <1>1 DEF Moves
<1>4. ASSUME NEW e \in Clients, client[e].eph
      PROVE  /\ Rowless(Uid(e)) /\ Uid(e) \in Uids /\ Uid(e) <= drawn /\ Uid(e) # NoUid /\ New(e) = NoUid
             /\ \A d \in Clients \ {e} : Uid(e) \notin {Uid(d), New(d)}
             /\ \A s \in Sids : session[s].uid = Uid(e) => Belongs(e, s)
  BY <1>4, RequestFacts DEF DataInv, EphemeralRequests, RequestOK, NewPcs, Uids, NoUid, New
<1>5. ASSUME NEW s \in Sids, session[s].eph
      PROVE  /\ Rowless(session[s].uid) /\ session[s].uid \in Uids /\ session[s].uid <= drawn
             /\ session[s].uid # NoUid
             /\ \A r \in Sids : session[r].uid = session[s].uid => r = s
             /\ \A d \in Clients : ~client[d].eph => session[s].uid \notin {Uid(d), New(d)}
  <2>1. session[s] \in SessionRecord /\ session[s] # NoSession
    BY <1>5 DEF TypeInv, RegistryTypes, NoSession
  <2>2. session[s].uid # NoUid /\ session[s].uid <= drawn
    BY <2>1 DEF TypeInv, Drawn
  <2> QED
    BY <1>5, <2>1, <2>2 DEF DataInv, EphemeralSessions, SessionRecord, Uids, NoUid
<1>6. ASSUME NEW u \in Uids, u <= drawn, Rowless(u) PROVE Rowless(u)'
  BY <1>6, RowlessStep
<1>7. drawn \in Nat /\ drawn' \in Nat /\ \A s \in Sids : session[s].uid \in Nat
  BY Growing, RequestFacts DEF TypeInv, RegistryTypes, SessionRecord
<1>8. \A e \in Clients, s \in Sids : client[e].eph /\ session[s].st = "live" => session[s].uid # Uid(e)
  BY <1>4 DEF Belongs, TypeInv, Spawning
\* What a request may take is not the uid of anything ephemeral.
<1>9. ASSUME NEW e \in Clients \ {c}, client[e].eph, NEW u, Origin(c, q, u), u # NoUid
      PROVE  Uid(e) # u
  <2>1. CASE u \in {NoUid, Uid(c), New(c)}
    BY <1>4, <1>9, <2>1
  <2>2. CASE u = drawn + 1
    BY <1>4, <1>7, <1>9, <2>2
  <2>3. CASE Known(sandboxes, u)
    BY <1>4, <1>9, <2>3 DEF Rowless, Known
  <2>4. CASE \E s \in Sids : Live(s, u)
    BY <1>8, <1>9, <2>4 DEF Live
  <2> QED
    BY <1>9, <2>1, <2>2, <2>3, <2>4 DEF Origin
<1>10. ASSUME q.eph
       PROVE  /\ Rowless(q.uid)'
              /\ \A d \in Clients \ {c} : q.uid \notin {Uid(d), New(d)}
              /\ \A s \in Sids : session'[s].uid = q.uid => Belongs(c, s)'
  <2>1. CASE client[c].eph /\ q.uid = Uid(c)
    <3>1. Rowless(q.uid)' /\ \A d \in Clients \ {c} : q.uid \notin {Uid(d), New(d)}
      BY <1>4, <1>6, <2>1
    <3>2. ASSUME NEW s \in Sids, session'[s].uid = q.uid PROVE Belongs(c, s)'
      <4>1. CASE session[s].uid = Uid(c) /\ Inserts(c, s)
        <5>1. insert(c)
          BY <4>1, NextOfRequest DEF Inserts, At
        <5>2. q = NoRequest
          BY <1>2, <5>1 DEF insert, Returns, TypeInv, RegistryTypes
        <5> QED
          BY <1>10, <5>2, NoRequestOK
      <4>2. CASE session[s].uid = Uid(c) /\ client[c].pc = "kill" /\ session[s].st = "ended"
                 /\ (session[s].alive => s \in client[c].doomed)
        <5>1. kill(c)
          BY <4>2, NextOfRequest DEF At
        <5>2. q.pc = "cleanup"
          <6>1. CASE Returns(c)
            BY <1>2, <1>10, <6>1, NoRequestOK DEF Returns, TypeInv, RegistryTypes
          <6>2. CASE ~Returns(c)
            <7>1. client[c] \in Request /\ client \in [Clients -> Request]
              BY DEF TypeInv, RegistryTypes
            <7>2. client' = [client EXCEPT ![c] = [@ EXCEPT !.pc = "cleanup", !.doomed = {}]]
              BY <5>1, <6>2 DEF kill
            <7> QED
              BY <1>2, <7>1, <7>2 DEF Request
          <6> QED
            BY <6>1, <6>2
        <5>3. session'[s].st = "ended" /\ ~session'[s].alive
          BY <4>2, <5>1, SessionMoves
        <5> QED
          BY <1>2, <5>2, <5>3 DEF Belongs
      <4>3. CASE client[c].pc = "cleanup"
        <5>1. cleanup_overlay(c) /\ Call(c) = "end"
          BY <2>1, <4>3, NextOfRequest, RequestFacts DEF At, RequestOK, Call
        <5>2. q = NoRequest
          BY <1>2, <5>1 DEF cleanup_overlay, Returns, TypeInv, RegistryTypes
        <5> QED
          BY <1>10, <5>2, NoRequestOK
      <4>4. CASE session[s].uid = Uid(c)
        BY <1>4, <2>1, <4>1, <4>2, <4>3, <4>4 DEF Belongs
      <4>5. CASE session[s].uid # Uid(c)
        <5>1. client'[c].pc = "insert" /\ client'[c].sid = s
          BY <2>1, <3>2, <4>5, SessionMoves
        <5> QED
          BY <5>1 DEF Belongs, Inserts
      <4> QED
        BY <4>4, <4>5
    <3> QED
      BY <3>1, <3>2
  <2>2. ASSUME NEW call \in Calls, ephemeral(c, call), q.uid = drawn + 1
        PROVE  /\ Rowless(q.uid)'
               /\ \A d \in Clients \ {c} : q.uid \notin {Uid(d), New(d)}
               /\ \A s \in Sids : session'[s].uid = q.uid => Belongs(c, s)'
    <3>1. drawn < MaxUid /\ UNCHANGED <<sandboxes, store, writes, session>>
      BY <2>2 DEF ephemeral
    <3>2. PICK u \in Uids : u = drawn + 1 /\ Rowless(u)
      BY <3>1, FreshRowless
    <3>3. Rowless(u)'
      BY <3>1, <3>2 DEF Rowless
    <3> QED
      BY <2>2, <3>1, <3>2, <3>3, FreshRowless
  <2>3. ASSUME NEW r \in Sids, end_session(c, r), session[r].eph, q.uid = session[r].uid
        PROVE  /\ Rowless(q.uid)'
               /\ \A d \in Clients \ {c} : q.uid \notin {Uid(d), New(d)}
               /\ \A s \in Sids : session'[s].uid = q.uid => Belongs(c, s)'
    <3>1. Rowless(q.uid)'
      BY <1>5, <1>6, <2>3
    <3>2. session[r].st = "live"
      BY <2>3 DEF end_session
    <3>3. \A d \in Clients \ {c} : q.uid \notin {Uid(d), New(d)}
      BY <1>4, <1>5, <1>8, <2>3, <3>2
    <3>4. session'[r].st = "ended" /\ q.pc = "kill" /\ r \in q.doomed
      BY <1>2, <2>3 DEF end_session, Starts, NoRequest, TypeInv, RegistryTypes, SessionRecord
    <3>5. ASSUME NEW s \in Sids, session'[s].uid = q.uid PROVE Belongs(c, s)'
      <4>1. session[s].uid = q.uid
        BY <2>3, <3>4, <3>5, <1>2, SessionMoves
      <4>2. s = r
        BY <1>5, <2>3, <4>1
      <4> QED
        BY <1>2, <3>4, <4>2 DEF Belongs
    <3> QED
      BY <3>1, <3>3, <3>5
  <2> QED
    BY <1>3, <1>10, <2>1, <2>2, <2>3 DEF EphemeralOrigin
<1>11. EphemeralRequests'
  <2> SUFFICES ASSUME NEW e \in Clients, client'[e].eph
               PROVE  /\ Rowless(client[e].uid)' /\ \A d \in Clients \ {e} :
                           client'[e].uid \notin {client'[d].uid, client'[d].new}
                      /\ \A s \in Sids : session'[s].uid = client'[e].uid => Belongs(e, s)'
    BY DEF EphemeralRequests, Uid, New
  <2>1. CASE e = c
    <3>1. Rowless(client[e].uid)'
      BY <1>2, <1>10, <2>1 DEF Rowless
    <3> QED
      BY <1>2, <1>10, <2>1, <3>1 DEF Uid, New
  <2>2. CASE e # c
    <3>1. client[e].eph /\ client'[e] = client[e]
      BY <1>2, <2>2
    <3>2. Rowless(client[e].uid)'
      <4>1. PICK u \in Uids : u = Uid(e)
        BY <1>4, <3>1
      <4>2. Rowless(u)' /\ client'[e].uid = u
        BY <1>4, <1>6, <3>1, <4>1 DEF Uid
      <4> QED
        BY <4>2 DEF Rowless
    <3>3. \A d \in Clients \ {e} : Uid(e) \notin {client'[d].uid, client'[d].new}
      <4>1. Uid(e) \notin {q.uid, q.new}
        BY <1>3, <1>4, <1>9, <2>2, <3>1
      <4> QED
        BY <1>2, <1>4, <3>1, <4>1 DEF Uid, New
    <3>4. ASSUME NEW s \in Sids, session'[s].uid = Uid(e) PROVE Belongs(e, s)'
      <4>1. session[s].uid = Uid(e)
        BY <1>4, <2>2, <3>1, <3>4, SessionMoves
      <4>2. Belongs(e, s)
        BY <1>4, <3>1, <4>1
      <4>3. CASE Inserts(e, s)
        BY <3>1, <4>3 DEF Belongs, Inserts
      <4>4. CASE ~Inserts(e, s)
        BY <3>1, <4>2, <4>4, SessionMoves DEF Belongs
      <4> QED
        BY <4>3, <4>4
    <3> QED
      BY <3>1, <3>2, <3>3, <3>4 DEF Uid
  <2> QED
    BY <2>1, <2>2
<1>12. ASSUME NEW s \in Sids, session'[s].eph
       PROVE  /\ Rowless(session[s].uid)'
              /\ \A r \in Sids : session'[r].uid = session'[s].uid => r = s
              /\ \A d \in Clients : ~client'[d].eph => session'[s].uid \notin {client'[d].uid, client'[d].new}
  <2>1. CASE session'[s].uid = session[s].uid /\ session'[s].eph = session[s].eph
    <3>1. PICK u \in Uids : u = session[s].uid /\ u <= drawn /\ Rowless(u) /\ u # NoUid
      BY <1>5, <1>12, <2>1
    <3>2. Rowless(session[s].uid)'
      <4>1. Rowless(u)' /\ session'[s].uid = u
        BY <1>6, <2>1, <3>1
      <4> QED
        BY <4>1 DEF Rowless
    <3>3. ASSUME NEW r \in Sids, session'[r].uid = u PROVE r = s
      <4>1. CASE session[r].uid = u
        BY <1>5, <1>12, <2>1, <3>1, <4>1
      <4>2. CASE session[r].uid # u
        <5>1. spawn(c) /\ Uid(c) = u
          BY <3>3, <4>2, SessionMoves
        <5>2. client[c].eph
          BY <1>5, <1>12, <2>1, <3>1, <5>1
        <5>3. Belongs(c, s)
          BY <1>4, <3>1, <5>1, <5>2
        <5> QED
          BY <5>1, <5>3 DEF spawn, At, Belongs, Inserts
      <4> QED
        BY <4>1, <4>2
    <3>4. ASSUME NEW d \in Clients, ~client'[d].eph PROVE u \notin {client'[d].uid, client'[d].new}
      <4>1. CASE d # c
        BY <1>2, <1>5, <1>12, <2>1, <3>1, <3>4, <4>1 DEF Uid, New
      <4>2. CASE d = c /\ client[c].eph
        BY <1>2, <1>3, <3>1, <3>4, <4>2
      <4>3. CASE d = c /\ ~client[c].eph
        <5>1. ASSUME NEW v, Origin(c, q, v), v # NoUid PROVE u # v
          <6>1. CASE v \in {NoUid, Uid(c), New(c)}
            BY <1>5, <1>12, <2>1, <3>1, <4>3, <5>1, <6>1
          <6>2. CASE v = drawn + 1
            BY <1>7, <3>1, <6>2 DEF Uids
          <6>3. CASE Known(sandboxes, v)
            BY <3>1, <6>3 DEF Rowless, Known
          <6>4. ASSUME NEW r \in Sids, Live(r, v), q.eph <=> session[r].eph PROVE u # v
            <7>1. ~session[r].eph
              BY <1>2, <3>4, <4>3, <6>4
            <7> QED
              BY <1>5, <1>12, <2>1, <3>1, <6>4, <7>1 DEF Live
          <6> QED
            BY <5>1, <6>1, <6>2, <6>3, <6>4 DEF Origin
        <5> QED
          BY <1>2, <1>3, <3>1, <4>3, <5>1
      <4> QED
        BY <4>1, <4>2, <4>3
    <3> QED
      BY <2>1, <3>1, <3>2, <3>3, <3>4
  <2>2. CASE /\ spawn(c) /\ session[s].st = "none" /\ client'[c].pc = "insert" /\ client'[c].sid = s
             /\ session'[s].uid = Uid(c) /\ session'[s].eph = client[c].eph
    <3>1. PICK u \in Uids : u = Uid(c) /\ u <= drawn /\ Rowless(u) /\ u # NoUid
      BY <1>4, <1>12, <2>2
    <3>2. Rowless(session[s].uid)'
      <4>1. Rowless(u)' /\ session'[s].uid = u
        BY <1>6, <2>2, <3>1
      <4> QED
        BY <4>1 DEF Rowless
    <3>3. ASSUME NEW r \in Sids, session'[r].uid = u PROVE r = s
      <4>1. CASE session[r].uid = u
        <5>1. Belongs(c, r)
          BY <1>4, <1>12, <2>2, <3>1, <4>1
        <5> QED
          BY <2>2, <5>1 DEF spawn, At, Belongs, Inserts
      <4>2. CASE session[r].uid # u
        BY <2>2, <3>3, <4>2, SessionMoves
      <4> QED
        BY <4>1, <4>2
    <3>4. ASSUME NEW d \in Clients, ~client'[d].eph PROVE u \notin {client'[d].uid, client'[d].new}
      <4>1. CASE d # c
        BY <1>2, <1>4, <1>12, <2>2, <3>1, <4>1 DEF Uid, New
      <4>2. CASE d = c
        <5>1. Inserts(c, s)'
          BY <2>2 DEF Inserts
        <5>2. session'[s].eph = client'[c].eph
          BY <5>1 DEF TypeInv, Spawning
        <5> QED
          BY <1>12, <3>4, <4>2, <5>2
      <4> QED
        BY <4>1, <4>2
    <3> QED
      BY <2>2, <3>1, <3>2, <3>3, <3>4
  <2> QED
    BY <2>1, <2>2, SessionMoves
<1>13. EphemeralSessions'
  BY <1>12 DEF EphemeralSessions, Uid, New
<1> QED
  BY <1>11, <1>13

LEMMA FreedStep ==
  ASSUME TypeInv, DataInv, NEW c \in Clients, Step(c) PROVE FreedGone'
<1>1. PICK q : Moves(c, q)
  BY StepMoves
<1>2. q \in Request /\ client'[c] = q /\ \A d \in Clients \ {c} : client'[d] = client[d]
  BY <1>1 DEF Moves, Becomes
<1> SUFFICES ASSUME NEW e \in Clients, client'[e].call = "free",
                    client'[e].pc \in {"sweep", "kill", "cleanup"}
             PROVE  sandboxes'[client'[e].uid] = NoBox
  BY DEF FreedGone, Known, Call, Uid
<1>3. ASSUME client[e].call = "free", client[e].pc \in {"sweep", "kill", "cleanup"},
             client'[e].uid = client[e].uid
      PROVE  sandboxes'[client'[e].uid] = NoBox
  <2>1. PICK u \in Uids : u = Uid(e) /\ u <= drawn
    BY <1>3, RequestFacts DEF NewPcs
  <2>2. ~Known(sandboxes, u)
    BY <1>3, <2>1 DEF DataInv, FreedGone, Call
  <2>3. ~Known(sandboxes, u)'
    BY <2>1, <2>2, UnknownKept
  <2> QED
    BY <1>3, <2>1, <2>3 DEF Known, Uid
<1>4. CASE e # c
  BY <1>2, <1>3, <1>4
<1>5. CASE e = c
  <2>1. client \in [Clients -> Request] /\ client[c] \in Request /\ sandboxes \in [Uids -> Box]
    BY DEF TypeInv, RegistryTypes
  <2>2. CASE q.pc = "sweep"
    <3>1. remove(c)
      BY <1>1, <2>2 DEF Moves, Came
    <3>2. q.uid = Uid(c) /\ Uid(c) \in Uids
      BY <1>2, <2>1, <3>1, RequestFacts DEF remove, Goes, Locked, At, Uid, NewPcs, Request
    <3> QED
      BY <1>2, <1>5, <2>1, <3>1, <3>2 DEF remove
  <2>3. CASE q.pc = "kill"
    <3>1. ~Ends(c)
      BY <1>2, <1>5, <2>1 DEF Ends, end_session, Starts, NoRequest
    <3>2. sweep(c)
      BY <1>1, <2>3, <3>1 DEF Moves, Came
    <3>3. client' = [client EXCEPT ![c] = [@ EXCEPT !.pc = "kill", !.doomed = {s \in Sids : Live(s, Uid(c))}]]
          /\ client[c].pc = "sweep"
      BY <3>2 DEF sweep, At
    <3>4. q.call = client[c].call /\ q.uid = client[c].uid
      BY <1>2, <2>1, <3>3 DEF Request
    <3> QED
      BY <1>2, <1>3, <1>5, <3>3, <3>4
  <2>4. CASE q.pc = "cleanup"
    <3>1. kill(c) /\ ~Returns(c)
      BY <1>1, <1>2, <2>1, <2>4, NoRequestOK DEF Moves, Came, Returns
    <3>2. client' = [client EXCEPT ![c] = [@ EXCEPT !.pc = "cleanup", !.doomed = {}]]
          /\ client[c].pc = "kill"
      BY <3>1 DEF kill, At
    <3>3. q.call = client[c].call /\ q.uid = client[c].uid
      BY <1>2, <2>1, <3>2 DEF Request
    <3> QED
      BY <1>2, <1>3, <1>5, <3>2, <3>3
  <2> QED
    BY <1>2, <1>5, <2>2, <2>3, <2>4
<1> QED
  BY <1>4, <1>5

LEMMA DataNext ==
  TypeInv /\ TypeInv' /\ DoomedEnded /\ DataInv /\ [Next]_vars => DataInv'
<1> SUFFICES ASSUME TypeInv, TypeInv', DoomedEnded, DataInv, [Next]_vars PROVE DataInv'
  OBVIOUS
<1>1. ASSUME NEW c \in Clients, Step(c) PROVE DataInv'
  BY <1>1, EphemeralStep, FreedStep DEF DataInv
<1>2. \A c \in Clients : client[c].eph => Uid(c) \in Uids
  BY RequestFacts DEF RequestOK, NewPcs
<1>3. \A s \in Sids : session[s].eph => session[s].uid \in Uids /\ session[s].uid # NoUid
  <2> SUFFICES ASSUME NEW s \in Sids, session[s].eph
               PROVE  session[s].uid \in Uids /\ session[s].uid # NoUid
    OBVIOUS
  <2>1. session[s] \in SessionRecord /\ session[s] # NoSession
    BY DEF TypeInv, RegistryTypes, NoSession
  <2>2. session[s].uid # NoUid
    BY <2>1 DEF TypeInv, Drawn
  <2> QED
    BY <2>1, <2>2 DEF SessionRecord, Uids, NoUid
<1>4. ASSUME NEW i \in 1 .. Len(writes), StoreTask(i) PROVE DataInv'
  <2>1. UNCHANGED <<sandboxes, poisoned, session, overlay, drawn, client>>
    BY <1>4, StoreTaskIs
  <2>2. \A u \in Uids : Rowless(u) => Rowless(u)'
    BY <1>4, RowlessStore
  <2>3. EphemeralRequests'
    <3> SUFFICES ASSUME NEW e \in Clients, client'[e].eph
                 PROVE  /\ Rowless(client[e].uid)' /\ \A d \in Clients \ {e} :
                             client'[e].uid \notin {client'[d].uid, client'[d].new}
                        /\ \A s \in Sids : session'[s].uid = client'[e].uid => Belongs(e, s)'
      BY DEF EphemeralRequests, Uid, New
    <3>1. PICK u \in Uids : u = Uid(e) /\ u = client'[e].uid /\ Rowless(u)
      BY <1>2, <2>1 DEF DataInv, EphemeralRequests, Uid
    <3>2. Rowless(client[e].uid)'
      BY <2>2, <3>1 DEF Rowless
    <3> QED
      BY <2>1, <3>2 DEF DataInv, EphemeralRequests, Belongs, Inserts, Uid, New
  <2>4. EphemeralSessions'
    <3> SUFFICES ASSUME NEW s \in Sids, session'[s].eph
                 PROVE  /\ Rowless(session[s].uid)'
                        /\ \A r \in Sids : session'[r].uid = session'[s].uid => r = s
                        /\ \A d \in Clients : ~client'[d].eph =>
                             session'[s].uid \notin {client'[d].uid, client'[d].new}
      BY DEF EphemeralSessions, Uid, New
    <3>1. PICK u \in Uids : u = session[s].uid /\ u = session'[s].uid /\ Rowless(u)
      BY <1>3, <2>1 DEF DataInv, EphemeralSessions
    <3>2. Rowless(session[s].uid)'
      BY <2>2, <3>1 DEF Rowless
    <3> QED
      BY <2>1, <3>2 DEF DataInv, EphemeralSessions, Uid, New
  <2>5. FreedGone'
    BY <2>1 DEF DataInv, FreedGone, Known, Call, Uid
  <2> QED
    BY <2>3, <2>4, <2>5 DEF DataInv
<1>5. CASE Restart
  <2>1. /\ \A c \in Clients : /\ ~client'[c].eph /\ client'[c].uid = NoUid /\ client'[c].new = NoUid
                              /\ client'[c].call = "none"
        /\ \A s \in Sids : session'[s].uid = session[s].uid /\ session'[s].eph = session[s].eph
    BY <1>5, RestartIs, NoRequestOK
  <2>2. EphemeralSessions'
    <3> SUFFICES ASSUME NEW s \in Sids, session'[s].eph
                 PROVE  /\ Rowless(session[s].uid)'
                        /\ \A r \in Sids : session'[r].uid = session'[s].uid => r = s
                        /\ \A d \in Clients : ~client'[d].eph =>
                             session'[s].uid \notin {client'[d].uid, client'[d].new}
      BY DEF EphemeralSessions, Uid, New
    <3>1. PICK u \in Uids : u = session[s].uid /\ u = session'[s].uid /\ Rowless(u) /\ u # NoUid
      BY <1>3, <2>1 DEF DataInv, EphemeralSessions
    <3>2. Rowless(session[s].uid)'
      <4>1. Rowless(u)'
        BY <1>5, <3>1, RowlessRestart
      <4> QED
        BY <3>1, <4>1 DEF Rowless
    <3> QED
      BY <2>1, <3>1, <3>2 DEF DataInv, EphemeralSessions
  <2> QED
    BY <2>1, <2>2 DEF DataInv, EphemeralRequests, FreedGone, Call
<1>6. CASE UNCHANGED vars
  BY <1>6 DEF vars, DataInv, EphemeralRequests, EphemeralSessions, FreedGone, Rowless, Belongs, Inserts,
              Known, Call, Uid, New
<1> QED
  BY <1>1, <1>4, <1>5, <1>6 DEF Next

-----------------------------------------------------------------------------
(* What exclusive use of a sandbox brings: no two requests are for one.     *)

Separate ==
  \A c \in Clients : \A d \in Clients \ {c} :
    \A u \in {Uid(c), New(c)} : u # NoUid => u \notin {Uid(d), New(d)}

\* What a request indexes is there.
Indexed ==
  \A c \in Clients : /\ At(c, "index") => Known(sandboxes, Uid(c))
                     /\ At(c, "index_new") => Known(sandboxes, New(c))

\* free_sandbox has every guest of its sandbox in hand, and kills it before it
\* cleans up.
KillsFirst ==
  \A c \in Clients : Call(c) = "free" =>
    \A s \in Sids : session[s].uid = Uid(c) /\ session[s].alive =>
      /\ At(c, "kill") => session[s].st = "lost" \/ s \in client[c].doomed
      /\ At(c, "cleanup") => session[s].st = "lost"

\* A spawned session is about to be put in the map.
SpawnedHeld == \A s \in Sids : session[s].st = "spawned" => \E c \in Clients : Inserts(c, s)

Exclusive == Separate /\ Indexed /\ KillsFirst /\ ~poisoned
ExclusiveInv == SpawnedHeld /\ (daemon.exclusive => Exclusive)

LEMMA HeldStep ==
  ASSUME TypeInv, SpawnedHeld, NEW c \in Clients, Step(c) PROVE SpawnedHeld'
<1>1. PICK q : Moves(c, q)
  BY StepMoves
<1>2. client'[c] = q /\ \A d \in Clients \ {c} : client'[d] = client[d]
  BY <1>1 DEF Moves, Becomes
<1> SUFFICES ASSUME NEW s \in Sids, session'[s].st = "spawned"
             PROVE  \E d \in Clients : client'[d].pc = "insert" /\ client'[d].sid = s
  BY DEF SpawnedHeld, Inserts
<1>3. CASE session[s].st = "spawned"
  <2>1. PICK d \in Clients : Inserts(d, s)
    BY <1>3 DEF SpawnedHeld
  <2>2. CASE d # c
    BY <1>2, <2>1, <2>2 DEF Inserts
  <2>3. CASE d = c
    <3>1. insert(c) /\ client[c].sid = s
      BY <2>1, <2>3, NextOfRequest DEF Inserts, At
    <3>2. session'[s].st = "live"
      BY <3>1 DEF insert, TypeInv, RegistryTypes, SessionRecord
    <3> QED
      BY <3>2
  <2> QED
    BY <2>2, <2>3
<1>4. CASE session[s].st # "spawned"
  BY <1>4, SessionMoves
<1> QED
  BY <1>3, <1>4

LEMMA SeparateStep ==
  ASSUME TypeInv, daemon.exclusive, Separate, NEW c \in Clients, Step(c) PROVE Separate'
<1>1. PICK q : Moves(c, q)
  BY StepMoves
<1>2. /\ q \in Request /\ client'[c] = q /\ \A d \in Clients \ {c} : client'[d] = client[d]
      /\ Origin(c, q, q.uid) /\ Origin(c, q, q.new)
  BY <1>1 DEF Moves, Becomes
<1>3. ASSUME NEW d \in Clients \ {c}, NEW u, Origin(c, q, u), u # NoUid PROVE u \notin {Uid(d), New(d)}
  <2>1. CASE u \in {NoUid, Uid(c), New(c)}
    BY <1>3, <2>1 DEF Separate
  <2>2. CASE u = drawn + 1
    <3>1. Uid(d) <= drawn /\ New(d) <= drawn /\ drawn \in Nat
      BY RequestFacts
    <3>2. Uid(d) # drawn + 1 /\ New(d) # drawn + 1
      BY <3>1
    <3> QED
      BY <2>2, <3>2
  <2>3. CASE MayUse(u)
    BY <2>3 DEF MayUse, Busy, Uid, New
  <2> QED
    BY <1>3, <2>1, <2>2, <2>3 DEF Origin
<1> SUFFICES ASSUME NEW e \in Clients, NEW d \in Clients \ {e},
                    NEW u \in {client'[e].uid, client'[e].new}, u # NoUid
             PROVE  u \notin {client'[d].uid, client'[d].new}
  BY DEF Separate, Uid, New
<1>4. CASE e = c
  BY <1>2, <1>3, <1>4 DEF Uid, New
<1>5. CASE d = c
  <2>1. e # c /\ u \in {Uid(e), New(e)}
    BY <1>2, <1>5 DEF Uid, New
  <2>2. u # q.uid /\ u # q.new
    BY <1>2, <1>3, <2>1
  <2> QED
    BY <1>2, <1>5, <2>2
<1>6. CASE e # c /\ d # c
  BY <1>2, <1>6 DEF Separate, Uid, New
<1> QED
  BY <1>4, <1>5, <1>6

LEMMA IndexedStep ==
  ASSUME TypeInv, Separate, Indexed, ~poisoned, NEW c \in Clients, Step(c)
  PROVE  Indexed' /\ ~poisoned'
<1>1. PICK q : Moves(c, q)
  BY StepMoves
<1>2. q \in Request /\ client'[c] = q /\ \A d \in Clients \ {c} : client'[d] = client[d]
  BY <1>1 DEF Moves, Becomes
<1>3. ~poisoned'
  BY StepChanges DEF Changes, Indexed
<1>4. ASSUME NEW u \in Uids, Known(sandboxes, u), u # Uid(c) PROVE sandboxes'[u] # NoBox
  <2>1. CASE UNCHANGED sandboxes
    BY <1>4, <2>1 DEF Known
  <2>2. ASSUME NEW w \in Uids, NEW b \in Box, BoxBecomes(c, w, b) PROVE sandboxes'[u] # NoBox
    BY <1>4, <2>2 DEF BoxBecomes, Known, TypeInv, RegistryTypes
  <2> QED
    BY <2>1, <2>2, StepChanges, BoxStepBecomes DEF Changes
<1>5. ASSUME NEW d \in Clients
      PROVE  /\ client'[d].pc = "index" => sandboxes'[client'[d].uid] # NoBox
             /\ client'[d].pc = "index_new" => sandboxes'[client'[d].new] # NoBox
  <2>1. CASE d = c
    BY <1>1, <1>2, <2>1 DEF Moves, Came, Known
  <2>2. CASE d # c
    <3>1. client'[d] = client[d]
      BY <1>2, <2>2
    <3>2. ASSUME At(d, "index") PROVE sandboxes'[Uid(d)] # NoBox
      <4>1. Uid(d) \in Uids /\ Uid(d) # NoUid
        BY <3>2, RequestFacts DEF At, NewPcs, Uids, NoUid
      <4>2. Uid(d) # Uid(c)
        BY <2>2, <4>1 DEF Separate
      <4> QED
        BY <1>4, <3>2, <4>1, <4>2 DEF Indexed
    <3>3. ASSUME At(d, "index_new") PROVE sandboxes'[New(d)] # NoBox
      <4>1. New(d) \in Uids /\ New(d) # NoUid
        BY <3>3, RequestFacts DEF At, NewPcs, Uids, NoUid
      <4>2. New(d) # Uid(c)
        BY <2>2, <4>1 DEF Separate
      <4> QED
        BY <1>4, <3>3, <4>1, <4>2 DEF Indexed
    <3> QED
      BY <3>1, <3>2, <3>3 DEF At, Uid, New
  <2> QED
    BY <2>1, <2>2
<1> QED
  BY <1>3, <1>5 DEF Indexed, At, Known, Uid, New

LEMMA KillsStep ==
  ASSUME TypeInv, DoomedEnded, NoneForgotten, SpawnedHeld, Separate, KillsFirst,
         NEW c \in Clients, Step(c)
  PROVE  KillsFirst'
<1>1. PICK q : Moves(c, q)
  BY StepMoves
<1>2. q \in Request /\ client'[c] = q /\ \A d \in Clients \ {c} : client'[d] = client[d]
  BY <1>1 DEF Moves, Becomes
<1> SUFFICES ASSUME NEW e \in Clients, client'[e].call = "free", client'[e].pc \in {"kill", "cleanup"},
                    NEW s \in Sids, session'[s].uid = client'[e].uid, session'[s].alive,
                    session'[s].st # "lost"
             PROVE  client'[e].pc = "kill" /\ s \in client'[e].doomed
  BY DEF KillsFirst, Call, At, Uid
<1>3. CASE e # c
  <2>1. /\ client'[e] = client[e] /\ Uid(e) # Uid(c) /\ Uid(e) = client[e].uid
    <3>1. client'[e] = client[e]
      BY <1>2, <1>3
    <3>2. Uid(e) \in Uids
      BY <3>1, RequestFacts DEF NewPcs
    <3> QED
      BY <1>3, <3>1, <3>2 DEF Separate, Uid, Uids, NoUid
  <2>2. session[s].uid = Uid(e) /\ session[s].alive /\ session[s].st # "lost"
    <3>1. session'[s].uid # Uid(c)
      BY <2>1
    <3> QED
      BY <2>1, <3>1, SessionMoves
  <2> QED
    BY <2>1, <2>2 DEF KillsFirst, Call, At
<1>4. CASE e = c
  <2>1. client \in [Clients -> Request] /\ client[c] \in Request
    BY DEF TypeInv, RegistryTypes
  <2>2. CASE q.pc = "kill"
    <3>1. ~Ends(c)
      <4>1. client'[c].call = "free"
        BY <1>4
      <4>2. ASSUME NEW r \in Sids, end_session(c, r) PROVE FALSE
        <5>1. client' = [client EXCEPT ![c] = [NoRequest EXCEPT !.call = "end", !.uid = session[r].uid,
                                                 !.eph = session[r].eph, !.doomed = {r}, !.pc = "kill"]]
          BY <4>2 DEF end_session, Starts
        <5>2. client'[c].call = "end"
          BY <2>1, <5>1 DEF NoRequest
        <5> QED
          BY <4>1, <5>2
      <4> QED
        BY <4>2 DEF Ends
    <3>2. sweep(c)
      BY <1>1, <2>2, <3>1 DEF Moves, Came
    <3>3. client' = [client EXCEPT ![c] = [@ EXCEPT !.pc = "kill", !.doomed = {r \in Sids : Live(r, Uid(c))}]]
          /\ client[c].pc = "sweep"
      BY <3>2 DEF sweep, At
    <3>4. q.doomed = {r \in Sids : Live(r, Uid(c))} /\ q.uid = Uid(c)
      BY <1>2, <2>1, <3>3 DEF Request, Uid
    <3>5. session[s].uid = Uid(c) /\ session[s].alive /\ session[s].st # "lost"
      <4>1. ~spawn(c)
        BY <3>3 DEF spawn, At
      <4>2. session'[s].uid = Uid(c)
        BY <1>2, <1>4, <3>4
      <4> QED
        BY <4>1, <4>2, SessionMoves
    <3>6. Uid(c) # NoUid /\ client[c].doomed = {}
      BY <3>3, RequestFacts DEF NewPcs, Uids, NoUid, RequestOK
    <3>7. session[s].st # "none"
      BY <3>5 DEF TypeInv, Drawn, NoSession
    <3>8. session[s].st # "spawned"
      <4> SUFFICES ASSUME session[s].st = "spawned" PROVE FALSE
        OBVIOUS
      <4>1. PICK d \in Clients : Inserts(d, s)
        BY DEF SpawnedHeld
      <4>2. Uid(d) = Uid(c)
        BY <3>5, <4>1 DEF TypeInv, Spawning, Uid
      <4>3. d = c
        BY <3>6, <4>2 DEF Separate
      <4> QED
        BY <3>3, <4>1, <4>3 DEF Inserts
    <3>9. session[s].st # "ended"
      <4> SUFFICES ASSUME session[s].st = "ended" PROVE FALSE
        OBVIOUS
      <4>1. PICK d \in Clients : s \in client[d].doomed
        BY <3>5 DEF NoneForgotten
      <4>2. Uid(d) = Uid(c)
        BY <3>5, <4>1 DEF DoomedEnded
      <4>3. d = c
        BY <3>6, <4>2 DEF Separate
      <4> QED
        BY <3>6, <4>1, <4>3
    <3>10. session[s].st = "live"
      BY <3>5, <3>7, <3>8, <3>9 DEF TypeInv, RegistryTypes, SessionRecord
    <3> QED
      BY <1>2, <1>4, <2>2, <3>4, <3>5, <3>10 DEF Live
  <2>3. CASE q.pc = "cleanup"
    <3>1. kill(c) /\ ~Returns(c)
      BY <1>1, <1>2, <2>1, <2>3, NoRequestOK DEF Moves, Came, Returns
    <3>2. client' = [client EXCEPT ![c] = [@ EXCEPT !.pc = "cleanup", !.doomed = {}]]
          /\ client[c].pc = "kill"
      BY <3>1 DEF kill, At
    <3>3. q.call = client[c].call /\ q.uid = Uid(c)
      BY <1>2, <2>1, <3>2 DEF Request, Uid
    <3>4. session[s].uid = Uid(c) /\ session[s].alive /\ session[s].st # "lost"
          /\ s \notin client[c].doomed
      BY <1>2, <1>4, <3>1, <3>3, SessionMoves DEF kill, spawn, At
    <3> QED
      BY <1>2, <1>4, <3>2, <3>3, <3>4 DEF KillsFirst, Call, At
  <2> QED
    BY <1>2, <1>4, <2>2, <2>3
<1> QED
  BY <1>3, <1>4

LEMMA ExclusiveNext ==
  TypeInv /\ DoomedEnded /\ NoneForgotten /\ ExclusiveInv /\ [Next]_vars => ExclusiveInv'
<1> SUFFICES ASSUME TypeInv, DoomedEnded, NoneForgotten, ExclusiveInv, [Next]_vars PROVE ExclusiveInv'
  OBVIOUS
<1>1. daemon' = daemon
  BY DEF Next, vars
<1>2. ASSUME NEW c \in Clients, Step(c) PROVE ExclusiveInv'
  BY <1>1, <1>2, HeldStep, SeparateStep, IndexedStep, KillsStep DEF ExclusiveInv, Exclusive
<1>3. CASE UNCHANGED <<sandboxes, session, client, poisoned, daemon>>
  BY <1>3 DEF ExclusiveInv, Exclusive, SpawnedHeld, Separate, Indexed, KillsFirst, Inserts, At, Known,
              Call, Uid, New
<1>4. ASSUME NEW i \in 1 .. Len(writes), StoreTask(i)
      PROVE  UNCHANGED <<sandboxes, session, client, poisoned>>
  BY <1>4 DEF StoreTask
<1>5. CASE Restart
  <2>1. /\ \A c \in Clients : /\ client'[c].pc = "idle" /\ client'[c].uid = NoUid
                              /\ client'[c].new = NoUid /\ client'[c].call = "none"
        /\ \A s \in Sids : session'[s].st # "spawned"
        /\ ~poisoned'
    BY <1>5, RestartIs, NoRequestOK
  <2> QED
    BY <2>1 DEF ExclusiveInv, Exclusive, SpawnedHeld, Separate, Indexed, KillsFirst, At, Call, Uid, New
<1> QED
  BY <1>1, <1>2, <1>3, <1>4, <1>5 DEF Next, vars

\* Everything that the registry keeps, whatever its clients do.
RegistryInv == TypeInv /\ DoomedEnded /\ NoneForgotten /\ DataInv /\ ExclusiveInv

LEMMA RegistryInvariant == Spec => []RegistryInv
<1>1. Init => RegistryInv
  <2> SUFFICES ASSUME Init PROVE RegistryInv
    OBVIOUS
  <2>1. /\ \A c \in Clients : client[c] = NoRequest
        /\ \A s \in Sids : session[s] = NoSession
        /\ poisoned = FALSE
    BY DEF Init
  <2>2. NoSession.st = "none" /\ NoSession.eph = FALSE /\ NoSession.alive = FALSE
    BY DEF NoSession
  <2>3. DoomedEnded /\ NoneForgotten
    BY <2>1, <2>2, NoRequestOK DEF DoomedEnded, NoneForgotten
  <2>4. DataInv
    BY <2>1, <2>2, NoRequestOK DEF DataInv, EphemeralRequests, EphemeralSessions, FreedGone, Call
  <2>5. ExclusiveInv
    BY <2>1, <2>2, NoRequestOK DEF ExclusiveInv, Exclusive, SpawnedHeld, Separate, Indexed, KillsFirst,
       At, Call, Uid, New
  <2> QED
    BY <2>3, <2>4, <2>5, InitTypes DEF RegistryInv
<1>2. RegistryInv /\ [Next]_vars => RegistryInv'
  BY NextTypes, DoomedNext, DataNext, ExclusiveNext DEF RegistryInv
<1> QED
  BY <1>1, <1>2, PTL DEF Spec

\* No request makes the registry unusable for the others, if clients leave a
\* sandbox alone while a request for it is under way (uid_of, exec_target).
THEOREM PoisonedNever == Spec => []NeverPoisoned
<1>1. RegistryInv => NeverPoisoned
  BY DEF RegistryInv, ExclusiveInv, Exclusive, NeverPoisoned
<1> QED
  BY <1>1, RegistryInvariant, PTL

\* Only a step of a request takes an overlay away.
LEMMA RemovedBy ==
  ASSUME RegistryInv, [Next]_vars, NEW u \in Uids, Removed(u)
  PROVE  \E c \in Clients : /\ Step(c) /\ u = Uid(c)
                            /\ cleanup_overlay(c) \/ (run_ends(c) /\ client[c].eph)
<1>1. TypeInv /\ overlay \in [Uids -> {"none", "here", "left"}]
  BY DEF RegistryInv, TypeInv, RegistryTypes
<1>2. ~UNCHANGED overlay
  BY DEF Removed
<1>3. ~Restart
  BY <1>1, RestartIs DEF Removed
<1>4. PICK c \in Clients : Step(c)
  BY <1>2, <1>3 DEF Next, StoreTask, vars
<1>5. OverlayStep(c)
  BY <1>1, <1>4, StepChanges DEF Changes
<1>6. ~ \E v \in {Uid(c), New(c)} \cap Uids : Makes(v)
  BY <1>1 DEF Removed, Makes
<1>7. Removes(Uid(c)) /\ (rollback(c) \/ cleanup_overlay(c) \/ (run_ends(c) /\ client[c].eph))
  BY <1>2, <1>5, <1>6 DEF OverlayStep
<1>8. u = Uid(c)
  BY <1>1, <1>7 DEF Removes, Removed
<1>9. ~rollback(c)
  <2> SUFFICES ASSUME rollback(c) PROVE FALSE
    OBVIOUS
  <2>1. At(c, "rollback") /\ client'[c] = NoRequest
    BY <1>1 DEF rollback, Returns, TypeInv, RegistryTypes
  <2>2. client'[c].pc = "idle"
    BY <2>1, NoRequestOK
  <2> QED
    BY <1>8, <2>1, <2>2 DEF Removed, At
<1> QED
  BY <1>4, <1>7, <1>8, <1>9

\* An overlay is taken away only when no sandbox has it, and once every guest on it
\* was killed (run, end_session, free_sandbox, cleanup_overlay).
THEOREM OverlaysAlwaysGoLast == Spec => OverlaysGoLast
<1>1. RegistryInv /\ [Next]_vars => [\A u \in Uids : Removed(u) => ~Known(sandboxes, u)]_vars
  <2> SUFFICES ASSUME RegistryInv, [Next]_vars, NEW u \in Uids, Removed(u)
               PROVE  ~Known(sandboxes, u)
    OBVIOUS
  <2>1. PICK c \in Clients : u = Uid(c) /\ (cleanup_overlay(c) \/ (run_ends(c) /\ client[c].eph))
    BY RemovedBy
  <2>2. CASE client[c].eph
    BY <2>1, <2>2 DEF RegistryInv, DataInv, EphemeralRequests, Rowless, Known
  <2>3. CASE ~client[c].eph
    <3>1. client[c].pc = "cleanup" /\ Call(c) = "free"
      BY <2>1, <2>3, RequestFacts DEF RegistryInv, cleanup_overlay, At, RequestOK, Call
    <3> QED
      BY <2>1, <3>1 DEF RegistryInv, DataInv, FreedGone
  <2> QED
    BY <2>2, <2>3
<1>2. RegistryInv /\ [Next]_vars =>
        [\A u \in Uids : daemon.exclusive /\ Removed(u) =>
           \A s \in Sids : session[s].uid = u /\ session[s].alive => session[s].st = "lost"]_vars
  <2> SUFFICES ASSUME RegistryInv, [Next]_vars, NEW u \in Uids, daemon.exclusive, Removed(u),
                      NEW s \in Sids, session[s].uid = u, session[s].alive
               PROVE  session[s].st = "lost"
    OBVIOUS
  <2>1. PICK c \in Clients : u = Uid(c) /\ (cleanup_overlay(c) \/ (run_ends(c) /\ client[c].eph))
    BY RemovedBy
  <2>2. CASE client[c].eph
    <3>1. Belongs(c, s)
      BY <2>1, <2>2 DEF RegistryInv, DataInv, EphemeralRequests
    <3>2. client[c].pc = "cleanup" /\ s \in client[c].doomed
      BY <2>1, <3>1 DEF Belongs, Inserts, cleanup_overlay, run_ends, At
    <3> QED
      BY <3>2, RequestFacts DEF RegistryInv, RequestOK
  <2>3. CASE ~client[c].eph
    <3>1. At(c, "cleanup") /\ Call(c) = "free"
      BY <2>1, <2>3, RequestFacts DEF RegistryInv, cleanup_overlay, At, RequestOK, Call
    <3> QED
      BY <2>1, <3>1 DEF RegistryInv, ExclusiveInv, Exclusive, KillsFirst
  <2> QED
    BY <2>2, <2>3
<1> QED
  BY <1>1, <1>2, RegistryInvariant, PTL DEF Spec, OverlaysGoLast, DataKept, KilledBeforeCleanup

-----------------------------------------------------------------------------
(* Sessions, overlays, settings and rows, in exclusive use.                *)

\* What a deployment must not meet: a session that cannot be spawned leaves its overlay,
\* and the row of a sandbox that cannot be prepared is deleted while it may still be
\* under way to the store.
Reliable ==
  \A d \in Deployments : d.exclusive =>
    "spawn" \notin d.failures /\ (d.stored => "prepare" \notin d.failures)

\* The request of c is freeing its sandbox, which is gone from the map.
Freeing(c) == Call(c) = "free" /\ client[c].pc \in {"sweep", "kill", "cleanup", "unpersist"}

\* A sandbox that a request is about exists, unless it is ephemeral or being freed.
HeldKnown ==
  \A c \in Clients :
    IF Freeing(c) THEN ~Known(sandboxes, Uid(c))
    ELSE ~client[c].eph => \A u \in {Uid(c), New(c)} \ {NoUid} : Known(sandboxes, u)

\* The overlay is gone when the last step of free_sandbox is left.
Cleaned == \A c \in Clients : At(c, "unpersist") => overlay[Uid(c)] # "here"

\* A session runs under the settings of its sandbox, or they are being pushed; who is
\* to spawn one has read the present ones.
ConfHeld ==
  /\ \A c \in Clients : At(c, "spawn") /\ ~client[c].eph
                          => client[c].conf = sandboxes[Uid(c)].conf
  /\ \A c \in Clients : At(c, "push") => client[c].conf = sandboxes[Uid(c)].conf
  /\ \A s \in Sids : session[s].st \in {"spawned", "live"} /\ ~session[s].eph =>
       \/ ~Known(sandboxes, session[s].uid)
       \/ session[s].conf = sandboxes[session[s].uid].conf
       \/ \E c \in Clients : At(c, "push") /\ Uid(c) = session[s].uid

\* One row at most is under way for a sandbox, the present one; who is to write another
\* one waited for it (Settled).  A row that is not under way is stored, unless its sandbox is being freed.
Settled(c) == client[c].pc \in {"resolve_free", "remove", "update"} \/ Freeing(c)
Writing(u) == \E i \in 1 .. Len(writes) : writes[i].uid = u
RowsHeld ==
  daemon.stored =>
    /\ \A i, j \in 1 .. Len(writes) : writes[i].uid = writes[j].uid => i = j
    /\ \A i \in 1 .. Len(writes) : writes[i].row = sandboxes[writes[i].uid]
    /\ \A c \in Clients : Settled(c) => ~Writing(Uid(c))
    /\ \A u \in Uids : \/ Writing(u) \/ store[u] = sandboxes[u]
                      \/ \E c \in Clients : Freeing(c) /\ Uid(c) = u

Whole == HeldKnown /\ SessionsTied /\ OverlaysOwned /\ Cleaned /\ ConfHeld /\ RowsHeld
WholeInv == daemon.exclusive => Whole

-----------------------------------------------------------------------------
(* What a request is about after a step.                                   *)

FreePcs == {"sweep", "kill", "cleanup", "unpersist"}

\* The request goes on, for the same sandbox.
Continues(c, q) ==
  /\ q.uid = Uid(c) /\ q.eph = client[c].eph /\ q.call = Call(c)
  /\ \/ q.new = New(c)
     \/ /\ q.new = drawn + 1 /\ drawn' = drawn + 1 /\ drawn < MaxUid
        /\ \E n \in Names : create_fork(c, n)
  /\ (Call(c) = "free" /\ q.pc \in FreePcs) <=> (Freeing(c) \/ remove(c))
  /\ remove(c) /\ Known(sandboxes, Uid(c)) => q.pc = "sweep"
  /\ q.pc \notin {"update", "resolve_free"}
  /\ q.pc = "remove" => At(c, "resolve_free")
  /\ q.pc = "push" => update(c) /\ q.conf = client[c].conf
  /\ q.pc = "spawn" => UNCHANGED sandboxes /\ q.conf = sandboxes[Uid(c)].conf
  /\ q.pc = "unpersist" => cleanup_overlay(c) \/ (remove(c) /\ ~Known(sandboxes, Uid(c)))

\* Another one begins: with a new uid, with a sandbox or a session that nobody is busy
\* with, or to free the sandbox that could not be prepared.
Begins(c, q) ==
  /\ ~Freeing(c) /\ ~remove(c) /\ ~At(c, "update") /\ ~client[c].eph
  /\ q.pc \notin {"push", "sweep", "cleanup", "unpersist"}
  /\ q.call = "free" => q.pc \in {"resolve_free", "remove"}
  /\ q.pc = "spawn" => q.eph
  /\ \/ /\ q.uid = NoUid /\ q.new = drawn + 1 /\ q.call = "prepare"
        /\ drawn' = drawn + 1 /\ drawn < MaxUid /\ \E n \in Names, call \in Calls : create_sandbox(c, n, call)
     \/ q.uid \in Uids /\ q.new = NoUid /\ Known(sandboxes, q.uid) /\ MayUse(q.uid)
     \/ q.eph /\ q.uid = drawn + 1 /\ q.new = NoUid /\ q.call # "free"
     \/ /\ q.new = NoUid /\ q.call = "end" /\ q.pc = "kill" /\ MayUse(q.uid)
        /\ \E s \in Sids : Live(s, q.uid) /\ q.eph = session[s].eph
     \/ /\ prepare(c) /\ "prepare" \in daemon.failures
        /\ q.uid = New(c) /\ q.new = NoUid /\ q.call = "free" /\ ~q.eph

\* It ends.
Leaves(c, q) ==
  /\ q = NoRequest
  /\ Freeing(c) => unpersist(c)
  /\ ~remove(c)
  /\ client[c].eph => run_ends(c) \/ insert(c) \/ cleanup_overlay(c) \/ "spawn" \in daemon.failures

Turns(c, q) == Continues(c, q) \/ Begins(c, q) \/ Leaves(c, q)

LEMMA GoesTurns ==
  ASSUME TypeInv, NEW c \in Clients,
         \/ resolve_new(c) \/ index_new(c) \/ resolve_free(c) \/ update(c) \/ execute(c)
         \/ remove(c) \/ cleanup_overlay(c)
  PROVE  Turns(c, client'[c])
<1>1. client[c] \in Request /\ RequestOK(client[c])
  BY RequestFacts
<1>2. Returns(c) => client'[c] = NoRequest
  BY ReturnsBecomes DEF TypeInv, Becomes
<1>3. ASSUME NEW pc \in Pcs, Goes(c, pc) PROVE Onward(client'[c], client[c], pc)
  BY <1>3, GoesBecomes DEF TypeInv, Becomes
<1>4. CASE resolve_new(c)
  <2>1. At(c, "resolve_new") /\ (Goes(c, "index_new") \/ Returns(c))
    BY <1>4 DEF resolve_new, Locked
  <2>2. ~Freeing(c) /\ ~remove(c) /\ ~client[c].eph
    BY <1>1, <2>1 DEF Freeing, remove, Locked, At, RequestOK, NewPcs
  <2>3. CASE Returns(c)
    BY <1>2, <2>2, <2>3 DEF Turns, Leaves
  <2>4. CASE Goes(c, "index_new")
    <3>1. Onward(client'[c], client[c], "index_new")
      BY <1>3, <2>4 DEF Pcs, NewPcs
    <3> QED
      BY <2>2, <3>1 DEF Turns, Continues, Onward, Uid, New, Call, FreePcs
  <2> QED
    BY <2>1, <2>3, <2>4
<1>5. CASE index_new(c)
  <2>1. At(c, "index_new") /\ (Goes(c, "prepare") \/ Returns(c))
    BY <1>5 DEF index_new, Locked, Index
  <2>2. ~Freeing(c) /\ ~remove(c) /\ ~client[c].eph
    BY <1>1, <2>1 DEF Freeing, remove, Locked, At, RequestOK, NewPcs
  <2>3. CASE Returns(c)
    BY <1>2, <2>2, <2>3 DEF Turns, Leaves
  <2>4. CASE Goes(c, "prepare")
    <3>1. Onward(client'[c], client[c], "prepare")
      BY <1>3, <2>4 DEF Pcs, NewPcs
    <3> QED
      BY <2>2, <3>1 DEF Turns, Continues, Onward, Uid, New, Call, FreePcs
  <2> QED
    BY <2>1, <2>3, <2>4
<1>6. CASE resolve_free(c)
  <2>1. At(c, "resolve_free") /\ (Goes(c, "remove") \/ Returns(c))
    BY <1>6 DEF resolve_free, Locked
  <2>2. ~Freeing(c) /\ ~remove(c) /\ ~client[c].eph
    BY <1>1, <2>1 DEF Freeing, remove, Locked, At, RequestOK, NewPcs
  <2>3. CASE Returns(c)
    BY <1>2, <2>2, <2>3 DEF Turns, Leaves
  <2>4. CASE Goes(c, "remove")
    <3>1. Onward(client'[c], client[c], "remove")
      BY <1>3, <2>4 DEF Pcs
    <3> QED
      BY <2>1, <2>2, <3>1 DEF Turns, Continues, Onward, Uid, New, Call, FreePcs
  <2> QED
    BY <2>1, <2>3, <2>4
<1>7. CASE update(c)
  <2>1. At(c, "update") /\ (Goes(c, "push") \/ Returns(c))
    BY <1>7 DEF update, Locked
  <2>2. ~Freeing(c) /\ ~remove(c) /\ ~client[c].eph
    BY <1>1, <2>1 DEF Freeing, remove, Locked, At, RequestOK, NewPcs
  <2>3. CASE Returns(c)
    BY <1>2, <2>2, <2>3 DEF Turns, Leaves
  <2>4. CASE Goes(c, "push")
    <3>1. Onward(client'[c], client[c], "push")
      BY <1>3, <2>4 DEF Pcs
    <3> QED
      BY <1>7, <2>2, <3>1 DEF Turns, Continues, Onward, Uid, New, Call, FreePcs
  <2> QED
    BY <2>1, <2>3, <2>4
<1>8. CASE execute(c)
  <2>1. At(c, "execute") /\ (Goes(c, "running") \/ ("spawn" \in daemon.failures /\ Returns(c)))
    BY <1>8 DEF execute
  <2>2. ~Freeing(c) /\ ~remove(c)
    BY <2>1 DEF Freeing, remove, Locked, At
  <2>3. CASE "spawn" \in daemon.failures /\ Returns(c)
    BY <1>2, <2>2, <2>3 DEF Turns, Leaves
  <2>4. CASE Goes(c, "running")
    <3>1. Onward(client'[c], client[c], "running")
      BY <1>3, <2>4 DEF Pcs
    <3> QED
      BY <2>2, <3>1 DEF Turns, Continues, Onward, Uid, New, Call, FreePcs
  <2> QED
    BY <2>1, <2>3, <2>4
<1>9. CASE remove(c)
  <2>1. PICK pc \in {"sweep", "unpersist"} :
          /\ Goes(c, pc)
          /\ IF Known(sandboxes, Uid(c)) THEN pc = "sweep" ELSE pc = "unpersist"
    BY <1>9 DEF remove
  <2>2. Onward(client'[c], client[c], pc)
    BY <1>3, <2>1 DEF Pcs
  <2>3. Call(c) = "free"
    BY <1>1, <1>9 DEF remove, Locked, At, RequestOK, Call
  <2> QED
    BY <1>9, <2>1, <2>2, <2>3 DEF Turns, Continues, Onward, Uid, New, Call, FreePcs
<1>10. CASE cleanup_overlay(c)
  <2>1. At(c, "cleanup") /\ (IF Call(c) = "end" THEN Returns(c) ELSE Goes(c, "unpersist"))
    BY <1>10 DEF cleanup_overlay
  <2>2. ~remove(c) /\ Call(c) \in {"free", "end"}
    BY <1>1, <2>1 DEF remove, Locked, At, RequestOK, Call
  <2>3. CASE Call(c) = "end"
    BY <1>2, <1>10, <2>1, <2>2, <2>3 DEF Turns, Leaves, Freeing
  <2>4. CASE Call(c) = "free"
    <3>1. Onward(client'[c], client[c], "unpersist")
      BY <1>3, <2>1, <2>4 DEF Pcs
    <3> QED
      BY <1>10, <2>1, <2>2, <2>4, <3>1 DEF Turns, Continues, Onward, Uid, New, Call, FreePcs, Freeing, At
  <2> QED
    BY <2>2, <2>3, <2>4
<1> QED
  BY <1>4, <1>5, <1>6, <1>7, <1>8, <1>9, <1>10

LEMMA MoreTurns ==
  ASSUME TypeInv, NEW c \in Clients,
         \/ index(c) \/ spawn(c) \/ sweep(c) \/ kill(c) \/ \E n \in Names : create_fork(c, n)
  PROVE  Turns(c, client'[c])
<1>1. client[c] \in Request /\ RequestOK(client[c]) /\ client \in [Clients -> Request]
  BY RequestFacts DEF TypeInv, RegistryTypes
<1>2. Returns(c) => client'[c] = NoRequest
  BY ReturnsBecomes DEF TypeInv, Becomes
<1>3. CASE index(c)
  <2>1. ~Freeing(c) /\ ~remove(c) /\ ~client[c].eph /\ Call(c) # "free" /\ UNCHANGED sandboxes
    BY <1>1, <1>3 DEF index, Freeing, remove, Locked, At, RequestOK, NewPcs, Call
  <2>2. CASE Returns(c)
    BY <1>2, <2>1, <2>2 DEF Turns, Leaves
  <2>3. CASE ~Returns(c)
    <3>1. client' = [client EXCEPT ![c] =
                       [@ EXCEPT !.pc = Third[Call(c)], !.conf = sandboxes[Uid(c)].conf]]
      BY <1>3, <2>3 DEF index
    <3>2. Call(c) \in {"run", "session", "write", "rollback", "fork"}
      BY <1>1, <1>3 DEF index, Locked, At, RequestOK, Call
    <3>3. PICK pc \in {"execute", "spawn", "write", "rollback", "create"} : pc = Third[Call(c)]
      BY <3>2, NextSteps
    <3>4. PICK v : v = sandboxes[Uid(c)].conf
      OBVIOUS
    <3>5. client'[c] = [client[c] EXCEPT !.pc = pc, !.conf = v]
      BY <1>1, <3>1, <3>3, <3>4
    <3>6. /\ client'[c].pc = pc /\ client'[c].call = Call(c) /\ client'[c].uid = Uid(c)
          /\ client'[c].new = New(c) /\ client'[c].eph = client[c].eph /\ client'[c].conf = v
      BY <1>1, <3>5 DEF Request, Call, Uid, New
    <3> QED
      BY <2>1, <3>3, <3>4, <3>6 DEF Turns, Continues
  <2> QED
    BY <2>2, <2>3
<1>4. CASE spawn(c)
  <2>1. ~Freeing(c) /\ ~remove(c) /\ Call(c) # "free"
    BY <1>1, <1>4 DEF spawn, Freeing, remove, Locked, At, RequestOK, Call
  <2>2. CASE Returns(c) /\ "spawn" \in daemon.failures
    BY <1>2, <2>1, <2>2 DEF Turns, Leaves
  <2>3. CASE ~(Returns(c) /\ "spawn" \in daemon.failures)
    <3>1. PICK s : client' = [client EXCEPT ![c] = [@ EXCEPT !.pc = "insert", !.sid = s]]
      BY <1>4, <2>3 DEF spawn
    <3>2. client'[c] = [client[c] EXCEPT !.pc = "insert", !.sid = s]
      BY <1>1, <3>1
    <3>3. /\ client'[c].pc = "insert" /\ client'[c].call = Call(c) /\ client'[c].uid = Uid(c)
          /\ client'[c].new = New(c) /\ client'[c].eph = client[c].eph
      BY <1>1, <3>2 DEF Request, Call, Uid, New
    <3> QED
      BY <2>1, <3>3 DEF Turns, Continues
  <2> QED
    BY <2>2, <2>3
<1>5. CASE sweep(c)
  <2>1. Freeing(c) /\ ~remove(c) /\ Call(c) = "free"
    BY <1>1, <1>5 DEF sweep, Freeing, remove, Locked, At, RequestOK, Call
  <2>2. PICK D : D = {s \in Sids : Live(s, Uid(c))}
    OBVIOUS
  <2>3. client'[c] = [client[c] EXCEPT !.pc = "kill", !.doomed = D]
    BY <1>1, <1>5, <2>2 DEF sweep
  <2>4. /\ client'[c].pc = "kill" /\ client'[c].call = Call(c) /\ client'[c].uid = Uid(c)
        /\ client'[c].new = New(c) /\ client'[c].eph = client[c].eph
    BY <1>1, <2>3 DEF Request, Call, Uid, New
  <2> QED
    BY <2>1, <2>4 DEF Turns, Continues, FreePcs
<1>6. CASE kill(c)
  <2>1. At(c, "kill") /\ ~remove(c)
    BY <1>6 DEF kill, remove, Locked, At
  <2>2. CASE Call(c) = "end" /\ ~client[c].eph
    <3>1. client'[c] = NoRequest /\ ~Freeing(c)
      BY <1>2, <1>6, <2>2 DEF kill, Freeing
    <3> QED
      BY <2>1, <2>2, <3>1 DEF Turns, Leaves
  <2>3. CASE ~(Call(c) = "end" /\ ~client[c].eph)
    <3>1. client'[c] = [client[c] EXCEPT !.pc = "cleanup", !.doomed = {}]
      BY <1>1, <1>6, <2>3 DEF kill
    <3>2. /\ client'[c].pc = "cleanup" /\ client'[c].call = Call(c) /\ client'[c].uid = Uid(c)
          /\ client'[c].new = New(c) /\ client'[c].eph = client[c].eph
      BY <1>1, <3>1 DEF Request, Call, Uid, New
    <3> QED
      BY <2>1, <3>2 DEF Turns, Continues, FreePcs, Freeing, At
  <2> QED
    BY <2>2, <2>3
<1>7. ASSUME NEW n \in Names, create_fork(c, n) PROVE Turns(c, client'[c])
  <2>1. ~Freeing(c) /\ ~remove(c)
    BY <1>7 DEF create_fork, Freeing, remove, Locked, At
  <2>2. PICK u : u = drawn + 1
    OBVIOUS
  <2>3. client'[c] = [client[c] EXCEPT !.pc = "resolve_new", !.new = u] /\ drawn' = drawn + 1 /\ drawn < MaxUid
    BY <1>1, <1>7, <2>2 DEF create_fork
  <2>4. /\ client'[c].pc = "resolve_new" /\ client'[c].call = Call(c) /\ client'[c].uid = Uid(c)
        /\ client'[c].new = u /\ client'[c].eph = client[c].eph
    BY <1>1, <2>3 DEF Request, Call, Uid
  <2> QED
    BY <1>7, <2>1, <2>2, <2>3, <2>4 DEF Turns, Continues, FreePcs
<1> QED
  BY <1>3, <1>4, <1>5, <1>6, <1>7

LEMMA StartingTurns ==
  ASSUME TypeInv, NEW c \in Clients,
         \/ \E n \in Names, call \in Calls : create_sandbox(c, n, call)
         \/ \E r \in Refs, v \in Confs, call \in Calls : request(c, call, r, v)
         \/ \E call \in Calls : ephemeral(c, call)
         \/ Ends(c) \/ prepare(c)
  PROVE  Turns(c, client'[c])
<1>1. client[c] \in Request /\ RequestOK(client[c]) /\ NoRequest \in Request /\ client \in [Clients -> Request]
  BY RequestFacts, NoRequestOK DEF TypeInv, RegistryTypes
<1>2. At(c, "idle") \/ At(c, "prepare")
  BY DEF create_sandbox, request, ephemeral, Ends, end_session, prepare, Locked, At
<1>3. ~Freeing(c) /\ ~remove(c) /\ ~At(c, "update") /\ ~client[c].eph
  BY <1>1, <1>2, NoRequestOK DEF At, RequestOK, Freeing, remove, Locked
<1>4. ASSUME NEW n \in Names, NEW call \in Calls, create_sandbox(c, n, call) PROVE Turns(c, client'[c])
  <2>1. client[c] = NoRequest /\ drawn' = drawn + 1 /\ drawn < MaxUid
    BY <1>1, <1>4 DEF create_sandbox, Locked, At, RequestOK
  <2>2. CASE call = "create"
    BY <1>3, <1>4, <2>1, <2>2 DEF create_sandbox, Turns, Leaves
  <2>3. CASE call # "create"
    <3>1. PICK u : u = drawn + 1
      OBVIOUS
    <3>2. client'[c] = [[NoRequest EXCEPT !.call = "prepare", !.new = u] EXCEPT !.pc = "resolve_new"]
      BY <1>1, <1>4, <2>3, <3>1 DEF create_sandbox, Starts
    <3>3. /\ client'[c].pc = "resolve_new" /\ client'[c].call = "prepare" /\ client'[c].uid = NoUid
          /\ client'[c].new = u
      BY <3>2 DEF NoRequest
    <3> QED
      BY <1>3, <1>4, <2>1, <3>1, <3>3 DEF Turns, Begins
  <2> QED
    BY <2>2, <2>3
<1>5. ASSUME NEW f \in Refs, NEW v \in Confs, NEW call \in Calls, request(c, call, f, v)
      PROVE  Turns(c, client'[c])
  <2>1. PICK u \in resolve(f) :
          /\ MayUse(u)
          /\ Starts(c, Second[call], [NoRequest EXCEPT !.call = call, !.uid = u, !.conf = v])
    BY <1>5 DEF request
  <2>2. u \in Uids /\ Known(sandboxes, u)
    BY <2>1 DEF resolve
  <2>3. call \in {"free", "configure", "run", "session", "write", "rollback", "fork"}
    BY <1>5, NextSteps DEF request
  <2>4. PICK pc : /\ pc = Second[call]
                  /\ \/ pc = "remove" /\ call = "free"
                     \/ pc = "update" /\ call # "free"
                     \/ pc = "index" /\ call # "free"
    BY <2>3, NextSteps
  <2>5. client'[c] = [[NoRequest EXCEPT !.call = call, !.uid = u, !.conf = v] EXCEPT !.pc = pc]
    BY <1>1, <2>1, <2>4 DEF Starts
  <2>6. client'[c].pc = pc /\ client'[c].call = call /\ client'[c].uid = u /\ client'[c].new = NoUid
    BY <2>5 DEF NoRequest
  <2> QED
    BY <1>3, <2>1, <2>2, <2>4, <2>6 DEF Turns, Begins
<1>6. ASSUME NEW call \in Calls, ephemeral(c, call) PROVE Turns(c, client'[c])
  <2>1. call \in {"run", "session"}
    BY <1>6 DEF ephemeral
  <2>2. PICK pc : pc = Third[call] /\ pc \in {"execute", "spawn"}
    BY <2>1, NextSteps
  <2>3. PICK u : u = drawn + 1
    OBVIOUS
  <2>4. client'[c] = [[NoRequest EXCEPT !.call = call, !.uid = u, !.eph = TRUE] EXCEPT !.pc = pc]
    BY <1>1, <1>6, <2>2, <2>3 DEF ephemeral, Starts
  <2>5. /\ client'[c].pc = pc /\ client'[c].call = call /\ client'[c].uid = u /\ client'[c].new = NoUid
        /\ client'[c].eph
    BY <2>4 DEF NoRequest
  <2> QED
    BY <1>3, <2>1, <2>2, <2>3, <2>5 DEF Turns, Begins
<1>7. ASSUME NEW s \in Sids, end_session(c, s) PROVE Turns(c, client'[c])
  <2>1. PICK u, e : u = session[s].uid /\ e = session[s].eph
    OBVIOUS
  <2>2. client'[c] = [[NoRequest EXCEPT !.call = "end", !.uid = u, !.eph = e, !.doomed = {s}] EXCEPT !.pc = "kill"]
    BY <1>1, <1>7, <2>1 DEF end_session, Starts
  <2>3. /\ client'[c].pc = "kill" /\ client'[c].call = "end" /\ client'[c].uid = u
        /\ client'[c].new = NoUid /\ client'[c].eph = e
    BY <2>2 DEF NoRequest
  <2>4. MayUse(u) /\ Live(s, u)
    BY <1>7, <2>1 DEF end_session, Live
  <2> QED
    BY <1>3, <2>1, <2>3, <2>4 DEF Turns, Begins
<1>8. CASE prepare(c)
  <2>1. CASE Returns(c)
    <3>1. client'[c] = NoRequest
      BY <2>1, ReturnsBecomes DEF TypeInv, Becomes
    <3> QED
      BY <1>3, <3>1 DEF Turns, Leaves
  <2>2. CASE ~Returns(c)
    <3>1. PICK u : u = New(c)
      OBVIOUS
    <3>2. client'[c] = [[NoRequest EXCEPT !.call = "free", !.uid = u] EXCEPT !.pc = "resolve_free"]
          /\ "prepare" \in daemon.failures
      BY <1>1, <1>8, <2>2, <3>1 DEF prepare, Starts, New
    <3>3. /\ client'[c].pc = "resolve_free" /\ client'[c].call = "free" /\ client'[c].uid = u
          /\ client'[c].new = NoUid /\ ~client'[c].eph
      BY <3>2 DEF NoRequest
    <3> QED
      BY <1>3, <1>8, <3>1, <3>2, <3>3 DEF Turns, Begins
  <2> QED
    BY <2>1, <2>2
<1> QED
  BY <1>4, <1>5, <1>6, <1>7, <1>8 DEF Ends

LEMMA ReturningTurns ==
  ASSUME TypeInv, NEW c \in Clients,
         \/ write_file(c) \/ rollback(c) \/ push(c) \/ run_ends(c) \/ insert(c) \/ unpersist(c)
         \/ Panics(c)
  PROVE  Turns(c, client'[c])
<1>1. client[c] \in Request /\ RequestOK(client[c])
  BY RequestFacts
<1>2. client'[c] = NoRequest
  <2>1. Returns(c)
    BY DEF write_file, rollback, push, run_ends, insert, unpersist, Panics
  <2> QED
    BY <2>1, ReturnsBecomes DEF TypeInv, Becomes
<1>3. ~remove(c)
  <2> SUFFICES ASSUME remove(c) PROVE FALSE
    OBVIOUS
  <2>1. Goes(c, "sweep") \/ Goes(c, "unpersist")
    BY DEF remove
  <2>2. client'[c].pc \in {"sweep", "unpersist"}
    BY <1>1, <2>1, GoesBecomes DEF TypeInv, Becomes, Onward, Pcs
  <2> QED
    BY <1>2, <2>2, NoRequestOK
<1>4. Freeing(c) => unpersist(c)
  BY DEF write_file, rollback, push, run_ends, insert, Panics, At, Freeing
<1>5. client[c].eph => run_ends(c) \/ insert(c)
  BY <1>1 DEF write_file, rollback, push, unpersist, Panics, At, RequestOK
<1> QED
  BY <1>2, <1>3, <1>4, <1>5 DEF Turns, Leaves

LEMMA StepTurns ==
  ASSUME TypeInv, NEW c \in Clients, Step(c) PROVE Turns(c, client'[c])
<1>1. Default \in Confs /\ daemon.confs \subseteq Confs
  BY RegistryAssumption DEF TypeInv, RegistryTypes, Deployment
<1>2. CASE \/ write_file(c) \/ rollback(c) \/ push(c) \/ run_ends(c) \/ insert(c) \/ unpersist(c)
           \/ Panics(c)
  BY <1>2, ReturningTurns
<1>3. CASE \/ \E r \in Refs, call \in Calls \ {"configure"} : request(c, call, r, Default)
           \/ \E r \in Refs, v \in daemon.confs : request(c, "configure", r, v)
  <2>1. \E r \in Refs, v \in Confs, call \in Calls : request(c, call, r, v)
    <3>1. CASE \E r \in Refs, call \in Calls \ {"configure"} : request(c, call, r, Default)
      BY <1>1, <3>1
    <3>2. ASSUME NEW r \in Refs, NEW v \in daemon.confs, request(c, "configure", r, v)
          PROVE  \E f \in Refs, w \in Confs, call \in Calls : request(c, call, f, w)
      <4>1. "configure" \in Calls
        BY <3>2 DEF request
      <4> QED
        BY <1>1, <3>2, <4>1
    <3> QED
      BY <1>3, <3>1, <3>2
  <2> QED
    BY <2>1, StartingTurns
<1>4. CASE \/ \E n \in Names, call \in Calls : create_sandbox(c, n, call)
           \/ \E call \in Calls : ephemeral(c, call)
           \/ \E s \in Sids : end_session(c, s)
           \/ prepare(c)
  BY <1>4, StartingTurns DEF Ends
<1>5. CASE \/ resolve_new(c) \/ index_new(c) \/ resolve_free(c) \/ update(c) \/ execute(c)
           \/ remove(c) \/ cleanup_overlay(c)
  BY <1>5, GoesTurns
<1>6. CASE \/ index(c) \/ spawn(c) \/ sweep(c) \/ kill(c) \/ \E n \in Names : create_fork(c, n)
  BY <1>6, MoreTurns
<1> QED
  BY <1>2, <1>3, <1>4, <1>5, <1>6 DEF Step

-----------------------------------------------------------------------------
(* Each part of Whole is kept by a step of a request.                      *)

LEMMA KnownKept ==
  ASSUME TypeInv, NEW c \in Clients, Step(c), NEW u \in Uids, Known(sandboxes, u),
         ~(remove(c) /\ u = Uid(c))
  PROVE  sandboxes'[u] # NoBox
<1>1. CASE UNCHANGED sandboxes
  BY <1>1 DEF Known
<1>2. ASSUME NEW w \in Uids, NEW b \in Box, BoxBecomes(c, w, b) PROVE sandboxes'[u] # NoBox
  <2>1. sandboxes' = [sandboxes EXCEPT ![w] = b] /\ sandboxes \in [Uids -> Box]
    BY <1>2 DEF BoxBecomes, TypeInv, RegistryTypes
  <2>2. w # u \/ b # NoBox
    BY <1>2 DEF BoxBecomes
  <2> QED
    BY <2>1, <2>2 DEF Known
<1> QED
  BY <1>1, <1>2, StepChanges, BoxStepBecomes DEF Changes

\* A sandbox that is made has a new uid.
LEMMA CreatedKnown ==
  ASSUME TypeInv, NEW c \in Clients, Step(c), drawn < MaxUid, drawn' = drawn + 1,
         \/ \E n \in Names, call \in Calls : create_sandbox(c, n, call)
         \/ \E n \in Names : create_fork(c, n)
  PROVE  drawn + 1 \in Uids /\ sandboxes'[drawn + 1] # NoBox
<1>1. drawn \in Nat /\ MaxUid \in Nat /\ drawn + 1 # drawn
  BY RequestFacts
<1>2. drawn + 1 \in Uids
  BY <1>1 DEF Uids
<1>3. BoxStep(c)
  BY DEF BoxStep
<1>4. PICK u \in Uids, b \in Box : BoxBecomes(c, u, b)
  BY <1>1, <1>3, BoxStepBecomes
<1>5. u = drawn + 1 /\ b # NoBox /\ sandboxes' = [sandboxes EXCEPT ![u] = b]
  BY <1>1, <1>4 DEF BoxBecomes
<1> QED
  BY <1>2, <1>5 DEF TypeInv, RegistryTypes

\* No other request has a uid of this one.
LEMMA NotAnothers ==
  ASSUME TypeInv, Separate, NEW c \in Clients, NEW d \in Clients \ {c},
         NEW u \in {Uid(d), New(d)}, u # NoUid
  PROVE  u \notin {Uid(c), New(c)}
BY DEF Separate

LEMMA HeldKnownStep ==
  ASSUME TypeInv, Separate, HeldKnown, SessionsTied, daemon.exclusive, NEW c \in Clients, Step(c)
  PROVE  HeldKnown'
<1>1. PICK q : Moves(c, q) /\ q = client'[c]
  BY StepMoves DEF Moves, Becomes
<1>2. q \in Request /\ client'[c] = q /\ \A d \in Clients \ {c} : client'[d] = client[d]
  BY <1>1 DEF Moves, Becomes
<1>3. Turns(c, q)
  BY <1>1, StepTurns
<1> DEFINE Is(e) == client'[e].call = "free" /\ client'[e].pc \in FreePcs
<1> SUFFICES ASSUME NEW e \in Clients
             PROVE  IF Is(e) THEN sandboxes'[client'[e].uid] = NoBox
                    ELSE ~client'[e].eph => \A u \in {client'[e].uid, client'[e].new} \ {NoUid} :
                                              sandboxes'[u] # NoBox
  BY DEF HeldKnown, Freeing, FreePcs, Known, Call, Uid, New
<1>4. ASSUME NEW d \in Clients, Freeing(d) PROVE sandboxes'[Uid(d)] = NoBox
  <2>1. PICK u \in Uids : u = Uid(d) /\ u <= drawn
    BY <1>4, RequestFacts DEF Freeing, NewPcs
  <2>2. ~Known(sandboxes, u)
    BY <1>4, <2>1 DEF HeldKnown
  <2> QED
    BY <2>1, <2>2, UnknownKept DEF Known
<1>5. ASSUME NEW d \in Clients, ~Freeing(d), ~client[d].eph, NEW u \in {Uid(d), New(d)}, u # NoUid
      PROVE  u \in Uids /\ Known(sandboxes, u)
  BY <1>5, RequestFacts DEF HeldKnown, Uids, NoUid
<1>6. CASE e # c
  <2>1. client'[e] = client[e]
    BY <1>2, <1>6
  <2>2. CASE Freeing(e)
    BY <1>4, <2>1, <2>2 DEF Freeing, FreePcs, Call, Uid
  <2>3. CASE ~Freeing(e)
    <3>1. ASSUME ~client[e].eph, NEW u \in {Uid(e), New(e)}, u # NoUid PROVE sandboxes'[u] # NoBox
      <4>1. u \in Uids /\ Known(sandboxes, u) /\ u # Uid(c)
        BY <1>5, <1>6, <2>3, <3>1 DEF Separate
      <4> QED
        BY <4>1, KnownKept
    <3> QED
      BY <2>1, <2>3, <3>1 DEF Freeing, FreePcs, Call, Uid, New
  <2> QED
    BY <2>2, <2>3
<1>7. CASE e = c
  <2>1. CASE Leaves(c, q)
    BY <1>2, <1>7, <2>1, NoRequestOK DEF Leaves
  <2>2. CASE Continues(c, q)
    <3>1. Is(c) <=> Freeing(c) \/ remove(c)
      BY <1>2, <2>2 DEF Continues
    <3>2. CASE Freeing(c)
      BY <1>2, <1>4, <1>7, <2>2, <3>1, <3>2 DEF Continues
    <3>3. CASE remove(c)
      <4>1. Uid(c) \in Uids /\ sandboxes' = [sandboxes EXCEPT ![Uid(c)] = NoBox]
        BY <3>3, RequestFacts DEF remove, Locked, At, NewPcs
      <4>2. sandboxes'[Uid(c)] = NoBox
        BY <4>1 DEF TypeInv, RegistryTypes
      <4> QED
        BY <1>2, <1>7, <2>2, <3>1, <3>3, <4>2 DEF Continues
    <3>4. CASE ~Freeing(c) /\ ~remove(c)
      <4>1. ASSUME ~client[c].eph, NEW u \in {Uid(c), New(c)}, u # NoUid PROVE sandboxes'[u] # NoBox
        BY <1>5, <3>4, <4>1, KnownKept
      <4>2. q.new # New(c) => sandboxes'[q.new] # NoBox
        BY <2>2, CreatedKnown DEF Continues
      <4> QED
        BY <1>2, <1>7, <2>2, <3>1, <3>4, <4>1, <4>2 DEF Continues
    <3> QED
      BY <3>2, <3>3, <3>4
  <2>3. CASE Begins(c, q)
    <3>1. ~Is(c) /\ ~Freeing(c) /\ ~remove(c)
      BY <1>2, <2>3 DEF Begins, FreePcs
    <3>2. ASSUME ~q.eph, NEW u \in {q.uid, q.new}, u # NoUid PROVE sandboxes'[u] # NoBox
      <4>1. CASE q.uid = NoUid /\ q.new = drawn + 1 /\ drawn' = drawn + 1 /\ drawn < MaxUid
                 /\ \E n \in Names, call \in Calls : create_sandbox(c, n, call)
        BY <3>2, <4>1, CreatedKnown
      <4>2. CASE q.uid \in Uids /\ q.new = NoUid /\ Known(sandboxes, q.uid)
        BY <3>1, <3>2, <4>2, KnownKept
      <4>3. CASE q.new = NoUid /\ MayUse(q.uid) /\ \E s \in Sids : Live(s, q.uid) /\ q.eph = session[s].eph
        <5>1. PICK s \in Sids : session[s].st = "live" /\ session[s].uid = q.uid /\ ~session[s].eph
          BY <3>2, <4>3 DEF Live
        <5>2. ~ \E d \in Clients : Uid(d) = q.uid
          BY <4>3 DEF MayUse, Busy, Uid
        <5>3. Known(sandboxes, q.uid)
          BY <5>1, <5>2 DEF SessionsTied
        <5>4. q.uid \in Uids
          <6>1. q.uid # NoUid /\ q.uid \in 0 .. MaxUid
            BY <1>2, <3>2, <4>3 DEF Request
          <6> QED
            BY <6>1, RegistryAssumption DEF Uids, NoUid
        <5> QED
          BY <3>1, <3>2, <4>3, <5>3, <5>4, KnownKept
      <4>4. CASE prepare(c) /\ q.uid = New(c) /\ q.new = NoUid
        <5>1. ~client[c].eph
          BY <4>4, RequestFacts DEF prepare, At, RequestOK
        <5>2. u = New(c)
          BY <3>2, <4>4
        <5>3. u \in Uids /\ Known(sandboxes, u)
          BY <1>5, <3>1, <3>2, <5>1, <5>2
        <5> QED
          BY <3>1, <5>3, KnownKept
      <4> QED
        BY <2>3, <3>2, <4>1, <4>2, <4>3, <4>4 DEF Begins
    <3> QED
      BY <1>2, <1>7, <3>1, <3>2
  <2> QED
    BY <1>3, <2>1, <2>2, <2>3 DEF Turns
<1> QED
  BY <1>6, <1>7

\* So do the other steps that only one action has.
LEMMA OnlyNext ==
  ASSUME NEW c \in Clients, Step(c)
  PROVE  /\ At(c, "push") => push(c)
         /\ At(c, "sweep") => sweep(c)
         /\ At(c, "unpersist") => unpersist(c)
<1>1. ASSUME At(c, "push") PROVE push(c)
  BY <1>1 DEF Step, create_sandbox, create_fork, request, ephemeral, end_session, resolve_new,
     index_new, prepare, resolve_free, index, write_file, rollback, update, insert, execute, run_ends,
     spawn, remove, sweep, kill, cleanup_overlay, unpersist, Panics, Locked, At
<1>2. ASSUME At(c, "sweep") PROVE sweep(c)
  BY <1>2 DEF Step, create_sandbox, create_fork, request, ephemeral, end_session, resolve_new,
     index_new, prepare, resolve_free, index, write_file, rollback, update, push, execute, run_ends,
     spawn, insert, remove, kill, cleanup_overlay, unpersist, Panics, Locked, At
<1>3. ASSUME At(c, "unpersist") PROVE unpersist(c)
  BY <1>3 DEF Step, create_sandbox, create_fork, request, ephemeral, end_session, resolve_new,
     index_new, prepare, resolve_free, index, write_file, rollback, update, push, execute, run_ends,
     spawn, insert, remove, sweep, kill, cleanup_overlay, Panics, Locked, At
<1> QED
  BY <1>1, <1>2, <1>3

LEMMA TiedStep ==
  ASSUME TypeInv, Separate, HeldKnown, SessionsTied, daemon.exclusive, NEW c \in Clients, Step(c)
  PROVE  SessionsTied'
<1>1. PICK q : Moves(c, q) /\ q = client'[c]
  BY StepMoves DEF Moves, Becomes
<1>2. q \in Request /\ client'[c] = q /\ \A d \in Clients \ {c} : client'[d] = client[d]
  BY <1>1 DEF Moves, Becomes
<1> SUFFICES ASSUME NEW s \in Sids, session'[s].st = "live", ~session'[s].eph
             PROVE  \/ sandboxes'[session'[s].uid] # NoBox
                    \/ \E e \in Clients : client'[e].pc = "sweep" /\ client'[e].uid = session'[s].uid
  BY DEF SessionsTied, Known, At, Uid
<1>3. CASE session[s].st = "live" /\ session'[s].uid = session[s].uid /\ session'[s].eph = session[s].eph
  <2>1. PICK u \in Uids : u = session[s].uid
    <3>1. session[s] \in SessionRecord /\ session[s].uid # NoUid
      BY <1>3 DEF TypeInv, RegistryTypes, Drawn
    <3> QED
      BY <3>1, RegistryAssumption DEF SessionRecord, Uids, NoUid
  <2>2. CASE Known(sandboxes, u) /\ ~(remove(c) /\ u = Uid(c))
    BY <1>3, <2>1, <2>2, KnownKept
  <2>3. CASE Known(sandboxes, u) /\ remove(c) /\ u = Uid(c)
    <3>1. Continues(c, q)
      BY <1>1, <2>3, StepTurns DEF Turns, Begins, Leaves
    <3>2. q.pc = "sweep" /\ q.uid = u
      BY <2>3, <3>1 DEF Continues
    <3> QED
      BY <1>2, <1>3, <2>1, <3>2
  <2>4. ASSUME NEW e \in Clients, At(e, "sweep"), Uid(e) = u
        PROVE  \E d \in Clients : client'[d].pc = "sweep" /\ client'[d].uid = u
    <3>1. CASE e = c
      <4>1. sweep(c)
        BY <2>4, <3>1, OnlyNext
      <4>2. session'[s] = [session[s] EXCEPT !.st = "ended"]
        BY <1>3, <2>1, <2>4, <3>1, <4>1 DEF sweep, Live
      <4>3. session'[s].st = "ended"
        BY <4>2 DEF TypeInv, RegistryTypes, SessionRecord
      <4> QED
        BY <4>3
    <3>2. CASE e # c
      BY <1>2, <2>4, <3>2 DEF At, Uid
    <3> QED
      BY <3>1, <3>2
  <2> QED
    BY <1>3, <2>1, <2>2, <2>3, <2>4 DEF SessionsTied
<1>4. CASE insert(c) /\ Inserts(c, s) /\ session'[s].uid = session[s].uid /\ session'[s].eph = session[s].eph
  <2>1. session[s].uid = Uid(c) /\ ~client[c].eph /\ ~Freeing(c) /\ Uid(c) # NoUid
    BY <1>4, RequestFacts DEF TypeInv, Spawning, Uid, Inserts, Freeing, NewPcs, Uids, NoUid
  <2>2. Known(sandboxes, Uid(c)) /\ UNCHANGED sandboxes
    BY <1>4, <2>1 DEF HeldKnown, insert
  <2> QED
    BY <1>4, <2>1, <2>2 DEF Known
<1> QED
  BY <1>3, <1>4, SessionMoves

LEMMA CleanedStep ==
  ASSUME TypeInv, Separate, HeldKnown, Cleaned, NEW c \in Clients, Step(c)
  PROVE  Cleaned'
<1>1. PICK q : Moves(c, q) /\ q = client'[c]
  BY StepMoves DEF Moves, Becomes
<1>2. q \in Request /\ client'[c] = q /\ \A d \in Clients \ {c} : client'[d] = client[d]
  BY <1>1 DEF Moves, Becomes
<1>3. overlay \in [Uids -> {"none", "here", "left"}]
  BY DEF TypeInv, RegistryTypes
<1> SUFFICES ASSUME NEW e \in Clients, client'[e].pc = "unpersist"
             PROVE  overlay'[client'[e].uid] # "here"
  BY DEF Cleaned, At, Uid
<1>4. CASE e = c
  <2>1. Continues(c, q)
    BY <1>1, <1>4, StepTurns, NoRequestOK DEF Turns, Begins, Leaves
  <2>2. ~(remove(c) /\ ~Known(sandboxes, Uid(c)))
    <3> SUFFICES ASSUME remove(c) PROVE Known(sandboxes, Uid(c))
      OBVIOUS
    <3>1. ~Freeing(c) /\ ~client[c].eph /\ Uid(c) # NoUid
      BY RequestFacts DEF remove, Locked, At, Freeing, RequestOK, NewPcs, Uids, NoUid
    <3> QED
      BY <3>1 DEF HeldKnown
  <2>3. cleanup_overlay(c)
    BY <1>1, <1>4, <2>1, <2>2 DEF Continues
  <2>4. Uid(c) \in Uids /\ Removes(Uid(c))
    BY <2>3, RequestFacts DEF cleanup_overlay, At, NewPcs
  <2> QED
    BY <1>1, <1>3, <1>4, <2>1, <2>4 DEF Continues, Removes
<1>5. CASE e # c
  <2>1. client'[e] = client[e] /\ Uid(e) \in Uids /\ Uid(e) # NoUid
    BY <1>2, <1>5, RequestFacts DEF NewPcs, Uids, NoUid
  <2>2. overlay[Uid(e)] # "here" /\ Uid(e) \notin {Uid(c), New(c)}
    BY <1>5, <2>1 DEF Cleaned, At, Separate
  <2>3. overlay'[Uid(e)] # "here"
    BY <1>3, <2>1, <2>2, StepChanges DEF Changes, OverlayStep, Makes, Removes
  <2> QED
    BY <2>1, <2>3 DEF Uid
<1> QED
  BY <1>4, <1>5

LEMMA OwnedStep ==
  ASSUME TypeInv, HeldKnown, OverlaysOwned, Cleaned, daemon.exclusive, "spawn" \notin daemon.failures,
         NEW c \in Clients, Step(c)
  PROVE  OverlaysOwned'
<1>1. PICK q : Moves(c, q) /\ q = client'[c]
  BY StepMoves DEF Moves, Becomes
<1>2. q \in Request /\ client'[c] = q /\ \A d \in Clients \ {c} : client'[d] = client[d]
  BY <1>1 DEF Moves, Becomes
<1>3. overlay \in [Uids -> {"none", "here", "left"}]
  BY DEF TypeInv, RegistryTypes
<1> DEFINE Had(u) == \E e \in Clients : u \in {client'[e].uid, client'[e].new}
           Owned(u) == \/ sandboxes'[u] # NoBox
                       \/ \E s \in Sids : session'[s].uid = u /\ session'[s].st \in {"spawned", "live"}
                       \/ Had(u)
<1> SUFFICES ASSUME NEW u \in Uids, overlay'[u] = "here" PROVE Owned(u)
  BY DEF OverlaysOwned, Known
<1>4. u # NoUid
  BY DEF Uids, NoUid
<1>5. \/ Known(sandboxes, u)
      \/ \E s \in Sids : session[s].uid = u /\ session[s].st \in {"spawned", "live"}
      \/ \E d \in Clients : u \in {Uid(d), New(d)}
  <2>1. CASE overlay[u] = "here"
    BY <2>1 DEF OverlaysOwned, Uid, New
  <2>2. CASE overlay[u] # "here"
    <3>1. u \in {Uid(c), New(c)}
      BY <1>3, <2>2, StepChanges DEF Changes, OverlayStep, Makes, Removes
    <3> QED
      BY <3>1
  <2> QED
    BY <2>1, <2>2
<1>6. ASSUME Known(sandboxes, u) PROVE Owned(u)
  <2>1. CASE remove(c) /\ u = Uid(c)
    <3>1. Continues(c, q)
      BY <1>1, <2>1, StepTurns DEF Turns, Begins, Leaves
    <3>2. q.uid = u
      BY <2>1, <3>1 DEF Continues
    <3> QED
      BY <1>2, <3>2
  <2>2. CASE ~(remove(c) /\ u = Uid(c))
    BY <1>6, <2>2, KnownKept
  <2> QED
    BY <2>1, <2>2
<1>7. ASSUME NEW s \in Sids, session[s].uid = u, session[s].st \in {"spawned", "live"} PROVE Owned(u)
  <2>1. \/ session'[s].uid = u /\ session'[s].st \in {"spawned", "live"}
        \/ client'[c].uid = u
    BY <1>7, SessionMoves
  <2> QED
    BY <2>1
<1>8. ASSUME NEW d \in Clients \ {c}, u \in {Uid(d), New(d)} PROVE Owned(u)
  <2>1. u \in {client'[d].uid, client'[d].new}
    BY <1>2, <1>8 DEF Uid, New
  <2> QED
    BY <2>1
<1>9. ASSUME u \in {Uid(c), New(c)} PROVE Owned(u)
  <2>1. CASE ~Freeing(c) /\ ~client[c].eph
    <3>1. Known(sandboxes, u)
      BY <1>4, <1>9, <2>1 DEF HeldKnown
    <3> QED
      BY <1>6, <3>1
  <2>2. CASE Freeing(c) \/ client[c].eph
    <3>1. u = Uid(c) /\ client[c].pc \notin NewPcs
      BY <1>4, <1>9, <2>2, RequestFacts DEF Freeing, RequestOK, NewPcs, New
    <3>2. CASE Continues(c, q)
      <4>1. q.uid = u
        BY <3>1, <3>2 DEF Continues
      <4> QED
        BY <1>2, <4>1
    <3>3. CASE Leaves(c, q)
      <4>1. ~Freeing(c)
        <5> SUFFICES ASSUME Freeing(c) PROVE FALSE
          OBVIOUS
        <5>1. unpersist(c)
          BY <3>3 DEF Leaves
        <5>2. At(c, "unpersist") /\ UNCHANGED overlay
          BY <5>1 DEF unpersist
        <5> QED
          BY <3>1, <5>2 DEF Cleaned
      <4>2. run_ends(c) \/ insert(c) \/ cleanup_overlay(c)
        BY <2>2, <3>3, <4>1 DEF Leaves
      <4>3. ~Removes(u)
        BY <1>3 DEF Removes
      <4>4. insert(c)
        BY <2>2, <3>1, <4>1, <4>2, <4>3 DEF run_ends, cleanup_overlay
      <4>5. PICK s \in Sids : Inserts(c, s)
        BY <4>4, RequestFacts DEF insert, At, RequestOK, Inserts
      <4>6. session[s].st = "spawned" /\ session[s].uid = u
        BY <3>1, <4>5 DEF TypeInv, Spawning, Uid
      <4> QED
        BY <1>7, <4>6
    <3>4. CASE Begins(c, q)
      BY <2>2, <3>4 DEF Begins
    <3> QED
      BY <1>1, <3>2, <3>3, <3>4, StepTurns DEF Turns
  <2> QED
    BY <2>1, <2>2
<1> QED
  BY <1>5, <1>6, <1>7, <1>8, <1>9

\* Only configure and free_sandbox of a sandbox change it.
LEMMA BoxKept ==
  ASSUME TypeInv, NEW c \in Clients, Step(c), NEW u \in Uids, u <= drawn,
         ~(u = Uid(c) /\ (update(c) \/ remove(c)))
  PROVE  sandboxes'[u] = sandboxes[u]
<1>1. CASE UNCHANGED sandboxes
  BY <1>1
<1>2. ASSUME NEW w \in Uids, NEW b \in Box, BoxBecomes(c, w, b) PROVE sandboxes'[u] = sandboxes[u]
  <2>1. sandboxes' = [sandboxes EXCEPT ![w] = b] /\ sandboxes \in [Uids -> Box]
    BY <1>2 DEF BoxBecomes, TypeInv, RegistryTypes
  <2>2. w # drawn + 1 \/ w # u
    BY RequestFacts
  <2>3. w # u
    BY <1>2, <2>2 DEF BoxBecomes
  <2> QED
    BY <2>1, <2>3
<1> QED
  BY <1>1, <1>2, StepChanges, BoxStepBecomes DEF Changes

\* configure gives the sandbox the settings that it is going to push.
LEMMA UpdateSets ==
  ASSUME TypeInv, NEW c \in Clients, update(c)
  PROVE  \/ UNCHANGED sandboxes /\ ~Known(sandboxes, Uid(c))
         \/ /\ Uid(c) \in Uids /\ Known(sandboxes, Uid(c)) /\ client'[c].pc = "push"
            /\ sandboxes'[Uid(c)].conf = client[c].conf
            /\ client'[c].conf = client[c].conf /\ client'[c].uid = Uid(c)
<1>1. CASE ~Known(sandboxes, Uid(c))
  BY <1>1 DEF update
<1>2. CASE Known(sandboxes, Uid(c))
  <2>1. Goes(c, "push")
    BY <1>2 DEF update
  <2>2. Onward(client'[c], client[c], "push")
    BY <2>1, GoesBecomes DEF TypeInv, Becomes, Pcs
  <2>3. Uid(c) \in Uids /\ client[c].conf \in Confs
    BY RequestFacts DEF update, Locked, At, NewPcs, Request
  <2>4. PICK u \in Uids : u = Uid(c)
    BY <2>3
  <2>5. PICK x \in Box \ {NoBox} : x = sandboxes[u]
    BY <1>2, <2>4 DEF Known, TypeInv, RegistryTypes
  <2>6. PICK v \in Confs : v = client[c].conf
    BY <2>3
  <2>7. PICK b : b = [x EXCEPT !.conf = v]
    OBVIOUS
  <2>8. b.conf = v
    BY <2>7, BoxTypes
  <2>9. sandboxes' = [sandboxes EXCEPT ![u] = b]
    BY <1>2, <2>4, <2>5, <2>6, <2>7 DEF update
  <2>10. sandboxes'[u] = b
    BY <2>9 DEF TypeInv, RegistryTypes
  <2> QED
    BY <1>2, <2>2, <2>3, <2>4, <2>6, <2>8, <2>10 DEF Onward, Uid
<1> QED
  BY <1>1, <1>2

\* The settings of a session change when they are pushed.
LEMMA SessionConf ==
  ASSUME TypeInv, NEW c \in Clients, Step(c), NEW s \in Sids
  PROVE  \/ session'[s].conf = session[s].conf /\ ~(push(c) /\ Live(s, Uid(c)))
         \/ push(c) /\ Live(s, Uid(c)) /\ session'[s].conf = client[c].conf
         \/ spawn(c) /\ session[s].st = "none" /\ session'[s].conf = client[c].conf
<1>1. session[s] \in SessionRecord /\ client[c] \in Request
  BY DEF TypeInv, RegistryTypes
<1>2. CASE push(c)
  <2>1. session'[s] = IF Live(s, Uid(c)) THEN [session[s] EXCEPT !.conf = client[c].conf] ELSE session[s]
    BY <1>2 DEF push
  <2> QED
    BY <1>1, <1>2, <2>1 DEF SessionRecord
<1>3. CASE ~push(c)
  <2>1. session'[s] = session[s] \/ SessionBecomes(c, s)
    BY StepChanges, SessionStepBecomes DEF Changes
  <2>2. \/ session'[s].conf = session[s].conf
        \/ spawn(c) /\ session[s].st = "none" /\ session'[s].conf = client[c].conf
    BY <1>1, <1>3, <2>1 DEF SessionBecomes, SessionRecord
  <2> QED
    BY <1>3, <2>2
<1> QED
  BY <1>2, <1>3

LEMMA ConfStep ==
  ASSUME TypeInv, Separate, SpawnedHeld, HeldKnown, ConfHeld, NEW c \in Clients, Step(c)
  PROVE  ConfHeld'
<1>1. PICK q : Moves(c, q) /\ q = client'[c]
  BY StepMoves DEF Moves, Becomes
<1>2. q \in Request /\ client'[c] = q /\ \A d \in Clients \ {c} : client'[d] = client[d]
  BY <1>1 DEF Moves, Becomes
<1>3. Turns(c, q)
  BY <1>1, StepTurns
<1>4. ASSUME NEW e \in Clients \ {c}, client[e].pc \in {"spawn", "push"}
      PROVE  client'[e] = client[e] /\ sandboxes'[Uid(e)] = sandboxes[Uid(e)]
  <2>1. client'[e] = client[e] /\ Uid(e) \in Uids /\ Uid(e) # NoUid /\ Uid(e) <= drawn
    BY <1>2, <1>4, RequestFacts DEF NewPcs, Uids, NoUid
  <2>2. Uid(e) # Uid(c)
    BY <2>1 DEF Separate
  <2> QED
    BY <2>1, <2>2, BoxKept
<1>5. ASSUME NEW e \in Clients, client'[e].pc = "spawn", ~client'[e].eph
      PROVE  client'[e].conf = sandboxes'[client'[e].uid].conf
  <2>1. CASE e = c
    <3>1. Continues(c, q)
      BY <1>2, <1>3, <1>5, <2>1, NoRequestOK DEF Turns, Begins, Leaves
    <3> QED
      BY <1>2, <1>5, <2>1, <3>1 DEF Continues
  <2>2. CASE e # c
    BY <1>2, <1>4, <1>5, <2>2 DEF ConfHeld, At, Uid
  <2> QED
    BY <2>1, <2>2
<1>6. ASSUME NEW e \in Clients, client'[e].pc = "push"
      PROVE  client'[e].conf = sandboxes'[client'[e].uid].conf
  <2>1. CASE e = c
    <3>1. Continues(c, q)
      BY <1>2, <1>3, <1>6, <2>1, NoRequestOK DEF Turns, Begins, Leaves
    <3>2. update(c)
      BY <1>2, <1>6, <2>1, <3>1 DEF Continues
    <3>3. Known(sandboxes, Uid(c))
      <4> SUFFICES ASSUME ~Known(sandboxes, Uid(c)) PROVE FALSE
        OBVIOUS
      <4>1. Returns(c)
        BY <3>2 DEF update
      <4>2. client'[c] = NoRequest
        BY <4>1, ReturnsBecomes DEF TypeInv, Becomes
      <4> QED
        BY <1>6, <2>1, <4>2, NoRequestOK
    <3> QED
      BY <2>1, <3>2, <3>3, UpdateSets
  <2>2. CASE e # c
    BY <1>2, <1>4, <1>6, <2>2 DEF ConfHeld, At, Uid
  <2> QED
    BY <2>1, <2>2
<1>7. ASSUME NEW s \in Sids, session'[s].st \in {"spawned", "live"}, ~session'[s].eph
      PROVE  \/ sandboxes'[session'[s].uid] = NoBox
             \/ session'[s].conf = sandboxes'[session'[s].uid].conf
             \/ \E e \in Clients : client'[e].pc = "push" /\ client'[e].uid = session'[s].uid
  <2>1. CASE /\ spawn(c) /\ session[s].st = "none" /\ session'[s].uid = Uid(c)
             /\ session'[s].eph = client[c].eph /\ session'[s].conf = client[c].conf
    <3>1. UNCHANGED sandboxes /\ At(c, "spawn") /\ ~client[c].eph
      BY <1>7, <2>1 DEF spawn
    <3>2. client[c].conf = sandboxes[Uid(c)].conf
      BY <3>1 DEF ConfHeld
    <3> QED
      BY <2>1, <3>1, <3>2
  <2>2. CASE /\ session[s].st \in {"spawned", "live"} /\ session'[s].uid = session[s].uid
             /\ session'[s].eph = session[s].eph
    <3>1. PICK u \in Uids : u = session[s].uid /\ u <= drawn
      <4>1. session[s] \in SessionRecord /\ session[s].uid # NoUid /\ session[s].uid <= drawn
        BY <2>2 DEF TypeInv, RegistryTypes, Drawn
      <4> QED
        BY <4>1, RegistryAssumption DEF SessionRecord, Uids, NoUid
    <3>2. CASE ~Known(sandboxes, u)
      BY <2>2, <3>1, <3>2, UnknownKept DEF Known
    <3>3. CASE Known(sandboxes, u) /\ session[s].conf = sandboxes[u].conf
      <4>1. session'[s].conf = sandboxes[u].conf
        <5>1. CASE session'[s].conf = session[s].conf
          BY <3>3, <5>1
        <5>2. CASE push(c) /\ Live(s, Uid(c)) /\ session'[s].conf = client[c].conf
          <6>1. At(c, "push") /\ Uid(c) = u
            BY <3>1, <5>2 DEF push, Live
          <6> QED
            BY <5>2, <6>1 DEF ConfHeld
        <5> QED
          BY <2>2, <5>1, <5>2, SessionConf
      <4>2. CASE u = Uid(c) /\ update(c)
        BY <2>2, <3>1, <3>3, <4>2, UpdateSets
      <4>3. CASE u = Uid(c) /\ remove(c)
        <5>1. sandboxes' = [sandboxes EXCEPT ![u] = NoBox]
          BY <4>3 DEF remove
        <5>2. sandboxes'[u] = NoBox
          BY <5>1 DEF TypeInv, RegistryTypes
        <5> QED
          BY <2>2, <3>1, <5>2
      <4>4. CASE ~(u = Uid(c) /\ (update(c) \/ remove(c)))
        <5>1. sandboxes'[u] = sandboxes[u]
          BY <3>1, <4>4, BoxKept
        <5> QED
          BY <2>2, <3>1, <4>1, <5>1
      <4> QED
        BY <4>2, <4>3, <4>4
    <3>4. ASSUME NEW e \in Clients, At(e, "push"), Uid(e) = u
          PROVE  \/ session'[s].conf = sandboxes'[u].conf
                 \/ \E d \in Clients : client'[d].pc = "push" /\ client'[d].uid = u
      <4>1. CASE e = c
        <5>1. push(c) /\ UNCHANGED sandboxes /\ client[c].conf = sandboxes[u].conf
          BY <3>4, <4>1, OnlyNext DEF push, ConfHeld
        <5>2. session[s].st # "spawned"
          <6> SUFFICES ASSUME session[s].st = "spawned" PROVE FALSE
            OBVIOUS
          <6>1. PICK d \in Clients : Inserts(d, s)
            BY DEF SpawnedHeld
          <6>2. Uid(d) = u /\ u # NoUid
            BY <3>1, <6>1 DEF TypeInv, Spawning, Uid, Uids, NoUid
          <6>3. d = c
            BY <3>4, <4>1, <6>2 DEF Separate
          <6> QED
            BY <3>4, <4>1, <6>1, <6>3 DEF Inserts, At
        <5>3. Live(s, Uid(c))
          BY <2>2, <3>1, <3>4, <4>1, <5>2 DEF Live
        <5>4. session'[s].conf = client[c].conf
          BY <5>1, <5>3, SessionConf
        <5> QED
          BY <5>1, <5>4
      <4>2. CASE e # c
        BY <1>2, <3>4, <4>2 DEF At, Uid
      <4> QED
        BY <4>1, <4>2
    <3>5. \/ ~Known(sandboxes, u) \/ session[s].conf = sandboxes[u].conf
          \/ \E e \in Clients : At(e, "push") /\ Uid(e) = u
      BY <1>7, <2>2, <3>1 DEF ConfHeld
    <3>6. session'[s].uid = u
      BY <2>2, <3>1
    <3> QED
      BY <3>2, <3>3, <3>4, <3>5, <3>6
  <2> QED
    BY <1>7, <2>1, <2>2, SessionMoves
<1> QED
  BY <1>5, <1>6, <1>7 DEF ConfHeld, At, Known, Uid

-----------------------------------------------------------------------------
(* Rows.                                                                   *)

\* A row is appended for the sandbox that a step makes, changes or has freed.
WritesRow(c, w, b) ==
  /\ writes' = Append(writes, [uid |-> w, row |-> b])
  /\ sandboxes'[w] = b
  /\ \A u \in Uids : u # w => sandboxes'[u] = sandboxes[u]
  /\ ~remove(c) /\ (unpersist(c) => w = Uid(c))
  /\ w = drawn + 1 \/ (w = Uid(c) /\ (At(c, "update") \/ unpersist(c)))
WritesNone(c) ==
  /\ UNCHANGED writes /\ ~unpersist(c)
  /\ \A u \in Uids : sandboxes'[u] = sandboxes[u] \/ (remove(c) /\ u = Uid(c))

LEMMA WritesStep ==
  ASSUME TypeInv, HeldKnown, daemon.stored, NEW c \in Clients, Step(c)
  PROVE  WritesNone(c) \/ \E w \in Uids, b \in Box : WritesRow(c, w, b)
<1>1. CASE unpersist(c)
  <2>1. PICK w \in Uids : w = Uid(c)
    BY <1>1, RequestFacts DEF unpersist, At, NewPcs
  <2>2. Freeing(c)
    BY <1>1, RequestFacts DEF unpersist, At, RequestOK, Freeing, Call
  <2>3. sandboxes[w] = NoBox
    BY <2>1, <2>2 DEF HeldKnown, Known
  <2>4. writes' = Append(writes, [uid |-> w, row |-> NoBox]) /\ UNCHANGED sandboxes /\ ~remove(c)
    BY <1>1, <2>1 DEF unpersist, persist, remove, Locked, At
  <2>5. WritesRow(c, w, NoBox)
    BY <1>1, <2>1, <2>3, <2>4 DEF WritesRow
  <2> QED
    BY <2>5, BoxTypes
<1>2. ASSUME NEW w \in Uids, NEW b \in Box, BoxBecomes(c, w, b), ~unpersist(c)
      PROVE  WritesNone(c) \/ WritesRow(c, w, b)
  <2>1. sandboxes' = [sandboxes EXCEPT ![w] = b]
    BY <1>2 DEF BoxBecomes
  <2>2. sandboxes'[w] = b /\ \A u \in Uids : u # w => sandboxes'[u] = sandboxes[u]
    BY <2>1 DEF TypeInv, RegistryTypes
  <2>3. CASE remove(c)
    <3>1. UNCHANGED writes /\ w = Uid(c)
      <4>1. UNCHANGED drawn /\ ~update(c)
        BY <2>3 DEF remove, update, Locked, At
      <4>2. drawn' # drawn + 1
        BY <4>1, RequestFacts
      <4> QED
        BY <1>2, <2>3, <4>1, <4>2 DEF BoxBecomes
    <3> QED
      BY <1>2, <2>2, <2>3, <3>1 DEF WritesNone
  <2>4. CASE ~remove(c)
    <3>1. writes' = Append(writes, [uid |-> w, row |-> b])
      BY <1>2, <2>4 DEF BoxBecomes
    <3>2. w = drawn + 1 \/ (w = Uid(c) /\ At(c, "update"))
      BY <1>2, <2>4 DEF BoxBecomes, update, Locked
    <3> QED
      BY <1>2, <2>2, <2>4, <3>1, <3>2 DEF WritesRow
  <2> QED
    BY <2>3, <2>4
<1>3. CASE BoxStep(c) /\ ~unpersist(c)
  <2>1. CASE UNCHANGED <<sandboxes, writes, drawn>>
    BY <1>3, <2>1 DEF WritesNone
  <2> QED
    BY <1>2, <1>3, <2>1, BoxStepBecomes
<1>4. CASE ~BoxStep(c) /\ ~unpersist(c)
  BY <1>4, StepChanges DEF Changes, WritesNone
<1> QED
  BY <1>1, <1>3, <1>4

\* Rows under way after a step.
LEMMA WritingAfter ==
  ASSUME TypeInv, NEW w \in Uids, NEW b \in Box, writes' = Append(writes, [uid |-> w, row |-> b])
  PROVE  /\ writes \in Seq(RowType) /\ Len(writes) \in Nat
         /\ Len(writes') = Len(writes) + 1
         /\ \A i \in 1 .. Len(writes) : writes'[i] = writes[i] /\ writes[i].uid \in Uids
                                        /\ writes[i].uid <= drawn
         /\ writes'[Len(writes) + 1].uid = w /\ writes'[Len(writes) + 1].row = b
         /\ \A i \in 1 .. Len(writes') : i \in 1 .. Len(writes) \/ i = Len(writes) + 1
<1>1. writes \in Seq(RowType)
  BY DEF TypeInv, RegistryTypes, RowType
<1>2. PICK x \in RowType : x = [uid |-> w, row |-> b] /\ x.uid = w /\ x.row = b
  BY RowIs
<1>3. /\ Len(writes') = Len(writes) + 1
      /\ \A i \in 1 .. Len(writes) : writes'[i] = writes[i]
      /\ writes'[Len(writes) + 1] = x
  BY <1>1, <1>2, WritesAppended
<1>4. PICK n \in Nat : n = Len(writes)
  BY <1>1
<1>5. \A i \in 1 .. Len(writes) : writes[i].uid \in Uids /\ writes[i].uid <= drawn
  <2> SUFFICES ASSUME NEW i \in 1 .. Len(writes) PROVE writes[i].uid \in Uids /\ writes[i].uid <= drawn
    OBVIOUS
  <2>1. writes[i] \in RowType
    BY <1>1
  <2> QED
    BY <2>1 DEF RowType, TypeInv, Drawn
<1>6. \A i \in 1 .. Len(writes') : i \in 1 .. Len(writes) \/ i = Len(writes) + 1
  BY <1>3, <1>4
<1> QED
  BY <1>1, <1>2, <1>3, <1>4, <1>5, <1>6

LEMMA RowsStep ==
  ASSUME TypeInv, Separate, HeldKnown, RowsHeld, daemon.stored, "prepare" \notin daemon.failures,
         daemon.exclusive, UNCHANGED daemon, NEW c \in Clients, Step(c)
  PROVE  RowsHeld'
<1>1. PICK q : Moves(c, q) /\ q = client'[c]
  BY StepMoves DEF Moves, Becomes
<1>2. q \in Request /\ RequestOK(q) /\ client'[c] = q /\ \A d \in Clients \ {c} : client'[d] = client[d]
  BY <1>1 DEF Moves, Becomes
<1>3. Turns(c, q)
  BY <1>1, StepTurns
<1>4. /\ \A i, j \in 1 .. Len(writes) : writes[i].uid = writes[j].uid => i = j
      /\ \A i \in 1 .. Len(writes) : writes[i].row = sandboxes[writes[i].uid]
      /\ \A d \in Clients : Settled(d) => ~Writing(Uid(d))
      /\ \A u \in Uids : Writing(u) \/ store[u] = sandboxes[u] \/ \E d \in Clients : Freeing(d) /\ Uid(d) = u
  BY DEF RowsHeld
<1>5. store' = store /\ drawn \in Nat
  BY StepChanges, RequestFacts DEF Changes
<1>6. writes \in Seq(RowType) /\ \A i \in 1 .. Len(writes) : writes[i].uid \in Uids /\ writes[i].uid <= drawn
  <2>1. writes \in Seq(RowType)
    BY DEF TypeInv, RegistryTypes, RowType
  <2> SUFFICES ASSUME NEW i \in 1 .. Len(writes) PROVE writes[i].uid \in Uids /\ writes[i].uid <= drawn
    BY <2>1
  <2>2. writes[i] \in RowType
    BY <2>1
  <2> QED
    BY <2>2 DEF RowType, TypeInv, Drawn
<1> DEFINE Writes(u) == \E i \in 1 .. Len(writes') : writes'[i].uid = u
           Sets(e) == \/ client'[e].pc \in {"resolve_free", "remove", "update"}
                      \/ client'[e].call = "free" /\ client'[e].pc \in FreePcs
           Frees(u) == \E e \in Clients : /\ client'[e].call = "free" /\ client'[e].pc \in FreePcs
                                          /\ client'[e].uid = u
<1> SUFFICES /\ \A i, j \in 1 .. Len(writes') : writes'[i].uid = writes'[j].uid => i = j
             /\ \A i \in 1 .. Len(writes') : writes'[i].row = sandboxes'[writes'[i].uid]
             /\ \A e \in Clients : Sets(e) => ~Writes(client'[e].uid)
             /\ \A u \in Uids : Writes(u) \/ store'[u] = sandboxes'[u] \/ Frees(u)
  BY DEF RowsHeld, Writing, Settled, Freeing, FreePcs, Call, Uid
\* A uid whose rows have been written was not just drawn, and is not another request's.
<1>7. ASSUME NEW e \in Clients, Sets(e)
      PROVE  /\ ~Writing(client'[e].uid)
             /\ \A w \in Uids : w = drawn + 1 \/ (w = Uid(c) /\ (At(c, "update") \/ unpersist(c)))
                                  => w # client'[e].uid
  <2>1. CASE e # c
    <3>1. client'[e] = client[e] /\ Settled(e)
      BY <1>2, <1>7, <2>1 DEF Settled, Freeing, FreePcs, Call
    <3>2. Uid(e) \in Uids /\ Uid(e) <= drawn /\ Uid(e) # NoUid
      BY <3>1, RequestFacts DEF Settled, Freeing, NewPcs, Uids, NoUid
    <3>3. Uid(e) # Uid(c) /\ Uid(e) # drawn + 1
      BY <1>5, <2>1, <3>2 DEF Separate
    <3> QED
      BY <1>4, <3>1, <3>3 DEF Uid
  <2>2. CASE e = c
    <3>1. ~Leaves(c, q)
      BY <1>2, <1>7, <2>2, NoRequestOK DEF Leaves, FreePcs
    <3>2. CASE Continues(c, q)
      <4>1. Settled(c) /\ ~At(c, "update")
        <5>1. CASE q.pc = "remove"
          BY <3>2, <5>1 DEF Continues, Settled, At
        <5>2. CASE q.call = "free" /\ q.pc \in FreePcs
          BY <3>2, <5>2 DEF Continues, Settled, remove, Locked, At, Freeing
        <5> QED
          BY <1>2, <1>7, <2>2, <3>2, <5>1, <5>2 DEF Continues
      <4>2. ~unpersist(c)
        <5> SUFFICES ASSUME unpersist(c) PROVE FALSE
          OBVIOUS
        <5>1. q = NoRequest
          BY <1>1, ReturnsBecomes DEF unpersist, TypeInv, Becomes
        <5> QED
          BY <1>2, <1>7, <2>2, <5>1, NoRequestOK DEF FreePcs
      <4>3. Uid(c) <= drawn /\ Uid(c) \in Nat
        BY RequestFacts
      <4> QED
        BY <1>2, <1>4, <1>5, <2>2, <3>2, <4>1, <4>2, <4>3 DEF Continues
    <3>3. CASE Begins(c, q)
      <4>1. ~At(c, "update") /\ ~unpersist(c)
        <5>1. ~unpersist(c)
          <6> SUFFICES ASSUME unpersist(c) PROVE FALSE
            OBVIOUS
          <6>1. q = NoRequest
            BY <1>1, ReturnsBecomes DEF unpersist, TypeInv, Becomes
          <6> QED
            BY <1>2, <1>7, <2>2, <6>1, NoRequestOK DEF FreePcs
        <5> QED
          BY <3>3, <5>1 DEF Begins
      <4>2. MayUse(q.uid) /\ q.uid \in Uids /\ q.uid <= drawn
        <5>1. q.call = "free" \/ (q.pc = "update" /\ ~q.eph)
          BY <1>2, <1>7, <2>2 DEF RequestOK
        <5>2. q.uid # NoUid
          BY <1>2, <1>7, <2>2 DEF RequestOK, NewPcs, FreePcs
        <5>3. q.uid \in Uids /\ Known(sandboxes, q.uid) /\ MayUse(q.uid)
          BY <3>3, <5>1, <5>2 DEF Begins
        <5> QED
          BY <1>5, <5>3 DEF TypeInv, Drawn, Known, Uids
      <4> QED
        BY <1>2, <1>5, <2>2, <4>1, <4>2 DEF MayUse, Busy, Writing
    <3> QED
      BY <1>3, <3>1, <3>2, <3>3 DEF Turns
  <2> QED
    BY <2>1, <2>2
<1>8. ASSUME NEW u \in Uids, NEW d \in Clients, Freeing(d), Uid(d) = u
      PROVE  Frees(u) \/ (unpersist(c) /\ u = Uid(c))
  <2>1. CASE d # c
    BY <1>2, <1>8, <2>1 DEF Freeing, FreePcs, Call, Uid
  <2>2. CASE d = c
    BY <1>2, <1>3, <1>8, <2>2 DEF Turns, Continues, Begins, Leaves
  <2> QED
    BY <2>1, <2>2
<1>9. ASSUME remove(c) PROVE Frees(Uid(c))
  BY <1>2, <1>3, <1>9 DEF Turns, Continues, Begins, Leaves
<1>10. ASSUME remove(c) PROVE ~Writing(Uid(c))
  BY <1>4, <1>10 DEF remove, Locked, At, Settled
<1>11. CASE WritesNone(c)
  <2>1. \A i \in 1 .. Len(writes) : sandboxes'[writes[i].uid] = sandboxes[writes[i].uid]
    BY <1>6, <1>10, <1>11 DEF WritesNone, Writing
  <2>2. \A u \in Uids : Writes(u) \/ store'[u] = sandboxes'[u] \/ Frees(u)
    BY <1>4, <1>5, <1>8, <1>9, <1>11 DEF WritesNone, Writing
  <2> QED
    BY <1>4, <1>7, <1>11, <2>1, <2>2 DEF WritesNone, Writing
<1>12. ASSUME NEW w \in Uids, NEW b \in Box, WritesRow(c, w, b)
       PROVE  /\ \A i, j \in 1 .. Len(writes') : writes'[i].uid = writes'[j].uid => i = j
              /\ \A i \in 1 .. Len(writes') : writes'[i].row = sandboxes'[writes'[i].uid]
              /\ \A e \in Clients : Sets(e) => ~Writes(client'[e].uid)
              /\ \A u \in Uids : Writes(u) \/ store'[u] = sandboxes'[u] \/ Frees(u)
  <2>1. writes' = Append(writes, [uid |-> w, row |-> b])
    BY <1>12 DEF WritesRow
  <2>2. PICK n \in Nat :
          /\ n = Len(writes) /\ Len(writes') = n + 1
          /\ \A i \in 1 .. n : writes'[i] = writes[i] /\ writes[i].uid \in Uids /\ writes[i].uid <= drawn
          /\ writes'[n + 1].uid = w /\ writes'[n + 1].row = b
          /\ \A i \in 1 .. Len(writes') : i \in 1 .. n \/ i = n + 1
    BY <2>1, WritingAfter
  <2>3. ~Writing(w)
    <3>1. CASE w = drawn + 1
      <4>1. \A i \in 1 .. Len(writes) : writes[i].uid # w
        BY <1>5, <2>2, <3>1 DEF Uids
      <4> QED
        BY <4>1 DEF Writing
    <3>2. CASE w = Uid(c) /\ (At(c, "update") \/ unpersist(c))
      <4>1. Settled(c)
        BY <3>2, RequestFacts DEF Settled, At, unpersist, Freeing, RequestOK, Call
      <4> QED
        BY <1>4, <3>2, <4>1
    <3> QED
      BY <1>12, <3>1, <3>2 DEF WritesRow
  <2>4. \A u : Writes(u) => Writing(u) \/ u = w
    BY <2>2 DEF Writing
  <2>5. Writes(w) /\ \A u : Writing(u) => Writes(u)
    <3>1. n + 1 \in 1 .. Len(writes') /\ \A i \in 1 .. n : i \in 1 .. Len(writes')
      BY <2>2
    <3> QED
      BY <2>2, <3>1 DEF Writing
  <2>6. ASSUME NEW i \in 1 .. Len(writes'), NEW j \in 1 .. Len(writes'), writes'[i].uid = writes'[j].uid
        PROVE  i = j
    <3>1. \A k \in 1 .. n : writes'[k].uid # w
      BY <2>2, <2>3 DEF Writing
    <3>2. i \in 1 .. n <=> j \in 1 .. n
      BY <2>2, <2>6, <3>1
    <3> QED
      BY <1>4, <2>2, <2>6, <3>2
  <2>7. ASSUME NEW i \in 1 .. Len(writes') PROVE writes'[i].row = sandboxes'[writes'[i].uid]
    <3>1. CASE i \in 1 .. n
      <4>1. writes[i].uid # w /\ writes'[i] = writes[i] /\ writes[i].uid \in Uids
        BY <2>2, <2>3, <3>1 DEF Writing
      <4> QED
        BY <1>4, <1>12, <2>2, <3>1, <4>1 DEF WritesRow
    <3>2. CASE i = n + 1
      BY <1>12, <2>2, <3>2 DEF WritesRow
    <3> QED
      BY <2>2, <3>1, <3>2
  <2>8. ASSUME NEW e \in Clients, Sets(e) PROVE ~Writes(client'[e].uid)
    BY <1>7, <1>12, <2>4, <2>8 DEF WritesRow
  <2>9. ASSUME NEW u \in Uids PROVE Writes(u) \/ store'[u] = sandboxes'[u] \/ Frees(u)
    <3>1. CASE u = w
      BY <2>5, <3>1
    <3>2. CASE u # w
      <4>1. sandboxes'[u] = sandboxes[u]
        BY <1>12, <3>2 DEF WritesRow
      <4>2. ASSUME NEW d \in Clients, Freeing(d), Uid(d) = u PROVE Frees(u)
        <5>1. ~(unpersist(c) /\ u = Uid(c))
          <6> SUFFICES ASSUME unpersist(c), u = Uid(c) PROVE FALSE
            OBVIOUS
          <6> QED
            BY <1>12, <3>2 DEF WritesRow
        <5> QED
          BY <1>8, <4>2, <5>1
      <4> QED
        BY <1>4, <1>5, <2>5, <4>1, <4>2
    <3> QED
      BY <3>1, <3>2
  <2> QED
    BY <2>6, <2>7, <2>8, <2>9
<1> QED
  BY <1>11, <1>12, WritesStep

LEMMA RowsStore ==
  ASSUME TypeInv, RowsHeld, daemon.stored, UNCHANGED daemon, NEW i \in 1 .. Len(writes), StoreTask(i)
  PROVE  RowsHeld'
<1>1. /\ \A j, k \in 1 .. Len(writes) : writes[j].uid = writes[k].uid => j = k
      /\ \A j \in 1 .. Len(writes) : writes[j].row = sandboxes[writes[j].uid]
      /\ \A d \in Clients : Settled(d) => ~Writing(Uid(d))
      /\ \A u \in Uids : Writing(u) \/ store[u] = sandboxes[u] \/ \E d \in Clients : Freeing(d) /\ Uid(d) = u
  BY DEF RowsHeld
<1>2. /\ writes[i].uid \in Uids /\ store' = [store EXCEPT ![writes[i].uid] = writes[i].row]
      /\ UNCHANGED <<sandboxes, poisoned, session, overlay, drawn, client>>
  BY StoreTaskIs
<1>3. writes \in Seq(RowType) /\ store \in [Uids -> Box]
  BY DEF TypeInv, RegistryTypes, RowType
<1>4. /\ Len(writes') = Len(writes) - 1
      /\ \A j \in 1 .. Len(writes') : writes'[j] = IF j < i THEN writes[j] ELSE writes[j + 1]
  BY <1>3, WritesTaken DEF StoreTask
<1>5. PICK n \in Nat : /\ n = Len(writes) /\ i \in 1 .. n /\ Len(writes') = n - 1
                       /\ \A j \in 1 .. (n - 1) : writes'[j] = IF j < i THEN writes[j] ELSE writes[j + 1]
  <2>1. PICK n \in Nat : n = Len(writes) /\ i \in 1 .. n /\ Len(writes') = n - 1
    BY <1>3, <1>4
  <2> QED
    BY <1>4, <2>1
<1> DEFINE at[j \in 1 .. (n - 1)] == IF j < i THEN j ELSE j + 1
<1>6. /\ \A j \in 1 .. (n - 1) : at[j] \in 1 .. n /\ at[j] # i /\ writes'[j] = writes[at[j]]
      /\ \A j, k \in 1 .. (n - 1) : at[j] = at[k] => j = k
      /\ \A k \in 1 .. n : k # i => \E j \in 1 .. (n - 1) : at[j] = k
  <2>1. \A j \in 1 .. (n - 1) : at[j] \in 1 .. n /\ at[j] # i /\ writes'[j] = writes[at[j]]
    BY <1>5
  <2>2. \A j, k \in 1 .. (n - 1) : at[j] = at[k] => j = k
    BY <1>5
  <2>3. ASSUME NEW k \in 1 .. n, k # i PROVE \E j \in 1 .. (n - 1) : at[j] = k
    <3>1. CASE k < i
      BY <1>5, <3>1
    <3>2. CASE k > i
      <4>1. k - 1 \in 1 .. (n - 1) /\ at[k - 1] = k
        BY <1>5, <3>2
      <4> QED
        BY <4>1
    <3> QED
      BY <1>5, <2>3, <3>1, <3>2
  <2> QED
    BY <2>1, <2>2, <2>3
<1> HIDE DEF at
<1>7. PICK v \in Uids : v = writes[i].uid
  BY <1>2
<1>8. /\ \A j, k \in 1 .. Len(writes') : writes'[j].uid = writes'[k].uid => j = k
      /\ \A j \in 1 .. Len(writes') : writes'[j].row = sandboxes'[writes'[j].uid]
  <2>1. ASSUME NEW j \in 1 .. (n - 1), NEW k \in 1 .. (n - 1), writes'[j].uid = writes'[k].uid PROVE j = k
    <3>1. /\ at[j] \in 1 .. Len(writes) /\ at[k] \in 1 .. Len(writes)
          /\ writes[at[j]].uid = writes[at[k]].uid
      BY <1>5, <1>6, <2>1
    <3>2. at[j] = at[k]
      BY <1>1, <3>1
    <3> QED
      BY <1>6, <3>2
  <2>2. ASSUME NEW j \in 1 .. (n - 1) PROVE writes'[j].row = sandboxes'[writes'[j].uid]
    <3>1. writes'[j] = writes[at[j]] /\ at[j] \in 1 .. Len(writes)
      BY <1>5, <1>6
    <3> QED
      BY <1>1, <1>2, <3>1
  <2> QED
    BY <1>5, <2>1, <2>2
<1>9. \A u : Writing(u) => u = v \/ \E j \in 1 .. Len(writes') : writes'[j].uid = u
  <2> SUFFICES ASSUME NEW u, NEW k \in 1 .. n, writes[k].uid = u, u # v
               PROVE  \E j \in 1 .. Len(writes') : writes'[j].uid = u
    BY <1>5 DEF Writing
  <2>1. k # i
    BY <1>7
  <2>2. PICK j \in 1 .. (n - 1) : at[j] = k
    BY <1>6, <2>1
  <2>3. writes'[j].uid = u /\ j \in 1 .. Len(writes')
    BY <1>5, <1>6, <2>2
  <2> QED
    BY <2>3
<1>10. \A u : (\E j \in 1 .. Len(writes') : writes'[j].uid = u) => Writing(u)
  BY <1>5, <1>6 DEF Writing
<1>11. store'[v] = sandboxes'[v] /\ \A u \in Uids : u # v => store'[u] = store[u]
  BY <1>1, <1>2, <1>3, <1>7
<1>12. \A u \in Uids : \/ \E j \in 1 .. Len(writes') : writes'[j].uid = u
                       \/ store'[u] = sandboxes'[u] \/ \E d \in Clients : Freeing(d) /\ Uid(d) = u
  BY <1>1, <1>2, <1>9, <1>11
<1>13. \A d \in Clients : Settled(d)' => ~ \E j \in 1 .. Len(writes') : writes'[j].uid = client'[d].uid
  <2> SUFFICES ASSUME NEW d \in Clients, Settled(d)
               PROVE  ~ \E j \in 1 .. Len(writes') : writes'[j].uid = client[d].uid
    BY <1>2 DEF Settled, Freeing, Call
  <2> QED
    BY <1>1, <1>10 DEF Uid
<1>14. \A u \in Uids : (\E d \in Clients : Freeing(d) /\ Uid(d) = u)
                         => \E d \in Clients : (Freeing(d) /\ Uid(d) = u)'
  BY <1>2 DEF Freeing, Call, Uid
<1> QED
  BY <1>8, <1>12, <1>13, <1>14 DEF RowsHeld, Writing, Uid

\* The registry is in exclusive use, of a kind that keeps it whole.
LEMMA WholeStep ==
  ASSUME Reliable, RegistryInv, Whole, daemon.exclusive, UNCHANGED daemon, NEW c \in Clients, Step(c)
  PROVE  Whole'
<1>1. TypeInv /\ SpawnedHeld /\ Separate
  BY DEF RegistryInv, ExclusiveInv, Exclusive
<1>2. "spawn" \notin daemon.failures /\ (daemon.stored => "prepare" \notin daemon.failures)
  BY <1>1 DEF Reliable, TypeInv, RegistryTypes
<1>3. HeldKnown' /\ SessionsTied' /\ Cleaned' /\ ConfHeld' /\ OverlaysOwned'
  BY <1>1, <1>2, HeldKnownStep, TiedStep, CleanedStep, ConfStep, OwnedStep DEF Whole
<1>4. RowsHeld'
  <2>1. CASE daemon.stored
    BY <1>1, <1>2, <2>1, RowsStep DEF Whole
  <2>2. CASE ~daemon.stored
    BY <2>2 DEF RowsHeld
  <2> QED
    BY <2>1, <2>2
<1> QED
  BY <1>3, <1>4 DEF Whole

LEMMA WholeNext ==
  ASSUME Reliable PROVE RegistryInv /\ WholeInv /\ [Next]_vars => WholeInv'
<1> SUFFICES ASSUME RegistryInv, WholeInv, [Next]_vars, daemon'.exclusive PROVE Whole'
  BY DEF WholeInv
<1>1. daemon' = daemon /\ Whole /\ daemon.exclusive /\ TypeInv
  BY DEF Next, vars, WholeInv, RegistryInv
<1>2. ASSUME NEW c \in Clients, Step(c) PROVE Whole'
  BY <1>1, <1>2, WholeStep
<1>3. CASE UNCHANGED <<sandboxes, session, overlay, client, daemon>> /\ RowsHeld'
  BY <1>1, <1>3 DEF Whole, HeldKnown, SessionsTied, OverlaysOwned, Cleaned, ConfHeld, Freeing, Known,
     At, Call, Uid, New
<1>4. ASSUME NEW i \in 1 .. Len(writes), StoreTask(i) PROVE Whole'
  <2>1. UNCHANGED <<sandboxes, session, overlay, client, daemon>>
    BY <1>1, <1>4, StoreTaskIs
  <2>2. RowsHeld'
    <3>1. CASE daemon.stored
      BY <1>1, <1>4, <3>1, RowsStore DEF Whole
    <3>2. CASE ~daemon.stored
      BY <1>1, <3>2 DEF RowsHeld
    <3> QED
      BY <3>1, <3>2
  <2> QED
    BY <1>3, <2>1, <2>2
<1>5. CASE Restart
  <2>1. /\ \A c \in Clients : /\ client'[c].pc = "idle" /\ client'[c].uid = NoUid
                              /\ client'[c].new = NoUid /\ client'[c].call = "none"
        /\ \A s \in Sids : session'[s].st \notin {"spawned", "live"}
        /\ \A u \in Uids : overlay'[u] # "here"
        /\ Len(writes') = 0 /\ sandboxes' = store /\ store' = store
    BY <1>1, <1>5, RestartIs, NoRequestOK
  <2>2. HeldKnown' /\ SessionsTied' /\ OverlaysOwned' /\ Cleaned' /\ ConfHeld'
    BY <2>1 DEF HeldKnown, SessionsTied, OverlaysOwned, Cleaned, ConfHeld, Freeing, At, Call, Uid, New
  <2>3. RowsHeld'
    BY <2>1 DEF RowsHeld, Writing
  <2> QED
    BY <2>2, <2>3 DEF Whole
<1>6. CASE UNCHANGED vars
  <2>1. RowsHeld'
    BY <1>1, <1>6 DEF vars, Whole, RowsHeld, Writing, Settled, Freeing, Call, Uid
  <2> QED
    BY <1>3, <1>6, <2>1 DEF vars
<1> QED
  BY <1>2, <1>4, <1>5, <1>6 DEF Next

LEMMA WholeInvariant == ASSUME Reliable PROVE Spec => []WholeInv
<1>1. Init => WholeInv
  <2> SUFFICES ASSUME Init PROVE Whole
    BY DEF WholeInv
  <2>1. /\ \A c \in Clients : client[c] = NoRequest
        /\ \A s \in Sids : session[s].st = "none"
        /\ \A u \in Uids : overlay[u] = "none"
        /\ sandboxes = store /\ Len(writes) = 0
    BY DEF Init, NoSession
  <2>2. HeldKnown /\ SessionsTied /\ OverlaysOwned /\ Cleaned /\ ConfHeld
    BY <2>1, NoRequestOK DEF HeldKnown, SessionsTied, OverlaysOwned, Cleaned, ConfHeld, Freeing, At, Call, Uid, New
  <2>3. RowsHeld
    BY <2>1 DEF RowsHeld, Writing
  <2> QED
    BY <2>2, <2>3 DEF Whole
<1>2. RegistryInv /\ WholeInv /\ [Next]_vars => WholeInv'
  BY WholeNext
<1> QED
  BY <1>1, <1>2, RegistryInvariant, PTL DEF Spec

\* In exclusive use the sessions, overlays, settings and rows are those of their
\* sandboxes (start_session, free_sandbox, end_session, configure, persist), if no
\* session fails to spawn and, with a store, no sandbox fails to be prepared.
THEOREM SandboxesAlwaysWhole == ASSUME Reliable PROVE Spec => []SandboxesWhole
<1>1. TypeInv => TypeOK
  <2> SUFFICES ASSUME TypeInv PROVE TypeOK
    OBVIOUS
  <2>1. /\ daemon \in Deployments /\ sandboxes \in [Uids -> Box] /\ store \in [Uids -> Box]
        /\ poisoned \in BOOLEAN /\ overlay \in [Uids -> {"none", "here", "left"}] /\ drawn \in 0 .. MaxUid
        /\ \A u \in Uids : u > drawn => overlay[u] = "none"
    BY DEF TypeInv, RegistryTypes, Drawn
  <2>2. drawn \in Nat /\ MaxUid \in Nat
    BY <2>1, RegistryAssumption
  <2>3. ASSUME NEW s \in Sids
        PROVE  /\ session[s].st \in {"none", "spawned", "live", "ended", "lost"}
               /\ session[s].conf \in Confs
               /\ session[s].uid \in IF session[s].st = "none" THEN {NoUid} ELSE 1 .. drawn
               /\ session[s].alive => session[s].st # "none"
    <3>1. session[s] \in SessionRecord /\ session[s].uid <= drawn
          /\ (session[s].st = "none" => session[s] = NoSession)
          /\ (session[s].st # "none" => session[s].uid # NoUid)
      BY DEF TypeInv, RegistryTypes, Drawn
    <3>2. session[s].uid \in 0 .. MaxUid
      BY <3>1 DEF SessionRecord
    <3>3. session[s].st = "none" => session[s].uid = NoUid /\ ~session[s].alive
      BY <3>1 DEF NoSession
    <3>4. session[s].st # "none" => session[s].uid \in 1 .. drawn
      BY <2>2, <3>1, <3>2 DEF NoUid
    <3> QED
      BY <3>1, <3>3, <3>4 DEF SessionRecord
  <2>4. ASSUME NEW i \in 1 .. Len(writes) PROVE writes[i].uid \in 1 .. drawn /\ writes[i].row \in Box
    <3>1. writes \in Seq(RowType)
      BY DEF TypeInv, RegistryTypes, RowType
    <3>2. writes[i] \in RowType /\ writes[i].uid <= drawn
      BY <3>1 DEF TypeInv, Drawn
    <3> QED
      BY <2>2, <3>2 DEF RowType, Uids
  <2>5. ASSUME NEW c \in Clients
        PROVE  /\ client[c].uid \in 0 .. drawn /\ client[c].new \in 0 .. drawn
               /\ client[c].doomed \subseteq Sids
               /\ client[c].pc = "idle" => client[c] = NoRequest
    BY <2>2, RequestFacts DEF Uid, New, RequestOK, Request
  <2> QED
    BY <2>1, <2>3, <2>4, <2>5 DEF TypeOK
<1>2. TypeInv /\ WholeInv => PolicyPushed
  BY DEF TypeInv, WholeInv, Whole, ConfHeld, PolicyPushed
<1>3. TypeInv /\ WholeInv => StoreAgrees
  <2> SUFFICES ASSUME TypeInv, WholeInv, daemon.exclusive, daemon.stored, writes = <<>>,
                      \A c \in Clients : At(c, "idle")
               PROVE  store = sandboxes
    BY DEF StoreAgrees
  <2>1. RowsHeld /\ Len(writes) = 0
    BY DEF WholeInv, Whole
  <2>2. \A u \in Uids : store[u] = sandboxes[u]
    BY <2>1 DEF RowsHeld, Writing, Freeing, At
  <2> QED
    BY <2>2 DEF TypeInv, RegistryTypes
<1>4. RegistryInv /\ WholeInv => SandboxesWhole
  BY <1>1, <1>2, <1>3 DEF RegistryInv, WholeInv, Whole, SandboxesWhole, SessionsTied, OverlaysOwned
<1> QED
  BY <1>4, RegistryInvariant, WholeInvariant, PTL

\* A restart brings back the sandboxes that nobody was busy with (persist, Registry::with_store).
THEOREM RestartAlwaysSurvived == ASSUME Reliable PROVE Spec => Survives
<1>1. RegistryInv /\ WholeInv /\ [Next]_vars =>
        [daemon.exclusive /\ (\A c \in Clients : client'[c] = NoRequest) /\ drawn' = drawn
           /\ sandboxes' # sandboxes
           => \A u \in Uids : ~Busy(u) => sandboxes'[u] = sandboxes[u]]_vars
  <2> SUFFICES ASSUME RegistryInv, WholeInv, [Next]_vars, daemon.exclusive, drawn' = drawn,
                      \A c \in Clients : client'[c] = NoRequest, sandboxes' # sandboxes,
                      NEW u \in Uids, ~Busy(u)
               PROVE  sandboxes'[u] = sandboxes[u]
    OBVIOUS
  <2>1. TypeInv /\ RowsHeld
    BY DEF RegistryInv, WholeInv, Whole
  <2>2. ASSUME NEW c \in Clients, Step(c) PROVE FALSE
    <3>1. PICK w \in Uids, b \in Box : BoxBecomes(c, w, b)
      BY <2>1, <2>2, StepChanges, BoxStepBecomes DEF Changes
    <3>2. client'[c].pc = "idle" /\ drawn # drawn + 1
      BY <2>1, RequestFacts, NoRequestOK
    <3>3. \/ update(c) /\ Known(sandboxes, Uid(c))
          \/ remove(c)
      BY <3>1, <3>2 DEF BoxBecomes
    <3>4. Goes(c, "push") \/ Goes(c, "sweep") \/ Goes(c, "unpersist")
      BY <3>3 DEF update, remove
    <3>5. client'[c].pc \in {"push", "sweep", "unpersist"}
      BY <2>1, <3>4, GoesBecomes DEF TypeInv, Becomes, Onward, Pcs
    <3> QED
      BY <3>2, <3>5
  <2>3. CASE Restart
    <3>1. daemon.stored /\ sandboxes' = store
      BY <2>3 DEF Restart
    <3>2. ~Writing(u) /\ ~ \E c \in Clients : Freeing(c) /\ Uid(c) = u
      BY DEF Busy, Writing, Uid
    <3> QED
      BY <2>1, <3>1, <3>2 DEF RowsHeld
  <2>4. ASSUME NEW i \in 1 .. Len(writes), StoreTask(i) PROVE FALSE
    BY <2>4 DEF StoreTask
  <2> QED
    BY <2>2, <2>3, <2>4 DEF Next, vars
<1> QED
  BY <1>1, RegistryInvariant, WholeInvariant, PTL DEF Spec, Survives
=============================================================================
