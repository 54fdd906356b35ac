------------------------------ MODULE Registry ------------------------------
(***************************************************************************)
(* The daemon's registry (cvisor-daemon/src/registry.rs): the sandboxes,   *)
(* their sessions and overlays, and the rows written behind them to the    *)
(* store (cvisor-core/src/store.rs).                                       *)
(*                                                                         *)
(* A request runs on a thread of its own and takes the two mutexes, of the *)
(* sandboxes and of the sessions, one after the other and for one step at  *)
(* a time: every action below is one critical section, or one piece of     *)
(* work done without a lock.  A sandbox's id and its uid are both random,  *)
(* fresh and fixed together, so one number stands for both; the settings   *)
(* of a sandbox (network, limits, environment) are one value.              *)
(***************************************************************************)
EXTENDS Integers, Sequences, FiniteSets

CONSTANTS
  Clients,     \* threads that serve requests
  Names,       \* names that are asked for
  Confs,       \* settings
  Default,     \* the settings of a new sandbox
  MaxUid,      \* bound: uids ever drawn
  MaxSid,      \* bound: sessions ever started
  Calls,       \* the requests that are made
  Deployments  \* the ways in which the daemon is run and used

\* One deployment:
\*   exclusive  clients leave a sandbox alone while a request for it, or a write of
\*              its row, is under way
\*   stored     the registry has a store, and the daemon may be restarted
\*   failures   what may fail: "spawn" (fork or filter), "prepare" (clone, copy)
\*   sids       bound: sessions ever started
\*   confs      the settings clients ask for
Deployment == [exclusive : BOOLEAN, stored : BOOLEAN, failures : SUBSET {"spawn", "prepare"},
               sids : 0..MaxSid, confs : SUBSET Confs]

ASSUME RegistryAssumption ==
  /\ Default \in Confs
  /\ MaxUid \in Nat /\ MaxSid \in Nat
  /\ Calls \subseteq {"create", "prepare", "fork", "free", "configure", "run", "session",
                      "end", "write", "rollback"}
  /\ Deployments \subseteq Deployment

Uids == 1..MaxUid
Sids == 1..MaxSid
NoUid == 0
NoSid == 0

VARIABLES
  daemon,      \* how it is run and used: one of Deployments, fixed at the start
  sandboxes,   \* uid -> its name and settings, or NoBox
  poisoned,    \* a thread panicked while it held the mutex of the sandboxes
  session,     \* sid -> where the session is, whose it is, what it runs under
  overlay,     \* uid -> "none", "here", or "left": a directory an earlier daemon left
  store,       \* uid -> the stored row, or NoBox
  writes,      \* store tasks that were spawned and have not run yet
  drawn,       \* how many uids were drawn
  client       \* client -> its request: next step and local variables

vars == <<daemon, sandboxes, poisoned, session, overlay, store, writes, drawn, client>>

-----------------------------------------------------------------------------
NoBox == [name |-> <<>>, conf |-> Default]
Known(m, u) == m[u] # NoBox

NoSession == [st |-> "none", uid |-> NoUid, eph |-> FALSE, conf |-> Default,
              alive |-> FALSE]

NoRequest == [pc |-> "idle", call |-> "none", uid |-> NoUid, new |-> NoUid,
              conf |-> Default, eph |-> FALSE, sid |-> NoSid, doomed |-> {}]

At(c, pc) == client[c].pc = pc
Call(c) == client[c].call
Uid(c) == client[c].uid
Goes(c, pc) == client' = [client EXCEPT ![c] = [@ EXCEPT !.pc = pc]]
Starts(c, pc, req) == client' = [client EXCEPT ![c] = [req EXCEPT !.pc = pc]]
Returns(c) == client' = [client EXCEPT ![c] = NoRequest]

\* A request or a store task for this sandbox is under way.
Busy(u) == \/ \E c \in Clients : client[c].uid = u \/ client[c].new = u
           \/ \E i \in 1..Len(writes) : writes[i].uid = u
MayUse(u) == daemon.exclusive => ~Busy(u)

\* The mutex can be taken: after a panic under it, lock().unwrap() panics.
Locked(c, pc) == At(c, pc) /\ ~poisoned

-----------------------------------------------------------------------------
(* The store: tasks are spawned on the runtime and run in any order.       *)

persist(u, box) ==
  writes' = IF daemon.stored THEN Append(writes, [uid |-> u, row |-> box]) ELSE writes

StoreTask(i) ==
  /\ store' = [store EXCEPT ![writes[i].uid] = writes[i].row]
  /\ writes' = SubSeq(writes, 1, i - 1) \o SubSeq(writes, i + 1, Len(writes))
  /\ UNCHANGED <<sandboxes, poisoned, session, overlay, drawn, client>>

-----------------------------------------------------------------------------
(* Creating sandboxes.                                                     *)

\* The name that was asked for, with a suffix if it is taken.
Taken == {sandboxes[u].name : u \in Uids}
FreshName(base) ==
  LET free == {k \in 1..(MaxUid + 1) : <<base, k>> \notin Taken}
  IN  <<base, CHOOSE k \in free : \A j \in free : k <= j>>

\* Mutant: the name is used as it is.
Insert_same_name(u, base) ==
  LET box == [name |-> <<base, 1>>, conf |-> Default]
  IN  /\ sandboxes' = [sandboxes EXCEPT ![u] = box]
      /\ persist(u, box)

Insert(u, base) ==
  LET box == [name |-> FreshName(base), conf |-> Default]
  IN  /\ sandboxes' = [sandboxes EXCEPT ![u] = box]
      /\ persist(u, box)

\* create_sandbox, by itself or as the first step of create_sandbox_with_repo
\* and branch ("prepare").
create_sandbox(c, base, call) ==
  /\ Locked(c, "idle") /\ call \in {"create", "prepare"} \cap Calls
  /\ drawn < MaxUid
  /\ drawn' = drawn + 1
  /\ Insert(drawn + 1, base)
  /\ IF call = "create" THEN UNCHANGED client
     ELSE Starts(c, "resolve_new", [NoRequest EXCEPT !.call = call, !.new = drawn + 1])
  /\ UNCHANGED <<poisoned, session, overlay, store>>

\* fork makes its sandbox once it has the uid of the source.
create_fork(c, base) ==
  /\ Locked(c, "create") /\ drawn < MaxUid
  /\ drawn' = drawn + 1
  /\ Insert(drawn + 1, base)
  /\ client' = [client EXCEPT ![c] = [@ EXCEPT !.pc = "resolve_new", !.new = drawn + 1]]
  /\ UNCHANGED <<poisoned, session, overlay, store>>

\* uid_of(&info.id), its first lock: the sandbox may have been freed already.
resolve_new(c) ==
  /\ Locked(c, "resolve_new")
  /\ IF Known(sandboxes, client[c].new) THEN Goes(c, "index_new") ELSE Returns(c)
  /\ UNCHANGED <<sandboxes, poisoned, session, overlay, store, writes, drawn>>

\* Its second lock: indexing the map panics when the entry is gone.
Index(c, u, next) ==
  IF Known(sandboxes, u)
    THEN Goes(c, next) /\ UNCHANGED poisoned
    ELSE Returns(c) /\ poisoned' = TRUE

index_new(c) ==
  /\ Locked(c, "index_new")
  /\ Index(c, client[c].new, "prepare")
  /\ UNCHANGED <<sandboxes, session, overlay, store, writes, drawn>>

\* An overlay is made with the first thing that is put in it.
Makes(u) == overlay' = [overlay EXCEPT ![u] = "here"]
MayMake(u) == UNCHANGED overlay \/ Makes(u)
Removes(u) == overlay' = [overlay EXCEPT ![u] = "none"]

\* The clone, or the copy of a snapshot or of another overlay; if it fails the
\* new sandbox is freed again.
prepare(c) ==
  /\ At(c, "prepare")
  /\ MayMake(client[c].new)
  /\ \/ Returns(c)
     \/ /\ "prepare" \in daemon.failures
        /\ Starts(c, "resolve_free", [NoRequest EXCEPT !.call = "free",
                                                       !.uid = client[c].new])
  /\ UNCHANGED <<sandboxes, poisoned, session, store, writes, drawn>>

resolve_free(c) ==
  /\ Locked(c, "resolve_free")
  /\ IF Known(sandboxes, Uid(c)) THEN Goes(c, "remove") ELSE Returns(c)
  /\ UNCHANGED <<sandboxes, poisoned, session, overlay, store, writes, drawn>>

-----------------------------------------------------------------------------
(* Requests that name a sandbox begin with resolve.                        *)

AsId(u) == <<"id", u>>
Refs == {AsId(u) : u \in Uids} \cup {<<n, k>> : n \in Names, k \in 1..(MaxUid + 1)}

\* Mutant: an id is taken as it is.
resolve_unchecked(r) ==
  {u \in 1..drawn : r = AsId(u) \/ (Known(sandboxes, u) /\ r = sandboxes[u].name)}

resolve(r) == {u \in Uids : Known(sandboxes, u) /\ r \in {AsId(u), sandboxes[u].name}}

\* The step that follows resolve in each request.
Second == [free |-> "remove", configure |-> "update", run |-> "index",
           session |-> "index", write |-> "index", rollback |-> "index", fork |-> "index"]

request(c, call, r, v) ==
  /\ Locked(c, "idle") /\ call \in DOMAIN Second \cap Calls
  /\ \E u \in resolve(r) :
       /\ MayUse(u)
       /\ Starts(c, Second[call], [NoRequest EXCEPT !.call = call, !.uid = u, !.conf = v])
  /\ UNCHANGED <<sandboxes, poisoned, session, overlay, store, writes, drawn>>

\* uid_of and exec_target, their second lock.
Third == [run |-> "execute", session |-> "spawn", write |-> "write",
          rollback |-> "rollback", fork |-> "create"]

index(c) ==
  /\ Locked(c, "index")
  /\ IF Known(sandboxes, Uid(c))
       THEN /\ client' = [client EXCEPT ![c] =
                            [@ EXCEPT !.pc = Third[Call(c)], !.conf = sandboxes[Uid(c)].conf]]
            /\ UNCHANGED poisoned
       ELSE Returns(c) /\ poisoned' = TRUE
  /\ UNCHANGED <<sandboxes, session, overlay, store, writes, drawn>>

\* write_file, copy_into, cache_restore (which may fail before they write).
write_file(c) ==
  /\ At(c, "write")
  /\ MayMake(Uid(c))
  /\ Returns(c)
  /\ UNCHANGED <<sandboxes, poisoned, session, store, writes, drawn>>

\* snapshot::rollback takes the overlay away and copies the snapshot in its place,
\* unless there is no such snapshot; the copy may fail.
rollback(c) ==
  /\ At(c, "rollback")
  /\ \/ MayMake(Uid(c))
     \/ "prepare" \in daemon.failures /\ Removes(Uid(c))
  /\ Returns(c)
  /\ UNCHANGED <<sandboxes, poisoned, session, store, writes, drawn>>

-----------------------------------------------------------------------------
(* configure.                                                              *)

update(c) ==
  /\ Locked(c, "update")
  /\ LET u == Uid(c)
         box == [sandboxes[u] EXCEPT !.conf = client[c].conf]
     IN  IF Known(sandboxes, u)
           THEN /\ sandboxes' = [sandboxes EXCEPT ![u] = box]
                /\ persist(u, box)
                /\ Goes(c, "push")
           ELSE Returns(c) /\ UNCHANGED <<sandboxes, writes>>
  /\ UNCHANGED <<poisoned, session, overlay, store, drawn>>

Live(s, u) == session[s].st = "live" /\ session[s].uid = u

\* Mutant: the new settings go to all sessions.
push_all(c) ==
  /\ At(c, "push")
  /\ session' = [s \in Sids |-> IF session[s].st = "live"
                                  THEN [session[s] EXCEPT !.conf = client[c].conf]
                                  ELSE session[s]]
  /\ Returns(c)
  /\ UNCHANGED <<sandboxes, poisoned, overlay, store, writes, drawn>>

\* set_network_policy and update_limits of every session of the sandbox.
push(c) ==
  /\ At(c, "push")
  /\ session' = [s \in Sids |-> IF Live(s, Uid(c))
                                  THEN [session[s] EXCEPT !.conf = client[c].conf]
                                  ELSE session[s]]
  /\ Returns(c)
  /\ UNCHANGED <<sandboxes, poisoned, overlay, store, writes, drawn>>

-----------------------------------------------------------------------------
(* run and start_session, for a sandbox or for an ephemeral uid.           *)

\* Mutant: all ephemeral runs share one uid.
ephemeral_same(c, call) ==
  /\ At(c, "idle") /\ call \in {"run", "session"} \cap Calls
  /\ Starts(c, Third[call], [NoRequest EXCEPT !.call = call, !.uid = 1, !.eph = TRUE])
  /\ UNCHANGED <<sandboxes, poisoned, session, overlay, store, writes, drawn>>

ephemeral(c, call) ==
  /\ At(c, "idle") /\ call \in {"run", "session"} \cap Calls
  /\ drawn < MaxUid
  /\ drawn' = drawn + 1
  /\ Starts(c, Third[call], [NoRequest EXCEPT !.call = call, !.uid = drawn + 1,
                                              !.eph = TRUE])
  /\ UNCHANGED <<sandboxes, poisoned, session, overlay, store, writes>>

\* The overlay is made first; an error after that is returned at once.
execute(c) ==
  /\ At(c, "execute")
  /\ Makes(Uid(c))
  /\ \/ Goes(c, "running")
     \/ "spawn" \in daemon.failures /\ Returns(c)
  /\ UNCHANGED <<sandboxes, poisoned, session, store, writes, drawn>>

\* Mutant: every run cleans up, not only an ephemeral one.
run_ends_cleans(c) ==
  /\ At(c, "running")
  /\ Removes(Uid(c))
  /\ Returns(c)
  /\ UNCHANGED <<sandboxes, poisoned, session, store, writes, drawn>>

run_ends(c) ==
  /\ At(c, "running")
  /\ IF client[c].eph THEN Removes(Uid(c)) ELSE UNCHANGED overlay
  /\ Returns(c)
  /\ UNCHANGED <<sandboxes, poisoned, session, store, writes, drawn>>

Unstarted == {s \in 1..daemon.sids : session[s].st = "none"}

\* spawn_session: the guest runs under the settings read by exec_target.
spawn(c) ==
  /\ At(c, "spawn") /\ Unstarted # {}
  /\ Makes(Uid(c))
  /\ \/ LET s == CHOOSE s \in Unstarted : \A o \in Unstarted : s <= o
        IN  /\ session' = [session EXCEPT ![s] =
                             [st |-> "spawned", uid |-> Uid(c), eph |-> client[c].eph,
                              conf |-> client[c].conf, alive |-> TRUE]]
            /\ client' = [client EXCEPT ![c] = [@ EXCEPT !.pc = "insert", !.sid = s]]
     \/ "spawn" \in daemon.failures /\ Returns(c) /\ UNCHANGED session
  /\ UNCHANGED <<sandboxes, poisoned, store, writes, drawn>>

insert(c) ==
  /\ At(c, "insert")
  /\ session' = [session EXCEPT ![client[c].sid] = [@ EXCEPT !.st = "live"]]
  /\ Returns(c)
  /\ UNCHANGED <<sandboxes, poisoned, overlay, store, writes, drawn>>

-----------------------------------------------------------------------------
(* end_session and free_sandbox.                                           *)

end_session(c, s) ==
  /\ At(c, "idle") /\ "end" \in Calls /\ session[s].st = "live"
  /\ MayUse(session[s].uid)
  /\ session' = [session EXCEPT ![s] = [@ EXCEPT !.st = "ended"]]
  /\ Starts(c, "kill", [NoRequest EXCEPT !.call = "end", !.uid = session[s].uid,
                                         !.eph = session[s].eph, !.doomed = {s}])
  /\ UNCHANGED <<sandboxes, poisoned, overlay, store, writes, drawn>>

remove(c) ==
  /\ Locked(c, "remove")
  /\ sandboxes' = [sandboxes EXCEPT ![Uid(c)] = NoBox]
  /\ Goes(c, IF Known(sandboxes, Uid(c)) THEN "sweep" ELSE "unpersist")
  /\ UNCHANGED <<poisoned, session, overlay, store, writes, drawn>>

\* Mutant: the sessions are dropped from the map and not collected.
sweep_forgets(c) ==
  /\ At(c, "sweep")
  /\ session' = [s \in Sids |-> IF Live(s, Uid(c)) THEN [session[s] EXCEPT !.st = "ended"]
                                ELSE session[s]]
  /\ Goes(c, "kill")
  /\ UNCHANGED <<sandboxes, poisoned, overlay, store, writes, drawn>>

\* Mutant: the sessions stay in the map.
sweep_none(c) ==
  /\ At(c, "sweep")
  /\ Goes(c, "kill")
  /\ UNCHANGED <<sandboxes, poisoned, session, overlay, store, writes, drawn>>

sweep(c) ==
  /\ At(c, "sweep")
  /\ session' = [s \in Sids |-> IF Live(s, Uid(c)) THEN [session[s] EXCEPT !.st = "ended"]
                                ELSE session[s]]
  /\ client' = [client EXCEPT ![c] = [@ EXCEPT !.pc = "kill",
                                               !.doomed = {s \in Sids : Live(s, Uid(c))}]]
  /\ UNCHANGED <<sandboxes, poisoned, overlay, store, writes, drawn>>

\* Mutant: the overlay goes before the guests.
kill_late(c) ==
  /\ At(c, "kill")
  /\ Removes(Uid(c))
  /\ Goes(c, "cleanup")
  /\ UNCHANGED <<sandboxes, poisoned, session, store, writes, drawn>>

kill(c) ==
  /\ At(c, "kill")
  /\ session' = [s \in Sids |-> IF s \in client[c].doomed
                                  THEN [session[s] EXCEPT !.alive = FALSE]
                                  ELSE session[s]]
  /\ IF Call(c) = "end" /\ ~client[c].eph
       THEN Returns(c)
       ELSE client' = [client EXCEPT ![c] = [@ EXCEPT !.pc = "cleanup", !.doomed = {}]]
  /\ UNCHANGED <<sandboxes, poisoned, overlay, store, writes, drawn>>

\* Mutant: the directory stays.
cleanup_none(c) ==
  /\ At(c, "cleanup")
  /\ IF Call(c) = "end" THEN Returns(c) ELSE Goes(c, "unpersist")
  /\ UNCHANGED <<sandboxes, poisoned, session, overlay, store, writes, drawn>>

cleanup_overlay(c) ==
  /\ At(c, "cleanup")
  /\ Removes(Uid(c))
  /\ IF Call(c) = "end" THEN Returns(c) ELSE Goes(c, "unpersist")
  /\ UNCHANGED <<sandboxes, poisoned, session, store, writes, drawn>>

\* Mutant: the row stays.
unpersist_none(c) ==
  /\ At(c, "unpersist")
  /\ Returns(c)
  /\ UNCHANGED <<sandboxes, poisoned, session, overlay, store, writes, drawn>>

unpersist(c) ==
  /\ At(c, "unpersist")
  /\ persist(Uid(c), NoBox)
  /\ Returns(c)
  /\ UNCHANGED <<sandboxes, poisoned, session, overlay, store, drawn>>

-----------------------------------------------------------------------------
(* Panics and restarts.                                                    *)

\* lock().unwrap() on a poisoned mutex: the request panics too.
Panics(c) ==
  /\ poisoned
  /\ client[c].pc \in {"resolve_new", "index_new", "resolve_free", "index", "create",
                       "update", "remove"}
  /\ Returns(c)
  /\ UNCHANGED <<sandboxes, poisoned, session, overlay, store, writes, drawn>>

Unsupervised ==
  [s \in Sids |-> [session[s] EXCEPT !.st = IF @ = "none" THEN @ ELSE "lost"]]

Inherited == [u \in Uids |-> IF overlay[u] = "none" THEN "none" ELSE "left"]

\* Mutant: the daemon starts with an empty registry.
Restart_empty ==
  /\ daemon.stored
  /\ sandboxes' = [u \in Uids |-> NoBox]
  /\ poisoned' = FALSE
  /\ session' = Unsupervised
  /\ overlay' = Inherited
  /\ writes' = <<>>
  /\ client' = [c \in Clients |-> NoRequest]
  /\ UNCHANGED <<store, drawn>>

\* The daemon ends and starts again with the stored rows.  Its sessions are gone;
\* their guests are left without a supervisor.
Restart ==
  /\ daemon.stored
  /\ sandboxes' = store
  /\ poisoned' = FALSE
  /\ session' = Unsupervised
  /\ overlay' = Inherited
  /\ writes' = <<>>
  /\ client' = [c \in Clients |-> NoRequest]
  /\ UNCHANGED <<store, drawn>>

-----------------------------------------------------------------------------
Init ==
  /\ daemon \in Deployments
  /\ sandboxes = [u \in Uids |-> NoBox]
  /\ poisoned = FALSE
  /\ session = [s \in Sids |-> NoSession]
  /\ overlay = [u \in Uids |-> "none"]
  /\ store = [u \in Uids |-> NoBox]
  /\ writes = <<>>
  /\ drawn = 0
  /\ client = [c \in Clients |-> NoRequest]

Step(c) ==
  \/ \E n \in Names, call \in Calls : create_sandbox(c, n, call)
  \/ \E n \in Names : create_fork(c, n)
  \/ \E r \in Refs, call \in Calls \ {"configure"} : request(c, call, r, Default)
  \/ \E r \in Refs, v \in daemon.confs : request(c, "configure", r, v)
  \/ \E call \in Calls : ephemeral(c, call)
  \/ \E s \in Sids : end_session(c, s)
  \/ resolve_new(c) \/ index_new(c) \/ prepare(c) \/ resolve_free(c)
  \/ index(c) \/ write_file(c) \/ rollback(c) \/ update(c) \/ push(c)
  \/ execute(c) \/ run_ends(c) \/ spawn(c) \/ insert(c)
  \/ remove(c) \/ sweep(c) \/ kill(c) \/ cleanup_overlay(c) \/ unpersist(c)
  \/ Panics(c)

Next ==
  /\ \/ \E c \in Clients : Step(c)
     \/ \E i \in 1..Len(writes) : StoreTask(i)
     \/ Restart
  /\ UNCHANGED daemon

Spec == Init /\ [][Next]_vars

-----------------------------------------------------------------------------
(* Properties.                                                             *)

Box == [name : {<<n, k>> : n \in Names, k \in 1..(MaxUid + 1)}, conf : Confs] \cup {NoBox}

\* Every variable has its type, and what a request has not drawn yet is unused.
TypeOK ==
  /\ daemon \in Deployments
  /\ sandboxes \in [Uids -> Box] /\ store \in [Uids -> Box]
  /\ poisoned \in BOOLEAN
  /\ \A s \in Sids : /\ session[s].st \in {"none", "spawned", "live", "ended", "lost"}
                     /\ session[s].conf \in Confs
                     /\ session[s].uid \in IF session[s].st = "none" THEN {NoUid} ELSE 1..drawn
                     /\ session[s].alive => session[s].st # "none"
  /\ overlay \in [Uids -> {"none", "here", "left"}] /\ drawn \in 0..MaxUid
  /\ \A u \in Uids : u > drawn => overlay[u] = "none"
  /\ \A i \in 1..Len(writes) : writes[i].uid \in 1..drawn /\ writes[i].row \in Box
  /\ \A c \in Clients : /\ client[c].uid \in 0..drawn /\ client[c].new \in 0..drawn
                        /\ client[c].doomed \subseteq Sids
                        /\ client[c].pc = "idle" => client[c] = NoRequest

\* No two sandboxes have one name: a name is a reference to one sandbox.  (Without a
\* store: a sandbox that is freed comes back with a restart while its row is still
\* to be deleted, and another may have taken the name.)
NamesUnique ==
  ~daemon.stored => \A u, v \in Uids :
    Known(sandboxes, u) /\ Known(sandboxes, v) /\ sandboxes[u].name = sandboxes[v].name
      => u = v

\* A guest whose session left the map is going to be killed by the one request
\* that took it out, whatever ends the session at the same time.
NoneForgotten ==
  /\ \A s \in Sids : session[s].st = "ended" /\ session[s].alive
                       => \E c \in Clients : s \in client[c].doomed
  /\ \A c, d \in Clients : client[c].doomed \cap client[d].doomed # {} => c = d

\* A session in the map belongs to a sandbox that exists or is being freed by a
\* request that will still find it, unless it is ephemeral.  (Needs exclusive use: a
\* session that is spawned while its sandbox is freed stays in the map.)
SessionsTied ==
  daemon.exclusive => \A s \in Sids :
    session[s].st = "live" /\ ~session[s].eph
      => \/ Known(sandboxes, session[s].uid)
         \/ \E c \in Clients : At(c, "sweep") /\ Uid(c) = session[s].uid

\* An overlay this daemon made belongs to a sandbox, to a session or to a request:
\* nothing is left on disk that no request can remove.  (Needs exclusive use.)
OverlaysOwned ==
  daemon.exclusive => \A u \in {v \in Uids : overlay[v] = "here"} :
    \/ Known(sandboxes, u)
    \/ \E s \in Sids : session[s].uid = u /\ session[s].st \in {"spawned", "live"}
    \/ \E c \in Clients : u \in {client[c].uid, client[c].new}

\* The overlay is removed, and not by a rollback whose copy fails.
Removed(u) ==
  /\ overlay[u] # "none" /\ overlay'[u] = "none"
  /\ ~\E c \in Clients : At(c, "rollback") /\ Uid(c) = u /\ ~At(c, "rollback")'

\* The overlay of a sandbox that exists is never removed, whatever runs, sessions
\* and requests for it or for others end at the same time (but for a rollback).
DataKept == [][\A u \in Uids : Removed(u) => ~Known(sandboxes, u)]_vars

\* free_sandbox and end_session take an overlay away only after the guests on it
\* were killed (but for guests of a daemon that is gone).  (Needs exclusive use.)
KilledBeforeCleanup ==
  [][\A u \in Uids : daemon.exclusive /\ Removed(u)
       => \A s \in Sids : session[s].uid = u /\ session[s].alive
                            => session[s].st = "lost"]_vars

\* Once no request is under way for a sandbox, its sessions run under its current
\* settings: configure takes effect on live sessions.  (Needs exclusive use.)
PolicyPushed ==
  daemon.exclusive => \A s \in Sids :
    LET u == session[s].uid
    IN  session[s].st = "live" /\ ~session[s].eph /\ Known(sandboxes, u)
          /\ (\A c \in Clients : Uid(c) # u)
        => session[s].conf = sandboxes[u].conf

\* No thread panics under the mutex: one request never makes the registry
\* unusable for the others.  (Needs exclusive use: free_sandbox between the two
\* locks of uid_of makes the index panic.)
NeverPoisoned == daemon.exclusive => ~poisoned

\* A restart brings back exactly the sandboxes there were, but for those a
\* request or a store task was still busy with.  (Needs exclusive use.)
Survives ==
  [][daemon.exclusive /\ (\A c \in Clients : client'[c] = NoRequest) /\ drawn' = drawn /\ sandboxes' # sandboxes
      => \A u \in Uids : ~Busy(u) => sandboxes'[u] = sandboxes[u]]_vars

\* When nothing is under way the stored rows are the sandboxes.  (Needs exclusive
\* use: two writes of one row may run in either order.)
StoreAgrees ==
  daemon.exclusive /\ daemon.stored /\ writes = <<>> /\ (\A c \in Clients : At(c, "idle")) => store = sandboxes

\* Sessions, overlays, settings and stored rows are those of their sandboxes
\* (start_session, free_sandbox, end_session, configure, persist).
SandboxesWhole == TypeOK /\ SessionsTied /\ OverlaysOwned /\ PolicyPushed /\ StoreAgrees

\* An overlay goes only with its sandbox and after its guests (free_sandbox,
\* end_session, run).
OverlaysGoLast == DataKept /\ KilledBeforeCleanup
=============================================================================
