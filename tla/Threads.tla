------------------------------ MODULE Threads ------------------------------
(***************************************************************************)
(* The process registry of a sandbox (virt/proc/mod.rs) and the syscall    *)
(* handlers that drive it (supervisor.rs), over an external model of the   *)
(* kernel's task tree.                                                     *)
(*                                                                         *)
(* clone, exit and exit_group are continued in the kernel, so the registry *)
(* only learns of a task when the task notifies or when /proc is scanned.  *)
(* The registry lives behind one mutex.  A handler that has to register    *)
(* missing ancestors reads /proc several times while it holds that mutex,  *)
(* and the kernel moves on between those reads: each read is a step here.  *)
(***************************************************************************)
EXTENDS Integers, Sequences, FiniteSets

CONSTANTS
  Tids,         \* task ids guest tasks can have
  Outsiders,    \* tasks of the host that /proc lists too
  InitTid,      \* init_tid: the first guest task
  Fds,          \* what a tracked fd table can hold
  Cwds, RootCwd,
  CloneKinds,   \* the kinds of clone the guest makes
  Signals,      \* TRUE iff guest tasks can be killed by a signal
  TidReuse,     \* TRUE iff the kernel hands out a tid again after its reaping
  DupMayFail,   \* TRUE iff try_duplicate can fail (descriptor exhaustion)
  Workers,      \* notifications served at a time
  QueueBound,   \* snapshots kept per parent
  MaxTables,    \* bound: fd-table and fs-info ids handed out
  MaxClones     \* bound: tasks the kernel creates

ASSUME ThreadsAssumption ==
  /\ Tids \subseteq Nat \ {0} /\ Outsiders \subseteq Nat \ {0}
  /\ IsFiniteSet(Tids \cup Outsiders)
  /\ Tids \cap Outsiders = {}
  /\ InitTid \in Tids
  /\ RootCwd \in Cwds
  /\ CloneKinds \subseteq {"process", "files", "thread"}
  /\ Signals \in BOOLEAN /\ TidReuse \in BOOLEAN /\ DupMayFail \in BOOLEAN
  /\ QueueBound \in Nat \ {0} /\ Workers \in Nat \ {0}
  /\ MaxTables \in Nat \ {0}
  /\ MaxClones \in Nat

Tasks == Tids \cup Outsiders
Host == 0     \* every ancestor outside the sandbox: supervisor, reaper, pid 1
Ids == 1..MaxTables
NoId == 0
Tables == SUBSET Fds

VARIABLES
  \* --- the kernel's truth (external)
  task,       \* tid -> state, group, parent and descriptor table of the task
  clones,     \* tasks created so far
  inflight,   \* notifications not yet answered, by caller
  \* --- Threads
  reg,        \* the keys of Threads.map
  thread,     \* Threads.map: tid -> Thread
  fdTables,   \* the arena of fd tables; refs = 0 is an absent slot
  fsInfos,    \* the arena of fs-infos (a cwd each)
  snapshots,  \* fork_snapshots: parent -> queue
  nextFdt, nextFsi,
  \* --- the handler that holds the state mutex
  mode,       \* "free", "sync" (get_or_sync) or "scan" (sync_new_threads)
  caller,     \* the task it serves
  todo,       \* tids the loop has not visited yet
  stack       \* activations of ensure_registered, innermost last

kernel == <<task, clones>>
arenas == <<fdTables, fsInfos, nextFdt, nextFsi>>
registry == <<reg, thread, arenas, snapshots>>
lock == <<mode, caller, todo, stack>>
vars == <<kernel, inflight, registry, lock>>

Snapshot == [fd : Tables, cwd : Cwds]

NoThread == [tgid |-> Host, parent |-> Host, fdt |-> NoId, fsi |-> NoId]
FreeTable == [value |-> {}, refs |-> 0]
FreeInfo == [value |-> RootCwd, refs |-> 0]

-----------------------------------------------------------------------------
(* The kernel's task tree, as the code sees it through /proc and kcmp.     *)

NoTask == [st |-> "none", tgid |-> Host, ppid |-> Host, files |-> 0,
           pc |-> "user"]

Gone == IF TidReuse THEN NoTask ELSE [NoTask EXCEPT !.st = "gone"]

Alive(t) == task[t].st = "live"
Visible(t) == task[t].st \in {"live", "zombie"}  \* /proc/<tid>/status can be read
Group(g) == {t \in Tids : Visible(t) /\ task[t].tgid = g}

\* Mutant: every kcmp answers "same table".
shares_fd_table_always(a, b) == TRUE

\* kcmp compares the table pointers; a zombie has none left (files = 0), so
\* two zombies compare equal, and kcmp fails on a task that is gone.
shares_fd_table(a, b) == Visible(a) /\ Visible(b) /\ task[a].files = task[b].files

\* The group g lost its last running task in tree k: its children go to the
\* reaper of the host (the sandbox has no reaper of its own).
Orphaned(k, g) ==
  IF \E t \in Tids : k[t].st = "live" /\ k[t].tgid = g
    THEN k
    ELSE [t \in Tasks |-> IF k[t].ppid = g THEN [k[t] EXCEPT !.ppid = Host]
                                           ELSE k[t]]

\* Tasks V of group g stop: a leader stays as a zombie, a thread disappears.
Stopped(g, V) ==
  Orphaned([t \in Tasks |->
              IF t \notin V THEN task[t]
              ELSE IF t = g THEN [task[t] EXCEPT !.st = "zombie", !.pc = "user",
                                                 !.files = 0]
              ELSE Gone], g)

\* Task t goes on to pc.
Continued(t, pc) == [task[t] EXCEPT !.pc = pc]

\* A task that dies takes its notification along unless a worker has it.
InFlightAfter(V) ==
  \E kept \in SUBSET (inflight \cap V) :
    /\ mode # "free" /\ caller \in V => caller \in kept
    /\ inflight' = (inflight \ V) \cup kept

KernelInit ==
  /\ task = [t \in Tasks |->
       IF t = InitTid \/ t \in Outsiders
         THEN [NoTask EXCEPT !.st = "live", !.tgid = t, !.files = 1]
         ELSE NoTask]
  /\ clones = 0
  /\ inflight = {}

\* A running task makes an intercepted syscall, a worker receives it, and the
\* task blocks on the answer.
Trap(t) ==
  /\ Alive(t) /\ task[t].pc = "user" /\ t \notin inflight
  /\ Cardinality(inflight) < Workers
  /\ inflight' = inflight \cup {t}
  /\ UNCHANGED <<kernel, registry, lock>>

\* Tids grow until they wrap around.
NewTid(c) == /\ task[c].st = "none"
             /\ TidReuse \/ \A t \in Tids : task[t].st # "none" => t < c

\* The task a clone of p creates under the tid c.
NewTask(p, c, kind) ==
  IF kind = "thread"
    THEN [NoTask EXCEPT !.st = "live", !.tgid = task[p].tgid,
                        !.ppid = task[p].ppid, !.files = task[p].files]
    ELSE [NoTask EXCEPT !.st = "live", !.tgid = c, !.ppid = task[p].tgid,
                        !.files = IF kind = "files" THEN task[p].files
                                                    ELSE clones + 2]

\* The continued clone creates c.
KernelClone(p, c, kind) ==
  /\ Alive(p) /\ task[p].pc = (IF kind = "thread" THEN "thread" ELSE "clone")
  /\ NewTid(c) /\ c \notin inflight
  /\ clones < MaxClones
  /\ clones' = clones + 1
  /\ task' = [task EXCEPT ![p] = Continued(p, "user"),
                          ![c] = NewTask(p, c, kind)]
  /\ UNCHANGED <<inflight, registry, lock>>

\* The continued clone fails (process limit, memory).
KernelCloneFails(p) ==
  /\ Alive(p) /\ task[p].pc \in {"clone", "thread"}
  /\ task' = [task EXCEPT ![p] = Continued(p, "user")]
  /\ UNCHANGED <<clones, inflight, registry, lock>>

KernelExit(t) ==
  /\ Alive(t) /\ task[t].pc = "exit"
  /\ task' = Stopped(task[t].tgid, {t})
  /\ UNCHANGED <<clones, inflight, registry, lock>>

KernelExitGroup(t) ==
  /\ Alive(t) /\ task[t].pc = "exit_group"
  /\ task' = Stopped(task[t].tgid, Group(task[t].tgid))
  /\ InFlightAfter(Group(task[t].tgid))
  /\ UNCHANGED <<clones, registry, lock>>

\* A fatal signal: the group dies without an exit notification.
KernelKill(g) ==
  /\ Signals
  /\ \E t \in Group(g) : Alive(t)
  /\ task' = Stopped(g, Group(g))
  /\ InFlightAfter(Group(g))
  /\ UNCHANGED <<clones, registry, lock>>

KernelReap(g) ==
  /\ task[g].st = "zombie" /\ Group(g) = {g}
  /\ task' = [task EXCEPT ![g] = Gone]
  /\ UNCHANGED <<clones, inflight, registry, lock>>

-----------------------------------------------------------------------------
(* Threads: the arenas and register_child.                                 *)

\* The copies deep_clone can make of a table: entries whose dup fails are
\* left out.
deep_clone(table) == IF DupMayFail THEN SUBSET table ELSE {table}

\* Mutant: sharing a slot takes no reference.
acquire_missing(arena, id) == arena

acquire(arena, id) ==
  [arena EXCEPT ![id] = [value |-> @.value, refs |-> @.refs + 1]]

\* handle_thread_exit of every thread of V: each one releases its references,
\* the last one frees the slot.
FdUsers(id, V) == {t \in V : thread[t].fdt = id}
FsUsers(id, V) == {t \in V : thread[t].fsi = id}
\* Mutant: one reference too many is given back.
release_extra(slot, users, free) ==
  IF users = {} THEN slot
  ELSE [value |-> slot.value, refs |-> slot.refs - Cardinality(users) - 1]
release(slot, users, free) ==
  LET left == slot.refs - Cardinality(users)
  IN  IF users = {} THEN slot
      ELSE IF left = 0 THEN free ELSE [value |-> slot.value, refs |-> left]

\* register_child(p, c, flags): flags are reduced to the two that matter,
\* THREAD and FILES (detect_clone_flags never reports FS).  useSnapshots is
\* FALSE while adoption keeps init's queue aside.
register_child(p, c, isThread, sharesFiles, useSnapshots) ==
  LET share_files == isThread \/ sharesFiles
      share_fs    == isThread
      consume     == useSnapshots /\ ~(share_files /\ share_fs)
                       /\ snapshots[p] # <<>>
      p_fdt == thread[p].fdt
      p_fsi == thread[p].fsi
      fdt   == IF share_files THEN p_fdt ELSE nextFdt
      fsi   == IF share_fs THEN p_fsi ELSE nextFsi
  IN  /\ share_files \/ nextFdt \in Ids
      /\ share_fs \/ nextFsi \in Ids
      /\ snapshots' = IF consume THEN [snapshots EXCEPT ![p] = Tail(@)]
                                 ELSE snapshots
      /\ IF share_files
           THEN /\ fdTables' = acquire(fdTables, p_fdt)
                /\ nextFdt' = nextFdt
           ELSE \E table \in IF consume THEN {Head(snapshots[p]).fd}
                             ELSE deep_clone(fdTables[p_fdt].value) :
                  /\ fdTables' = [fdTables EXCEPT
                                    ![nextFdt] = [value |-> table, refs |-> 1]]
                  /\ nextFdt' = nextFdt + 1
      /\ IF share_fs
           THEN /\ fsInfos' = acquire(fsInfos, p_fsi)
                /\ nextFsi' = nextFsi
           ELSE /\ fsInfos' = [fsInfos EXCEPT
                     ![nextFsi] = [value |-> IF consume
                                               THEN Head(snapshots[p]).cwd
                                               ELSE fsInfos[p_fsi].value,
                                   refs |-> 1]]
                /\ nextFsi' = nextFsi + 1
      /\ reg' = reg \cup {c}
      /\ thread' = [thread EXCEPT
           ![c] = [tgid |-> IF isThread THEN thread[p].tgid ELSE c,
                   parent |-> p, fdt |-> fdt, fsi |-> fsi]]

-----------------------------------------------------------------------------
(* get_or_sync, sync_new_threads and the recursion of ensure_registered.   *)

\* The caller was looked up: the body of the handler runs.
Ready == mode = "sync" /\ todo = {} /\ stack = <<>>

Depth == Len(stack)
Top == stack[Depth]
Pop == SubSeq(stack, 1, Depth - 1)

\* Mutant: the group is read where the parent belongs.
Frame_tgid(t, adopt) == [tid |-> t, adopt |-> adopt, ptid |-> task[t].tgid,
                         tgid |-> task[t].tgid, up |-> "untried"]

\* An activation: status(t) was read, `up` tells how the parent fared.
Frame(t, adopt) == [tid |-> t, adopt |-> adopt, ptid |-> task[t].ppid,
                    tgid |-> task[t].tgid, up |-> "untried"]

\* The activation ends in an error: its caller learns that the parent is not
\* known.
FailTop(s) == IF s = <<>> THEN s ELSE [s EXCEPT ![Len(s)].up = "failed"]

\* Mutant: the lookup of the caller visits all of /proc.
Begin_all(t) ==
  /\ mode = "free" /\ t \in inflight
  /\ mode' = "sync" /\ caller' = t
  /\ todo' = {u \in Tasks : Visible(u)} \ reg
  /\ stack' = <<>>
  /\ UNCHANGED <<kernel, inflight, registry>>

\* A handler takes the mutex and looks its caller up.
Begin(t) ==
  /\ mode = "free" /\ t \in inflight
  /\ mode' = "sync" /\ caller' = t
  /\ todo' = {t} \ reg
  /\ stack' = <<>>
  /\ UNCHANGED <<kernel, inflight, registry>>

EnsureWith(t, adopt) ==
  /\ mode # "free" /\ stack = <<>> /\ t \in todo
  /\ todo' = todo \ {t}
  /\ stack' = IF t \notin reg /\ Visible(t) THEN <<Frame(t, adopt)>> ELSE <<>>
  /\ UNCHANGED <<kernel, inflight, registry, mode, caller>>

\* Mutants: every tid of a scan may be adopted; no task may.
ensure_registered_adopt(t) == EnsureWith(t, TRUE)
ensure_registered_refuse(t) == EnsureWith(t, FALSE)

\* ensure_registered(t) is called from get_or_sync or sync_new_threads.
ensure_registered(t) == EnsureWith(t, mode = "sync")

\* Mutant: the failure of the parent is not noticed.
ensure_parent_again ==
  /\ stack # <<>> /\ Top.up = "untried" /\ Top.ptid \notin reg
  /\ stack' = IF Top.ptid # Host /\ Visible(Top.ptid)
                THEN Append(stack, Frame(Top.ptid, FALSE))
                ELSE stack
  /\ UNCHANGED <<kernel, inflight, registry, mode, caller, todo>>

\* The parent is not in the map: recurse into it, without adoption.
ensure_parent ==
  /\ stack # <<>> /\ Top.up = "untried" /\ Top.ptid \notin reg
  /\ stack' = IF Top.ptid # Host /\ Visible(Top.ptid)
                THEN Append(stack, Frame(Top.ptid, FALSE))
                ELSE FailTop(stack)
  /\ UNCHANGED <<kernel, inflight, registry, mode, caller, todo>>

\* Mutant: the group is compared with the parent's tid.
register_known_ptid ==
  /\ stack # <<>> /\ Top.ptid \in reg
  /\ register_child(Top.ptid, Top.tid, Top.tgid # Top.ptid,
                    shares_fd_table(Top.ptid, Top.tid), TRUE)
  /\ stack' = Pop
  /\ UNCHANGED <<kernel, inflight, mode, caller, todo>>

\* The parent is known: infer the clone flags and register.
register_known ==
  /\ stack # <<>> /\ Top.ptid \in reg
  /\ register_child(Top.ptid, Top.tid, Top.tgid # Top.tid,
                    shares_fd_table(Top.ptid, Top.tid), TRUE)
  /\ stack' = Pop
  /\ UNCHANGED <<kernel, inflight, mode, caller, todo>>

\* The parent is outside the sandbox and the task notified: adopt it, as a
\* thread of its group or under init.
adopt_orphan ==
  /\ stack # <<>> /\ Top.up = "failed" /\ Top.ptid \notin reg /\ Top.adopt
  /\ LET ofGroup == Top.tgid # Top.tid /\ Top.tgid \in reg
     IN  \/ /\ ofGroup
            /\ register_child(Top.tgid, Top.tid, TRUE, FALSE, TRUE)
         \/ /\ ~ofGroup /\ InitTid \in reg
            /\ register_child(InitTid, Top.tid, FALSE, FALSE, FALSE)
         \/ /\ ~ofGroup /\ InitTid \notin reg
            /\ UNCHANGED registry
  /\ stack' = Pop
  /\ UNCHANGED <<kernel, inflight, mode, caller, todo>>

\* The parent is outside the sandbox and the tid came from a scan: refuse.
not_in_sandbox ==
  /\ stack # <<>> /\ Top.up = "failed" /\ Top.ptid \notin reg /\ ~Top.adopt
  /\ stack' = FailTop(Pop)
  /\ UNCHANGED <<kernel, inflight, registry, mode, caller, todo>>

\* sync_new_threads starts: every task /proc lists, the host's included.
sync_new_threads ==
  /\ Ready
  /\ mode' = "scan"
  /\ todo' = {t \in Tasks : Visible(t)} \ reg
  /\ UNCHANGED <<kernel, inflight, registry, caller, stack>>

-----------------------------------------------------------------------------
(* The handlers, once their caller was looked up.  Each one replies and    *)
(* drops the mutex.  For a caller the registry could not find it changes   *)
(* nothing (sys_query) and, but for clone, the guest gets an error.        *)

Answer(pc) ==
  /\ inflight' = inflight \ {caller}
  /\ task' = IF Alive(caller)
               THEN [task EXCEPT ![caller] = Continued(caller, pc)]
               ELSE task
  /\ mode' = "free" /\ caller' = InitTid
  /\ todo' = {} /\ stack' = <<>>
  /\ UNCHANGED clones

\* Handlers that only read the registry (getpid, getcwd, stat ...), and the
\* end of a /proc scan.
sys_query ==
  /\ \/ Ready
     \/ mode = "scan" /\ todo = {} /\ stack = <<>>
  /\ Answer("user")
  /\ UNCHANGED registry

\* Handlers that change the caller's fd table through fd_table_mut.
sys_fd(table) ==
  /\ Ready /\ caller \in reg
  /\ Answer("user")
  /\ fdTables' = [fdTables EXCEPT ![thread[caller].fdt].value = table]
  /\ UNCHANGED <<reg, thread, fsInfos, snapshots, nextFdt, nextFsi>>

sys_chdir(d) ==
  /\ Ready /\ caller \in reg
  /\ Answer("user")
  /\ fsInfos' = [fsInfos EXCEPT ![thread[caller].fsi].value = d]
  /\ UNCHANGED <<reg, thread, fdTables, snapshots, nextFdt, nextFsi>>

\* snapshot_fork: the parent's table and cwd, queued; the oldest is dropped
\* when the queue is over its bound.
Bounded_off(q) == IF Len(q) > QueueBound + 1 THEN Tail(q) ELSE q  \* Mutant
Bounded(q) == IF Len(q) > QueueBound THEN Tail(q) ELSE q
snapshot_fork(p, table) ==
  snapshots' = [snapshots EXCEPT ![p] =
    Bounded(Append(@, [fd |-> table, cwd |-> fsInfos[thread[p].fsi].value]))]

sys_clone(kind) ==
  /\ Ready
  /\ IF kind = "thread" \/ caller \notin reg
       THEN UNCHANGED snapshots
       ELSE \E table \in deep_clone(fdTables[thread[caller].fdt].value) :
              snapshot_fork(caller, table)
  /\ Answer(IF kind = "thread" THEN "thread" ELSE "clone")
  /\ UNCHANGED <<reg, thread, arenas>>

\* Mutant: the children keep their parent.
handle_exit_orphans(V) ==
  /\ reg' = reg \ V
  /\ thread' = [t \in Tasks |-> IF t \in V THEN NoThread ELSE thread[t]]
  /\ fdTables' = [id \in Ids |-> release(fdTables[id], FdUsers(id, V), FreeTable)]
  /\ fsInfos' = [id \in Ids |-> release(fsInfos[id], FsUsers(id, V), FreeInfo)]
  /\ snapshots' = [t \in Tasks |-> IF t \in V THEN <<>> ELSE snapshots[t]]
  /\ UNCHANGED <<nextFdt, nextFsi>>

\* handle_thread_exit / handle_group_exit: the threads of V leave the map.
handle_exit(V) ==
  /\ reg' = reg \ V
  /\ thread' = [t \in Tasks |->
       IF t \in V THEN NoThread
       ELSE IF t \in reg /\ thread[t].parent \in V
              THEN [thread[t] EXCEPT !.parent = InitTid]
              ELSE thread[t]]
  /\ fdTables' = [id \in Ids |-> release(fdTables[id], FdUsers(id, V), FreeTable)]
  /\ fsInfos' = [id \in Ids |-> release(fsInfos[id], FsUsers(id, V), FreeInfo)]
  /\ snapshots' = [t \in Tasks |-> IF t \in V THEN <<>> ELSE snapshots[t]]
  /\ UNCHANGED <<nextFdt, nextFsi>>

\* exit and exit_group look nothing up: one step with the mutex held.
Exit(t, pc, V) ==
  /\ mode = "free" /\ t \in inflight
  /\ inflight' = inflight \ {t}
  /\ task' = IF Alive(t) THEN [task EXCEPT ![t] = Continued(t, pc)]
                         ELSE task
  /\ handle_exit(V)
  /\ UNCHANGED <<clones, lock>>

sys_exit(t) == Exit(t, "exit", {t} \cap reg)

\* Mutant: the children of the caller leave with its group.
sys_exit_group_children(t) ==
  Exit(t, "exit_group",
       IF t \in reg THEN {u \in reg : \/ thread[u].tgid = thread[t].tgid
                                     \/ thread[u].parent = t} ELSE {})

sys_exit_group(t) ==
  Exit(t, "exit_group",
       IF t \in reg THEN {u \in reg : thread[u].tgid = thread[t].tgid} ELSE {})

-----------------------------------------------------------------------------
Init ==
  /\ KernelInit
  /\ reg = {InitTid}
  /\ thread = [t \in Tasks |-> IF t = InitTid
       THEN [tgid |-> InitTid, parent |-> Host, fdt |-> 1, fsi |-> 1]
       ELSE NoThread]
  /\ fdTables = [id \in Ids |-> IF id = 1 THEN [value |-> {}, refs |-> 1]
                                          ELSE FreeTable]
  /\ fsInfos = [id \in Ids |-> IF id = 1 THEN [value |-> RootCwd, refs |-> 1]
                                         ELSE FreeInfo]
  /\ snapshots = [t \in Tasks |-> <<>>]
  /\ nextFdt = 2 /\ nextFsi = 2
  /\ mode = "free" /\ caller = InitTid
  /\ todo = {} /\ stack = <<>>

Kernel ==
  \/ \E t \in Tids : Trap(t)
  \/ \E p, c \in Tids, kind \in CloneKinds : KernelClone(p, c, kind)
  \/ \E p \in Tids : KernelCloneFails(p)
  \/ \E t \in Tids : KernelExit(t) \/ KernelExitGroup(t)
  \/ \E g \in Tids : KernelKill(g) \/ KernelReap(g)

\* The steps of the worker that holds the mutex: what is left to do for it is
\* bounded and needs no one else.
Handler ==
  \/ \E t \in Tasks : ensure_registered(t)
  \/ ensure_parent
  \/ register_known
  \/ adopt_orphan
  \/ not_in_sandbox
  \/ sync_new_threads
  \/ sys_query
  \/ \E table \in Tables : sys_fd(table)
  \/ \E d \in Cwds : sys_chdir(d)
  \/ \E kind \in CloneKinds : sys_clone(kind)

Next ==
  \/ Kernel
  \/ Handler
  \/ \E t \in Tids : Begin(t) \/ sys_exit(t) \/ sys_exit_group(t)

Spec == Init /\ [][Next]_vars
FairSpec == Spec /\ WF_vars(Handler)

-----------------------------------------------------------------------------
(* Properties.                                                             *)

Thread == [tgid : Tasks \cup {Host}, parent : Tasks \cup {Host},
           fdt : Ids \cup {NoId}, fsi : Ids \cup {NoId}]

Task == [st : {"none", "live", "zombie", "gone"}, tgid : Tasks \cup {Host},
         ppid : Tids \cup {Host}, files : Nat,
         pc : {"user", "clone", "thread", "exit", "exit_group"}]

Activation == [tid : Tasks, adopt : BOOLEAN, ptid : Tids \cup {Host},
               tgid : Tasks, up : {"untried", "failed"}]

Slot(S) == [value : S, refs : Nat]

KernelTypeOK ==
  /\ task \in [Tasks -> Task]
  /\ clones \in Nat
  /\ inflight \subseteq Tids

RegistryTypeOK ==
  /\ reg \subseteq Tasks
  /\ thread \in [Tasks -> Thread]
  /\ fdTables \in [Ids -> Slot(Tables)]
  /\ fsInfos \in [Ids -> Slot(Cwds)]
  /\ snapshots \in [Tasks -> Seq(Snapshot)]
  /\ nextFdt \in Nat /\ nextFsi \in Nat

LockTypeOK ==
  /\ mode \in {"free", "sync", "scan"}
  /\ caller \in Tids
  /\ todo \subseteq Tasks
  /\ stack \in Seq(Activation)

\* Every variable has its type.
TypeOK == KernelTypeOK /\ RegistryTypeOK /\ LockTypeOK

\* The reference count of every arena slot is the number of registered threads
\* that use it (acquire/release in register_child and handle_thread_exit).  An
\* unregistered table is freed, and no registered thread points at a freed one:
\* `self.fd_tables[&id]` in snapshot_fork and register_child would panic with
\* the state mutex held.
RefsExact ==
  /\ \A id \in Ids :
       /\ fdTables[id].refs = Cardinality(FdUsers(id, reg))
       /\ fsInfos[id].refs = Cardinality(FsUsers(id, reg))
  /\ \A t \in reg : thread[t].fdt # NoId /\ thread[t].fsi # NoId

\* The parent of a registered thread is registered, or it is init (children of
\* a thread that left are handed to init, handle_thread_exit): ns_ppid never
\* reports the pid of a task that left the sandbox.
ParentsKnown ==
  \A t \in reg : t # InitTid => thread[t].parent \in reg \cup {InitTid}

\* Fork snapshots are only held for registered parents, at most QueueBound
\* each: the descriptors they pin are released with the parent.
SnapshotsOwned ==
  \A t \in Tasks : /\ Len(snapshots[t]) <= QueueBound
                   /\ snapshots[t] # <<>> => t \in reg

\* A scan of /proc never brings a task of the host into the sandbox: only
\* tasks whose ancestors reach a registered thread register without a
\* notification (sync_new_threads, ensure_registered with adopt = false).
NoOutsiders == reg \cap Outsiders = {}

\* A task that notified and still runs is known to the registry when its
\* handler proceeds, orphan or not, as long as init is registered: refusing it
\* would fail every syscall it makes with ESRCH.
NotifierServed ==
  Ready /\ Alive(caller) /\ InitTid \in reg => caller \in reg

\* No task is twice on the recursion of ensure_registered, although tasks exit
\* and parents change between its reads of /proc.
RecursionWellFounded ==
  \A i, j \in 1..Depth : stack[i].tid = stack[j].tid => i = j

\* A handler that took the state mutex gives it back: the recursion and the
\* scan end, whatever the task tree does meanwhile.
HandlerReturns == (mode # "free") ~> (mode = "free")

\* A thread's registered group is the kernel's: getpid and /proc show the pid
\* of the process the thread belongs to.
GroupTruth == \A t \in reg : Alive(t) => thread[t].tgid = task[t].tgid

\* Two live tasks use one tracked table only if the kernel shares their
\* descriptor tables: a child's redirects do not reach its parent's table.
TablesIsolated ==
  \A t, u \in reg : Alive(t) /\ Alive(u) /\ thread[t].fdt = thread[u].fdt
                      => task[t].files = task[u].files

\* A live task that has not asked to exit keeps its registration.
LiveKeepsEntry ==
  [][\A t \in reg : t \notin reg' =>
        ~Alive(t) \/ task'[t].pc \in {"exit", "exit_group"}]_vars

-----------------------------------------------------------------------------
(* The inductive invariant behind RefsExact, SnapshotsOwned, ParentsKnown, *)
(* NoOutsiders and RecursionWellFounded when tids are not reused.          *)

\* A parent is older than its children and a leader older than its threads:
\* tids grow.  The tasks of the host descend from the host.
TreeOrdered ==
  /\ \A t \in Tids : Visible(t) => task[t].tgid \in Tids /\ task[t].tgid <= t
  /\ \A t \in Tids : task[t].ppid = Host \/ task[t].ppid < t
  /\ \A t \in Outsiders : task[t].ppid = Host /\ task[t].tgid = t

\* Ids are handed out in order: a slot at or above the counter is unused.
IdsFresh ==
  /\ nextFdt >= 1 /\ nextFsi >= 1
  /\ \A t \in reg : thread[t].fdt < nextFdt /\ thread[t].fsi < nextFsi

\* The registry follows the kernel: tables are shared exactly where it shares
\* them, and tasks are grouped as it groups them (shares_fd_table, register_child).
KernelTruth == TablesIsolated /\ GroupTruth

\* The recursion climbs to ever older tasks, none of them registered yet, and
\* only the task that notified may be adopted.
StackOrdered ==
  /\ \A i \in 1..Len(stack) :
       /\ stack[i].tid \notin reg
       /\ stack[i].ptid = Host \/ stack[i].ptid < stack[i].tid
       /\ stack[i].tid \in Outsiders => stack[i].ptid = Host /\ ~stack[i].adopt
  /\ \A i, j \in 1..Len(stack) : i < j => stack[j].tid < stack[i].tid
  /\ mode = "sync" => todo \subseteq Tids

IInv == /\ TypeOK /\ TreeOrdered
        /\ RefsExact /\ IdsFresh /\ StackOrdered
        /\ SnapshotsOwned /\ ParentsKnown /\ NoOutsiders
=============================================================================
