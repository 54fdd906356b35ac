---------------------------- MODULE Supervisor ----------------------------
(***************************************************************************)
(* The notification loop of the supervisor (supervisor.rs: run, recv,      *)
(* handle) and the handlers that can block: reads (read_blocking), socket  *)
(* receives (recv_blocking) and writes (write_to_sink, send_to, connect).  *)
(*                                                                         *)
(* One thread receives notifications and hands each to a pool of workers   *)
(* over a channel without a buffer.  A worker answers its notification     *)
(* itself.  The kernel takes a notification back when a signal ends the    *)
(* wait of its task, at any moment; the call is then restarted with a new  *)
(* notification.  All blocking calls use one pipe; a peer may feed it.     *)
(***************************************************************************)
EXTENDS Integers, Sequences, FiniteSets, SequencesExt

CONSTANTS
  Tasks, NoTask,   \* guest tasks
  Blockers,   \* the tasks that make calls that can block
  Workers,    \* the pool: MAX_INFLIGHT threads
  MaxId,      \* bound: notification ids in use at a time
  Blocking,   \* the blocking calls made: "read", "recv", "write"
  Capacity,   \* bound: what the pipe holds
  Peer,       \* TRUE iff something outside the guest writes to the pipe
  Signals     \* TRUE iff guest tasks get signals that do not kill them

ASSUME SupervisorAssumption ==
  /\ Blockers \subseteq Tasks /\ NoTask \notin Tasks
  /\ IsFiniteSet(Tasks) /\ IsFiniteSet(Workers)
  /\ MaxId \in Nat /\ MaxId > Cardinality(Tasks) + Cardinality(Workers)
  /\ Blocking \subseteq {"read", "recv", "write"}
  /\ Capacity \in Nat \ {0}
  /\ Peer \in BOOLEAN /\ Signals \in BOOLEAN

Ids == 1..MaxId
NoId == 0
NoNotif == [id |-> NoId, task |-> NoTask, op |-> "none"]

VARIABLES
  task,     \* task -> its state and pending notification   (external)
  queue,    \* the tasks whose notifications were not received yet (external)
  pipe,     \* how much the pipe holds                       (external)
  reader,   \* the receiving thread: where it is and the notification it has
  worker    \* worker -> where it is, its notification

vars == <<task, queue, pipe, reader, worker>>

Calls(t) == {"other"} \cup IF t \in Blockers THEN Blocking ELSE {}

-----------------------------------------------------------------------------
(* The kernel: tasks, notifications, the pipe.                             *)

Running == [st |-> "user", id |-> NoId, op |-> "none"]
Gone == [st |-> "gone", id |-> NoId, op |-> "none"]
Alive(t) == task[t].st # "gone"
AllGone == \A t \in Tasks : ~Alive(t)

\* The notification with this id was received and its task still waits for it.
id_valid(i) == \E t \in Tasks : task[t].st = "taken" /\ task[t].id = i

Used == {task[t].id : t \in Tasks} \cup {reader.notif.id}
          \cup {worker[w].notif.id : w \in Workers}

\* The kernel's ids only grow: one that nothing refers to any more stands for
\* the next one.
NextId == CHOOSE i \in Ids \ Used : \A j \in Ids \ Used : i <= j

Trap(t, op) ==
  /\ task[t].st = "user" /\ op \in Calls(t)
  /\ task' = [task EXCEPT ![t] = [st |-> "queued", id |-> NextId, op |-> op]]
  /\ queue' = Append(queue, t)
  /\ UNCHANGED <<pipe, reader, worker>>

\* A task waits for one notification at most.
Without(t) ==
  IF \E i \in 1..Len(queue) : queue[i] = t
    THEN RemoveAt(queue, CHOOSE i \in 1..Len(queue) : queue[i] = t)
    ELSE queue

\* A signal ends the wait; the task will make its call again.
Interrupt(t) ==
  /\ Signals /\ task[t].st \in {"queued", "taken"}
  /\ task' = [task EXCEPT ![t] = Running]
  /\ queue' = Without(t)
  /\ UNCHANGED <<pipe, reader, worker>>

\* One task ends, or the guest tree is killed.
End(t) ==
  /\ Signals /\ Alive(t)
  /\ task' = [task EXCEPT ![t] = Gone]
  /\ queue' = Without(t)
  /\ UNCHANGED <<pipe, reader, worker>>

KillAll ==
  /\ ~AllGone
  /\ task' = [t \in Tasks |-> Gone]
  /\ queue' = <<>>
  /\ UNCHANGED <<pipe, reader, worker>>

PeerWrites ==
  /\ Peer /\ pipe < Capacity
  /\ pipe' = pipe + 1
  /\ UNCHANGED <<task, queue, reader, worker>>

-----------------------------------------------------------------------------
(* The receiving thread: run and recv.                                     *)

ReaderAt(pc) == reader.pc = pc
ReaderGoes(pc, n) == reader' = [pc |-> pc, notif |-> n]

\* poll: POLLIN with a notification in the queue, POLLHUP once all tasks ended.
poll ==
  /\ ReaderAt("poll")
  /\ \/ queue # <<>> /\ ReaderGoes("recv", NoNotif)
     \/ AllGone /\ ReaderGoes("join", NoNotif)
  /\ UNCHANGED <<task, queue, pipe, worker>>

\* Mutant: ENOENT is not told from success and the empty buffer is passed on.
recv_unchecked ==
  /\ ReaderAt("recv") /\ queue = <<>>
  /\ ReaderGoes("send", NoNotif)
  /\ UNCHANGED <<task, queue, pipe, worker>>

\* The RECV ioctl takes the oldest notification; ENOENT if there is none now.
recv ==
  /\ ReaderAt("recv")
  /\ \/ /\ queue # <<>>
        /\ LET t == Head(queue)
           IN  /\ task' = [task EXCEPT ![t] = [@ EXCEPT !.st = "taken"]]
               /\ ReaderGoes("send", [id |-> task[t].id, task |-> t,
                                       op |-> task[t].op])
        /\ queue' = Tail(queue)
     \/ /\ queue = <<>>
        /\ ReaderGoes("join", NoNotif)
        /\ UNCHANGED <<task, queue>>
  /\ UNCHANGED <<pipe, worker>>

Idle == [pc |-> "idle", notif |-> NoNotif]
Ended == [pc |-> "ended", notif |-> NoNotif]
Goes(w, pc) == worker' = [worker EXCEPT ![w] = [@ EXCEPT !.pc = pc]]

\* Mutant: the pool serves one notification at a time.
hand_over_serial(w) ==
  /\ ReaderAt("send") /\ \A v \in Workers : worker[v].pc = "idle"
  /\ worker' = [worker EXCEPT ![w] = [pc |-> "handle", notif |-> reader.notif]]
  /\ ReaderGoes("poll", NoNotif)
  /\ UNCHANGED <<task, queue, pipe>>

\* Mutant: the notification is queued again for the next worker.
hand_over_twice(w) ==
  /\ ReaderAt("send") /\ worker[w].pc = "idle"
  /\ worker' = [worker EXCEPT ![w] = [pc |-> "handle", notif |-> reader.notif]]
  /\ \/ ReaderGoes("poll", NoNotif)
     \/ UNCHANGED reader
  /\ UNCHANGED <<task, queue, pipe>>

\* tx.send meets rx.iter of an idle worker.
hand_over(w) ==
  /\ ReaderAt("send") /\ worker[w].pc = "idle"
  /\ worker' = [worker EXCEPT ![w] = [pc |-> "handle", notif |-> reader.notif]]
  /\ ReaderGoes("poll", NoNotif)
  /\ UNCHANGED <<task, queue, pipe>>

\* The loop is over: the channel closes and the workers are joined.
join ==
  /\ ReaderAt("join")
  /\ \A w \in Workers : worker[w].pc = "ended"
  /\ ReaderGoes("done", NoNotif)
  /\ UNCHANGED <<task, queue, pipe, worker>>

-----------------------------------------------------------------------------
(* The workers.                                                            *)

At(w, pc) == worker[w].pc = pc
Op(w) == worker[w].notif.op
Id(w) == worker[w].notif.id

Blocked == [read |-> "poll", recv |-> "try", write |-> "write", other |-> "reply"]

handle(w) ==
  /\ At(w, "handle")
  /\ Goes(w, Blocked[Op(w)])
  /\ UNCHANGED <<task, queue, pipe, reader>>

\* read_blocking: one slice of poll_readable, then the read or the check.
poll_readable(w) ==
  /\ At(w, "poll")
  /\ Goes(w, IF pipe > 0 THEN "read" ELSE "check")
  /\ UNCHANGED <<task, queue, pipe, reader>>

Takes(w) ==
  /\ pipe > 0
  /\ pipe' = pipe - 1
  /\ Goes(w, "reply")
  /\ UNCHANGED <<task, queue, reader>>

\* The read itself blocks when another reader was faster.
read(w) == At(w, "read") /\ Takes(w)

\* recv_blocking: receive without blocking, else wait a slice and check.
try_recv(w) ==
  /\ At(w, "try")
  /\ \/ Takes(w)
     \/ /\ pipe = 0
        /\ Goes(w, "check")
        /\ UNCHANGED <<task, queue, pipe, reader>>

\* Mutant: a slice is followed by the next one.
check_valid_never(w) ==
  /\ At(w, "check")
  /\ Goes(w, Blocked[Op(w)])
  /\ UNCHANGED <<task, queue, pipe, reader>>

\* The slice is over: EINTR if the notification is no longer valid.
check_valid(w) ==
  /\ At(w, "check")
  /\ Goes(w, IF id_valid(Id(w)) THEN Blocked[Op(w)] ELSE "reply")
  /\ UNCHANGED <<task, queue, pipe, reader>>

\* A write, a send or a connect blocks in the kernel.
write(w) ==
  /\ At(w, "write") /\ pipe < Capacity
  /\ pipe' = pipe + 1
  /\ Goes(w, "reply")
  /\ UNCHANGED <<task, queue, reader>>

Answered(w) ==
  task' = [t \in Tasks |-> IF task[t].st = "taken" /\ task[t].id = Id(w)
                             THEN Running ELSE task[t]]

\* The SEND ioctl; ENOENT is ignored.
send(w) ==
  /\ At(w, "reply")
  /\ Answered(w)
  /\ worker' = [worker EXCEPT ![w] = Idle]
  /\ UNCHANGED <<queue, pipe, reader>>

\* rx.iter ends with the channel.
worker_ends(w) ==
  /\ At(w, "idle") /\ reader.pc \in {"join", "done"}
  /\ worker' = [worker EXCEPT ![w] = Ended]
  /\ UNCHANGED <<task, queue, pipe, reader>>

-----------------------------------------------------------------------------
Init ==
  /\ task = [t \in Tasks |-> Running]
  /\ queue = <<>>
  /\ pipe = 0
  /\ reader = [pc |-> "poll", notif |-> NoNotif]
  /\ worker = [w \in Workers |-> Idle]

Kernel ==
  \/ \E t \in Tasks : (\E op \in Calls(t) : Trap(t, op)) \/ Interrupt(t) \/ End(t)
  \/ KillAll
  \/ PeerWrites

Work(w) ==
  \/ hand_over(w) \/ handle(w) \/ poll_readable(w) \/ read(w) \/ try_recv(w)
  \/ check_valid(w) \/ write(w) \/ send(w) \/ worker_ends(w)

Next == Kernel \/ poll \/ recv \/ join \/ \E w \in Workers : Work(w)

\* Every thread of the supervisor gets to run; nothing is asked of the guest.
Spec == /\ Init /\ [][Next]_vars
        /\ WF_vars(poll \/ recv \/ join)
        /\ \A w \in Workers : WF_vars(Work(w))

-----------------------------------------------------------------------------
(* Properties.                                                             *)

Notif == [id : Ids, task : Tasks, op : {"read", "recv", "write", "other"}]

\* Every variable has its type; exactly the threads that work on a notification
\* have one.
TypeOK ==
  /\ task \in [Tasks -> [st : {"user", "queued", "taken", "gone"},
                         id : Ids \cup {NoId},
                         op : {"read", "recv", "write", "other", "none"}]]
  /\ queue \in Seq(Tasks)
  /\ pipe \in 0..Capacity
  /\ reader.pc \in {"poll", "recv", "send", "join", "done"}
  /\ reader.notif \in IF reader.pc = "send" THEN Notif ELSE {NoNotif}
  /\ worker \in [Workers -> [pc : {"idle", "handle", "poll", "read", "try", "check",
                                   "write", "reply", "ended"},
                             notif : Notif \cup {NoNotif}]]
  /\ \A w \in Workers : worker[w].pc \in {"idle", "ended"} <=> worker[w].notif = NoNotif

\* A notification is in one pair of hands, and a task that waits for an answer
\* is in somebody's: no call is handled twice, none is forgotten.
Owners(i) == {w \in Workers : worker[w].notif.id = i}
OneOwner ==
  /\ \A i \in Ids : Cardinality(Owners(i)) + (IF reader.notif.id = i THEN 1 ELSE 0) <= 1
  /\ \A t \in Tasks : task[t].st = "taken" =>
       \/ reader.notif.id = task[t].id
       \/ Owners(task[t].id) # {}

\* A worker whose guest no longer waits (signalled or ended) comes back to the
\* pool: the slices of read_blocking and recv_blocking exist for that.  Only a
\* worker that is inside a plain read or write may stay there.
StaleFreed ==
  \A w \in Workers :
    (worker[w].notif.id \in Ids /\ ~id_valid(Id(w)))
      ~> (worker[w].pc \in {"idle", "ended", "read", "write"})

\* A call that cannot block is answered, whatever the others are blocked on, as
\* long as fewer tasks block than there are workers.
Served ==
  \A t \in Tasks : (task[t].op = "other") ~> (task[t].op # "other")

\* Supervisor::run returns once the guest is gone: all workers can be joined.
Teardown == AllGone ~> (reader.pc = "done")

\* "Run until the guest exits": the loop ends only when no task is left.
RunsUntilExit == reader.pc \in {"join", "done"} => AllGone

\* Every variable has its type, and every notification one handler (recv,
\* hand_over, reply).
Handled == TypeOK /\ OneOwner
=============================================================================
