------------------------------ MODULE GuestFds ------------------------------
(***************************************************************************)
(* The descriptors of one guest process: the table the supervisor tracks   *)
(* (virt/fs/fd_table.rs) next to the table the kernel keeps, under the     *)
(* handlers of supervisor.rs.                                              *)
(*                                                                         *)
(* Every number is handed out by the kernel (addfd_auto).  A handler works *)
(* under the state mutex; if it replies "continue" the kernel runs the     *)
(* call later, while the other threads of the process go on.  A thread     *)
(* traps, is handled, and returns or has its call run by the kernel.       *)
(***************************************************************************)
EXTENDS Integers, FiniteSets

CONSTANTS
  Threads,       \* threads of the process
  Real,          \* files with a backing descriptor (overlay files, pipes, sockets)
  Virtual,       \* /proc files, served from memory
  Own,           \* files the kernel creates on its own (stdio, epoll, timerfd)
  Placeholder,   \* the /dev/null that reserves a virtual file's number
  NoFile, NoCall, NoThread,
  Std,           \* how many standard streams a guest starts with (3)
  Limit,         \* RLIMIT_NOFILE of the guest
  MaxVfd,        \* bound: numbers the tracked table can hold
  Calls,         \* the calls the guest makes
  Stress         \* what the guest or its environment does beyond the ordinary

Creates == {"openat", "socket", "create", "dup", "dupfd", "pipe2", "socketpair"}

ASSUME GuestFdsAssumption ==
  /\ Std \in Nat \ {0} /\ Limit \in Nat /\ Limit >= Std
  /\ MaxVfd \in Nat /\ MaxVfd >= Limit
  /\ Calls \subseteq Creates \cup {"dup2", "dup3", "close", "close_range", "setfd",
                                  "cloexec_range", "exec"}
  /\ Stress \subseteq {"dup2_virtual",   \* dup2 or dup3 of a /proc file
                       "setfd_virtual",  \* fcntl(F_SETFD) of a /proc file
                       "stdio_fcntl",    \* fcntl on a tracked standard stream
                       "addfd_fails",    \* a signal ends the wait, or EMFILE
                       "refused",        \* the kernel refuses a continued call
                       "racing"}         \* threads race for the same numbers
  /\ Real \cap Virtual = {} /\ Real \cap Own = {} /\ Virtual \cap Own = {}
  /\ Placeholder \notin Real \cup Virtual \cup Own
  /\ NoFile \notin Real \cup Virtual \cup Own \cup {Placeholder}
  /\ NoThread \notin Threads

Fds == 0..Limit - 1
Vfds == 0..MaxVfd
NoFd == MaxVfd + 1
Stdio == 0..Std - 1
Files == Real \cup Virtual \cup Own

VARIABLES
  ktable,    \* the kernel's table: number -> [file, cloexec]   (external)
  alive,     \* threads of the process                          (external)
  call,      \* thread -> the call it waits for, and how far it is
  vtable,    \* FdTable.open_files: number -> FdEntry
  next_vfd,  \* FdTable.next_vfd
  pipe       \* the pipe2 handler that holds the state mutex between two addfds

kernel == <<ktable, alive>>
tracked == <<vtable, next_vfd>>
vars == <<kernel, call, tracked, pipe>>

NoEntry == [file |-> NoFile, cloexec |-> FALSE]
FdEntry(f, cx) == [file |-> f, cloexec |-> cx]
NoPipe == [by |-> NoThread, read |-> NoFile, write |-> NoFile, fd |-> NoFd]
Nothing == [n \in Vfds |-> NoEntry]

\* A call: its arguments, whether the kernel has it, and the tracked entries
\* its handler dropped (a history of the handler, read by the mapping only).
TrackedEntry == [file : Real \cup Virtual \cup {NoFile}, cloexec : BOOLEAN]
CallRecord ==
  [op : Creates \cup {"dup2", "dup3", "close", "close_range", "setfd",
                      "cloexec_range", "exec"},
   fd : Vfds, fd2 : Vfds, cx : BOOLEAN, at : {"trap", "addfd", "kernel"},
   was : [Vfds -> TrackedEntry]]
ASSUME NoCallAssumption == NoCall \notin CallRecord

Trapped(op, fd, fd2, cx) ==
  [op |-> op, fd |-> fd, fd2 |-> fd2, cx |-> cx, at |-> "trap", was |-> Nothing]

Handling(t, op) == /\ call[t] # NoCall /\ call[t].op = op /\ call[t].at = "trap"
                   /\ pipe = NoPipe
InKernel(t, op) == /\ call[t] # NoCall /\ call[t].op = op /\ call[t].at = "kernel"
                   /\ t \in alive

Returned(t) == call' = [call EXCEPT ![t] = NoCall]
reply_continue(t, was) ==
  call' = [call EXCEPT ![t] = [@ EXCEPT !.at = "kernel", !.was = was]]
Continues(t) == reply_continue(t, Nothing) /\ UNCHANGED <<kernel, tracked, pipe>>

-----------------------------------------------------------------------------
(* The two tables.                                                         *)

HasVfd(n) == vtable[n].file # NoFile
Backing(f) == IF f \in Virtual THEN Placeholder ELSE f

KFree(n) == ktable[n] = NoEntry
Lowest(n) == n \in Fds /\ KFree(n) /\ \A m \in Fds : m < n => ~KFree(m)

\* A file nothing refers to: a new one.
Fresh(f) ==
  /\ \A n \in Vfds : vtable[n].file # f
  /\ \A n \in Fds : ktable[n].file # f
  /\ \A t \in Threads : call[t] # NoCall => \A n \in Vfds : call[t].was[n].file # f
  /\ f \notin {pipe.read, pipe.write}

\* addfd_auto fails when a signal ended the wait of the notification's task (the
\* call is then restarted) or the guest's table is full.
AddfdFails(t) == \/ "addfd_fails" \in Stress
                 \/ t \notin alive

Max2(a, b) == IF a > b THEN a ELSE b

\* Mutant: the counter is not moved past the number.
insert_at_low(n, f, cx) ==
  /\ n \in Vfds
  /\ vtable' = [vtable EXCEPT ![n] = FdEntry(f, cx)]
  /\ next_vfd' = IF n > next_vfd THEN n + 1 ELSE next_vfd

\* Mutant: what is installed in the guest is tracked, not the file.
insert_at_backing(n, f, cx) ==
  /\ n \in Vfds
  /\ vtable' = [vtable EXCEPT ![n] = FdEntry(Backing(f), cx)]
  /\ next_vfd' = Max2(next_vfd, n + 1)

\* insert_at, dup_at.
insert_at(n, f, cx) ==
  /\ n \in Vfds
  /\ vtable' = [vtable EXCEPT ![n] = FdEntry(f, cx)]
  /\ next_vfd' = Max2(next_vfd, n + 1)

\* insert, dup: the table's own numbering.
insert(f, cx) ==
  /\ next_vfd \in Vfds
  /\ vtable' = [vtable EXCEPT ![next_vfd] = FdEntry(f, cx)]
  /\ next_vfd' = next_vfd + 1

Install(n, f, cx) == ktable' = [ktable EXCEPT ![n] = FdEntry(Backing(f), cx)]

\* addfd_auto (or addfd_placeholder) and the insertion under the same number.
addfd_auto(t, f, cx) ==
  /\ t \in alive
  /\ \E n \in Fds : Lowest(n) /\ Install(n, f, cx) /\ insert_at(n, f, cx)
  /\ UNCHANGED alive

\* The fallback the code keeps for tests without a guest.
addfd_fallback(t, f, cx) == AddfdFails(t) /\ insert(f, cx) /\ UNCHANGED kernel

remove(S) == vtable' = [n \in Vfds |-> IF n \in S THEN NoEntry ELSE vtable[n]]
Removed(S) == [n \in Vfds |-> IF n \in S THEN vtable[n] ELSE NoEntry]

-----------------------------------------------------------------------------
(* The guest traps.  Without "racing" its threads keep off the numbers the *)
(* others' calls name, as a correct program does; the other words of       *)
(* Stress lift one restriction each.                                       *)

Names(c) == IF c.op \in {"dup2", "dup3", "close", "setfd", "dup", "dupfd"}
              THEN {c.fd, c.fd2}
            ELSE IF c.at = "addfd" THEN {pipe.fd} ELSE {}

IsOpen(n) == n \in Fds /\ ~KFree(n)

\* Calls that leave no room for another one: they work on many numbers, or on
\* a number that a call of another thread might be given.
Alone(c) == \/ c.op \in {"close_range", "cloexec_range", "exec"}
            \/ \E n \in Names(c) : ~IsOpen(n)

InFlight(t) == {call[u] : u \in {v \in Threads \ {t} : call[v] # NoCall}}

Disciplined(t, c) ==
  \/ "racing" \in Stress
  \/ /\ \A d \in InFlight(t) : Names(c) \cap Names(d) = {}
     /\ Alone(c) => InFlight(t) = {}

MayCall(t) == /\ t \in alive /\ call[t] = NoCall
              /\ "racing" \in Stress \/ \A d \in InFlight(t) : ~Alone(d)

Needing(t, c, ops) == Cardinality({u \in Threads : u # t /\ call[u] # NoCall
                                                 /\ call[u].op \in ops})
                      + (IF c.op \in ops THEN 1 ELSE 0)
FitsLimit(t, c) ==
  Needing(t, c, Creates) + Needing(t, c, {"pipe2", "socketpair"})
    <= Cardinality({n \in Fds : KFree(n)})

Ordinary(t, c) ==
  LET f == vtable[c.fd].file
      is_dup2 == c.op \in {"dup2", "dup3"}
  IN  /\ is_dup2 /\ f \in Virtual /\ c.fd # c.fd2 => "dup2_virtual" \in Stress
      /\ c.op = "setfd" /\ f \in Virtual => "setfd_virtual" \in Stress
      /\ c.op = "setfd" /\ c.fd \in Stdio /\ f # NoFile
           => "stdio_fcntl" \in Stress
      /\ c.op = "dupfd" /\ c.fd \in Stdio /\ f \in Virtual
           => "stdio_fcntl" \in Stress
      /\ is_dup2 /\ ~IsOpen(c.fd) => "refused" \in Stress
      /\ is_dup2 /\ c.fd2 \notin Fds => "addfd_fails" \in Stress
      /\ c.op \in Creates /\ ~FitsLimit(t, c) => "addfd_fails" \in Stress

Trap(t, op, fd, fd2, cx) ==
  LET c == Trapped(op, fd, fd2, cx)
  IN  /\ op \in Calls
      /\ Disciplined(t, c) /\ Ordinary(t, c)
      /\ call' = [call EXCEPT ![t] = c]
      /\ UNCHANGED <<kernel, tracked, pipe>>

-----------------------------------------------------------------------------
(* The handlers.                                                           *)

sys_openat(t) ==
  /\ Handling(t, "openat")
  /\ \E f \in Real \cup Virtual :
       /\ Fresh(f)
       /\ addfd_auto(t, f, call[t].cx) \/ addfd_fallback(t, f, call[t].cx)
  /\ Returned(t)
  /\ UNCHANGED pipe

\* register_kernel_fd has no fallback: the new descriptor is dropped.
register_kernel_fd(t) ==
  \E f \in Real :
    /\ Fresh(f)
    /\ \/ addfd_auto(t, f, call[t].cx)
       \/ AddfdFails(t) /\ UNCHANGED <<kernel, tracked>>

\* socket, eventfd2, and the second end of a socketpair.
sys_socket(t) ==
  /\ Handling(t, "socket")
  /\ register_kernel_fd(t)
  /\ Returned(t)
  /\ UNCHANGED pipe

\* The mutex is dropped between the two ends.
sys_socketpair(t) ==
  /\ Handling(t, "socketpair")
  /\ register_kernel_fd(t)
  /\ call' = [call EXCEPT ![t] = IF tracked' # tracked
                                   THEN [@ EXCEPT !.op = "socket"] ELSE NoCall]
  /\ UNCHANGED pipe

\* pipe2: both addfds with the mutex held, the kernel moves between them.
sys_pipe2(t) ==
  /\ Handling(t, "pipe2")
  /\ \E f, g \in Real :
       /\ f # g /\ Fresh(f) /\ Fresh(g)
       /\ \/ \E n \in Fds :
               /\ t \in alive /\ Lowest(n)
               /\ Install(n, f, call[t].cx)
               /\ pipe' = [by |-> t, read |-> f, write |-> g, fd |-> n]
          \/ /\ AddfdFails(t)
             /\ pipe' = [by |-> t, read |-> f, write |-> g, fd |-> NoFd]
             /\ UNCHANGED ktable
  /\ call' = [call EXCEPT ![t] = [@ EXCEPT !.at = "addfd"]]
  /\ UNCHANGED <<alive, tracked>>

insert_two(r, w, cx) ==
  /\ r \in Vfds /\ w \in Vfds
  /\ vtable' = [vtable EXCEPT ![r] = FdEntry(pipe.read, cx),
                              ![w] = FdEntry(pipe.write, cx)]
  /\ next_vfd' = Max2(next_vfd, Max2(r, w) + 1)

\* Mutant: the numbers are inserted in the other order.
pipe2_second_swapped(t) ==
  /\ pipe.by = t
  /\ \E n \in Fds :
       /\ t \in alive /\ Lowest(n) /\ pipe.fd # NoFd
       /\ Install(n, pipe.write, call[t].cx)
       /\ insert_two(n, pipe.fd, call[t].cx)
  /\ pipe' = NoPipe
  /\ Returned(t)
  /\ UNCHANGED alive

pipe2_second(t) ==
  /\ pipe.by = t
  /\ \/ \E n \in Fds :
          /\ t \in alive /\ Lowest(n)
          /\ Install(n, pipe.write, call[t].cx)
          /\ IF pipe.fd # NoFd THEN insert_two(pipe.fd, n, call[t].cx)
                               ELSE insert_two(next_vfd, next_vfd + 1, call[t].cx)
     \/ /\ AddfdFails(t)
        /\ insert_two(next_vfd, next_vfd + 1, call[t].cx)
        /\ UNCHANGED ktable
  /\ pipe' = NoPipe
  /\ Returned(t)
  /\ UNCHANGED alive

\* dup, and F_DUPFD / F_DUPFD_CLOEXEC, which continue on stdio.
sys_dup(t) ==
  LET c == call[t]
      f == vtable[c.fd].file
  IN  /\ Handling(t, "dup") \/ Handling(t, "dupfd")
      /\ IF f = NoFile \/ (c.op = "dupfd" /\ c.fd \in Stdio)
           THEN Continues(t)
           ELSE /\ addfd_auto(t, f, c.cx) \/ addfd_fallback(t, f, c.cx)
                /\ Returned(t)
                /\ UNCHANGED pipe

dup_onto(t, o, n, cx) ==
  LET f == vtable[o].file
  IN  IF f = NoFile
        THEN /\ remove({n})
             /\ reply_continue(t, Removed({n}))
             /\ UNCHANGED <<kernel, next_vfd, pipe>>
        ELSE /\ IF o = n THEN UNCHANGED <<kernel, tracked>>
                ELSE /\ insert_at(n, f, cx)
                     /\ \/ /\ f \in Real /\ n \in Fds /\ t \in alive
                           /\ Install(n, f, cx)
                        \/ /\ f \in Virtual \/ n \notin Fds \/ AddfdFails(t)
                           /\ UNCHANGED ktable
                     /\ UNCHANGED alive
             /\ Returned(t)
             /\ UNCHANGED pipe

sys_dup2(t) ==
  /\ Handling(t, "dup2")
  /\ dup_onto(t, call[t].fd, call[t].fd2, FALSE)

sys_dup3(t) ==
  /\ Handling(t, "dup3")
  /\ IF call[t].fd = call[t].fd2
       THEN Returned(t) /\ UNCHANGED <<kernel, tracked, pipe>>   \* EINVAL
       ELSE dup_onto(t, call[t].fd, call[t].fd2, call[t].cx)

\* Mutant: the entry stays tracked.
sys_close_keeps(t) == Handling(t, "close") /\ Continues(t)

\* Mutant: a virtual file is closed without the kernel.
sys_close_virtual(t) ==
  /\ Handling(t, "close")
  /\ remove({call[t].fd})
  /\ IF vtable[call[t].fd].file \in Virtual
       THEN Returned(t) ELSE reply_continue(t, Removed({call[t].fd}))
  /\ UNCHANGED <<kernel, next_vfd, pipe>>

sys_close(t) ==
  /\ Handling(t, "close")
  /\ remove({call[t].fd})
  /\ reply_continue(t, Removed({call[t].fd}))
  /\ UNCHANGED <<kernel, next_vfd, pipe>>

FdRange(t) == call[t].fd .. call[t].fd2

sys_close_range(t) ==
  /\ Handling(t, "close_range")
  /\ remove(FdRange(t))
  /\ reply_continue(t, Removed(FdRange(t)))
  /\ UNCHANGED <<kernel, next_vfd, pipe>>

set_cloexec(S, cx) ==
  vtable' = [n \in Vfds |-> IF n \in S /\ HasVfd(n)
                              THEN FdEntry(vtable[n].file, cx) ELSE vtable[n]]

\* close_range(CLOSE_RANGE_CLOEXEC)
sys_cloexec_range(t) ==
  /\ Handling(t, "cloexec_range")
  /\ set_cloexec(FdRange(t), TRUE)
  /\ reply_continue(t, Nothing)
  /\ UNCHANGED <<kernel, next_vfd, pipe>>

\* Mutant: a backed file's flag is only kept in the tracked table.
sys_setfd_local(t) ==
  /\ Handling(t, "setfd")
  /\ IF HasVfd(call[t].fd) /\ call[t].fd \notin Stdio
       THEN set_cloexec({call[t].fd}, call[t].cx) /\ Returned(t)
            /\ UNCHANGED <<kernel, next_vfd, pipe>>
       ELSE Continues(t)

\* fcntl(F_SETFD): stdio and unknown numbers continue, a backed file is marked
\* in both tables, a virtual one in the tracked table.
sys_setfd(t) ==
  LET fd == call[t].fd
  IN  /\ Handling(t, "setfd")
      /\ IF fd \in Stdio \/ ~HasVfd(fd) THEN Continues(t)
         ELSE /\ set_cloexec({fd}, call[t].cx)
              /\ IF vtable[fd].file \in Virtual THEN Returned(t)
                                                ELSE reply_continue(t, Nothing)
              /\ UNCHANGED <<kernel, next_vfd, pipe>>

sys_execve(t) ==
  LET doomed == {n \in Vfds : vtable[n].cloexec}   \* remove_cloexec
  IN  /\ Handling(t, "exec")
      /\ remove(doomed)
      /\ reply_continue(t, Removed(doomed))
      /\ UNCHANGED <<kernel, next_vfd, pipe>>

\* Calls without a handler (epoll_create1, timerfd_create, memfd_create ...).
unhandled(t) == Handling(t, "create") /\ Continues(t)

-----------------------------------------------------------------------------
(* The kernel runs the calls that were continued.                          *)

KernelDone(t) == Returned(t) /\ UNCHANGED <<alive, tracked, pipe>>

KernelClose(t) ==
  /\ InKernel(t, "close") \/ InKernel(t, "close_range")
  /\ ktable' = [n \in Fds |-> IF n \in call[t].fd .. call[t].fd2 THEN NoEntry
                                                               ELSE ktable[n]]
  /\ KernelDone(t)

KernelSetCloexec(t) ==
  /\ InKernel(t, "setfd") \/ InKernel(t, "cloexec_range")
  /\ ktable' = [n \in Fds |-> IF n \in call[t].fd .. call[t].fd2 /\ ~KFree(n)
                                THEN FdEntry(ktable[n].file, call[t].cx)
                                ELSE ktable[n]]
  /\ KernelDone(t)

\* F_DUPFD bounds the new number from below.
KernelDup(t) ==
  /\ InKernel(t, "dup") \/ InKernel(t, "dupfd")
  /\ \/ \E n \in Fds :
          /\ IsOpen(call[t].fd) /\ KFree(n)
          /\ call[t].op = "dup" => Lowest(n)
          /\ ktable' = [ktable EXCEPT ![n] =
                          FdEntry(ktable[call[t].fd].file, call[t].cx)]
     \/ ~IsOpen(call[t].fd) /\ UNCHANGED ktable
  /\ KernelDone(t)

KernelDup2(t) ==
  LET o == call[t].fd   n == call[t].fd2
  IN  /\ InKernel(t, "dup2") \/ InKernel(t, "dup3")
      /\ ktable' = IF IsOpen(o) /\ n \in Fds /\ o # n
                     THEN [ktable EXCEPT ![n] = FdEntry(ktable[o].file,
                                          call[t].op = "dup3" /\ call[t].cx)]
                     ELSE ktable
      /\ KernelDone(t)

KernelCreate(t) ==
  /\ InKernel(t, "create")
  /\ \E n \in Fds, f \in Own :
       /\ Lowest(n) /\ Fresh(f)
       /\ ktable' = [ktable EXCEPT ![n] = FdEntry(f, call[t].cx)]
  /\ KernelDone(t)

\* The other threads end; a notification a worker has is still handled.
KernelExec(t) ==
  /\ InKernel(t, "exec")
  /\ ktable' = [n \in Fds |-> IF ktable[n].cloexec THEN NoEntry ELSE ktable[n]]
  /\ alive' = {t}
  /\ \E kept \in SUBSET {u \in Threads \ {t} : call[u] # NoCall
                                            /\ call[u].at # "kernel"} :
       /\ pipe.by \in kept \cup {NoThread}
       /\ call' = [u \in Threads |-> IF u \in kept THEN call[u] ELSE NoCall]
  /\ UNCHANGED <<tracked, pipe>>

KernelRefuses(t) ==
  /\ "refused" \in Stress
  /\ InKernel(t, "exec")
  /\ UNCHANGED ktable
  /\ KernelDone(t)

\* A thread joins the process (CLONE_THREAD).
KernelSpawn(t) ==
  /\ t \notin alive /\ call[t] = NoCall
  /\ alive' = alive \cup {t}
  /\ UNCHANGED <<ktable, call, tracked, pipe>>

-----------------------------------------------------------------------------
Init ==
  /\ \E tty \in Own :
       ktable = [n \in Fds |-> IF n \in Stdio THEN FdEntry(tty, FALSE) ELSE NoEntry]
  /\ alive = Threads
  /\ call = [t \in Threads |-> NoCall]
  /\ vtable = Nothing
  /\ next_vfd = Std
  /\ pipe = NoPipe

\* dup3 and dupfd (F_DUPFD_CLOEXEC) are made with the flag, dup2 and dup without.
GuestCall(t) ==
  /\ MayCall(t)
  /\ \/ \E cx \in BOOLEAN, op \in {"openat", "socket", "create", "pipe2", "socketpair"} :
          Trap(t, op, 0, 0, cx)
     \/ \E n \in Fds :
          \/ Trap(t, "close", n, n, FALSE)
          \/ Trap(t, "dup", n, n, FALSE)
          \/ Trap(t, "dupfd", n, n, TRUE)
          \/ \E cx \in BOOLEAN : Trap(t, "setfd", n, n, cx)
          \/ \E m \in Vfds : Trap(t, "dup2", n, m, FALSE) \/ Trap(t, "dup3", n, m, TRUE)
          \/ Trap(t, "close_range", n, MaxVfd, FALSE)
          \/ Trap(t, "cloexec_range", n, MaxVfd, TRUE)
     \/ Trap(t, "exec", 0, 0, FALSE)

Handler(t) ==
  \/ sys_openat(t) \/ sys_socket(t) \/ sys_socketpair(t)
  \/ sys_pipe2(t) \/ pipe2_second(t)
  \/ sys_dup(t) \/ sys_dup2(t) \/ sys_dup3(t)
  \/ sys_close(t) \/ sys_close_range(t) \/ sys_cloexec_range(t) \/ sys_setfd(t)
  \/ sys_execve(t) \/ unhandled(t)

Kernel(t) ==
  \/ KernelClose(t) \/ KernelSetCloexec(t) \/ KernelDup(t) \/ KernelDup2(t)
  \/ KernelCreate(t) \/ KernelExec(t) \/ KernelRefuses(t) \/ KernelSpawn(t)

Next == \E t \in Threads : GuestCall(t) \/ Handler(t) \/ Kernel(t)

Spec == Init /\ [][Next]_vars

-----------------------------------------------------------------------------
(* Properties.                                                             *)

\* Every variable has its type.
TypeOK ==
  /\ ktable \in [Fds -> [file : Files \cup {Placeholder, NoFile}, cloexec : BOOLEAN]]
  /\ alive \subseteq Threads
  /\ call \in [Threads -> CallRecord \cup {NoCall}]
  /\ vtable \in [Vfds -> TrackedEntry]
  /\ next_vfd \in Std .. MaxVfd + 1
  /\ pipe \in [by : Threads \cup {NoThread}, fd : Fds \cup {NoFd},
               read : Real \cup {NoFile}, write : Real \cup {NoFile}]

\* "Every tracked entry has a matching guest fd (real backing or the /dev/null
\* placeholder)" (sys_close): the number is open in the kernel's table and
\* refers to the entry's file.  Otherwise a file the kernel creates later takes
\* the number and the guest reads the old file through it, and the supervisor
\* keeps a pipe end the guest has closed, so that its reader never sees EOF.
Matching ==
  \A n \in Vfds : HasVfd(n) => n \in Fds /\ ktable[n].file = Backing(vtable[n].file)

\* While no call is under way on it, a tracked number has the same close-on-exec
\* flag in both tables: exec drops it from both or from none (F_SETFD,
\* close_range and remove_cloexec).
CloexecMatches ==
  \A n \in Vfds \cap Fds :
    HasVfd(n) /\ vtable[n].cloexec # ktable[n].cloexec
      => \E t \in Threads : call[t] # NoCall /\ call[t].at = "kernel"
                              /\ n \in call[t].fd .. call[t].fd2

\* A placeholder is only reachable through a tracked entry, or a call that is
\* about to close or replace it: a guest never reads /dev/null in place of a
\* /proc file (addfd_placeholder).
PlaceholdersTracked ==
  \A n \in Fds : ktable[n].file = Placeholder =>
    \/ vtable[n].file \in Virtual
    \/ \E t \in Threads : call[t] # NoCall /\ call[t].was[n].file \in Virtual

\* The table's own numbering never hands out a number that is tracked already
\* (insert_at and dup_at keep next_vfd above them): insert would replace a live
\* file without closing the guest's side of it.
NumbersFresh == \A n \in Vfds : HasVfd(n) => n < next_vfd

\* What the guest sees: a tracked entry hides the kernel's; an entry a handler
\* dropped stays until the kernel ran the call.
Shown(n) ==
  LET dropped == {t \in Threads : call[t] # NoCall /\ call[t].was[n].file # NoFile}
      file == IF dropped # {} THEN call[CHOOSE t \in dropped : TRUE].was[n].file
              ELSE IF HasVfd(n) THEN vtable[n].file
              ELSE ktable[n].file
  IN  [file |-> file, cloexec |-> ktable[n].cloexec]

PosixOp(op) == CASE op \in {"openat", "socket", "create"}   -> "open"
                 [] op \in {"pipe2", "socketpair"}          -> "pair"
                 [] op \in {"dup", "dupfd"}                 -> "dup"
                 [] op \in {"dup2", "dup3"}                 -> "dup2"
                 [] op \in {"close", "close_range"}         -> "close"
                 [] op \in {"setfd", "cloexec_range"}       -> "cloexec"
                 [] op = "exec"                             -> "exec"

Asked(t) ==
  IF call[t] = NoCall \/ t \notin alive THEN NoCall
  ELSE [op |-> IF call[t].at = "addfd" THEN "open" ELSE PosixOp(call[t].op),
        fd |-> call[t].fd, fd2 |-> call[t].fd2, cx |-> call[t].cx]

Posix == INSTANCE PosixFds WITH
           Files <- Files, table <- [n \in Fds |-> Shown(n)],
           want <- [t \in Threads |-> Asked(t)]
ASSUME AskedAssumption == NoCall \notin Posix!CallRecords

\* The two tables together are one POSIX descriptor table: every call of every
\* thread takes effect once, between its start and its return, with the number
\* and the file POSIX prescribes.
ImplementsPosix == Posix!Spec

\* The tracked and the kernel's table agree on files, on flags and on which numbers
\* are placeholders (sys_openat, sys_close, sys_fcntl).
TablesAgree == TypeOK /\ Matching /\ CloexecMatches /\ PlaceholdersTracked
=============================================================================
