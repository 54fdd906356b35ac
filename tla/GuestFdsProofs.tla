--------------------------- MODULE GuestFdsProofs ---------------------------
(***************************************************************************)
(* Proofs about the two descriptor tables of a guest process.              *)
(***************************************************************************)
EXTENDS GuestFds, TLAPS

-----------------------------------------------------------------------------
(* The table's own numbering.                                              *)

FreshInv == vtable = [n \in Vfds |-> vtable[n]] /\ next_vfd \in Nat /\ NumbersFresh

\* An entry is made under a number, and the counter is moved past it.
LEMMA InsertFresh ==
  ASSUME FreshInv, NEW n, NEW f, NEW cx, insert_at(n, f, cx)
  PROVE  FreshInv'
<1>1. n \in Vfds /\ n \in Nat
  BY GuestFdsAssumption DEF insert_at, Vfds
<1>2. /\ \A m \in Vfds : vtable'[m] = IF m = n THEN FdEntry(f, cx) ELSE vtable[m]
      /\ vtable' = [m \in Vfds |-> vtable'[m]]
  BY <1>1 DEF insert_at, FreshInv
<1>3. next_vfd' \in Nat /\ next_vfd' >= next_vfd /\ next_vfd' > n
  BY <1>1 DEF insert_at, Max2, FreshInv
<1>4. \A m \in Vfds : m \in Nat
  BY GuestFdsAssumption DEF Vfds
<1> QED
  BY <1>2, <1>3, <1>4 DEF FreshInv, NumbersFresh, HasVfd

\* The two ends of a pipe.
LEMMA InsertTwoFresh ==
  ASSUME FreshInv, NEW r, NEW w, NEW cx, insert_two(r, w, cx)
  PROVE  FreshInv'
<1>1. r \in Vfds /\ w \in Vfds /\ r \in Nat /\ w \in Nat
  BY GuestFdsAssumption DEF insert_two, Vfds
<1>2. /\ \A m \in Vfds : m # r /\ m # w => vtable'[m] = vtable[m]
      /\ vtable' = [m \in Vfds |-> vtable'[m]]
  BY <1>1 DEF insert_two, FreshInv
<1>3. next_vfd' \in Nat /\ next_vfd' >= next_vfd /\ next_vfd' > r /\ next_vfd' > w
  BY <1>1 DEF insert_two, Max2, FreshInv
<1>4. \A m \in Vfds : m \in Nat
  BY GuestFdsAssumption DEF Vfds
<1> QED
  BY <1>2, <1>3, <1>4 DEF FreshInv, NumbersFresh, HasVfd

\* The table's own numbering takes the counter's number.
LEMMA InsertNextFresh ==
  ASSUME FreshInv, NEW f, NEW cx, insert(f, cx)
  PROVE  FreshInv'
<1>1. /\ \A m \in Vfds : m # next_vfd => vtable'[m] = vtable[m]
      /\ vtable' = [m \in Vfds |-> vtable'[m]]
  BY DEF insert, FreshInv
<1>2. next_vfd' = next_vfd + 1 /\ next_vfd \in Nat
  BY DEF insert, FreshInv
<1>3. \A m \in Vfds : m \in Nat
  BY GuestFdsAssumption DEF Vfds
<1> QED
  BY <1>1, <1>2, <1>3 DEF FreshInv, NumbersFresh, HasVfd

\* No step gives out a number, and entries only go.
LEMMA RemoveFresh ==
  ASSUME FreshInv, UNCHANGED next_vfd,
         vtable' = vtable \/ (\E S : remove(S)) \/ (\E S, cx : set_cloexec(S, cx))
  PROVE  FreshInv'
<1>1. \A n \in Vfds : HasVfd(n)' => HasVfd(n)
  BY DEF HasVfd, remove, set_cloexec, NoEntry, FdEntry
<1>2. vtable' = [n \in Vfds |-> vtable'[n]]
  BY DEF FreshInv, remove, set_cloexec
<1> QED
  BY <1>1, <1>2 DEF FreshInv, NumbersFresh

LEMMA FreshStep == FreshInv /\ [Next]_vars => FreshInv'
<1> SUFFICES ASSUME FreshInv, [Next]_vars PROVE FreshInv'
  OBVIOUS
<1>1. ASSUME NEW t \in Threads, GuestCall(t) PROVE FreshInv'
  <2>1. UNCHANGED tracked
    BY <1>1 DEF GuestCall, Trap
  <2> QED
    BY <2>1, RemoveFresh DEF tracked
<1>2. ASSUME NEW t \in Threads, NEW f, NEW cx, addfd_auto(t, f, cx) \/ addfd_fallback(t, f, cx)
      PROVE  FreshInv'
  BY <1>2, InsertFresh, InsertNextFresh DEF addfd_auto, addfd_fallback
<1>3. ASSUME NEW t \in Threads, register_kernel_fd(t) PROVE FreshInv'
  BY <1>2, <1>3, RemoveFresh DEF register_kernel_fd, tracked
<1>4. ASSUME NEW t \in Threads, NEW o, NEW n, NEW cx, dup_onto(t, o, n, cx) PROVE FreshInv'
  <2>1. CASE vtable[o].file = NoFile
    BY <1>4, <2>1, RemoveFresh DEF dup_onto
  <2>2. CASE vtable[o].file # NoFile /\ o = n
    BY <1>4, <2>2, RemoveFresh DEF dup_onto, tracked
  <2>3. CASE vtable[o].file # NoFile /\ o # n
    BY <1>4, <2>3, InsertFresh DEF dup_onto
  <2> QED
    BY <2>1, <2>2, <2>3
<1>5. ASSUME NEW t \in Threads, Handler(t) PROVE FreshInv'
  <2>1. CASE sys_openat(t) \/ sys_dup(t)
    BY <1>2, <2>1, RemoveFresh DEF sys_openat, sys_dup, Continues, tracked
  <2>2. CASE sys_socket(t) \/ sys_socketpair(t)
    BY <1>3, <2>2 DEF sys_socket, sys_socketpair
  <2>3. CASE sys_pipe2(t) \/ unhandled(t)
    BY <2>3, RemoveFresh DEF sys_pipe2, unhandled, Continues, tracked
  <2>4. CASE pipe2_second(t)
    BY <2>4, InsertTwoFresh DEF pipe2_second
  <2>5. CASE sys_dup2(t) \/ sys_dup3(t)
    BY <1>4, <2>5, RemoveFresh DEF sys_dup2, sys_dup3, tracked
  <2>6. CASE sys_close(t) \/ sys_close_range(t) \/ sys_cloexec_range(t) \/ sys_setfd(t) \/ sys_execve(t)
    BY <2>6, RemoveFresh
    DEF sys_close, sys_close_range, sys_cloexec_range, sys_setfd, sys_execve, Continues, tracked
  <2> QED
    BY <1>5, <2>1, <2>2, <2>3, <2>4, <2>5, <2>6 DEF Handler
<1>6. ASSUME NEW t \in Threads, Kernel(t) PROVE FreshInv'
  <2>1. UNCHANGED tracked
    BY <1>6 DEF Kernel, KernelClose, KernelSetCloexec, KernelDup, KernelDup2, KernelCreate,
                KernelExec, KernelRefuses, KernelSpawn, KernelDone
  <2> QED
    BY <2>1, RemoveFresh DEF tracked
<1>7. CASE UNCHANGED vars
  BY <1>7, RemoveFresh DEF vars, tracked
<1> QED
  BY <1>1, <1>5, <1>6, <1>7 DEF Next

\* The table's own numbering never hands out a number that is tracked already,
\* whatever the guest does beyond the ordinary (insert, insert_at, dup_at).
THEOREM NumbersAlwaysFresh == Spec => []NumbersFresh
<1>1. Init => FreshInv
  <2> SUFFICES ASSUME Init PROVE FreshInv
    OBVIOUS
  <2>1. vtable = [n \in Vfds |-> vtable[n]] /\ \A n \in Vfds : ~HasVfd(n)
    BY DEF Init, Nothing, HasVfd, NoEntry
  <2> QED
    BY <2>1, GuestFdsAssumption DEF Init, FreshInv, NumbersFresh
<1>2. FreshInv => NumbersFresh
  BY DEF FreshInv
<1> QED
  BY <1>1, <1>2, FreshStep, PTL DEF Spec
-----------------------------------------------------------------------------
(* The two tables, for a guest that makes ordinary calls: Stress = {}.     *)

Big == {"close_range", "cloexec_range", "exec"}
One == {"close", "setfd", "dup", "dupfd"}
Two == {"dup2", "dup3"}
None == {"openat", "socket", "create", "pipe2", "socketpair"}

InFlightNow(t) == call[t] # NoCall

\* The arguments of a call are what its operation needs.
ArgsOK(c) ==
  /\ c.op \in One => c.fd = c.fd2 /\ c.fd \in Fds
  /\ c.op \in Two => c.fd \in Fds /\ c.fd2 \in Fds /\ IsOpen(c.fd)
  /\ c.op = "cloexec_range" => c.cx
  /\ c.op = "dup2" => ~c.cx
  /\ c.at = "addfd" => c.op = "pipe2"
  /\ c.at = "kernel" => c.op \notin None \ {"create"}

\* What a call waits with: the entries its handler dropped are on their way out
\* of the kernel's table.
DroppedOK(c) ==
  \A n \in Vfds : c.was[n].file # NoFile =>
    /\ c.at = "kernel" /\ n \in Fds
    /\ \/ c.op \in {"close", "close_range"} /\ n \in c.fd .. c.fd2
       \/ c.op \in Two /\ n = c.fd2 /\ c.fd # c.fd2
       \/ c.op = "exec" /\ ktable[n].cloexec

\* The guest keeps to ordinary calls from the trap to the handler.
TrapOK(c) ==
  c.at = "trap" =>
    /\ c.op \in Two /\ c.fd # c.fd2 => vtable[c.fd].file \notin Virtual
    /\ c.op = "setfd" => vtable[c.fd].file \notin Virtual /\ (c.fd \in Stdio => ~HasVfd(c.fd))
    /\ c.op = "dupfd" /\ c.fd \in Stdio => vtable[c.fd].file \notin Virtual

\* The tracked table is ahead of the kernel's by the calls the kernel still has.
KernelOK(c) ==
  c.at = "kernel" =>
    /\ c.op \in Two => ~HasVfd(c.fd) /\ ~HasVfd(c.fd2)
    /\ c.op \in {"dup", "dupfd"} => vtable[c.fd].file \notin Virtual
    /\ c.op \in {"close", "close_range"} => \A n \in Vfds : n \in c.fd .. c.fd2 => ~HasVfd(n)
    /\ c.op \in {"setfd", "cloexec_range"} =>
         \A n \in Vfds : n \in c.fd .. c.fd2 /\ HasVfd(n) => vtable[n].cloexec = c.cx
    /\ c.op = "exec" => \A n \in Vfds : HasVfd(n) => ~vtable[n].cloexec

CallOK(c) == ArgsOK(c) /\ DroppedOK(c) /\ TrapOK(c) /\ KernelOK(c)
CallsOK == \A t \in Threads : InFlightNow(t) => t \in alive /\ CallOK(call[t])

\* Threads keep off each other's numbers.
Apart ==
  \A t, u \in Threads : t # u /\ InFlightNow(t) /\ InFlightNow(u) =>
    /\ Names(call[t]) \cap Names(call[u]) = {}
    /\ call[t].op \notin Big
    /\ \A n \in Names(call[t]) : IsOpen(n)

\* The first end of a pipe is in the kernel's table only.
PipeOK ==
  /\ \A t \in Threads : InFlightNow(t) => (call[t].at = "addfd" <=> t = pipe.by)
  /\ pipe # NoPipe =>
       /\ pipe.by \in Threads /\ InFlightNow(pipe.by)
       /\ pipe.read \in Real /\ pipe.write \in Real /\ pipe.fd \in Fds
       /\ ~HasVfd(pipe.fd) /\ ktable[pipe.fd] = FdEntry(pipe.read, call[pipe.by].cx)

\* What the tables say of one number.  A flag differs between them only until the
\* kernel has set it.
MatchAt(n) == HasVfd(n) => n \in Fds /\ ktable[n].file = Backing(vtable[n].file)
FlagAt(n) ==
  n \in Fds /\ HasVfd(n) /\ vtable[n].cloexec # ktable[n].cloexec =>
    \E t \in Threads : /\ InFlightNow(t) /\ call[t].at = "kernel"
                       /\ call[t].op \in {"setfd", "cloexec_range"}
                       /\ n \in call[t].fd .. call[t].fd2
PlaceAt(n) ==
  n \in Fds /\ ktable[n].file = Placeholder =>
    \/ vtable[n].file \in Virtual
    \/ \E t \in Threads : InFlightNow(t) /\ call[t].was[n].file \in Virtual
AgreeAt(n) == MatchAt(n) /\ FlagAt(n) /\ PlaceAt(n)

FdInv == TypeOK /\ CallsOK /\ Apart /\ PipeOK /\ \A n \in Vfds : AgreeAt(n)

LEMMA Numbers ==
  /\ Fds \subseteq Vfds /\ Vfds \subseteq Nat /\ 0 \in Fds /\ NoFd \notin Vfds
  /\ \A n \in Fds : n + 1 \in 0 .. MaxVfd + 1
BY GuestFdsAssumption DEF Fds, Vfds, NoFd

LEMMA NamesOf ==
  ASSUME NEW c
  PROVE  /\ c.op \in One \cup Two => Names(c) = {c.fd, c.fd2}
         /\ c.op \notin One \cup Two /\ c.at = "addfd" => Names(c) = {pipe.fd}
         /\ c.op \notin One \cup Two /\ c.at # "addfd" => Names(c) = {}
BY DEF Names, One, Two

\* A call of another thread is about other numbers than those a step touches.
LEMMA CallStable ==
  ASSUME NEW d \in CallRecord, CallOK(d), d.op \notin Big, NEW M,
         \A n \in Vfds \ M : vtable'[n] = vtable[n],
         \A n \in Fds \ M : ktable'[n] = ktable[n],
         d.op \in One \cup Two => d.fd \notin M /\ d.fd2 \notin M
  PROVE  CallOK(d)'
<1>1. d.fd \in Vfds /\ d.fd2 \in Vfds
  BY DEF CallRecord
<1>2. d.op \in One \cup Two => /\ vtable'[d.fd] = vtable[d.fd]
                               /\ vtable'[d.fd2] = vtable[d.fd2]
  BY <1>1
<1>3. ArgsOK(d)'
  BY DEF CallOK, ArgsOK, IsOpen, KFree, One, Two
<1>4. DroppedOK(d)'
  BY DEF CallOK, DroppedOK, Big
<1>5. TrapOK(d)'
  BY <1>2 DEF CallOK, TrapOK, HasVfd, One, Two
<1>6. KernelOK(d)'
  <2> SUFFICES ASSUME d.at = "kernel" PROVE KernelOK(d)'
    BY DEF KernelOK
  <2>1. d.op \in Two => ~HasVfd(d.fd)' /\ ~HasVfd(d.fd2)'
    BY <1>2 DEF CallOK, KernelOK, HasVfd, Two
  <2>2. d.op \in {"dup", "dupfd"} => vtable'[d.fd].file \notin Virtual
    BY <1>2 DEF CallOK, KernelOK, One
  <2>3. d.op \in One => \A n \in Vfds : n \in d.fd .. d.fd2 => n = d.fd
    <3>1. d.op \in One => d.fd = d.fd2
      BY DEF CallOK, ArgsOK
    <3>2. d.fd \in Nat /\ Vfds \subseteq Nat
      BY <1>1, Numbers
    <3>3. \A n \in Nat : n \in d.fd .. d.fd => n = d.fd
      BY <3>2
    <3> QED
      BY <3>1, <3>2, <3>3
  <2>4. d.op \in {"close", "close_range"} => \A n \in Vfds : n \in d.fd .. d.fd2 => ~HasVfd(n)'
    BY <1>1, <1>2, <2>3 DEF CallOK, KernelOK, HasVfd, One, Big
  <2>5. d.op \in {"setfd", "cloexec_range"} =>
          \A n \in Vfds : n \in d.fd .. d.fd2 /\ HasVfd(n)' => vtable'[n].cloexec = d.cx
    BY <1>1, <1>2, <2>3 DEF CallOK, KernelOK, HasVfd, One, Big
  <2>6. d.op # "exec"
    BY DEF Big
  <2> QED
    BY <2>1, <2>2, <2>4, <2>5, <2>6 DEF KernelOK
<1> QED
  BY <1>3, <1>4, <1>5, <1>6 DEF CallOK

\* A step of thread t: its call becomes c, and only numbers in M change.
Touches(t, c, M) ==
  /\ call' = [call EXCEPT ![t] = c]
  /\ alive' = alive
  /\ \A n \in Vfds \ M : vtable'[n] = vtable[n]
  /\ \A n \in Fds \ M : ktable'[n] = ktable[n]

\* No other thread's call names a number of M.
Unclaimed(t, M) ==
  \A u \in Threads \ {t} : InFlightNow(u) => Names(call[u]) \cap M = {}

\* The call c of t claims no number that others may name.
Claims(t, c, M) ==
  /\ c.op \in Big => call[t].op \in Big
  /\ \A n \in Names(c)' : \/ n \in Names(call[t]) /\ (IsOpen(n) => IsOpen(n)')
                          \/ n \in M /\ IsOpen(n)'

\* The numbers the call of t was under way on are all in M.
Covers(t, M) ==
  /\ \A n \in Vfds \ M : call[t].was[n].file = NoFile
  /\ call[t].at = "kernel" /\ call[t].op \in {"setfd", "cloexec_range"}
       => \A n \in Vfds : n \in call[t].fd .. call[t].fd2 => n \in M

LEMMA FdStep ==
  ASSUME FdInv, TypeOK', NEW t \in Threads, InFlightNow(t),
         NEW c \in CallRecord \cup {NoCall}, NEW M \in SUBSET Vfds,
         Touches(t, c, M), Unclaimed(t, M), Covers(t, M),
         pipe' = pipe \/ pipe = NoPipe \/ pipe.by = t,
         PipeOK',
         c # NoCall => CallOK(c)' /\ Claims(t, c, M),
         \A n \in M : AgreeAt(n)'
  PROVE  FdInv'
<1>1. /\ \A u \in Threads \ {t} : call'[u] = call[u]
      /\ call'[t] = c
  BY DEF Touches, FdInv, TypeOK
<1>2. \A u \in Threads : InFlightNow(u) => call[u] \in CallRecord
  BY DEF FdInv, TypeOK, InFlightNow
<1>3. ASSUME NEW u \in Threads \ {t}, InFlightNow(u)
      PROVE  /\ call[u].op \notin Big
             /\ Names(call[u]) \cap Names(call[t]) = {}
             /\ \A n \in Names(call[u]) : IsOpen(n) /\ n \notin M
  BY <1>3 DEF FdInv, Apart, Unclaimed
<1>4. ASSUME NEW u \in Threads \ {t}, InFlightNow(u)
      PROVE  /\ Names(call[u])' = Names(call[u])
             /\ \A n \in Names(call[u]) : IsOpen(n)'
  <2>1. call'[u] = call[u]
    BY <1>1
  <2>2. call[u].at = "addfd" => pipe' = pipe
    <3>1. call[u].at = "addfd" => pipe.by = u
      BY <1>4 DEF FdInv, PipeOK
    <3> QED
      BY <3>1, GuestFdsAssumption DEF NoPipe
  <2>3. Names(call[u])' = Names(call[u])
    BY <2>1, <2>2 DEF Names
  <2>4. \A n \in Names(call[u]) : IsOpen(n)'
    BY <1>3, <1>4 DEF Touches, IsOpen, KFree
  <2> QED
    BY <2>3, <2>4
<1>5. ASSUME NEW u \in Threads \ {t}, InFlightNow(u) PROVE CallOK(call[u])'
  <2>1. call'[u] = call[u] /\ call[u] \in CallRecord /\ CallOK(call[u])
    BY <1>1, <1>2, <1>5 DEF FdInv, CallsOK
  <2>2. call[u].op \in One \cup Two => call[u].fd \notin M /\ call[u].fd2 \notin M
    BY <1>3, <1>5, NamesOf
  <2> DEFINE d == call[u]
  <2>3. CallOK(d)' <=> CallOK(call[u])'
    BY <2>1 DEF CallOK, ArgsOK, DroppedOK, TrapOK, KernelOK
  <2>4. \A e \in CallRecord : CallOK(e) /\ e.op \notin Big
              /\ (e.op \in One \cup Two => e.fd \notin M /\ e.fd2 \notin M) => CallOK(e)'
    BY CallStable DEF Touches
  <2>5. \E e \in CallRecord : e = call[u] /\ CallOK(e)'
    BY <1>3, <1>5, <2>1, <2>2, <2>4
  <2> QED
    BY <2>1, <2>5 DEF CallOK, ArgsOK, DroppedOK, TrapOK, KernelOK
<1>6. CallsOK'
  <2> SUFFICES ASSUME NEW u \in Threads, InFlightNow(u)'
               PROVE  u \in alive' /\ CallOK(call[u])'
    BY DEF CallsOK
  <2>1. CASE u = t
    <3>1. c # NoCall /\ call'[u] = c
      BY <1>1, <2>1 DEF InFlightNow
    <3>2. t \in alive'
      BY DEF FdInv, CallsOK, Touches
    <3> QED
      BY <2>1, <3>1, <3>2 DEF CallOK, ArgsOK, DroppedOK, TrapOK, KernelOK
  <2>2. CASE u # t
    <3>1. InFlightNow(u)
      BY <1>1, <2>2 DEF InFlightNow
    <3>2. u \in alive'
      BY <3>1 DEF FdInv, CallsOK, Touches
    <3> QED
      BY <1>5, <2>2, <3>1, <3>2
  <2> QED
    BY <2>1, <2>2
<1>7. Apart'
  <2>1. \A u \in Threads \ {t} : InFlightNow(u)' <=> InFlightNow(u)
    BY <1>1 DEF InFlightNow
  <2>2. ASSUME NEW u \in Threads \ {t}, InFlightNow(u), c # NoCall
        PROVE  /\ c.op \notin Big
               /\ Names(c)' \cap Names(call[u]) = {}
               /\ \A n \in Names(c)' : IsOpen(n)'
    <3>1. call[t].op \notin Big /\ \A n \in Names(call[t]) : IsOpen(n)
      BY <2>2 DEF FdInv, Apart
    <3>2. Claims(t, c, M)
      BY <2>2
    <3> QED
      BY <1>3, <2>2, <3>1, <3>2 DEF Claims
  <2>3. call'[t] # NoCall => Names(call[t])' = Names(c)'
    BY <1>1 DEF Names
  <2> SUFFICES ASSUME NEW v \in Threads, NEW u \in Threads, v # u,
                      InFlightNow(v)', InFlightNow(u)'
               PROVE  /\ Names(call[v])' \cap Names(call[u])' = {}
                      /\ call'[v].op \notin Big
                      /\ \A n \in Names(call[v])' : IsOpen(n)'
    BY DEF Apart
  <2>4. CASE v = t
    BY <1>1, <1>4, <2>1, <2>2, <2>3, <2>4 DEF InFlightNow
  <2>5. CASE u = t
    BY <1>1, <1>3, <1>4, <2>1, <2>2, <2>3, <2>5 DEF InFlightNow
  <2>6. CASE v # t /\ u # t
    <3>1. /\ InFlightNow(v) /\ InFlightNow(u)
          /\ Names(call[v])' = Names(call[v]) /\ Names(call[u])' = Names(call[u])
      BY <1>4, <2>1, <2>6
    <3>2. Names(call[v]) \cap Names(call[u]) = {}
      BY <3>1 DEF FdInv, Apart
    <3> QED
      BY <1>1, <1>3, <1>4, <2>6, <3>1, <3>2
  <2> QED
    BY <2>4, <2>5, <2>6
<1>8. ASSUME NEW n \in Vfds \ M PROVE AgreeAt(n)'
  <2>1. vtable'[n] = vtable[n] /\ (n \in Fds => ktable'[n] = ktable[n])
    BY DEF Touches
  <2>2. AgreeAt(n)
    BY DEF FdInv
  <2>3. MatchAt(n)'
    BY <2>1, <2>2 DEF AgreeAt, MatchAt, HasVfd
  <2>4. FlagAt(n)'
    <3> SUFFICES ASSUME n \in Fds, HasVfd(n)', vtable'[n].cloexec # ktable'[n].cloexec
                 PROVE  FlagAt(n)'
      BY DEF FlagAt
    <3>1. PICK u \in Threads : /\ InFlightNow(u) /\ call[u].at = "kernel"
                               /\ call[u].op \in {"setfd", "cloexec_range"}
                               /\ n \in call[u].fd .. call[u].fd2
      BY <2>1, <2>2 DEF AgreeAt, FlagAt, HasVfd
    <3>2. u # t
      BY <3>1 DEF Covers
    <3> QED
      BY <1>1, <3>1, <3>2 DEF FlagAt, InFlightNow
  <2>5. PlaceAt(n)'
    <3> SUFFICES ASSUME n \in Fds, ktable'[n].file = Placeholder, vtable'[n].file \notin Virtual
                 PROVE  PlaceAt(n)'
      BY DEF PlaceAt
    <3>1. PICK u \in Threads : InFlightNow(u) /\ call[u].was[n].file \in Virtual
      BY <2>1, <2>2 DEF AgreeAt, PlaceAt
    <3>2. u # t
      BY <3>1, GuestFdsAssumption DEF Covers
    <3> QED
      BY <1>1, <3>1, <3>2 DEF PlaceAt, InFlightNow
  <2> QED
    BY <2>3, <2>4, <2>5 DEF AgreeAt
<1> QED
  BY <1>6, <1>7, <1>8 DEF FdInv

-----------------------------------------------------------------------------
(* Every step keeps the types, whatever the guest does.                    *)

KernelEntry == [file : Files \cup {Placeholder, NoFile}, cloexec : BOOLEAN]

LEMMA EntryTypes ==
  /\ \A f \in Real \cup Virtual, cx \in BOOLEAN :
       FdEntry(f, cx) \in TrackedEntry /\ FdEntry(Backing(f), cx) \in KernelEntry
  /\ \A f \in Files \cup {Placeholder, NoFile}, cx \in BOOLEAN : FdEntry(f, cx) \in KernelEntry
  /\ NoEntry \in TrackedEntry /\ NoEntry \in KernelEntry
  /\ Nothing \in [Vfds -> TrackedEntry]
BY DEF FdEntry, Backing, NoEntry, Nothing, TrackedEntry, KernelEntry, Files

LEMMA CallTypes ==
  ASSUME TypeOK, NEW t \in Threads, InFlightNow(t)
  PROVE  /\ call[t] \in CallRecord
         /\ call[t].fd \in Vfds /\ call[t].fd2 \in Vfds /\ call[t].cx \in BOOLEAN
         /\ call[t].was \in [Vfds -> TrackedEntry]
         /\ \A w \in [Vfds -> TrackedEntry] :
              [call[t] EXCEPT !.at = "kernel", !.was = w] \in CallRecord
         /\ [call[t] EXCEPT !.at = "addfd"] \in CallRecord
         /\ [call[t] EXCEPT !.op = "socket"] \in CallRecord
<1>1. call[t] \in CallRecord
  BY DEF TypeOK, InFlightNow
<1> QED
  BY <1>1 DEF CallRecord, Creates

CallTypeOK == call \in [Threads -> CallRecord \cup {NoCall}]
TableTypeOK == vtable \in [Vfds -> TrackedEntry] /\ next_vfd \in Std .. MaxVfd + 1

LEMMA ReturnTypes ==
  ASSUME TypeOK, NEW t \in Threads,
         Returned(t) \/ \E w \in [Vfds -> TrackedEntry] : InFlightNow(t) /\ reply_continue(t, w)
  PROVE  CallTypeOK'
<1>1. CASE Returned(t)
  BY <1>1 DEF TypeOK, CallTypeOK, Returned
<1>2. ASSUME NEW w \in [Vfds -> TrackedEntry], InFlightNow(t), reply_continue(t, w)
      PROVE  CallTypeOK'
  BY <1>2, CallTypes DEF TypeOK, CallTypeOK, reply_continue
<1> QED
  BY <1>1, <1>2

LEMMA RemovedTypes ==
  ASSUME TypeOK, NEW S
  PROVE  Removed(S) \in [Vfds -> TrackedEntry] /\ (remove(S) => vtable' \in [Vfds -> TrackedEntry])
BY EntryTypes DEF TypeOK, Removed, remove

LEMMA AddfdTypes ==
  ASSUME TypeOK, NEW t, NEW f \in Real \cup Virtual, NEW cx \in BOOLEAN,
         addfd_auto(t, f, cx) \/ addfd_fallback(t, f, cx)
  PROVE  TableTypeOK' /\ ktable' \in [Fds -> KernelEntry] /\ alive' = alive
<1>1. CASE addfd_auto(t, f, cx)
  <2>1. PICK n \in Fds : Install(n, f, cx) /\ insert_at(n, f, cx)
    BY <1>1 DEF addfd_auto
  <2>2. n \in Vfds /\ next_vfd' \in Std .. MaxVfd + 1
    BY <2>1, GuestFdsAssumption, Numbers DEF insert_at, Max2, TypeOK, Vfds
  <2> QED
    BY <1>1, <2>1, <2>2, EntryTypes DEF Install, insert_at, TypeOK, TableTypeOK, KernelEntry, addfd_auto
<1>2. CASE addfd_fallback(t, f, cx)
  <2>1. next_vfd' \in Std .. MaxVfd + 1
    BY <1>2, GuestFdsAssumption DEF addfd_fallback, insert, TypeOK, Vfds
  <2> QED
    BY <1>2, <2>1, EntryTypes DEF addfd_fallback, insert, kernel, TypeOK, TableTypeOK, KernelEntry
<1> QED
  BY <1>1, <1>2

LEMMA TypeParts ==
  TypeOK <=> /\ ktable \in [Fds -> KernelEntry] /\ alive \subseteq Threads
             /\ CallTypeOK /\ TableTypeOK
             /\ pipe \in [by : Threads \cup {NoThread}, fd : Fds \cup {NoFd},
                          read : Real \cup {NoFile}, write : Real \cup {NoFile}]
BY DEF TypeOK, KernelEntry, CallTypeOK, TableTypeOK

LEMMA ContinueTypes ==
  ASSUME TypeOK, NEW t \in Threads, InFlightNow(t), Continues(t)
  PROVE  TypeOK'
<1>1. CallTypeOK'
  BY EntryTypes, ReturnTypes DEF Continues
<1> QED
  BY <1>1, TypeParts DEF Continues, TypeOK, CallTypeOK, kernel, tracked

LEMMA RemoveTypes ==
  ASSUME TypeOK, NEW t \in Threads, InFlightNow(t), NEW S,
         remove(S), reply_continue(t, Removed(S)), UNCHANGED <<kernel, next_vfd, pipe>>
  PROVE  TypeOK'
<1>1. CallTypeOK' /\ vtable' \in [Vfds -> TrackedEntry]
  BY RemovedTypes, ReturnTypes
<1> QED
  BY <1>1 DEF TypeOK, CallTypeOK, kernel

LEMMA InsertTypes ==
  ASSUME TypeOK, NEW n, NEW f \in Real \cup Virtual, NEW cx \in BOOLEAN, insert_at(n, f, cx)
  PROVE  TableTypeOK'
<1>1. n \in Vfds /\ next_vfd' \in Std .. MaxVfd + 1
  BY GuestFdsAssumption, Numbers DEF insert_at, Max2, TypeOK, Vfds
<1> QED
  BY <1>1, EntryTypes DEF insert_at, TypeOK, TableTypeOK

LEMMA InstallTypes ==
  ASSUME TypeOK, NEW n, NEW f \in Real \cup Virtual, NEW cx \in BOOLEAN, Install(n, f, cx)
  PROVE  ktable' \in [Fds -> KernelEntry]
BY EntryTypes DEF Install, TypeOK, KernelEntry

LEMMA DupOntoTypes ==
  ASSUME TypeOK, NEW t \in Threads, InFlightNow(t), NEW o \in Vfds, NEW n \in Vfds,
         NEW cx \in BOOLEAN, dup_onto(t, o, n, cx)
  PROVE  TypeOK'
<1>1. CASE vtable[o].file = NoFile
  BY <1>1, RemoveTypes DEF dup_onto
<1>2. CASE vtable[o].file # NoFile
  <2>1. vtable[o].file \in Real \cup Virtual
    BY <1>2 DEF TypeOK, TrackedEntry
  <2>2. CallTypeOK' /\ UNCHANGED pipe
    BY <1>2, ReturnTypes DEF dup_onto
  <2>3. TableTypeOK' /\ ktable' \in [Fds -> KernelEntry] /\ alive' = alive
    <3>1. CASE o = n
      BY <1>2, <3>1, TypeParts DEF dup_onto, kernel, tracked, TypeOK, TableTypeOK
    <3>2. CASE o # n
      <4>1. insert_at(n, vtable[o].file, cx) /\ alive' = alive
            /\ (Install(n, vtable[o].file, cx) \/ UNCHANGED ktable)
        BY <1>2, <3>2 DEF dup_onto
      <4> QED
        BY <2>1, <4>1, InsertTypes, InstallTypes, TypeParts
    <3> QED
      BY <3>1, <3>2
  <2> QED
    BY <2>2, <2>3 DEF TypeOK, KernelEntry, CallTypeOK, TableTypeOK
<1> QED
  BY <1>1, <1>2

LEMMA TrapTypes == ASSUME TypeOK, NEW t \in Threads, GuestCall(t) PROVE TypeOK'
<1>1. \A op \in Creates \cup {"dup2", "dup3", "close", "close_range", "setfd",
                              "cloexec_range", "exec"}, fd \in Vfds, fd2 \in Vfds, cx \in BOOLEAN :
        Trapped(op, fd, fd2, cx) \in CallRecord
  BY EntryTypes DEF Trapped, CallRecord
<1>2. 0 \in Vfds /\ MaxVfd \in Vfds /\ Fds \subseteq Vfds
  BY Numbers, GuestFdsAssumption DEF Vfds
<1>3. \E c \in CallRecord : call' = [call EXCEPT ![t] = c] /\ UNCHANGED <<kernel, tracked, pipe>>
  <2>1. ASSUME NEW op \in Creates \cup {"dup2", "dup3", "close", "close_range", "setfd",
                                        "cloexec_range", "exec"},
               NEW fd \in Vfds, NEW fd2 \in Vfds, NEW cx \in BOOLEAN, Trap(t, op, fd, fd2, cx)
        PROVE  \E c \in CallRecord : call' = [call EXCEPT ![t] = c]
                                     /\ UNCHANGED <<kernel, tracked, pipe>>
    BY <1>1, <2>1 DEF Trap
  <2> QED
    BY <1>2, <2>1 DEF GuestCall, Creates
<1> QED
  BY <1>3 DEF TypeOK, kernel, tracked

LEMMA RegisterTypes ==
  ASSUME TypeOK, NEW t \in Threads, InFlightNow(t), register_kernel_fd(t)
  PROVE  TableTypeOK' /\ ktable' \in [Fds -> KernelEntry] /\ alive' = alive
<1>1. PICK f \in Real : \/ addfd_auto(t, f, call[t].cx)
                        \/ UNCHANGED <<kernel, tracked>>
  BY DEF register_kernel_fd
<1>2. CASE addfd_auto(t, f, call[t].cx)
  BY <1>1, <1>2, AddfdTypes, CallTypes
<1>3. CASE UNCHANGED <<kernel, tracked>>
  BY <1>3, TypeParts DEF kernel, tracked, TableTypeOK
<1> QED
  BY <1>1, <1>2, <1>3

LEMMA HandlerTypes ==
  ASSUME TypeOK, pipe # NoPipe => InFlightNow(pipe.by), NEW t \in Threads, Handler(t)
  PROVE  TypeOK'
<1>1. CASE sys_openat(t)
  <2>1. InFlightNow(t) /\ Returned(t) /\ UNCHANGED pipe
    BY <1>1 DEF sys_openat, Handling, InFlightNow
  <2>2. TableTypeOK' /\ ktable' \in [Fds -> KernelEntry] /\ alive' = alive
    BY <1>1, <2>1, AddfdTypes, CallTypes DEF sys_openat
  <2> QED
    BY <2>1, <2>2, ReturnTypes DEF TypeOK, CallTypeOK, TableTypeOK, KernelEntry
<1>2. CASE sys_socket(t) \/ sys_socketpair(t)
  <2>1. InFlightNow(t) /\ register_kernel_fd(t) /\ UNCHANGED pipe
    BY <1>2 DEF sys_socket, sys_socketpair, Handling, InFlightNow
  <2>2. CallTypeOK'
    <3>1. CASE sys_socket(t)
      BY <3>1, ReturnTypes DEF sys_socket
    <3>2. CASE sys_socketpair(t)
      BY <2>1, <3>2, CallTypes DEF sys_socketpair, TypeOK, CallTypeOK
    <3> QED
      BY <1>2, <3>1, <3>2
  <2> QED
    BY <2>1, <2>2, RegisterTypes DEF TypeOK, CallTypeOK, TableTypeOK, KernelEntry
<1>3. CASE sys_pipe2(t)
  <2>1. InFlightNow(t) /\ UNCHANGED <<alive, tracked>>
    BY <1>3 DEF sys_pipe2, Handling, InFlightNow
  <2>2. CallTypeOK'
    BY <1>3, <2>1, CallTypes DEF sys_pipe2, TypeOK, CallTypeOK
  <2>3. /\ ktable' \in [Fds -> KernelEntry]
        /\ pipe' \in [by : Threads \cup {NoThread}, fd : Fds \cup {NoFd},
                      read : Real \cup {NoFile}, write : Real \cup {NoFile}]
    <3>1. PICK f \in Real, g \in Real :
            \/ \E n \in Fds : /\ Install(n, f, call[t].cx)
                              /\ pipe' = [by |-> t, read |-> f, write |-> g, fd |-> n]
            \/ /\ pipe' = [by |-> t, read |-> f, write |-> g, fd |-> NoFd]
               /\ UNCHANGED ktable
      BY <1>3 DEF sys_pipe2
    <3>2. \A n : Install(n, f, call[t].cx) => ktable' \in [Fds -> KernelEntry]
      BY <2>1, CallTypes, InstallTypes
    <3> QED
      BY <3>1, <3>2, TypeParts
  <2> QED
    BY <2>1, <2>2, <2>3 DEF TypeOK, CallTypeOK, tracked, KernelEntry
<1>4. CASE pipe2_second(t)
  <2>1. pipe' = NoPipe /\ CallTypeOK' /\ alive' = alive /\ pipe # NoPipe
    BY <1>4, ReturnTypes, GuestFdsAssumption DEF pipe2_second, NoPipe
  <2>2. pipe'\in [by : Threads \cup {NoThread}, fd : Fds \cup {NoFd},
                  read : Real \cup {NoFile}, write : Real \cup {NoFile}]
    BY <2>1 DEF NoPipe
  <2>3. ASSUME NEW r, NEW w, NEW cx \in BOOLEAN, insert_two(r, w, cx) PROVE TableTypeOK'
    <3>1. r \in Vfds /\ w \in Vfds /\ next_vfd' \in Std .. MaxVfd + 1
      BY <2>3, GuestFdsAssumption DEF insert_two, Max2, TypeOK, Vfds
    <3>2. FdEntry(pipe.read, cx) \in TrackedEntry /\ FdEntry(pipe.write, cx) \in TrackedEntry
      BY DEF FdEntry, TrackedEntry, TypeOK
    <3> QED
      BY <2>3, <3>1, <3>2 DEF insert_two, TypeOK, TableTypeOK
  <2>4. call[t].cx \in BOOLEAN /\ TableTypeOK' /\ ktable' \in [Fds -> KernelEntry]
    <3>1. call[t].cx \in BOOLEAN
      BY <1>4, <2>1, CallTypes DEF pipe2_second
    <3>2. TableTypeOK'
      <4>1. PICK r, w : insert_two(r, w, call[t].cx)
        BY <1>4 DEF pipe2_second
      <4> QED
        BY <2>3, <3>1, <4>1
    <3>3. \A n : Install(n, pipe.write, call[t].cx) => ktable' \in [Fds -> KernelEntry]
      <4>1. pipe.write \notin Virtual
        BY GuestFdsAssumption DEF TypeOK
      <4>2. FdEntry(Backing(pipe.write), call[t].cx) \in KernelEntry
        BY <3>1, <4>1 DEF TypeOK, KernelEntry, FdEntry, Backing, Files
      <4> QED
        BY <4>2 DEF Install, TypeOK, KernelEntry
    <3> QED
      BY <1>4, <3>1, <3>2, <3>3, TypeParts DEF pipe2_second
  <2> QED
    BY <2>1, <2>2, <2>4 DEF TypeOK, CallTypeOK, TableTypeOK, KernelEntry
<1>5. CASE sys_dup(t)
  <2>1. InFlightNow(t)
    BY <1>5 DEF sys_dup, Handling, InFlightNow
  <2>2. CASE Continues(t)
    BY <2>1, <2>2, ContinueTypes
  <2>3. CASE ~Continues(t)
    <3>1. /\ addfd_auto(t, vtable[call[t].fd].file, call[t].cx)
             \/ addfd_fallback(t, vtable[call[t].fd].file, call[t].cx)
          /\ Returned(t) /\ UNCHANGED pipe /\ vtable[call[t].fd].file # NoFile
      BY <1>5, <2>3 DEF sys_dup
    <3>2. vtable[call[t].fd].file \in Real \cup Virtual
      BY <2>1, <3>1, CallTypes DEF TypeOK, TrackedEntry
    <3>3. TableTypeOK' /\ ktable' \in [Fds -> KernelEntry] /\ alive' = alive
      BY <2>1, <3>1, <3>2, AddfdTypes, CallTypes
    <3> QED
      BY <3>1, <3>3, ReturnTypes DEF TypeOK, CallTypeOK, TableTypeOK, KernelEntry
  <2> QED
    BY <2>2, <2>3
<1>6. CASE sys_dup2(t) \/ sys_dup3(t)
  <2>1. InFlightNow(t) /\ call[t].fd \in Vfds /\ call[t].fd2 \in Vfds /\ call[t].cx \in BOOLEAN
    BY <1>6, CallTypes DEF sys_dup2, sys_dup3, Handling, InFlightNow
  <2>2. CASE \E cx \in BOOLEAN : dup_onto(t, call[t].fd, call[t].fd2, cx)
    BY <2>1, <2>2, DupOntoTypes
  <2>3. CASE Returned(t) /\ UNCHANGED <<kernel, tracked, pipe>>
    BY <2>3, ReturnTypes DEF TypeOK, CallTypeOK, kernel, tracked
  <2> QED
    BY <1>6, <2>1, <2>2, <2>3 DEF sys_dup2, sys_dup3
<1>7. CASE sys_close(t) \/ sys_close_range(t) \/ sys_execve(t)
  <2>1. InFlightNow(t)
    BY <1>7 DEF sys_close, sys_close_range, sys_execve, Handling, InFlightNow
  <2> QED
    BY <1>7, <2>1, RemoveTypes DEF sys_close, sys_close_range, sys_execve
<1>8. CASE sys_cloexec_range(t) \/ sys_setfd(t) \/ unhandled(t)
  <2>1. InFlightNow(t) /\ call[t].cx \in BOOLEAN
    BY <1>8, CallTypes DEF sys_cloexec_range, sys_setfd, unhandled, Handling, InFlightNow
  <2>2. CASE Continues(t)
    BY <2>1, <2>2, ContinueTypes
  <2>3. CASE ~Continues(t)
    <3>1. \E S : \E cx \in BOOLEAN : set_cloexec(S, cx)
      BY <1>8, <2>1, <2>3 DEF sys_cloexec_range, sys_setfd, unhandled
    <3>2. vtable' \in [Vfds -> TrackedEntry]
      BY <3>1 DEF set_cloexec, FdEntry, TypeOK, TrackedEntry
    <3>3. CallTypeOK' /\ UNCHANGED <<kernel, next_vfd, pipe>>
      BY <1>8, <2>1, <2>3, ReturnTypes, EntryTypes DEF sys_cloexec_range, sys_setfd, unhandled
    <3> QED
      BY <3>2, <3>3 DEF TypeOK, CallTypeOK, kernel
  <2> QED
    BY <2>2, <2>3
<1> QED
  BY <1>1, <1>2, <1>3, <1>4, <1>5, <1>6, <1>7, <1>8 DEF Handler

LEMMA KernelTypes == ASSUME TypeOK, NEW t \in Threads, Kernel(t) PROVE TypeOK'
<1>1. CASE KernelSpawn(t)
  BY <1>1 DEF KernelSpawn, TypeOK, tracked
<1>2. CASE KernelExec(t)
  <2>1. PICK kept \in SUBSET Threads : call' = [u \in Threads |-> IF u \in kept THEN call[u] ELSE NoCall]
    BY <1>2 DEF KernelExec
  <2>2. ktable' = [n \in Fds |-> IF ktable[n].cloexec THEN NoEntry ELSE ktable[n]]
        /\ alive' = {t} /\ UNCHANGED <<tracked, pipe>>
    BY <1>2 DEF KernelExec
  <2> QED
    BY <2>1, <2>2, EntryTypes DEF TypeOK, tracked, KernelEntry
<1>3. ASSUME KernelDone(t), ktable' \in [Fds -> KernelEntry] PROVE TypeOK'
  BY <1>3, ReturnTypes DEF KernelDone, TypeOK, CallTypeOK, tracked, KernelEntry
<1>4. CASE KernelClose(t)
  BY <1>3, <1>4, TypeParts, EntryTypes DEF KernelClose
<1>5. CASE KernelSetCloexec(t)
  <2>1. call[t].cx \in BOOLEAN
    BY <1>5, CallTypes DEF KernelSetCloexec, InKernel, InFlightNow
  <2>2. \A n \in Fds : FdEntry(ktable[n].file, call[t].cx) \in KernelEntry
    BY <2>1, EntryTypes DEF TypeOK
  <2>3. ktable' \in [Fds -> KernelEntry]
    BY <1>5, <2>2, TypeParts DEF KernelSetCloexec
  <2> QED
    BY <1>3, <1>5, <2>3 DEF KernelSetCloexec
<1>6. CASE KernelDup(t)
  <2>1. call[t].cx \in BOOLEAN
    BY <1>6, CallTypes DEF KernelDup, InKernel, InFlightNow
  <2>2. \A n \in Fds : FdEntry(ktable[n].file, call[t].cx) \in KernelEntry
    BY <2>1, EntryTypes DEF TypeOK
  <2>3. ktable' \in [Fds -> KernelEntry]
    BY <1>6, <2>2, TypeParts DEF KernelDup, IsOpen
  <2> QED
    BY <1>3, <1>6, <2>3 DEF KernelDup
<1>7. CASE KernelDup2(t)
  <2>1. call[t].cx \in BOOLEAN
    BY <1>7, CallTypes DEF KernelDup2, InKernel, InFlightNow
  <2>2. \A n \in Fds : FdEntry(ktable[n].file, call[t].op = "dup3" /\ call[t].cx) \in KernelEntry
    BY <2>1, EntryTypes DEF TypeOK
  <2>3. ktable' \in [Fds -> KernelEntry]
    BY <1>7, <2>2, TypeParts DEF KernelDup2, IsOpen
  <2> QED
    BY <1>3, <1>7, <2>3 DEF KernelDup2
<1>8. CASE KernelCreate(t)
  <2>1. call[t].cx \in BOOLEAN
    BY <1>8, CallTypes DEF KernelCreate, InKernel, InFlightNow
  <2>2. \A f \in Own : FdEntry(f, call[t].cx) \in KernelEntry
    BY <2>1, EntryTypes DEF Files
  <2>3. ktable' \in [Fds -> KernelEntry]
    BY <1>8, <2>2, TypeParts DEF KernelCreate
  <2> QED
    BY <1>3, <1>8, <2>3 DEF KernelCreate
<1>9. CASE KernelRefuses(t)
  BY <1>3, <1>9, TypeParts DEF KernelRefuses
<1> QED
  BY <1>1, <1>2, <1>4, <1>5, <1>6, <1>7, <1>8, <1>9 DEF Kernel

-----------------------------------------------------------------------------
(* What the invariant says of the numbers a call may touch.                *)

\* No other call is under way on a number that a call names.
LEMMA OthersQuiet ==
  ASSUME FdInv, NEW t \in Threads, InFlightNow(t), NEW n \in Vfds,
         n \in Names(call[t]) \/ call[t].op \in Big,
         NEW u \in Threads \ {t}, InFlightNow(u)
  PROVE  /\ call[u].was[n].file = NoFile
         /\ ~(/\ call[u].at = "kernel" /\ call[u].op \in {"setfd", "cloexec_range"}
              /\ n \in call[u].fd .. call[u].fd2)
<1>1. call[t].op \notin Big /\ call[u].op \notin Big /\ n \notin Names(call[u])
  BY DEF FdInv, Apart
<1>2. CallOK(call[u]) /\ call[u].fd \in Nat /\ call[u].fd2 \in Nat
  BY CallTypes, Numbers DEF FdInv, CallsOK
<1>3. call[u].op \in One \cup Two => n # call[u].fd /\ n # call[u].fd2
  BY <1>1, NamesOf
<1>4. call[u].op \in One => call[u].fd = call[u].fd2
  BY <1>2 DEF CallOK, ArgsOK
<1>5. n \in Nat
  BY Numbers
<1>6. call[u].op \in One => n \notin call[u].fd .. call[u].fd2
  BY <1>2, <1>3, <1>4, <1>5
<1>7. call[u].was[n].file = NoFile
  BY <1>1, <1>2, <1>3, <1>6 DEF CallOK, DroppedOK, Big, One
<1> QED
  BY <1>1, <1>6, <1>7 DEF Big, One

\* An entry is dropped by a handler only.
LEMMA TrapQuiet ==
  ASSUME FdInv, NEW t \in Threads, InFlightNow(t),
         call[t].at # "kernel" \/ call[t].op \in {"setfd", "cloexec_range", "dup", "dupfd", "create"}
  PROVE  \A n \in Vfds : call[t].was[n].file = NoFile
BY DEF FdInv, CallsOK, CallOK, DroppedOK, Two

\* A placeholder at a number a call names is a /proc file's that is still tracked.
LEMMA Sole ==
  ASSUME FdInv, NEW t \in Threads, InFlightNow(t), NEW n \in Fds,
         n \in Names(call[t]) \/ call[t].op \in Big,
         call[t].was[n].file = NoFile,
         ktable[n].file = Placeholder
  PROVE  vtable[n].file \in Virtual
<1>1. n \in Vfds /\ PlaceAt(n)
  BY Numbers DEF FdInv, AgreeAt
<1>2. \A u \in Threads \ {t} : InFlightNow(u) => call[u].was[n].file = NoFile
  BY <1>1, OthersQuiet
<1> QED
  BY <1>1, <1>2, GuestFdsAssumption DEF PlaceAt

\* The same for the flag: no call of another thread explains a difference.
LEMMA SameFlag ==
  ASSUME FdInv, NEW t \in Threads, InFlightNow(t), NEW n \in Fds, HasVfd(n),
         n \in Names(call[t]) \/ call[t].op \in Big,
         call[t].at # "kernel" \/ call[t].op \notin {"setfd", "cloexec_range"}
  PROVE  vtable[n].cloexec = ktable[n].cloexec
<1>1. n \in Vfds /\ FlagAt(n)
  BY Numbers DEF FdInv, AgreeAt
<1> QED
  BY <1>1, OthersQuiet DEF FlagAt

\* A number the kernel has free is not tracked, and no call of another thread is
\* about it.
LEMMA FreeNumber ==
  ASSUME FdInv, NEW t \in Threads, InFlightNow(t), NEW n \in Fds, KFree(n)
  PROVE  /\ n \in Vfds /\ ~HasVfd(n) /\ vtable[n].file = NoFile /\ vtable[n].file \notin Virtual
         /\ Unclaimed(t, {n})
<1>1. n \in Vfds /\ MatchAt(n) /\ vtable[n] \in TrackedEntry
  BY Numbers DEF FdInv, AgreeAt, TypeOK
<1>2. ~HasVfd(n)
  BY <1>1, GuestFdsAssumption DEF MatchAt, KFree, NoEntry, HasVfd, Backing, TrackedEntry
<1>3. Unclaimed(t, {n})
  BY DEF FdInv, Apart, Unclaimed, IsOpen
<1> QED
  BY <1>1, <1>2, <1>3, GuestFdsAssumption DEF HasVfd

\* The pipe2 handler of another thread keeps its first end.
LEMMA PipeKept ==
  ASSUME FdInv, NEW t \in Threads, InFlightNow(t), call[t].at # "addfd", pipe' = pipe,
         NEW c, NEW M, Touches(t, c, M), Unclaimed(t, M), c # NoCall => c.at # "addfd"
  PROVE  PipeOK'
<1>1. /\ \A u \in Threads \ {t} : call'[u] = call[u]
      /\ call'[t] = c
  BY DEF Touches, FdInv, TypeOK
<1>2. t # pipe.by
  BY DEF FdInv, PipeOK
<1>3. \A u \in Threads : InFlightNow(u)' => (call'[u].at = "addfd" <=> u = pipe.by)
  BY <1>1, <1>2 DEF FdInv, PipeOK, InFlightNow
<1>4. ASSUME pipe # NoPipe
      PROVE  /\ pipe.by \in Threads /\ InFlightNow(pipe.by)'
             /\ pipe.read \in Real /\ pipe.write \in Real /\ pipe.fd \in Fds
             /\ ~HasVfd(pipe.fd)' /\ ktable'[pipe.fd] = FdEntry(pipe.read, call'[pipe.by].cx)
  <2>1. /\ pipe.by \in Threads \ {t} /\ InFlightNow(pipe.by) /\ call[pipe.by].at = "addfd"
        /\ pipe.read \in Real /\ pipe.write \in Real /\ pipe.fd \in Fds
        /\ ~HasVfd(pipe.fd) /\ ktable[pipe.fd] = FdEntry(pipe.read, call[pipe.by].cx)
    BY <1>2, <1>4 DEF FdInv, PipeOK
  <2>2. call[pipe.by].op = "pipe2"
    BY <2>1 DEF FdInv, CallsOK, CallOK, ArgsOK
  <2>3. Names(call[pipe.by]) = {pipe.fd}
    BY <2>1, <2>2 DEF Names
  <2>4. pipe.fd \notin M /\ pipe.fd \in Vfds
    BY <2>1, <2>3, Numbers DEF Unclaimed
  <2>5. call'[pipe.by] = call[pipe.by] /\ vtable'[pipe.fd] = vtable[pipe.fd]
        /\ ktable'[pipe.fd] = ktable[pipe.fd]
    BY <1>1, <2>1, <2>4 DEF Touches
  <2> QED
    BY <2>1, <2>5 DEF InFlightNow, HasVfd
<1> QED
  BY <1>3, <1>4 DEF PipeOK

\* A handler installs a file under the lowest number and tracks it there.
LEMMA AddfdStep ==
  ASSUME FdInv, TypeOK', NEW t \in Threads, InFlightNow(t), call[t].at = "trap",
         pipe' = pipe, NEW f \in Real \cup Virtual, NEW cx \in BOOLEAN, addfd_auto(t, f, cx),
         NEW c \in CallRecord \cup {NoCall}, call' = [call EXCEPT ![t] = c],
         c # NoCall => CallOK(c)' /\ c.at = "trap" /\ c.op \in None
  PROVE  FdInv'
<1>1. PICK n \in Fds : Lowest(n) /\ Install(n, f, cx) /\ insert_at(n, f, cx)
  BY DEF addfd_auto
<1>2. KFree(n) /\ n \in Vfds /\ Unclaimed(t, {n})
  BY <1>1, FreeNumber DEF Lowest
<1>3. ktable'[n] = FdEntry(Backing(f), cx) /\ vtable'[n] = FdEntry(f, cx)
  BY <1>1, <1>2 DEF Install, insert_at, FdInv, TypeOK
<1>4. Touches(t, c, {n})
  BY <1>1, <1>2 DEF Touches, Install, insert_at, FdInv, TypeOK, addfd_auto
<1>5. Covers(t, {n})
  BY TrapQuiet DEF Covers
<1>6. PipeOK'
  BY <1>2, <1>4, PipeKept
<1>7. c # NoCall => CallOK(c)' /\ Claims(t, c, {n})
  <2>1. c # NoCall => Names(c)' = {}
    BY DEF Names, None
  <2> QED
    BY <2>1 DEF Claims, None, Big
<1>8. AgreeAt(n)'
  <2>1. f # NoFile /\ (Backing(f) = Placeholder => f \in Virtual)
    BY GuestFdsAssumption DEF Backing
  <2> QED
    BY <1>1, <1>3, <2>1 DEF AgreeAt, MatchAt, FlagAt, PlaceAt, HasVfd, FdEntry
<1> DEFINE M == {n}
<1>9. /\ M \in SUBSET Vfds /\ Touches(t, c, M) /\ Unclaimed(t, M) /\ Covers(t, M)
      /\ c # NoCall => CallOK(c)' /\ Claims(t, c, M)
      /\ \A m \in M : AgreeAt(m)'
  BY <1>2, <1>4, <1>5, <1>7, <1>8
<1> HIDE DEF M
<1> QED
  BY <1>6, <1>9, FdStep

\* A handler replies "continue": the call is the same, in the kernel.
LEMMA ContinueStep ==
  ASSUME FdInv, TypeOK', NEW t \in Threads, InFlightNow(t), call[t].at = "trap",
         call[t].op \notin None \ {"create"},
         NEW w \in [Vfds -> TrackedEntry], reply_continue(t, w), UNCHANGED <<kernel, pipe>>,
         NEW M \in SUBSET Vfds, \A n \in Vfds \ M : vtable'[n] = vtable[n],
         call[t].op \in Big \/ M \subseteq Names(call[t]),
         NEW c \in CallRecord, c = [call[t] EXCEPT !.at = "kernel", !.was = w],
         DroppedOK(c)', KernelOK(c)',
         \A n \in M : AgreeAt(n)'
  PROVE  FdInv'
<1>1. call[t] \in CallRecord /\ CallOK(call[t])
  BY CallTypes DEF FdInv, CallsOK
<1>2. /\ c.op = call[t].op /\ c.fd = call[t].fd /\ c.fd2 = call[t].fd2 /\ c.cx = call[t].cx
      /\ c.at = "kernel" /\ c.was = w
  BY <1>1 DEF CallRecord
<1>3. Touches(t, c, M)
  BY DEF Touches, reply_continue, kernel
<1>4. Unclaimed(t, M)
  BY DEF Unclaimed, FdInv, Apart
<1>5. Covers(t, M)
  BY TrapQuiet DEF Covers
<1>6. PipeOK'
  BY <1>2, <1>3, <1>4, PipeKept
<1>7. CallOK(c)'
  <2>1. ArgsOK(c)'
    BY <1>1, <1>2 DEF CallOK, ArgsOK, kernel, IsOpen, KFree, None
  <2>2. TrapOK(c)'
    BY <1>2 DEF TrapOK
  <2> QED
    BY <2>1, <2>2 DEF CallOK
<1>8. Claims(t, c, M)
  <2>1. \A n \in Names(c)' : n \in Names(call[t])
    BY <1>2 DEF Names
  <2> QED
    BY <1>2, <2>1 DEF Claims, IsOpen, KFree, kernel
<1>9. c \in CallRecord \cup {NoCall} /\ pipe' = pipe
  OBVIOUS
<1> QED
  BY <1>3, <1>4, <1>5, <1>6, <1>7, <1>8, <1>9, FdStep

\* The record of a call that was continued.
LEMMA ContinuedCall ==
  ASSUME TypeOK, NEW t \in Threads, InFlightNow(t), NEW w \in [Vfds -> TrackedEntry]
  PROVE  \E c \in CallRecord :
           /\ c = [call[t] EXCEPT !.at = "kernel", !.was = w]
           /\ c.op = call[t].op /\ c.fd = call[t].fd /\ c.fd2 = call[t].fd2 /\ c.cx = call[t].cx
           /\ c.at = "kernel" /\ c.was = w
<1> DEFINE c == [call[t] EXCEPT !.at = "kernel", !.was = w]
<1>1. call[t] \in CallRecord /\ c \in CallRecord
  BY CallTypes
<1>2. /\ c.op = call[t].op /\ c.fd = call[t].fd /\ c.fd2 = call[t].fd2 /\ c.cx = call[t].cx
      /\ c.at = "kernel" /\ c.was = w
  BY <1>1 DEF CallRecord
<1> QED
  BY <1>1, <1>2

\* A handler leaves the call to the kernel and changes nothing.
LEMMA PassStep ==
  ASSUME FdInv, TypeOK', NEW t \in Threads, InFlightNow(t), call[t].at = "trap", Continues(t),
         \/ call[t].op = "create"
         \/ call[t].op \in {"dup", "dupfd"} /\ vtable[call[t].fd].file \notin Virtual
         \/ call[t].op = "setfd" /\ ~HasVfd(call[t].fd)
  PROVE  FdInv'
<1>1. Nothing \in [Vfds -> TrackedEntry] /\ reply_continue(t, Nothing)
      /\ UNCHANGED <<kernel, pipe, vtable>>
  BY EntryTypes DEF Continues, tracked
<1>2. PICK c \in CallRecord :
           /\ c = [call[t] EXCEPT !.at = "kernel", !.was = Nothing]
           /\ c.op = call[t].op /\ c.fd = call[t].fd /\ c.fd2 = call[t].fd2 /\ c.cx = call[t].cx
           /\ c.at = "kernel" /\ c.was = Nothing
  BY <1>1, ContinuedCall DEF FdInv
<1>3. DroppedOK(c)'
  BY <1>2 DEF DroppedOK, Nothing, NoEntry
<1>4. KernelOK(c)'
  <2>1. call[t].op = "setfd" => c.fd = c.fd2 /\ c.fd \in Nat /\ Vfds \subseteq Nat
    BY <1>2, Numbers DEF FdInv, CallsOK, CallOK, ArgsOK, One
  <2> QED
    BY <1>1, <1>2, <2>1 DEF KernelOK, HasVfd, Two
<1> DEFINE M == {}
<1>5. M \in SUBSET Vfds /\ (\A n \in Vfds \ M : vtable'[n] = vtable[n]) /\ M \subseteq Names(call[t])
      /\ \A n \in M : AgreeAt(n)'
  BY <1>1
<1>6. call[t].op \notin None \ {"create"}
  BY DEF None
<1> HIDE DEF M
<1> QED
  BY <1>1, <1>2, <1>3, <1>4, <1>5, <1>6, ContinueStep

-----------------------------------------------------------------------------
(* One step per handler, for ordinary calls.                               *)

Handled(t) == InFlightNow(t) /\ call[t].at = "trap" /\ pipe = NoPipe

\* An addfd the code retries or gives up never fails for a live thread.
LEMMA AddfdWorks ==
  ASSUME Stress = {}, FdInv, NEW t \in Threads, InFlightNow(t)
  PROVE  ~AddfdFails(t) /\ \A f, cx : ~addfd_fallback(t, f, cx)
BY DEF FdInv, CallsOK, AddfdFails, addfd_fallback

LEMMA HandlingIs ==
  ASSUME NEW t, NEW op, Handling(t, op)
  PROVE  Handled(t) /\ call[t].op = op
BY DEF Handling, Handled, InFlightNow

LEMMA HandlerTypeOK == ASSUME FdInv, NEW t \in Threads, Handler(t) PROVE TypeOK'
BY HandlerTypes DEF FdInv, PipeOK

LEMMA OpenStep ==
  ASSUME Stress = {}, FdInv, TypeOK', NEW t \in Threads,
         sys_openat(t) \/ sys_socket(t) \/ sys_socketpair(t)
  PROVE  FdInv'
<1>1. Handled(t) /\ UNCHANGED pipe /\ call[t].cx \in BOOLEAN
  BY HandlingIs, CallTypes DEF sys_openat, sys_socket, sys_socketpair, Handled, FdInv
<1>2. CASE sys_openat(t)
  <2>1. PICK f \in Real \cup Virtual : addfd_auto(t, f, call[t].cx)
    BY <1>1, <1>2, AddfdWorks DEF sys_openat, Handled
  <2>2. call' = [call EXCEPT ![t] = NoCall] /\ NoCall \in CallRecord \cup {NoCall}
    BY <1>2 DEF sys_openat, Returned
  <2> QED
    BY <1>1, <2>1, <2>2, AddfdStep DEF Handled
<1>3. CASE sys_socket(t) \/ sys_socketpair(t)
  <2>1. PICK f \in Real : addfd_auto(t, f, call[t].cx)
    BY <1>1, <1>3, AddfdWorks DEF sys_socket, sys_socketpair, register_kernel_fd, Handled
  <2>2. PICK s \in CallRecord : s = [call[t] EXCEPT !.op = "socket"]
    BY <1>1, CallTypes DEF Handled, FdInv
  <2>9. call[t] \in CallRecord
    BY <1>1, CallTypes DEF Handled, FdInv
  <2>3. s.op = "socket" /\ s.at = "trap" /\ s.was = call[t].was
    BY <1>1, <2>2, <2>9 DEF CallRecord, Handled
  <2>4. CallOK(s)' /\ s.op \in None
    <3>1. \A n \in Vfds : s.was[n].file = NoFile
      BY <1>1, <2>3, TrapQuiet DEF Handled
    <3> QED
      BY <2>3, <3>1 DEF CallOK, ArgsOK, DroppedOK, TrapOK, KernelOK, One, Two, None
  <2>5. \E c \in CallRecord \cup {NoCall} :
          call' = [call EXCEPT ![t] = c] /\ (c # NoCall => c = s)
    <3>1. CASE sys_socket(t)
      BY <3>1 DEF sys_socket, Returned
    <3>2. CASE sys_socketpair(t)
      BY <2>2, <3>2 DEF sys_socketpair
    <3> QED
      BY <1>3, <3>1, <3>2
  <2>6. PICK c \in CallRecord \cup {NoCall} :
          call' = [call EXCEPT ![t] = c] /\ (c # NoCall => c = s)
    BY <2>5
  <2>7. c # NoCall => CallOK(c)' /\ c.at = "trap" /\ c.op \in None
    BY <2>3, <2>4, <2>6
  <2>8. f \in Real \cup Virtual
    OBVIOUS
  <2> QED
    BY <1>1, <2>1, <2>6, <2>7, <2>8, AddfdStep DEF Handled
<1> QED
  BY <1>2, <1>3

LEMMA PipeStep ==
  ASSUME Stress = {}, FdInv, TypeOK', NEW t \in Threads, sys_pipe2(t)
  PROVE  FdInv'
<1>1. Handled(t) /\ call[t].op = "pipe2" /\ call[t] \in CallRecord
  BY HandlingIs, CallTypes DEF sys_pipe2, Handled, FdInv
<1>2. PICK f \in Real, g \in Real, n \in Fds :
        /\ Lowest(n) /\ Install(n, f, call[t].cx)
        /\ pipe' = [by |-> t, read |-> f, write |-> g, fd |-> n]
  BY <1>1, AddfdWorks DEF sys_pipe2, Handled
<1> DEFINE M == {n}
<1>0. PICK c \in CallRecord : c = [call[t] EXCEPT !.at = "addfd"]
  BY <1>1, CallTypes DEF Handled, FdInv
<1>3. c \in CallRecord /\ c.op = "pipe2" /\ c.at = "addfd" /\ c.cx = call[t].cx
      /\ c.was = call[t].was /\ c # NoCall
  BY <1>0, <1>1, NoCallAssumption DEF CallRecord
<1>4. /\ call' = [call EXCEPT ![t] = c] /\ vtable' = vtable /\ alive' = alive
      /\ call'[t] = c /\ \A u \in Threads \ {t} : call'[u] = call[u]
  BY <1>0 DEF sys_pipe2, tracked, FdInv, TypeOK
<1>5. KFree(n) /\ n \in Vfds /\ ~HasVfd(n) /\ Unclaimed(t, M)
  BY <1>1, <1>2, FreeNumber DEF Lowest, Handled
<1>6. ktable'[n] = FdEntry(f, call[t].cx) /\ \A m \in Fds \ M : ktable'[m] = ktable[m]
  BY <1>2, GuestFdsAssumption DEF Install, FdInv, TypeOK, Backing
<1>7. Touches(t, c, M)
  BY <1>4, <1>6 DEF Touches
<1>8. Covers(t, M)
  BY <1>1, TrapQuiet DEF Covers, Handled
<1>9. PipeOK'
  <2>1. pipe'.by = t /\ pipe'.read = f /\ pipe'.write = g /\ pipe'.fd = n
    BY <1>2
  <2>2. \A u \in Threads : InFlightNow(u)' => (call'[u].at = "addfd" <=> u = t)
    BY <1>1, <1>3, <1>4, GuestFdsAssumption DEF FdInv, PipeOK, InFlightNow, Handled, NoPipe
  <2>3. ~HasVfd(n)' /\ InFlightNow(t)'
    BY <1>3, <1>4, <1>5 DEF HasVfd, InFlightNow
  <2> QED
    BY <1>2, <1>3, <1>4, <1>6, <2>1, <2>2, <2>3 DEF PipeOK
<1>10. CallOK(c)'
  <2>1. \A m \in Vfds : c.was[m].file = NoFile
    BY <1>1, <1>3, TrapQuiet DEF Handled
  <2> QED
    BY <1>3, <2>1 DEF CallOK, ArgsOK, DroppedOK, TrapOK, KernelOK, One, Two
<1>11. Claims(t, c, M)
  <2>1. Names(c)' = {n}
    BY <1>2, <1>3 DEF Names
  <2>2. IsOpen(n)'
    BY <1>6, GuestFdsAssumption DEF IsOpen, KFree, NoEntry, FdEntry
  <2> QED
    BY <1>3, <2>1, <2>2 DEF Claims, Big
<1>12. AgreeAt(n)'
  <2>1. ~HasVfd(n)'
    BY <1>4, <1>5 DEF HasVfd
  <2> QED
    BY <1>6, <2>1, GuestFdsAssumption DEF AgreeAt, MatchAt, FlagAt, PlaceAt, FdEntry
<1>13. M \in SUBSET Vfds /\ c \in CallRecord \cup {NoCall} /\ (\A m \in M : AgreeAt(m)')
       /\ InFlightNow(t) /\ pipe = NoPipe
  BY <1>1, <1>3, <1>5, <1>12 DEF Handled
<1> HIDE DEF M
<1> QED
  BY <1>7, <1>5, <1>8, <1>9, <1>10, <1>11, <1>13, FdStep

LEMMA PipeSecondStep ==
  ASSUME Stress = {}, FdInv, TypeOK', NEW t \in Threads, pipe2_second(t)
  PROVE  FdInv'
<1>1. pipe # NoPipe /\ pipe.by = t /\ pipe' = NoPipe /\ alive' = alive
      /\ call' = [call EXCEPT ![t] = NoCall]
  BY GuestFdsAssumption DEF pipe2_second, NoPipe, Returned
<1>2. /\ InFlightNow(t) /\ call[t].at = "addfd" /\ call[t].op = "pipe2"
      /\ pipe.read \in Real /\ pipe.write \in Real /\ pipe.fd \in Fds
      /\ ~HasVfd(pipe.fd) /\ ktable[pipe.fd] = FdEntry(pipe.read, call[t].cx)
  BY <1>1 DEF FdInv, PipeOK, CallsOK, CallOK, ArgsOK
<1>0. PICK r \in Fds : r = pipe.fd
  BY <1>2
<1>3. r \in Vfds /\ r # NoFd /\ Names(call[t]) = {r}
  BY <1>0, <1>2, Numbers DEF Names
<1>4. PICK n \in Fds : /\ Lowest(n) /\ Install(n, pipe.write, call[t].cx)
                       /\ insert_two(r, n, call[t].cx)
  BY <1>0, <1>2, <1>3, AddfdWorks DEF pipe2_second
<1>5. KFree(n) /\ n \in Vfds /\ Unclaimed(t, {n}) /\ n # r
  <2>1. KFree(n) /\ n \in Vfds /\ Unclaimed(t, {n})
    BY <1>2, <1>4, FreeNumber DEF Lowest
  <2>2. ~KFree(r)
    BY <1>0, <1>2, GuestFdsAssumption DEF KFree, FdEntry, NoEntry
  <2> QED
    BY <2>1, <2>2
<1>6. /\ ktable'[n] = FdEntry(pipe.write, call[t].cx)
      /\ ktable'[r] = FdEntry(pipe.read, call[t].cx)
      /\ vtable'[n] = FdEntry(pipe.write, call[t].cx)
      /\ vtable'[r] = FdEntry(pipe.read, call[t].cx)
  BY <1>0, <1>2, <1>3, <1>4, <1>5, GuestFdsAssumption DEF Install, insert_two, FdInv, TypeOK, Backing
<1> DEFINE M == {n, r}
<1>7. Touches(t, NoCall, M)
  BY <1>1, <1>3, <1>4, <1>5 DEF Touches, Install, insert_two, FdInv, TypeOK
<1>8. Unclaimed(t, M)
  BY <1>2, <1>3, <1>5 DEF Unclaimed, FdInv, Apart
<1>9. Covers(t, M)
  BY <1>2, TrapQuiet DEF Covers
<1>10. PipeOK'
  <2>1. \A u \in Threads : InFlightNow(u)' => u # t /\ call'[u] = call[u] /\ InFlightNow(u)
    BY <1>1 DEF InFlightNow, FdInv, TypeOK
  <2>2. \A u \in Threads : InFlightNow(u)' => call'[u].at # "addfd"
    BY <1>1, <2>1 DEF FdInv, PipeOK
  <2>3. \A u \in Threads : u # pipe'.by
    BY <1>1, GuestFdsAssumption DEF NoPipe
  <2> QED
    BY <1>1, <2>2, <2>3 DEF PipeOK
<1>11. AgreeAt(n)' /\ AgreeAt(r)'
  <2>1. Backing(pipe.read) = pipe.read /\ Backing(pipe.write) = pipe.write
        /\ pipe.read # Placeholder /\ pipe.write # Placeholder
    BY <1>2, GuestFdsAssumption DEF Backing
  <2>2. AgreeAt(n)'
    BY <1>6, <2>1 DEF AgreeAt, MatchAt, FlagAt, PlaceAt, FdEntry
  <2>3. AgreeAt(r)'
    BY <1>2, <1>6, <2>1 DEF AgreeAt, MatchAt, FlagAt, PlaceAt, FdEntry
  <2> QED
    BY <2>2, <2>3
<1>12. M \in SUBSET Vfds /\ (\A m \in M : AgreeAt(m)') /\ NoCall \in CallRecord \cup {NoCall}
  BY <1>3, <1>5, <1>11
<1> HIDE DEF M
<1> QED
  BY <1>1, <1>2, <1>7, <1>8, <1>9, <1>10, <1>12, FdStep

\* A call returns, from its handler or from the kernel.
LEMMA ReturnStep ==
  ASSUME FdInv, TypeOK', NEW t \in Threads, InFlightNow(t), call[t].at # "addfd",
         Returned(t), UNCHANGED <<alive, pipe>>,
         NEW M \in SUBSET Vfds,
         \A n \in Vfds \ M : vtable'[n] = vtable[n],
         \A n \in Fds \ M : ktable'[n] = ktable[n],
         Unclaimed(t, M), Covers(t, M),
         \A n \in M : AgreeAt(n)'
  PROVE  FdInv'
<1>1. Touches(t, NoCall, M)
  BY DEF Touches, Returned
<1>2. PipeOK'
  BY <1>1, PipeKept
<1> QED
  BY <1>1, <1>2, FdStep

\* What a call names, no other call does.
LEMMA NamedUnclaimed ==
  ASSUME FdInv, NEW t \in Threads, InFlightNow(t), NEW M,
         call[t].op \in Big \/ M \subseteq Names(call[t])
  PROVE  Unclaimed(t, M)
BY DEF Unclaimed, FdInv, Apart

LEMMA NothingStep ==
  ASSUME FdInv, TypeOK', NEW t \in Threads, InFlightNow(t), call[t].at # "addfd",
         Returned(t), UNCHANGED <<kernel, pipe, vtable>>, Covers(t, {})
  PROVE  FdInv'
<1> DEFINE M == {}
<1>1. /\ M \in SUBSET Vfds /\ Unclaimed(t, M) /\ Covers(t, M)
      /\ \A n \in Vfds \ M : vtable'[n] = vtable[n]
      /\ \A n \in Fds \ M : ktable'[n] = ktable[n]
      /\ \A n \in M : AgreeAt(n)'
      /\ UNCHANGED <<alive, pipe>>
  BY DEF Unclaimed, kernel
<1> HIDE DEF M
<1> QED
  BY <1>1, ReturnStep

LEMMA DupStep ==
  ASSUME Stress = {}, FdInv, TypeOK', NEW t \in Threads, sys_dup(t)
  PROVE  FdInv'
<1>1. Handled(t) /\ call[t].op \in {"dup", "dupfd"} /\ call[t].fd \in Vfds /\ call[t].cx \in BOOLEAN
  BY HandlingIs, CallTypes DEF sys_dup, Handled, FdInv
<1>2. vtable[call[t].fd] \in TrackedEntry
  BY <1>1 DEF FdInv, TypeOK
<1>3. CASE vtable[call[t].fd].file = NoFile \/ (call[t].op = "dupfd" /\ call[t].fd \in Stdio)
  <2>1. Continues(t)
    BY <1>3 DEF sys_dup
  <2>2. vtable[call[t].fd].file \notin Virtual
    BY <1>1, <1>3, GuestFdsAssumption DEF FdInv, CallsOK, CallOK, TrapOK, Handled
  <2> QED
    BY <1>1, <2>1, <2>2, PassStep DEF Handled
<1>4. CASE ~(vtable[call[t].fd].file = NoFile \/ (call[t].op = "dupfd" /\ call[t].fd \in Stdio))
  <2>1. PICK f \in Real \cup Virtual : f = vtable[call[t].fd].file
    BY <1>2, <1>4 DEF TrackedEntry
  <2>2. addfd_auto(t, f, call[t].cx) /\ UNCHANGED pipe /\ Returned(t)
    BY <1>1, <1>4, <2>1, AddfdWorks DEF sys_dup, Handled
  <2>3. call' = [call EXCEPT ![t] = NoCall] /\ NoCall \in CallRecord \cup {NoCall}
    BY <2>2 DEF Returned
  <2> QED
    BY <1>1, <2>2, <2>3, AddfdStep DEF Handled
<1> QED
  BY <1>3, <1>4

\* A handler drops tracked entries and leaves the numbers to the kernel.
LEMMA DropStep ==
  ASSUME FdInv, TypeOK', NEW t \in Threads, Handled(t), NEW M \in SUBSET Vfds, NEW S, S \cap Vfds = M,
         remove(S), reply_continue(t, Removed(S)), UNCHANGED <<kernel, next_vfd, pipe>>,
         call[t].op \in Big \/ M \subseteq Names(call[t]),
         call[t].op \notin None \cup {"dup", "dupfd", "setfd", "cloexec_range"},
         call[t].op \in {"close", "close_range"} => M = (call[t].fd .. call[t].fd2) \cap Vfds,
         call[t].op \in Two => M = {call[t].fd2} /\ ~HasVfd(call[t].fd),
         call[t].op = "exec" => \A n \in Vfds : n \in M <=> vtable[n].cloexec
  PROVE  FdInv'
<1>0. InFlightNow(t) /\ call[t].at = "trap" /\ CallOK(call[t])
  BY DEF Handled, FdInv, CallsOK
<1>1. Removed(S) \in [Vfds -> TrackedEntry]
  BY RemovedTypes DEF FdInv
<1>2. PICK w \in [Vfds -> TrackedEntry] : w = Removed(S)
  BY <1>1
<1>3. PICK c \in CallRecord :
           /\ c = [call[t] EXCEPT !.at = "kernel", !.was = w]
           /\ c.op = call[t].op /\ c.fd = call[t].fd /\ c.fd2 = call[t].fd2 /\ c.cx = call[t].cx
           /\ c.at = "kernel" /\ c.was = w
  <2>1. TypeOK /\ InFlightNow(t)
    BY <1>0 DEF FdInv
  <2> QED
    BY <2>1, ContinuedCall
<1>4. /\ \A n \in Vfds \ M : vtable'[n] = vtable[n] /\ w[n] = NoEntry
      /\ \A n \in M : vtable'[n] = NoEntry /\ w[n] = vtable[n]
  BY <1>2 DEF remove, Removed
<1>5. \A n \in M : ~HasVfd(n)'
  BY <1>4 DEF HasVfd, NoEntry
<1>6. ASSUME NEW n \in Vfds, w[n].file # NoFile PROVE n \in M /\ n \in Fds /\ HasVfd(n)
  <2>1. n \in M /\ HasVfd(n)
    BY <1>4, <1>6 DEF NoEntry, HasVfd
  <2> QED
    BY <2>1 DEF FdInv, AgreeAt, MatchAt
<1>7. DroppedOK(c)'
  <2> SUFFICES ASSUME NEW n \in Vfds, w[n].file # NoFile
               PROVE  /\ n \in Fds
                      /\ \/ c.op \in {"close", "close_range"} /\ n \in c.fd .. c.fd2
                         \/ c.op \in Two /\ n = c.fd2 /\ c.fd # c.fd2
                         \/ c.op = "exec" /\ ktable'[n].cloexec
    BY <1>3 DEF DroppedOK
  <2>1. n \in M /\ n \in Fds /\ HasVfd(n)
    BY <1>6
  <2>2. c.op \in {"close", "close_range", "exec"} \cup Two
    <3>1. call[t].op \in Big \cup One \cup Two \cup None
      <4>1. call[t] \in CallRecord
        BY <1>0, CallTypes DEF FdInv
      <4> QED
        BY <4>1 DEF CallRecord, Creates, Big, One, Two, None
    <3> QED
      BY <1>3, <3>1 DEF Big, One, Two, None
  <2>3. CASE c.op = "exec"
    <3>1. vtable[n].cloexec = ktable[n].cloexec
      BY <1>0, <1>3, <2>1, <2>3, SameFlag DEF Big
    <3> QED
      BY <1>3, <2>1, <2>3, <3>1 DEF kernel
  <2> QED
    BY <1>3, <2>1, <2>2, <2>3
<1>8. KernelOK(c)'
  <2>1. c.op \in Two => ~HasVfd(c.fd)' /\ ~HasVfd(c.fd2)'
    BY <1>0, <1>3, <1>4, <1>5, Numbers DEF CallOK, ArgsOK, HasVfd
  <2>2. c.op \notin {"dup", "dupfd", "setfd", "cloexec_range"}
    BY <1>3
  <2>3. c.op \in {"close", "close_range"} => \A n \in Vfds : n \in c.fd .. c.fd2 => ~HasVfd(n)'
    BY <1>3, <1>5
  <2>4. c.op = "exec" => \A n \in Vfds : HasVfd(n)' => ~vtable'[n].cloexec
    BY <1>3, <1>4, <1>5
  <2> QED
    BY <2>1, <2>2, <2>3, <2>4 DEF KernelOK
<1>9. ASSUME NEW n \in M PROVE AgreeAt(n)'
  <2>1. MatchAt(n)' /\ FlagAt(n)'
    BY <1>5, <1>9 DEF MatchAt, FlagAt
  <2>2. PlaceAt(n)'
    <3> SUFFICES ASSUME n \in Fds, ktable[n].file = Placeholder
                 PROVE  \E u \in Threads : InFlightNow(u)' /\ call'[u].was[n].file \in Virtual
      BY DEF PlaceAt, kernel
    <3>1. vtable[n].file \in Virtual
      BY <1>0, <1>9, Sole, TrapQuiet
    <3>2. call'[t] = c
      BY <1>2, <1>3 DEF reply_continue, FdInv, TypeOK
    <3> QED
      <4>1. c # NoCall /\ c.was[n].file \in Virtual
        BY <1>3, <1>4, <1>9, <3>1, NoCallAssumption
      <4> QED
        BY <3>2, <4>1 DEF InFlightNow
  <2> QED
    BY <2>1, <2>2 DEF AgreeAt
<1>10. reply_continue(t, w) /\ UNCHANGED <<kernel, pipe>>
       /\ call[t].op \notin None \ {"create"}
  BY <1>2
<1>11. \A n \in Vfds \ M : vtable'[n] = vtable[n]
  BY <1>4
<1> QED
  BY <1>0, <1>3, <1>7, <1>8, <1>9, <1>10, <1>11, ContinueStep

LEMMA DupOntoStep ==
  ASSUME Stress = {}, FdInv, TypeOK', NEW t \in Threads, Handled(t), call[t].op \in Two,
         NEW cx \in BOOLEAN, dup_onto(t, call[t].fd, call[t].fd2, cx)
  PROVE  FdInv'
<1>0. InFlightNow(t) /\ call[t].at = "trap"
  BY DEF Handled
<1>1. /\ call[t] \in CallRecord /\ CallOK(call[t])
      /\ Names(call[t]) = {call[t].fd, call[t].fd2}
  BY <1>0, CallTypes, NamesOf DEF FdInv, CallsOK
<1>2. PICK o \in Fds, n \in Fds : o = call[t].fd /\ n = call[t].fd2
  BY <1>1 DEF CallOK, ArgsOK
<1>3. o \in Vfds /\ n \in Vfds /\ vtable[o] \in TrackedEntry
  BY <1>2, Numbers DEF FdInv, TypeOK
<1>4. CASE vtable[o].file = NoFile
  <2>1. /\ remove({n}) /\ reply_continue(t, Removed({n})) /\ UNCHANGED <<kernel, next_vfd, pipe>>
        /\ {n} \in SUBSET Vfds /\ {n} \cap Vfds = {n} /\ {n} \subseteq Names(call[t])
        /\ {n} = {call[t].fd2} /\ ~HasVfd(call[t].fd)
    BY <1>1, <1>2, <1>3, <1>4 DEF dup_onto, HasVfd
  <2>2. /\ call[t].op \notin None \cup {"dup", "dupfd", "setfd", "cloexec_range"}
        /\ call[t].op \notin {"close", "close_range", "exec"}
    BY DEF Two, None
  <2>3. \A M \in SUBSET Vfds : M = {n} => FdInv'
    BY <2>1, <2>2, DropStep
  <2> QED
    BY <2>1, <2>3
<1>5. CASE vtable[o].file # NoFile /\ o = n
  <2>1. Returned(t) /\ UNCHANGED <<kernel, pipe, vtable>>
    BY <1>2, <1>5 DEF dup_onto, tracked
  <2>2. Covers(t, {})
    BY <1>0, TrapQuiet DEF Covers
  <2> QED
    BY <1>0, <2>1, <2>2, NothingStep
<1>6. CASE vtable[o].file # NoFile /\ o # n
  <2>1. PICK f \in Real : f = vtable[o].file
    BY <1>0, <1>1, <1>2, <1>3, <1>6 DEF CallOK, TrapOK, TrackedEntry
  <2>2. f \notin Virtual /\ Backing(f) = f /\ f # Placeholder
    BY GuestFdsAssumption DEF Backing
  <2>3. /\ insert_at(n, f, cx) /\ Install(n, f, cx) /\ UNCHANGED <<alive, pipe>> /\ Returned(t)
    BY <1>0, <1>2, <1>6, <2>1, <2>2, AddfdWorks DEF dup_onto
  <2>4. /\ ktable'[n] = FdEntry(f, cx) /\ vtable'[n] = FdEntry(f, cx)
        /\ \A m \in Vfds \ {n} : vtable'[m] = vtable[m]
        /\ \A m \in Fds \ {n} : ktable'[m] = ktable[m]
    BY <1>3, <2>2, <2>3 DEF insert_at, Install, FdInv, TypeOK
  <2>5. AgreeAt(n)'
    BY <2>2, <2>4 DEF AgreeAt, MatchAt, FlagAt, PlaceAt, FdEntry
  <2>6. Unclaimed(t, {n}) /\ Covers(t, {n})
    BY <1>0, <1>1, <1>2, NamedUnclaimed, TrapQuiet DEF Covers
  <2> DEFINE M == {n}
  <2>7. /\ M \in SUBSET Vfds /\ Unclaimed(t, M) /\ Covers(t, M) /\ \A m \in M : AgreeAt(m)'
        /\ \A m \in Vfds \ M : vtable'[m] = vtable[m]
        /\ \A m \in Fds \ M : ktable'[m] = ktable[m]
    BY <1>3, <2>4, <2>5, <2>6
  <2> HIDE DEF M
  <2> QED
    BY <1>0, <2>3, <2>7, ReturnStep
<1> QED
  BY <1>4, <1>5, <1>6

LEMMA Dup2Step ==
  ASSUME Stress = {}, FdInv, TypeOK', NEW t \in Threads, sys_dup2(t) \/ sys_dup3(t)
  PROVE  FdInv'
<1>1. Handled(t) /\ call[t].op \in Two /\ call[t].cx \in BOOLEAN
  BY HandlingIs, CallTypes DEF sys_dup2, sys_dup3, Handled, FdInv, Two
<1>2. CASE \E cx \in BOOLEAN : dup_onto(t, call[t].fd, call[t].fd2, cx)
  BY <1>1, <1>2, DupOntoStep
<1>3. CASE Returned(t) /\ UNCHANGED <<kernel, tracked, pipe>>
  BY <1>1, <1>3, NothingStep, TrapQuiet DEF Handled, Covers, tracked
<1> QED
  BY <1>1, <1>2, <1>3 DEF sys_dup2, sys_dup3

LEMMA CloseStep ==
  ASSUME FdInv, TypeOK', NEW t \in Threads, sys_close(t) \/ sys_close_range(t) \/ sys_execve(t)
  PROVE  FdInv'
<1>1. Handled(t) /\ call[t].op \in {"close", "close_range", "exec"}
  BY HandlingIs DEF sys_close, sys_close_range, sys_execve
<1>2. InFlightNow(t) /\ call[t] \in CallRecord /\ CallOK(call[t])
      /\ call[t].op \notin None \cup {"dup", "dupfd", "setfd", "cloexec_range"} \cup Two
  BY <1>1, CallTypes DEF Handled, FdInv, CallsOK, None, Two
<1>3. CASE sys_close(t)
  <2>1. call[t].op = "close" /\ call[t].fd = call[t].fd2 /\ call[t].fd \in Vfds /\ call[t].fd \in Nat
    BY <1>2, <1>3, HandlingIs, Numbers DEF sys_close, CallOK, ArgsOK, One
  <2>2. {call[t].fd} = (call[t].fd .. call[t].fd2) \cap Vfds
    BY <2>1
  <2>3. PICK M \in SUBSET Vfds : M = {call[t].fd}
    BY <2>1
  <2>4. M \cap Vfds = M /\ M \subseteq Names(call[t])
        /\ remove(M) /\ reply_continue(t, Removed(M)) /\ UNCHANGED <<kernel, next_vfd, pipe>>
    BY <1>3, <2>1, <2>3, NamesOf DEF sys_close, One
  <2> QED
    BY <1>1, <1>2, <2>1, <2>2, <2>3, <2>4, DropStep
<1>4. CASE sys_close_range(t)
  <2>1. call[t].op = "close_range" /\ call[t].op \in Big
    BY <1>4, HandlingIs DEF sys_close_range, Big
  <2>2. PICK M \in SUBSET Vfds : M = FdRange(t) \cap Vfds
    OBVIOUS
  <2>3. remove(FdRange(t)) /\ reply_continue(t, Removed(FdRange(t)))
        /\ UNCHANGED <<kernel, next_vfd, pipe>>
    BY <1>4 DEF sys_close_range
  <2>4. M = (call[t].fd .. call[t].fd2) \cap Vfds
    BY <2>2 DEF FdRange
  <2> QED
    BY <1>1, <1>2, <2>1, <2>2, <2>3, <2>4, DropStep
<1>5. CASE sys_execve(t)
  <2>1. call[t].op = "exec" /\ call[t].op \in Big
    BY <1>5, HandlingIs DEF sys_execve, Big
  <2>2. PICK M \in SUBSET Vfds : M = {n \in Vfds : vtable[n].cloexec}
    OBVIOUS
  <2>3. M \cap Vfds = M /\ remove(M) /\ reply_continue(t, Removed(M))
        /\ UNCHANGED <<kernel, next_vfd, pipe>>
        /\ \A n \in Vfds : n \in M <=> vtable[n].cloexec
    BY <1>5, <2>2 DEF sys_execve
  <2> QED
    BY <1>1, <1>2, <2>1, <2>3, DropStep
<1> QED
  BY <1>3, <1>4, <1>5

\* A handler marks tracked entries and leaves the kernel's flags to the kernel.
LEMMA MarkStep ==
  ASSUME FdInv, TypeOK', NEW t \in Threads, Handled(t), NEW M \in SUBSET Vfds, NEW S, S \cap Vfds = M,
         call[t].op \in {"setfd", "cloexec_range"},
         set_cloexec(S, call[t].cx), reply_continue(t, Nothing), UNCHANGED <<kernel, next_vfd, pipe>>,
         call[t].op \in Big \/ M \subseteq Names(call[t]),
         M = (call[t].fd .. call[t].fd2) \cap Vfds
  PROVE  FdInv'
<1>0. InFlightNow(t) /\ call[t].at = "trap"
  BY DEF Handled
<1>1. Nothing \in [Vfds -> TrackedEntry]
  BY EntryTypes
<1>2. PICK c \in CallRecord :
           /\ c = [call[t] EXCEPT !.at = "kernel", !.was = Nothing]
           /\ c.op = call[t].op /\ c.fd = call[t].fd /\ c.fd2 = call[t].fd2 /\ c.cx = call[t].cx
           /\ c.at = "kernel" /\ c.was = Nothing
  <2>1. TypeOK /\ InFlightNow(t)
    BY <1>0 DEF FdInv
  <2> QED
    BY <1>1, <2>1, ContinuedCall
<1>3. call'[t] = c /\ c # NoCall
  BY <1>2, NoCallAssumption DEF reply_continue, FdInv, TypeOK
<1>4. /\ \A n \in Vfds \ M : vtable'[n] = vtable[n]
      /\ \A n \in Vfds : vtable'[n].file = vtable[n].file
      /\ \A n \in M : HasVfd(n)' => vtable'[n].cloexec = c.cx
  BY <1>2 DEF set_cloexec, HasVfd, FdEntry
<1>5. DroppedOK(c)'
  BY <1>2 DEF DroppedOK, Nothing, NoEntry
<1>6. KernelOK(c)'
  BY <1>2, <1>4 DEF KernelOK, Two
<1>7. ASSUME NEW n \in M PROVE AgreeAt(n)'
  <2>1. n \in Vfds /\ AgreeAt(n) /\ n \in c.fd .. c.fd2
    BY <1>2, <1>7 DEF FdInv
  <2>2. MatchAt(n)'
    BY <1>4, <2>1 DEF AgreeAt, MatchAt, HasVfd, kernel
  <2>3. FlagAt(n)'
    BY <1>2, <1>3, <2>1 DEF FlagAt, InFlightNow
  <2>4. PlaceAt(n)'
    <3> SUFFICES ASSUME n \in Fds, ktable[n].file = Placeholder PROVE vtable'[n].file \in Virtual
      BY DEF PlaceAt, kernel
    <3>1. vtable[n].file \in Virtual
      BY <1>0, <1>7, Sole, TrapQuiet
    <3> QED
      BY <1>4, <2>1, <3>1
  <2> QED
    BY <2>2, <2>3, <2>4 DEF AgreeAt
<1>8. call[t].op \notin None \ {"create"} /\ UNCHANGED <<kernel, pipe>>
  BY DEF None
<1> QED
  BY <1>0, <1>1, <1>2, <1>4, <1>5, <1>6, <1>7, <1>8, ContinueStep

LEMMA CloexecStep ==
  ASSUME Stress = {}, FdInv, TypeOK', NEW t \in Threads,
         sys_cloexec_range(t) \/ sys_setfd(t) \/ unhandled(t)
  PROVE  FdInv'
<1>1. Handled(t)
  BY HandlingIs DEF sys_cloexec_range, sys_setfd, unhandled
<1>2. InFlightNow(t) /\ call[t].at = "trap" /\ call[t] \in CallRecord /\ CallOK(call[t])
  BY <1>1, CallTypes DEF Handled, FdInv, CallsOK
<1>3. CASE unhandled(t)
  BY <1>2, <1>3, PassStep, HandlingIs DEF unhandled
<1>4. CASE sys_cloexec_range(t)
  <2>1. call[t].op = "cloexec_range" /\ call[t].op \in Big /\ call[t].cx = TRUE
    BY <1>2, <1>4, HandlingIs DEF sys_cloexec_range, Big, CallOK, ArgsOK, CallRecord
  <2>2. PICK M \in SUBSET Vfds : M = FdRange(t) \cap Vfds
    OBVIOUS
  <2>3. /\ set_cloexec(FdRange(t), call[t].cx) /\ reply_continue(t, Nothing)
        /\ UNCHANGED <<kernel, next_vfd, pipe>>
    BY <1>4, <2>1 DEF sys_cloexec_range
  <2>4. M = (call[t].fd .. call[t].fd2) \cap Vfds
    BY <2>2 DEF FdRange
  <2> QED
    BY <1>1, <2>1, <2>2, <2>3, <2>4, MarkStep
<1>5. CASE sys_setfd(t)
  <2>1. /\ call[t].op = "setfd" /\ call[t].fd = call[t].fd2 /\ call[t].fd \in Vfds
        /\ call[t].fd \in Nat /\ Names(call[t]) = {call[t].fd}
    BY <1>2, <1>5, HandlingIs, Numbers, NamesOf DEF sys_setfd, CallOK, ArgsOK, One
  <2>2. CASE call[t].fd \in Stdio \/ ~HasVfd(call[t].fd)
    <3>1. Continues(t)
      BY <1>5, <2>2 DEF sys_setfd
    <3>2. ~HasVfd(call[t].fd)
      BY <1>2, <2>1, <2>2 DEF CallOK, TrapOK
    <3> QED
      BY <1>2, <2>1, <3>1, <3>2, PassStep
  <2>3. CASE ~(call[t].fd \in Stdio \/ ~HasVfd(call[t].fd))
    <3>1. vtable[call[t].fd].file \notin Virtual
      BY <1>2, <2>1 DEF CallOK, TrapOK
    <3>2. /\ set_cloexec({call[t].fd}, call[t].cx) /\ reply_continue(t, Nothing)
          /\ UNCHANGED <<kernel, next_vfd, pipe>>
      BY <1>5, <2>3, <3>1 DEF sys_setfd
    <3>3. PICK M \in SUBSET Vfds : M = {call[t].fd}
      BY <2>1
    <3>4. M = (call[t].fd .. call[t].fd2) \cap Vfds /\ M \cap Vfds = M /\ M \subseteq Names(call[t])
      BY <2>1, <3>3
    <3>5. set_cloexec(M, call[t].cx)
      BY <3>2, <3>3
    <3> QED
      BY <1>1, <2>1, <3>2, <3>4, <3>5, MarkStep
  <2> QED
    BY <2>2, <2>3
<1> QED
  BY <1>3, <1>4, <1>5

LEMMA HandlerStep ==
  ASSUME Stress = {}, FdInv, NEW t \in Threads, Handler(t)
  PROVE  FdInv'
<1>1. TypeOK'
  BY HandlerTypeOK
<1> QED
  BY <1>1, OpenStep, PipeStep, PipeSecondStep, DupStep, Dup2Step, CloseStep, CloexecStep DEF Handler

-----------------------------------------------------------------------------
(* One step per call the kernel runs.                                      *)

\* The kernel's part of a call that changes the numbers of M.
LEMMA KernelStep ==
  ASSUME FdInv, TypeOK', NEW t \in Threads, InFlightNow(t), call[t].at = "kernel", KernelDone(t),
         NEW M \in SUBSET Vfds, \A n \in Fds \ M : ktable'[n] = ktable[n],
         Unclaimed(t, M), Covers(t, M),
         \A n \in M : AgreeAt(n)'
  PROVE  FdInv'
<1>1. Returned(t) /\ UNCHANGED <<alive, pipe, vtable>>
  BY DEF KernelDone, tracked
<1>2. \A n \in Vfds \ M : vtable'[n] = vtable[n]
  BY <1>1
<1> QED
  BY <1>1, <1>2, ReturnStep

LEMMA InKernelIs ==
  ASSUME FdInv, NEW t \in Threads, NEW op, InKernel(t, op)
  PROVE  /\ InFlightNow(t) /\ call[t].at = "kernel" /\ call[t].op = op
         /\ call[t] \in CallRecord /\ CallOK(call[t])
BY CallTypes DEF InKernel, InFlightNow, FdInv, CallsOK

\* A file the kernel puts at a number that is free or not tracked any more.
LEMMA KernelPuts ==
  ASSUME FdInv, TypeOK', NEW t \in Threads, InFlightNow(t), call[t].at = "kernel", KernelDone(t),
         NEW n \in Fds, NEW f, NEW cx, f # Placeholder, ktable' = [ktable EXCEPT ![n] = FdEntry(f, cx)],
         ~HasVfd(n), Unclaimed(t, {n}), Covers(t, {n})
  PROVE  FdInv'
<1>1. n \in Vfds /\ ktable'[n] = FdEntry(f, cx) /\ ~HasVfd(n)'
  BY Numbers DEF FdInv, TypeOK, KernelDone, tracked, HasVfd
<1>2. AgreeAt(n)'
  BY <1>1 DEF AgreeAt, MatchAt, FlagAt, PlaceAt, FdEntry
<1> DEFINE M == {n}
<1>3. /\ M \in SUBSET Vfds /\ Unclaimed(t, M) /\ Covers(t, M)
      /\ (\A m \in M : AgreeAt(m)') /\ \A m \in Fds \ M : ktable'[m] = ktable[m]
  BY <1>1, <1>2 DEF FdInv, TypeOK
<1> HIDE DEF M
<1> QED
  BY <1>3, KernelStep

LEMMA KernelCloseStep == ASSUME FdInv, TypeOK', NEW t \in Threads, KernelClose(t) PROVE FdInv'
<1>1. /\ InFlightNow(t) /\ call[t].at = "kernel" /\ call[t].op \in {"close", "close_range"}
      /\ call[t] \in CallRecord /\ CallOK(call[t])
  BY InKernelIs DEF KernelClose
<1>2. PICK M \in SUBSET Vfds : M = (call[t].fd .. call[t].fd2) \cap Vfds
  OBVIOUS
<1>3. /\ \A n \in Fds \ M : ktable'[n] = ktable[n]
      /\ \A n \in M \cap Fds : ktable'[n] = NoEntry
      /\ UNCHANGED vtable
  BY <1>2, Numbers DEF KernelClose, KernelDone, tracked
<1>4. Unclaimed(t, M)
  <2>1. CASE call[t].op = "close"
    <3>1. call[t].fd = call[t].fd2 /\ call[t].fd \in Nat
      BY <1>1, <2>1, Numbers DEF CallOK, ArgsOK, One, CallRecord
    <3>2. M \subseteq Names(call[t])
      BY <1>2, <2>1, <3>1, NamesOf DEF One
    <3> QED
      BY <1>1, <3>2, NamedUnclaimed
  <2>2. CASE call[t].op = "close_range"
    BY <1>1, <2>2, NamedUnclaimed DEF Big
  <2> QED
    BY <1>1, <2>1, <2>2
<1>5. Covers(t, M)
  BY <1>1, <1>2 DEF Covers, CallOK, DroppedOK, Two
<1>6. ASSUME NEW n \in M PROVE AgreeAt(n)'
  <2>1. ~HasVfd(n)'
    BY <1>1, <1>2, <1>3, <1>6 DEF CallOK, KernelOK, HasVfd
  <2>2. n \in Fds => ktable'[n].file # Placeholder
    BY <1>3, <1>6, GuestFdsAssumption DEF NoEntry
  <2> QED
    BY <2>1, <2>2 DEF AgreeAt, MatchAt, FlagAt, PlaceAt
<1> QED
  BY <1>1, <1>3, <1>4, <1>5, <1>6, KernelStep DEF KernelClose

LEMMA KernelSetCloexecStep ==
  ASSUME FdInv, TypeOK', NEW t \in Threads, KernelSetCloexec(t)
  PROVE  FdInv'
<1>1. /\ InFlightNow(t) /\ call[t].at = "kernel" /\ call[t].op \in {"setfd", "cloexec_range"}
      /\ call[t] \in CallRecord /\ CallOK(call[t])
  BY InKernelIs DEF KernelSetCloexec
<1>2. PICK M \in SUBSET Vfds : M = (call[t].fd .. call[t].fd2) \cap Vfds
  OBVIOUS
<1>3. /\ \A n \in Fds \ M : ktable'[n] = ktable[n]
      /\ \A n \in Fds : ktable'[n].file = ktable[n].file
      /\ \A n \in M \cap Fds : ktable[n].file # NoFile => ktable'[n].cloexec = call[t].cx
      /\ UNCHANGED vtable
  BY <1>2, Numbers DEF KernelSetCloexec, KernelDone, tracked, KFree, FdEntry, NoEntry
<1>4. call[t].op \in Big \/ M \subseteq Names(call[t])
  <2>1. CASE call[t].op = "setfd"
    <3>1. call[t].fd = call[t].fd2 /\ call[t].fd \in Nat
      BY <1>1, <2>1, Numbers DEF CallOK, ArgsOK, One, CallRecord
    <3> QED
      BY <1>2, <2>1, <3>1, NamesOf DEF One
  <2>2. CASE call[t].op = "cloexec_range"
    BY <2>2 DEF Big
  <2> QED
    BY <1>1, <2>1, <2>2
<1>5. Unclaimed(t, M)
  BY <1>1, <1>4, NamedUnclaimed
<1>6. Covers(t, M)
  BY <1>1, <1>2, TrapQuiet DEF Covers
<1>7. ASSUME NEW n \in M PROVE AgreeAt(n)'
  <2>1. n \in Vfds /\ AgreeAt(n)
    BY <1>7 DEF FdInv
  <2>2. MatchAt(n)'
    BY <1>3, <2>1 DEF AgreeAt, MatchAt, HasVfd
  <2>3. FlagAt(n)'
    <3> SUFFICES ASSUME n \in Fds, HasVfd(n) PROVE vtable[n].cloexec = ktable'[n].cloexec
      BY <1>3 DEF FlagAt, HasVfd
    <3>1. ktable[n].file # NoFile
      <4>1. ktable[n].file = Backing(vtable[n].file) /\ vtable[n] \in TrackedEntry
        BY <2>1 DEF AgreeAt, MatchAt, FdInv, TypeOK
      <4> QED
        BY <4>1, GuestFdsAssumption DEF Backing, HasVfd, TrackedEntry
    <3>2. vtable[n].cloexec = call[t].cx
      BY <1>1, <1>2, <1>7 DEF CallOK, KernelOK
    <3> QED
      BY <1>3, <1>7, <3>1, <3>2
  <2>4. PlaceAt(n)'
    <3> SUFFICES ASSUME n \in Fds, ktable[n].file = Placeholder PROVE vtable[n].file \in Virtual
      BY <1>3 DEF PlaceAt
    <3> QED
      BY <1>1, <1>4, <1>7, Sole, TrapQuiet
  <2> QED
    BY <2>2, <2>3, <2>4 DEF AgreeAt
<1> QED
  BY <1>1, <1>3, <1>5, <1>6, <1>7, KernelStep DEF KernelSetCloexec

LEMMA KernelDupStep == ASSUME FdInv, TypeOK', NEW t \in Threads, KernelDup(t) PROVE FdInv'
<1>1. /\ InFlightNow(t) /\ call[t].at = "kernel" /\ call[t].op \in {"dup", "dupfd"}
      /\ call[t] \in CallRecord /\ CallOK(call[t]) /\ KernelDone(t)
  BY InKernelIs DEF KernelDup
<1>2. PICK o \in Fds : o = call[t].fd
  BY <1>1 DEF CallOK, ArgsOK, One
<1>3. Covers(t, {}) /\ \A n : Covers(t, {n})
  BY <1>1, TrapQuiet DEF Covers
<1>4. CASE UNCHANGED ktable
  BY <1>1, <1>3, <1>4, NothingStep DEF KernelDone, kernel, tracked
<1>5. ASSUME NEW n \in Fds, KFree(n), ktable' = [ktable EXCEPT ![n] = FdEntry(ktable[o].file, call[t].cx)]
      PROVE  FdInv'
  <2>1. ktable[o].file # Placeholder
    <3>1. o \in Names(call[t]) /\ call[t].was[o].file = NoFile
      BY <1>1, <1>2, NamesOf, TrapQuiet, Numbers DEF One
    <3>2. vtable[o].file \notin Virtual
      BY <1>1, <1>2 DEF CallOK, KernelOK
    <3> QED
      BY <1>1, <3>1, <3>2, Sole
  <2>2. ~HasVfd(n) /\ Unclaimed(t, {n})
    BY <1>1, <1>5, FreeNumber
  <2> QED
    BY <1>1, <1>3, <1>5, <2>1, <2>2, KernelPuts
<1> QED
  BY <1>2, <1>4, <1>5 DEF KernelDup

LEMMA KernelDup2Step == ASSUME FdInv, TypeOK', NEW t \in Threads, KernelDup2(t) PROVE FdInv'
<1>1. /\ InFlightNow(t) /\ call[t].at = "kernel" /\ call[t].op \in Two
      /\ call[t] \in CallRecord /\ CallOK(call[t]) /\ KernelDone(t)
  BY InKernelIs DEF KernelDup2, Two
<1>2. PICK o \in Fds, n \in Fds : o = call[t].fd /\ n = call[t].fd2
  BY <1>1 DEF CallOK, ArgsOK
<1>3. IsOpen(o) /\ ~HasVfd(o) /\ ~HasVfd(n) /\ o \in Vfds /\ n \in Vfds
  BY <1>1, <1>2, Numbers DEF CallOK, ArgsOK, KernelOK
<1>4. /\ \A m \in Vfds : call[t].was[m].file # NoFile => m = n /\ o # n
      /\ call[t].op \notin {"setfd", "cloexec_range"}
  BY <1>1, <1>2 DEF CallOK, DroppedOK, Two
<1>5. CASE o = n
  BY <1>1, <1>2, <1>4, <1>5, NothingStep DEF KernelDup2, KernelDone, kernel, tracked, Covers
<1>6. CASE o # n
  <2>1. PICK cx : cx = (call[t].op = "dup3" /\ call[t].cx)
    OBVIOUS
  <2>2. ktable' = [ktable EXCEPT ![n] = FdEntry(ktable[o].file, cx)]
    BY <1>2, <1>3, <1>6, <2>1 DEF KernelDup2
  <2>3. ktable[o].file # Placeholder
    <3>1. o \in Names(call[t]) /\ call[t].was[o].file = NoFile
      BY <1>1, <1>2, <1>3, <1>4, <1>6, NamesOf
    <3>2. vtable[o].file \notin Virtual
      BY <1>3, GuestFdsAssumption DEF HasVfd
    <3> QED
      BY <1>1, <3>1, <3>2, Sole
  <2>4. Unclaimed(t, {n}) /\ Covers(t, {n})
    BY <1>1, <1>2, <1>4, NamesOf, NamedUnclaimed DEF Covers
  <2> QED
    BY <1>1, <1>3, <2>2, <2>3, <2>4, KernelPuts
<1> QED
  BY <1>5, <1>6

LEMMA KernelCreateStep == ASSUME FdInv, TypeOK', NEW t \in Threads, KernelCreate(t) PROVE FdInv'
<1>1. /\ InFlightNow(t) /\ call[t].at = "kernel" /\ call[t].op = "create" /\ KernelDone(t)
  BY InKernelIs DEF KernelCreate
<1>2. PICK n \in Fds, f \in Own : KFree(n) /\ ktable' = [ktable EXCEPT ![n] = FdEntry(f, call[t].cx)]
  BY DEF KernelCreate, Lowest
<1>3. ~HasVfd(n) /\ Unclaimed(t, {n}) /\ Covers(t, {n})
  BY <1>1, <1>2, FreeNumber, TrapQuiet DEF Covers
<1>4. f # Placeholder
  BY GuestFdsAssumption
<1> QED
  BY <1>1, <1>2, <1>3, <1>4, KernelPuts

\* exec runs alone: what the handler left behind is what the kernel keeps.
LEMMA KernelExecStep == ASSUME FdInv, TypeOK', NEW t \in Threads, KernelExec(t) PROVE FdInv'
<1>1. /\ InFlightNow(t) /\ call[t].at = "kernel" /\ call[t].op = "exec"
      /\ call[t] \in CallRecord /\ CallOK(call[t]) /\ UNCHANGED <<tracked, pipe>>
      /\ ktable' = [n \in Fds |-> IF ktable[n].cloexec THEN NoEntry ELSE ktable[n]]
  BY InKernelIs DEF KernelExec
<1>2. \A u \in Threads \ {t} : ~InFlightNow(u)
  BY <1>1 DEF FdInv, Apart, Big
<1>3. pipe = NoPipe
  BY <1>1, <1>2 DEF FdInv, PipeOK
<1>4. \A u \in Threads : ~InFlightNow(u)'
  <2>1. PICK kept \in SUBSET {u \in Threads \ {t} : call[u] # NoCall /\ call[u].at # "kernel"} :
           call' = [u \in Threads |-> IF u \in kept THEN call[u] ELSE NoCall]
    BY DEF KernelExec
  <2> QED
    BY <1>2, <2>1 DEF InFlightNow
<1>5. CallsOK' /\ Apart' /\ PipeOK'
  BY <1>1, <1>3, <1>4 DEF CallsOK, Apart, PipeOK
<1>6. ASSUME NEW n \in Vfds PROVE AgreeAt(n)'
  <2>1. AgreeAt(n) /\ vtable'[n] = vtable[n]
    BY <1>1, <1>6 DEF FdInv, tracked
  <2>2. HasVfd(n) => n \in Fds /\ vtable[n].cloexec = ktable[n].cloexec /\ ~vtable[n].cloexec
    <3>1. HasVfd(n) => n \in Fds /\ ~vtable[n].cloexec
      BY <1>1, <2>1 DEF AgreeAt, MatchAt, CallOK, KernelOK
    <3> QED
      BY <1>1, <3>1, SameFlag DEF Big
  <2>3. HasVfd(n) => ktable'[n] = ktable[n]
    BY <1>1, <2>2
  <2>4. MatchAt(n)' /\ FlagAt(n)'
    BY <2>1, <2>2, <2>3 DEF AgreeAt, MatchAt, FlagAt, HasVfd
  <2>5. PlaceAt(n)'
    <3> SUFFICES ASSUME n \in Fds, ktable'[n].file = Placeholder PROVE vtable[n].file \in Virtual
      BY <2>1 DEF PlaceAt
    <3>1. ~ktable[n].cloexec /\ ktable[n].file = Placeholder
      BY <1>1, GuestFdsAssumption DEF NoEntry
    <3>2. call[t].was[n].file = NoFile
      BY <1>1, <3>1 DEF CallOK, DroppedOK, Two
    <3> QED
      BY <1>1, <3>1, <3>2, Sole DEF Big
  <2> QED
    BY <2>4, <2>5 DEF AgreeAt
<1> QED
  BY <1>5, <1>6 DEF FdInv

LEMMA SameState ==
  ASSUME FdInv, TypeOK', UNCHANGED <<ktable, call, tracked, pipe>>, alive \subseteq alive'
  PROVE  FdInv'
<1>1. CallsOK'
  BY DEF FdInv, CallsOK, InFlightNow, CallOK, ArgsOK, DroppedOK, TrapOK, KernelOK,
         IsOpen, KFree, HasVfd, tracked
<1>2. Apart'
  BY DEF FdInv, Apart, InFlightNow, Names, IsOpen, KFree
<1>3. PipeOK'
  BY DEF FdInv, PipeOK, InFlightNow, HasVfd, tracked
<1>4. \A n \in Vfds : AgreeAt(n)'
  BY DEF FdInv, AgreeAt, MatchAt, FlagAt, PlaceAt, InFlightNow, HasVfd, tracked
<1> QED
  BY <1>1, <1>2, <1>3, <1>4 DEF FdInv

LEMMA AnyKernelStep ==
  ASSUME Stress = {}, FdInv, NEW t \in Threads, Kernel(t)
  PROVE  FdInv'
<1>1. TypeOK'
  BY KernelTypes DEF FdInv
<1>2. CASE KernelSpawn(t)
  BY <1>1, <1>2, SameState DEF KernelSpawn
<1>3. ~KernelRefuses(t)
  BY DEF KernelRefuses
<1> QED
  BY <1>1, <1>2, <1>3, KernelCloseStep, KernelSetCloexecStep, KernelDupStep, KernelDup2Step,
     KernelCreateStep, KernelExecStep DEF Kernel

-----------------------------------------------------------------------------
(* The guest makes a call.                                                 *)

AnyOp == Big \cup One \cup Two \cup None
Made(t, op, fd, fd2, cx) ==
  /\ Trap(t, op, fd, fd2, cx)
  /\ op \in One => fd = fd2 /\ fd \in Fds
  /\ op \in Two => fd \in Fds
  /\ op = "cloexec_range" => cx
  /\ op = "dup2" => ~cx

LEMMA TrapMade ==
  ASSUME NEW t \in Threads, GuestCall(t)
  PROVE  \E op \in AnyOp, fd \in Vfds, fd2 \in Vfds, cx \in BOOLEAN : Made(t, op, fd, fd2, cx)
<1>1. 0 \in Fds /\ MaxVfd \in Vfds /\ Fds \subseteq Vfds
  BY Numbers, GuestFdsAssumption DEF Vfds
<1>2. ASSUME NEW cx \in BOOLEAN, NEW op \in None, Trap(t, op, 0, 0, cx)
      PROVE  op \in AnyOp /\ Made(t, op, 0, 0, cx)
  BY <1>2 DEF Made, AnyOp, One, Two, None
<1>3. ASSUME NEW n \in Fds, NEW op \in One, NEW cx \in BOOLEAN, Trap(t, op, n, n, cx)
      PROVE  op \in AnyOp /\ Made(t, op, n, n, cx)
  BY <1>3 DEF Made, AnyOp, One, Two
<1>4. ASSUME NEW n \in Fds, NEW m \in Vfds, NEW op \in Two, NEW cx \in BOOLEAN, Trap(t, op, n, m, cx),
             op = "dup2" => ~cx
      PROVE  op \in AnyOp /\ Made(t, op, n, m, cx)
  BY <1>4 DEF Made, AnyOp, One, Two
<1>5. ASSUME NEW n \in Vfds, NEW m \in Vfds, NEW op \in Big, NEW cx \in BOOLEAN,
             Trap(t, op, n, m, cx), op = "cloexec_range" => cx
      PROVE  op \in AnyOp /\ Made(t, op, n, m, cx)
  BY <1>5 DEF Made, AnyOp, Big, One, Two
<1>6. \/ \E cx \in BOOLEAN, op \in None : Trap(t, op, 0, 0, cx)
      \/ \E n \in Fds, op \in One, cx \in BOOLEAN : Trap(t, op, n, n, cx)
      \/ \E n \in Fds, m \in Vfds, op \in Two, cx \in BOOLEAN :
           Trap(t, op, n, m, cx) /\ (op = "dup2" => ~cx)
      \/ \E n \in Fds : Trap(t, "close_range", n, MaxVfd, FALSE)
      \/ \E n \in Fds : Trap(t, "cloexec_range", n, MaxVfd, TRUE)
      \/ Trap(t, "exec", 0, 0, FALSE)
  BY DEF GuestCall, One, Two, None
<1>7. "close_range" \in Big /\ "cloexec_range" \in Big /\ "exec" \in Big
  BY DEF Big
<1> QED
  <2>1. CASE \E cx \in BOOLEAN, op \in None : Trap(t, op, 0, 0, cx)
    BY <1>1, <1>2, <2>1
  <2>2. CASE \E n \in Fds, op \in One, cx \in BOOLEAN : Trap(t, op, n, n, cx)
    BY <1>1, <1>3, <2>2
  <2>3. CASE \E n \in Fds, m \in Vfds, op \in Two, cx \in BOOLEAN :
               Trap(t, op, n, m, cx) /\ (op = "dup2" => ~cx)
    BY <1>1, <1>4, <2>3
  <2>4. CASE \E n \in Fds : Trap(t, "close_range", n, MaxVfd, FALSE)
    <3>1. PICK n \in Fds : Trap(t, "close_range", n, MaxVfd, FALSE)
      BY <2>4
    <3>2. Made(t, "close_range", n, MaxVfd, FALSE) /\ "close_range" \in AnyOp
      BY <1>1, <1>5, <1>7, <3>1
    <3> QED
      BY <1>1, <3>2
  <2>5. CASE \E n \in Fds : Trap(t, "cloexec_range", n, MaxVfd, TRUE)
    <3>1. PICK n \in Fds : Trap(t, "cloexec_range", n, MaxVfd, TRUE)
      BY <2>5
    <3>2. Made(t, "cloexec_range", n, MaxVfd, TRUE) /\ "cloexec_range" \in AnyOp
      BY <1>1, <1>5, <1>7, <3>1
    <3> QED
      BY <1>1, <3>2
  <2>6. CASE Trap(t, "exec", 0, 0, FALSE)
    <3>1. Made(t, "exec", 0, 0, FALSE) /\ "exec" \in AnyOp
      BY <1>1, <1>5, <1>7, <2>6
    <3> QED
      BY <1>1, <3>1
  <2> QED
    BY <1>6, <2>1, <2>2, <2>3, <2>4, <2>5, <2>6

LEMMA TrapStep ==
  ASSUME Stress = {}, FdInv, NEW t \in Threads, GuestCall(t)
  PROVE  FdInv'
<1>1. TypeOK' /\ t \in alive /\ ~InFlightNow(t)
  BY TrapTypes DEF FdInv, GuestCall, MayCall, InFlightNow
<1>2. \E op \in AnyOp, fd \in Vfds, fd2 \in Vfds, cx \in BOOLEAN : Made(t, op, fd, fd2, cx)
  BY TrapMade
<1>3. PICK op \in AnyOp, fd \in Vfds, fd2 \in Vfds, cx \in BOOLEAN : Made(t, op, fd, fd2, cx)
  BY <1>2
<1>0. /\ Trap(t, op, fd, fd2, cx)
      /\ op \in One => fd = fd2 /\ fd \in Fds
      /\ op \in Two => fd \in Fds
      /\ op = "cloexec_range" => cx
      /\ op = "dup2" => ~cx
  BY <1>3 DEF Made
<1>4. PICK c : c = Trapped(op, fd, fd2, cx)
  OBVIOUS
<1>5. /\ c.op = op /\ c.fd = fd /\ c.fd2 = fd2 /\ c.cx = cx /\ c.at = "trap" /\ c.was = Nothing
  BY <1>4 DEF Trapped
<1>6. /\ Disciplined(t, c) /\ Ordinary(t, c) /\ call' = [call EXCEPT ![t] = c]
      /\ UNCHANGED <<kernel, tracked, pipe>>
  BY <1>0, <1>4 DEF Trap
<1>7. /\ \A u \in Threads \ {t} : call'[u] = call[u]
      /\ call'[t] = c
  BY <1>6 DEF FdInv, TypeOK
<1>8. /\ \A n : HasVfd(n)' <=> HasVfd(n)
      /\ \A n : IsOpen(n)' <=> IsOpen(n)
      /\ \A d : Names(d)' = Names(d)
  BY <1>6 DEF HasVfd, IsOpen, KFree, Names, kernel, tracked
<1>9. \A d : CallOK(d) <=> CallOK(d)'
  <2> SUFFICES ASSUME NEW d PROVE CallOK(d) <=> CallOK(d)'
    OBVIOUS
  <2>1. (ArgsOK(d) <=> ArgsOK(d)') /\ (DroppedOK(d) <=> DroppedOK(d)')
    BY <1>6, <1>8 DEF ArgsOK, DroppedOK, kernel
  <2>2. (TrapOK(d) <=> TrapOK(d)') /\ (KernelOK(d) <=> KernelOK(d)')
    BY <1>6, <1>8 DEF TrapOK, KernelOK, tracked
  <2> QED
    BY <2>1, <2>2 DEF CallOK
<1>10. CallOK(c)
  <2>1. ArgsOK(c)
    <3>1. op \in Two => IsOpen(fd) /\ fd2 \in Fds
      BY <1>5, <1>6 DEF Ordinary, Two
    <3> QED
      BY <1>0, <1>5, <3>1 DEF ArgsOK
  <2>2. DroppedOK(c)
    BY <1>5 DEF DroppedOK, Nothing, NoEntry
  <2>3. TrapOK(c)
    BY <1>5, <1>6, GuestFdsAssumption DEF TrapOK, Ordinary, Two, HasVfd
  <2>4. KernelOK(c)
    BY <1>5 DEF KernelOK
  <2> QED
    BY <2>1, <2>2, <2>3, <2>4 DEF CallOK
<1>11. CallsOK'
  <2> SUFFICES ASSUME NEW u \in Threads, InFlightNow(u)' PROVE u \in alive' /\ CallOK(call[u])'
    BY DEF CallsOK
  <2>1. PICK d : d = call'[u]
    OBVIOUS
  <2>2. u \in alive /\ CallOK(d)
    <3>1. CASE u = t
      BY <1>1, <1>7, <1>10, <2>1, <3>1
    <3>2. CASE u # t
      BY <1>7, <2>1, <3>2 DEF FdInv, CallsOK, InFlightNow
    <3> QED
      BY <3>1, <3>2
  <2>3. CallOK(d)'
    BY <1>9, <2>2
  <2> QED
    BY <1>6, <2>1, <2>2, <2>3 DEF CallOK, ArgsOK, DroppedOK, TrapOK, KernelOK, kernel
<1>12. Apart'
  <2>1. ASSUME NEW u \in Threads \ {t}, InFlightNow(u)
        PROVE  /\ Names(c) \cap Names(call[u]) = {}
               /\ c.op \notin Big /\ \A n \in Names(c) : IsOpen(n)
               /\ call[u].op \notin Big /\ \A n \in Names(call[u]) : IsOpen(n)
    <3>1. call[u] \in InFlight(t)
      BY <2>1 DEF InFlight, InFlightNow
    <3>2. ~Alone(call[u]) /\ ~Alone(c) /\ Names(c) \cap Names(call[u]) = {}
      BY <1>6, <3>1 DEF GuestCall, MayCall, Disciplined
    <3> QED
      BY <3>2 DEF Alone, Big
  <2> SUFFICES ASSUME NEW v \in Threads, NEW u \in Threads, v # u,
                      InFlightNow(v)', InFlightNow(u)'
               PROVE  /\ Names(call'[v]) \cap Names(call'[u]) = {}
                      /\ call'[v].op \notin Big
                      /\ \A n \in Names(call'[v]) : IsOpen(n)
    <3>1. \A v : Names(call[v])' = Names(call'[v])
      BY <1>6 DEF Names
    <3>2. \A n : IsOpen(n)' <=> IsOpen(n)
      BY <1>8
    <3> QED
      BY <3>1, <3>2 DEF Apart
  <2>2. CASE v = t
    BY <1>7, <2>1, <2>2 DEF InFlightNow
  <2>3. CASE u = t
    BY <1>7, <2>1, <2>3 DEF InFlightNow
  <2>4. CASE v # t /\ u # t
    BY <1>7, <2>4 DEF FdInv, Apart, InFlightNow
  <2> QED
    BY <2>2, <2>3, <2>4
<1>13. PipeOK'
  <2>1. pipe.by # t /\ (c.at # "addfd")
    BY <1>1, <1>5, GuestFdsAssumption DEF FdInv, PipeOK, NoPipe
  <2>2. \A u \in Threads : InFlightNow(u)' => (call'[u].at = "addfd" <=> u = pipe.by)
    <3> SUFFICES ASSUME NEW u \in Threads, InFlightNow(u)'
                 PROVE  call'[u].at = "addfd" <=> u = pipe.by
      OBVIOUS
    <3>1. CASE u = t
      BY <1>7, <2>1, <3>1
    <3>2. CASE u # t
      BY <1>7, <3>2 DEF FdInv, PipeOK, InFlightNow
    <3> QED
      BY <3>1, <3>2
  <2>3. pipe # NoPipe => call'[pipe.by] = call[pipe.by] /\ InFlightNow(pipe.by)'
    <3> SUFFICES ASSUME pipe # NoPipe
                 PROVE  call'[pipe.by] = call[pipe.by] /\ InFlightNow(pipe.by)'
      OBVIOUS
    <3>1. pipe.by \in Threads \ {t} /\ InFlightNow(pipe.by)
      BY <2>1 DEF FdInv, PipeOK
    <3>2. \A u \in Threads \ {t} : InFlightNow(u) => call'[u] = call[u] /\ InFlightNow(u)'
      BY <1>7 DEF InFlightNow
    <3>3. PICK v \in Threads \ {t} : v = pipe.by /\ InFlightNow(v)
      BY <3>1
    <3>4. pipe'.by = v
      BY <1>6, <3>3
    <3> QED
      BY <3>2, <3>3, <3>4 DEF InFlightNow
  <2> QED
    BY <1>6, <1>8, <2>2, <2>3 DEF FdInv, PipeOK, kernel, tracked
<1>14. ASSUME NEW n \in Vfds PROVE AgreeAt(n)'
  <2>1. AgreeAt(n)
    BY DEF FdInv
  <2>2. MatchAt(n)'
    BY <1>6, <1>8, <2>1 DEF AgreeAt, MatchAt, kernel, tracked
  <2>3. \A u \in Threads : InFlightNow(u) => call'[u] = call[u] /\ InFlightNow(u)'
    BY <1>1, <1>7 DEF InFlightNow
  <2>4. FlagAt(n)'
    BY <1>6, <1>8, <2>1, <2>3 DEF AgreeAt, FlagAt, kernel, tracked
  <2>5. PlaceAt(n)'
    BY <1>6, <2>1, <2>3 DEF AgreeAt, PlaceAt, kernel, tracked
  <2> QED
    BY <2>2, <2>4, <2>5 DEF AgreeAt
<1> QED
  BY <1>1, <1>11, <1>12, <1>13, <1>14 DEF FdInv

LEMMA FdStart == Init => FdInv
<1> SUFFICES ASSUME Init PROVE FdInv
  OBVIOUS
<1>1. PICK tty \in Own :
        ktable = [n \in Fds |-> IF n \in Stdio THEN FdEntry(tty, FALSE) ELSE NoEntry]
  BY DEF Init
<1>2. TypeOK
  <2>1. FdEntry(tty, FALSE) \in KernelEntry /\ NoEntry \in KernelEntry
    BY EntryTypes DEF Files
  <2>2. ktable \in [Fds -> KernelEntry]
    BY <1>1, <2>1
  <2>3. TableTypeOK /\ CallTypeOK
    BY EntryTypes, GuestFdsAssumption DEF Init, TableTypeOK, CallTypeOK
  <2> QED
    BY <2>2, <2>3, TypeParts DEF Init, NoPipe
<1>3. CallsOK /\ Apart /\ PipeOK
  BY DEF Init, CallsOK, Apart, PipeOK, InFlightNow
<1>4. ASSUME NEW n \in Vfds PROVE AgreeAt(n)
  <2>1. ~HasVfd(n)
    BY DEF Init, Nothing, NoEntry, HasVfd
  <2>2. n \in Fds => ktable[n].file # Placeholder
    BY <1>1, GuestFdsAssumption DEF FdEntry, NoEntry
  <2> QED
    BY <2>1, <2>2 DEF AgreeAt, MatchAt, FlagAt, PlaceAt
<1> QED
  BY <1>2, <1>3, <1>4 DEF FdInv

LEMMA FdKeeps == ASSUME Stress = {}, FdInv, [Next]_vars PROVE FdInv'
<1>1. CASE UNCHANGED vars
  <2>1. TypeOK'
    BY <1>1 DEF FdInv, TypeOK, vars, kernel, tracked
  <2> QED
    BY <1>1, <2>1, SameState DEF vars, kernel
<1> QED
  BY <1>1, TrapStep, HandlerStep, AnyKernelStep DEF Next

\* The table the supervisor tracks and the kernel's agree on files, on flags and on
\* which numbers are placeholders, through every interleaving of handlers, calls
\* the kernel runs later and the two halves of pipe2, for any number of threads and
\* descriptors, while the guest makes ordinary calls (sys_close, sys_dup2, sys_fcntl,
\* sys_execve).
THEOREM TablesAlwaysAgree == ASSUME Stress = {} PROVE Spec => []TablesAgree
<1>1. FdInv /\ [Next]_vars => FdInv'
  BY FdKeeps
<1>2. FdInv => TablesAgree
  <2> SUFFICES ASSUME FdInv PROVE TablesAgree
    OBVIOUS
  <2>1. \A n \in Vfds : AgreeAt(n)
    BY DEF FdInv
  <2>2. Matching
    BY <2>1 DEF AgreeAt, MatchAt, Matching
  <2>3. CloexecMatches
    BY <2>1 DEF AgreeAt, FlagAt, CloexecMatches, InFlightNow
  <2>4. PlaceholdersTracked
    BY <2>1, Numbers DEF AgreeAt, PlaceAt, PlaceholdersTracked, InFlightNow
  <2> QED
    BY <2>2, <2>3, <2>4 DEF TablesAgree, FdInv
<1> QED
  BY <1>1, <1>2, FdStart, PTL DEF Spec

-----------------------------------------------------------------------------
(* The two tables implement one POSIX table.  What the guest sees, its     *)
(* table and its calls, are those of the mapping of ImplementsPosix.       *)

Table == [n \in Fds |-> Shown(n)]
Want == [t \in Threads |-> Asked(t)]
WantOf(c) == IF c = NoCall THEN NoCall
             ELSE [op |-> IF c.at = "addfd" THEN "open" ELSE PosixOp(c.op),
                   fd |-> c.fd, fd2 |-> c.fd2, cx |-> c.cx]

\* The file of a number but for calls that have dropped it.
Under(n) == IF HasVfd(n) THEN vtable[n].file ELSE ktable[n].file
Drops(t, n) == InFlightNow(t) /\ call[t].was[n].file # NoFile

LEMMA PosixNumbers == Posix!Fds = Fds /\ Posix!NoEntry = NoEntry /\ \A f, cx : Posix!Entry(f, cx) = FdEntry(f, cx)
BY DEF Posix!Fds, Fds, Posix!NoEntry, NoEntry, Posix!Entry, FdEntry

\* A thread that waits for a call is alive, so its call is what it wants.
LEMMA Wanted ==
  ASSUME FdInv, FdInv', NEW t \in Threads, NEW c, call' = [call EXCEPT ![t] = c]
  PROVE  Want[t] = WantOf(call[t]) /\ Want' = [Want EXCEPT ![t] = WantOf(c)]
<1>1. \A u \in Threads : Asked(u) = WantOf(call[u])
  BY DEF FdInv, CallsOK, InFlightNow, Asked, WantOf
<1>2. \A u \in Threads : Asked(u)' = WantOf(call'[u])
  BY DEF FdInv, CallsOK, InFlightNow, Asked, WantOf
<1>3. call'[t] = c /\ \A u \in Threads \ {t} : call'[u] = call[u]
  BY DEF FdInv, TypeOK
<1> QED
  BY <1>1, <1>2, <1>3 DEF Want

\* Where no call has dropped an entry the tables show.
LEMMA ShownUnder ==
  ASSUME NEW n
  PROVE  /\ (\A t \in Threads : ~Drops(t, n)) => Shown(n) = FdEntry(Under(n), ktable[n].cloexec)
         /\ (\A t \in Threads : ~Drops(t, n)') => Shown(n)' = FdEntry(Under(n)', ktable'[n].cloexec)
<1>1. ASSUME \A t \in Threads : ~Drops(t, n) PROVE Shown(n) = FdEntry(Under(n), ktable[n].cloexec)
  <2>1. {t \in Threads : call[t] # NoCall /\ call[t].was[n].file # NoFile} = {}
    BY <1>1 DEF Drops, InFlightNow
  <2> QED
    BY <2>1 DEF Shown, Under, FdEntry
<1>2. ASSUME \A t \in Threads : ~Drops(t, n)' PROVE Shown(n)' = FdEntry(Under(n)', ktable'[n].cloexec)
  <2>1. {t \in Threads : call'[t] # NoCall /\ call'[t].was[n].file # NoFile} = {}
    BY <1>2 DEF Drops, InFlightNow
  <2> QED
    BY <2>1 DEF Shown, Under, FdEntry, HasVfd
<1> QED
  BY <1>1, <1>2

\* Where a single call has, it shows what it has dropped.
LEMMA ShownDropped ==
  ASSUME NEW n, NEW t \in Threads
  PROVE  /\ Drops(t, n) /\ (\A u \in Threads \ {t} : ~Drops(u, n))
              => Shown(n) = FdEntry(call[t].was[n].file, ktable[n].cloexec)
         /\ Drops(t, n)' /\ (\A u \in Threads \ {t} : ~Drops(u, n)')
              => Shown(n)' = FdEntry(call'[t].was[n].file, ktable'[n].cloexec)
<1>1. ASSUME Drops(t, n), \A u \in Threads \ {t} : ~Drops(u, n)
      PROVE  Shown(n) = FdEntry(call[t].was[n].file, ktable[n].cloexec)
  <2>1. {u \in Threads : call[u] # NoCall /\ call[u].was[n].file # NoFile} = {t}
    BY <1>1 DEF Drops, InFlightNow
  <2> QED
    BY <2>1 DEF Shown, FdEntry
<1>2. ASSUME Drops(t, n)', \A u \in Threads \ {t} : ~Drops(u, n)'
      PROVE  Shown(n)' = FdEntry(call'[t].was[n].file, ktable'[n].cloexec)
  <2>1. {u \in Threads : call'[u] # NoCall /\ call'[u].was[n].file # NoFile} = {t}
    BY <1>2 DEF Drops, InFlightNow
  <2> QED
    BY <2>1 DEF Shown, FdEntry
<1> QED
  BY <1>1, <1>2

\* A number shows the same after a step of a thread that drops nothing there.
LEMMA ShownSame ==
  ASSUME NEW n, NEW t \in Threads, \A u \in Threads \ {t} : call'[u] = call[u],
         ~Drops(t, n), ~Drops(t, n)', Under(n)' = Under(n), ktable'[n].cloexec = ktable[n].cloexec
  PROVE  Shown(n)' = Shown(n)
<1>1. PICK D : D = {u \in Threads : call[u] # NoCall /\ call[u].was[n].file # NoFile}
  OBVIOUS
<1>2. t \notin D /\ D = {u \in Threads : call'[u] # NoCall /\ call'[u].was[n].file # NoFile}
  BY <1>1 DEF Drops, InFlightNow
<1>3. CASE D = {}
  BY <1>1, <1>2, <1>3 DEF Shown, Under, HasVfd
<1>4. CASE D # {}
  <2>1. PICK u \in Threads \ {t} : u = CHOOSE v \in D : TRUE
    BY <1>1, <1>2, <1>4
  <2>2. call'[u] = call[u]
    BY <2>1
  <2>3. Shown(n) = [file |-> call[u].was[n].file, cloexec |-> ktable[n].cloexec]
    BY <1>1, <1>4, <2>1 DEF Shown
  <2>4. Shown(n)' = [file |-> call'[u].was[n].file, cloexec |-> ktable'[n].cloexec]
    BY <1>2, <1>4, <2>1 DEF Shown
  <2> QED
    BY <2>2, <2>3, <2>4
<1> QED
  BY <1>3, <1>4

\* A call drops only numbers that it is about.
LEMMA DroppedNamed ==
  ASSUME FdInv, NEW n \in Vfds, NEW t \in Threads, Drops(t, n)
  PROVE  n \in Names(call[t]) \/ call[t].op \in Big
<1>1. CallOK(call[t]) /\ call[t] \in CallRecord /\ InFlightNow(t)
  BY CallTypes DEF FdInv, CallsOK, Drops
<1>2. CASE call[t].op = "close"
  <2>1. call[t].fd = call[t].fd2 /\ n \in call[t].fd .. call[t].fd2 /\ call[t].fd \in Nat /\ n \in Nat
    BY <1>1, <1>2, CallTypes, Numbers DEF CallOK, ArgsOK, DroppedOK, Drops, One, FdInv, Two
  <2>2. n = call[t].fd
    BY <2>1
  <2> QED
    BY <1>2, <2>2, NamesOf DEF One
<1>3. CASE call[t].op \in Two
  BY <1>1, <1>3, NamesOf DEF CallOK, DroppedOK, Drops, Two
<1>4. CASE call[t].op \notin Two \cup {"close"}
  BY <1>1, <1>4 DEF CallOK, DroppedOK, Drops, Big
<1> QED
  BY <1>2, <1>3, <1>4

LEMMA DroppedOnce ==
  ASSUME FdInv, NEW n \in Vfds, NEW t \in Threads,
         Drops(t, n) \/ (InFlightNow(t) /\ (n \in Names(call[t]) \/ call[t].op \in Big))
  PROVE  \A u \in Threads \ {t} : ~Drops(u, n)
BY DroppedNamed, OthersQuiet DEF Drops

\* A number is free for the guest when it is free in the kernel.
LEMMA FreeShown ==
  ASSUME FdInv, NEW n \in Fds, NEW t \in Threads, InFlightNow(t), ~Drops(t, n)
  PROVE  Shown(n) = NoEntry <=> KFree(n)
<1>1. n \in Vfds /\ ktable[n] \in KernelEntry /\ vtable[n] \in TrackedEntry /\ MatchAt(n)
  BY Numbers, TypeParts DEF FdInv, AgreeAt, TypeOK
<1>2. ASSUME NEW u \in Threads \ {t}, Drops(u, n)
      PROVE  Shown(n) # NoEntry /\ ~KFree(n)
  <2>1. n \in Names(call[u]) \/ call[u].op \in Big
    BY <1>1, <1>2, DroppedNamed
  <2>2. ~KFree(n)
    BY <1>2, <2>1 DEF FdInv, Apart, Drops, IsOpen
  <2>3. Shown(n) = FdEntry(call[u].was[n].file, ktable[n].cloexec) /\ call[u].was[n].file # NoFile
    BY <1>1, <1>2, ShownDropped, DroppedOnce DEF Drops
  <2> QED
    BY <2>2, <2>3 DEF FdEntry, NoEntry
<1>3. CASE \A u \in Threads \ {t} : ~Drops(u, n)
  <2>1. Shown(n) = FdEntry(Under(n), ktable[n].cloexec)
    BY <1>3, ShownUnder
  <2>2. CASE HasVfd(n)
    BY <1>1, <2>1, <2>2, GuestFdsAssumption DEF Under, HasVfd, KFree, NoEntry, FdEntry, MatchAt, Backing, TrackedEntry
  <2>3. CASE ~HasVfd(n)
    BY <1>1, <2>1, <2>3 DEF Under, KFree, NoEntry, FdEntry, KernelEntry
  <2> QED
    BY <2>2, <2>3
<1> QED
  BY <1>2, <1>3

\* The steps of the abstract table.
PosixStep == [Posix!Next]_(Posix!vars)

LEMMA SamePosix == ASSUME Table' = Table, Want' = Want PROVE PosixStep
BY DEF PosixStep, Posix!vars, Table, Want

LEMMA WantRecord ==
  ASSUME FdInv, NEW t \in Threads, InFlightNow(t)
  PROVE  /\ WantOf(call[t]) \in Posix!CallRecords /\ WantOf(call[t]) # NoCall
         /\ WantOf(call[t]) = [op |-> IF call[t].at = "addfd" THEN "open" ELSE PosixOp(call[t].op),
                               fd |-> call[t].fd, fd2 |-> call[t].fd2, cx |-> call[t].cx]
         /\ WantOf(call[t]).op = (IF call[t].at = "addfd" THEN "open" ELSE PosixOp(call[t].op))
         /\ WantOf(call[t]).fd = call[t].fd /\ WantOf(call[t]).fd2 = call[t].fd2
         /\ WantOf(call[t]).cx = call[t].cx
<1>1. call[t] \in CallRecord /\ call[t] # NoCall
  BY CallTypes DEF FdInv, InFlightNow
<1>2. PosixOp(call[t].op) \in {"open", "pair", "dup", "dup2", "close", "cloexec", "exec"}
  BY <1>1 DEF CallRecord, Creates, PosixOp
<1>3. WantOf(call[t]) = [op |-> IF call[t].at = "addfd" THEN "open" ELSE PosixOp(call[t].op),
                         fd |-> call[t].fd, fd2 |-> call[t].fd2, cx |-> call[t].cx]
  BY <1>1 DEF WantOf
<1>4. call[t].fd \in Nat /\ call[t].fd2 \in Nat /\ call[t].cx \in BOOLEAN
  BY <1>1, Numbers DEF CallRecord
<1>5. WantOf(call[t]) \in Posix!CallRecords
  BY <1>2, <1>3, <1>4 DEF Posix!CallRecords
<1> QED
  BY <1>3, <1>5, AskedAssumption

\* The call of a thread takes effect.
LEMMA EffectPosix ==
  ASSUME FdInv, FdInv', NEW t \in Threads, InFlightNow(t), NEW c, call' = [call EXCEPT ![t] = c],
         WantOf(c) # WantOf(call[t]), Posix!Effect(t, WantOf(call[t]))
  PROVE  PosixStep
<1>1. Want[t] = WantOf(call[t]) /\ Want'[t] = WantOf(c)
  BY Wanted DEF Want
<1>2. Want[t] # NoCall /\ Want'[t] # Want[t] /\ Posix!Effect(t, Want[t])
  BY <1>1, WantRecord
<1>3. Posix!Next
  BY <1>2 DEF Posix!Next, Want
<1> QED
  BY <1>3 DEF PosixStep

\* One number shows another file, and t has dropped nothing.
Shows(t, n, f, cx) ==
  /\ \A u \in Threads \ {t} : call'[u] = call[u]
  /\ \A u \in Threads \ {t} : ~Drops(u, n)
  /\ \A m \in Fds : ~Drops(t, m)' /\ (m # n => ~Drops(t, m))
  /\ Under(n)' = f /\ ktable'[n].cloexec = cx
  /\ \A m \in Fds \ {n} : Under(m)' = Under(m) /\ ktable'[m].cloexec = ktable[m].cloexec

LEMMA NewShown ==
  ASSUME NEW t \in Threads, NEW n \in Fds, NEW f \in Files \cup {Placeholder, NoFile}, NEW cx \in BOOLEAN,
         Shows(t, n, f, cx)
  PROVE  Table' = [Table EXCEPT ![n] = FdEntry(f, cx)]
<1> USE DEF Shows
<1>1. \A u \in Threads \ {t} : call'[u] = call[u]
  OBVIOUS
<1>2. \A m \in Fds \ {n} : Shown(m)' = Shown(m)
  BY <1>1, ShownSame
<1>3. \A u \in Threads : ~Drops(u, n)'
  BY <1>1 DEF Drops, InFlightNow
<1>4. Shown(n)' = FdEntry(f, cx)
  BY <1>3, ShownUnder
<1> QED
  BY <1>2, <1>4 DEF Table

\* A file appears under the lowest number.
LEMMA CreatePosix ==
  ASSUME FdInv, FdInv', NEW t \in Threads, InFlightNow(t), NEW c, call' = [call EXCEPT ![t] = c],
         \A m \in Fds : ~Drops(t, m),
         NEW n \in Fds, Lowest(n), NEW f \in Files, Table' = [Table EXCEPT ![n] = FdEntry(f, call[t].cx)],
         \/ WantOf(call[t]).op = "open" /\ c = NoCall
         \/ WantOf(call[t]).op = "pair" /\ WantOf(c) = [WantOf(call[t]) EXCEPT !.op = "open"]
  PROVE  PosixStep
<1> DEFINE w == WantOf(call[t])
<1>1. w.cx = call[t].cx /\ w # NoCall /\ w \in Posix!CallRecords
  BY WantRecord
<1>2. Want[t] = w /\ Want' = [Want EXCEPT ![t] = WantOf(c)]
  BY Wanted
<1>3. Posix!Lowest(n)
  <2>1. \A m \in Fds : Posix!Free(m) <=> KFree(m)
    BY FreeShown, PosixNumbers DEF Posix!Free
  <2> QED
    BY <2>1, PosixNumbers, Numbers DEF Posix!Lowest, Lowest
<1>4. Posix!Allocate(w)
  BY <1>1, <1>3, PosixNumbers DEF Posix!Allocate, Table
<1>5. CASE w.op = "open" /\ c = NoCall
  <2>1. WantOf(c) = NoCall
    BY <1>5 DEF WantOf
  <2>2. Posix!Create(t, w)
    BY <1>2, <1>4, <1>5, <2>1 DEF Posix!Create, Posix!Returns, Want
  <2> QED
    BY <1>1, <2>1, <2>2, EffectPosix DEF Posix!Effect
<1>6. CASE w.op = "pair" /\ WantOf(c) = [w EXCEPT !.op = "open"]
  <2>1. Posix!CreateFirst(t, w)
    BY <1>2, <1>4, <1>6 DEF Posix!CreateFirst, Want
  <2>2. WantOf(c) # w
    BY <1>1, <1>6 DEF Posix!CallRecords
  <2> QED
    BY <2>1, <2>2, EffectPosix DEF Posix!Effect
<1> QED
  BY <1>5, <1>6

-----------------------------------------------------------------------------
(* Steps that the guest does not see.                                      *)

\* A call that is handed on to the kernel with nothing tracked changed.
LEMMA WantKept ==
  ASSUME FdInv, FdInv', NEW t \in Threads, InFlightNow(t), call[t].at = "trap",
         NEW w \in [Vfds -> TrackedEntry], reply_continue(t, w)
  PROVE  /\ Want' = Want
         /\ \A u \in Threads \ {t} : call'[u] = call[u]
         /\ InFlightNow(t)' /\ call'[t].was = w
<1>1. PICK c \in CallRecord :
        /\ c = [call[t] EXCEPT !.at = "kernel", !.was = w]
        /\ c.op = call[t].op /\ c.fd = call[t].fd /\ c.fd2 = call[t].fd2 /\ c.cx = call[t].cx
        /\ c.at = "kernel" /\ c.was = w
  BY ContinuedCall DEF FdInv
<1>2. call' = [call EXCEPT ![t] = c]
  BY <1>1 DEF reply_continue
<1>3. c # NoCall
  BY <1>1, NoCallAssumption
<1>4. WantOf(c) = WantOf(call[t])
  BY <1>1, <1>3, WantRecord DEF WantOf
<1>5. Want[t] = WantOf(call[t]) /\ Want' = [Want EXCEPT ![t] = WantOf(c)]
  BY <1>2, Wanted
<1>6. Want' = Want
  BY <1>4, <1>5 DEF Want
<1>7. call'[t] = c /\ \A u \in Threads \ {t} : call'[u] = call[u]
  BY <1>2 DEF FdInv, TypeOK
<1> QED
  BY <1>1, <1>3, <1>6, <1>7 DEF InFlightNow

\* The handler of a call the kernel has to run: what it drops is still shown, and
\* the flags are the kernel's.
LEMMA ContinuePosix ==
  ASSUME FdInv, FdInv', NEW t \in Threads, Handled(t), ktable' = ktable,
         NEW w \in [Vfds -> TrackedEntry], reply_continue(t, w),
         \A n \in Fds :
           \/ vtable'[n].file = vtable[n].file /\ w[n].file = NoFile
           \/ /\ n \in Names(call[t]) \/ call[t].op \in Big
              /\ vtable'[n].file = NoFile /\ w[n].file = vtable[n].file
  PROVE  PosixStep
<1>1. InFlightNow(t) /\ call[t].at = "trap"
  BY DEF Handled
<1>2. /\ Want' = Want
      /\ \A u \in Threads \ {t} : call'[u] = call[u]
      /\ InFlightNow(t)' /\ call'[t].was = w
  BY <1>1, WantKept
<1>3. ASSUME NEW n \in Fds PROVE Shown(n)' = Shown(n)
  <2>1. ~Drops(t, n) /\ n \in Vfds
    BY <1>1, TrapQuiet, Numbers DEF Drops
  <2>2. Drops(t, n)' <=> w[n].file # NoFile
    BY <1>2 DEF Drops
  <2>3. CASE vtable'[n].file = vtable[n].file /\ w[n].file = NoFile
    <3>1. Under(n)' = Under(n)
      BY <2>3 DEF Under, HasVfd
    <3> QED
      BY <1>2, <2>1, <2>2, <2>3, <3>1, ShownSame
  <2>4. CASE /\ n \in Names(call[t]) \/ call[t].op \in Big
             /\ vtable'[n].file = NoFile /\ w[n].file = vtable[n].file
    <3>1. \A u \in Threads \ {t} : ~Drops(u, n)
      BY <1>1, <2>1, <2>4, DroppedOnce
    <3>2. \A u \in Threads \ {t} : ~Drops(u, n)'
      BY <1>2, <3>1 DEF Drops, InFlightNow
    <3>3. Shown(n) = FdEntry(Under(n), ktable[n].cloexec)
      BY <2>1, <3>1, ShownUnder
    <3>4. CASE HasVfd(n)
      <4>1. Shown(n)' = FdEntry(w[n].file, ktable'[n].cloexec)
        BY <1>2, <2>2, <2>4, <3>2, <3>4, ShownDropped DEF HasVfd
      <4> QED
        BY <2>4, <3>3, <3>4, <4>1 DEF Under
    <3>5. CASE ~HasVfd(n)
      <4>1. Under(n)' = Under(n)
        BY <2>4, <3>5 DEF Under, HasVfd
      <4> QED
        BY <1>2, <2>1, <2>2, <2>4, <3>5, <4>1, ShownSame DEF HasVfd
    <3> QED
      BY <3>4, <3>5
  <2> QED
    BY <2>3, <2>4
<1>4. Table' = Table
  BY <1>3 DEF Table
<1> QED
  BY <1>2, <1>4, SamePosix

\* A call that a handler passes on without anything tracked changed.
LEMMA PassPosix ==
  ASSUME FdInv, FdInv', NEW t \in Threads, Handled(t), Continues(t)
  PROVE  PosixStep
<1>1. Nothing \in [Vfds -> TrackedEntry] /\ Fds \subseteq Vfds
  BY EntryTypes, Numbers
<1>2. \A n \in Fds : vtable'[n].file = vtable[n].file /\ Nothing[n].file = NoFile
  BY <1>1 DEF Continues, tracked, Nothing, NoEntry
<1> QED
  BY <1>1, <1>2, ContinuePosix DEF Continues, kernel

LEMMA DropPosix ==
  ASSUME FdInv, FdInv', NEW t \in Threads, Handled(t), NEW S,
         remove(S), reply_continue(t, Removed(S)), UNCHANGED kernel,
         \A n \in Vfds : n \in S => n \in Names(call[t]) \/ call[t].op \in Big
  PROVE  PosixStep
<1>1. Removed(S) \in [Vfds -> TrackedEntry] /\ Fds \subseteq Vfds
  BY RemovedTypes, Numbers DEF FdInv
<1>2. \A n \in Fds : IF n \in S THEN vtable'[n].file = NoFile /\ Removed(S)[n].file = vtable[n].file
                     ELSE vtable'[n].file = vtable[n].file /\ Removed(S)[n].file = NoFile
  BY <1>1 DEF remove, Removed, NoEntry
<1>3. \A n \in Fds :
           \/ vtable'[n].file = vtable[n].file /\ Removed(S)[n].file = NoFile
           \/ /\ n \in Names(call[t]) \/ call[t].op \in Big
              /\ vtable'[n].file = NoFile /\ Removed(S)[n].file = vtable[n].file
  BY <1>1, <1>2
<1> QED
  BY <1>1, <1>3, ContinuePosix DEF kernel

LEMMA MarkPosix ==
  ASSUME FdInv, FdInv', NEW t \in Threads, Handled(t), NEW S, NEW cx,
         set_cloexec(S, cx), reply_continue(t, Nothing), UNCHANGED kernel
  PROVE  PosixStep
<1>1. Nothing \in [Vfds -> TrackedEntry] /\ Fds \subseteq Vfds
  BY EntryTypes, Numbers
<1>2. \A n \in Fds : vtable'[n].file = vtable[n].file /\ Nothing[n].file = NoFile
  BY <1>1 DEF set_cloexec, FdEntry, Nothing, NoEntry
<1> QED
  BY <1>1, <1>2, ContinuePosix DEF kernel

-----------------------------------------------------------------------------
(* Calls that take effect in their handler.                                *)

\* A call that drops nothing, and takes effect under a number nobody names.
LEMMA NoDrops ==
  ASSUME FdInv, NEW t \in Threads, InFlightNow(t), NEW c, call' = [call EXCEPT ![t] = c],
         call[t].at # "kernel" \/ call[t].op \in {"setfd", "cloexec_range", "dup", "dupfd", "create"},
         c # NoCall => c.was = call[t].was
  PROVE  \A m \in Fds : ~Drops(t, m) /\ ~Drops(t, m)'
<1>1. \A m \in Fds : call[t].was[m].file = NoFile
  BY TrapQuiet, Numbers
<1>2. call'[t] = c
  BY DEF FdInv, TypeOK
<1> QED
  BY <1>1, <1>2 DEF Drops, InFlightNow

LEMMA FreeUndropped ==
  ASSUME FdInv, NEW t \in Threads, InFlightNow(t), NEW n \in Fds, KFree(n)
  PROVE  \A u \in Threads \ {t} : ~Drops(u, n)
<1>1. n \in Vfds /\ Unclaimed(t, {n})
  BY FreeNumber
<1>2. ASSUME NEW u \in Threads \ {t}, Drops(u, n) PROVE FALSE
  <2>1. n \in Names(call[u]) \/ call[u].op \in Big
    BY <1>1, <1>2, DroppedNamed
  <2> QED
    BY <1>1, <1>2, <2>1 DEF Unclaimed, Drops, FdInv, Apart
<1> QED
  BY <1>2

LEMMA AppearPosix ==
  ASSUME FdInv, FdInv', NEW t \in Threads, InFlightNow(t), NEW c, call' = [call EXCEPT ![t] = c],
         call[t].at # "kernel" \/ call[t].op = "create",
         c # NoCall => c.was = call[t].was,
         NEW n \in Fds, Lowest(n), NEW f \in Files,
         Under(n)' = f, ktable'[n].cloexec = call[t].cx,
         \A m \in Fds \ {n} : Under(m)' = Under(m) /\ ktable'[m].cloexec = ktable[m].cloexec,
         \/ WantOf(call[t]).op = "open" /\ c = NoCall
         \/ WantOf(call[t]).op = "pair" /\ WantOf(c) = [WantOf(call[t]) EXCEPT !.op = "open"]
  PROVE  PosixStep
<1>1. \A m \in Fds : ~Drops(t, m) /\ ~Drops(t, m)'
  BY NoDrops
<1>2. \A u \in Threads \ {t} : ~Drops(u, n)
  BY FreeUndropped DEF Lowest
<1>3. Table' = [Table EXCEPT ![n] = FdEntry(f, call[t].cx)]
  <2>1. \A m \in Fds : ~Drops(t, m)' /\ (m # n => ~Drops(t, m))
    BY <1>1
  <2>2. PICK cx \in BOOLEAN : cx = call[t].cx
    BY CallTypes DEF FdInv
  <2>3. Shows(t, n, f, cx)
    BY <1>2, <2>1, <2>2 DEF Shows, FdInv, TypeOK
  <2>4. Table' = [Table EXCEPT ![n] = FdEntry(f, cx)]
    BY <2>3, NewShown
  <2> QED
    BY <2>2, <2>4
<1> QED
  BY <1>1, <1>3, CreatePosix

\* A handler installs a file and tracks it.
LEMMA AddfdShown ==
  ASSUME FdInv, NEW f \in Real \cup Virtual, NEW cx, NEW n \in Fds, Lowest(n),
         Install(n, f, cx), insert_at(n, f, cx)
  PROVE  /\ Under(n)' = f /\ ktable'[n].cloexec = cx
         /\ \A m \in Fds \ {n} : Under(m)' = Under(m) /\ ktable'[m].cloexec = ktable[m].cloexec
<1>1. n \in Vfds /\ Fds \subseteq Vfds
  BY Numbers
<1>2. vtable'[n] = FdEntry(f, cx) /\ \A m \in Vfds \ {n} : vtable'[m] = vtable[m]
  BY <1>1 DEF insert_at, FdInv, TypeOK
<1>3. ktable'[n] = FdEntry(Backing(f), cx) /\ \A m \in Fds \ {n} : ktable'[m] = ktable[m]
  BY DEF Install, FdInv, TypeOK
<1> QED
  BY <1>1, <1>2, <1>3, GuestFdsAssumption DEF Under, HasVfd, FdEntry

LEMMA OpenPosix ==
  ASSUME Stress = {}, FdInv, FdInv', NEW t \in Threads,
         sys_openat(t) \/ sys_socket(t) \/ sys_socketpair(t)
  PROVE  PosixStep
<1>1. Handled(t) /\ InFlightNow(t) /\ call[t].at = "trap" /\ call[t] \in CallRecord
  BY HandlingIs, CallTypes DEF sys_openat, sys_socket, sys_socketpair, Handled, FdInv
<1>2. PICK f \in Real \cup Virtual : addfd_auto(t, f, call[t].cx)
  <2>1. CASE sys_openat(t)
    BY <1>1, <2>1, AddfdWorks DEF sys_openat
  <2>2. CASE sys_socket(t) \/ sys_socketpair(t)
    BY <1>1, <2>2, AddfdWorks DEF sys_socket, sys_socketpair, register_kernel_fd
  <2> QED
    BY <2>1, <2>2
<1>3. PICK n \in Fds : Lowest(n) /\ Install(n, f, call[t].cx) /\ insert_at(n, f, call[t].cx)
  BY <1>2 DEF addfd_auto
<1>4. f \in Files
  BY DEF Files
<1>5. /\ Under(n)' = f /\ ktable'[n].cloexec = call[t].cx
      /\ \A m \in Fds \ {n} : Under(m)' = Under(m) /\ ktable'[m].cloexec = ktable[m].cloexec
  BY <1>3, AddfdShown
<1>6. CASE sys_openat(t) \/ sys_socket(t)
  <2>1. call' = [call EXCEPT ![t] = NoCall]
    BY <1>6 DEF sys_openat, sys_socket, Returned
  <2>2. WantOf(call[t]).op = "open"
    <3>1. call[t].op \in {"openat", "socket"}
      BY <1>6, HandlingIs DEF sys_openat, sys_socket
    <3> QED
      BY <1>1, <3>1, WantRecord DEF PosixOp
  <2> QED
    BY <1>1, <1>3, <1>4, <1>5, <2>1, <2>2, AppearPosix
<1>7. CASE sys_socketpair(t)
  <2>1. call[t].op = "socketpair"
    BY <1>7, HandlingIs DEF sys_socketpair
  <2>2. tracked' # tracked
    <3>1. n \in Vfds /\ ~HasVfd(n)
      BY <1>1, <1>3, FreeNumber DEF Lowest
    <3>2. vtable'[n] = FdEntry(f, call[t].cx)
      BY <1>3, <3>1 DEF insert_at, FdInv, TypeOK
    <3> QED
      BY <3>1, <3>2, GuestFdsAssumption DEF tracked, HasVfd, FdEntry
  <2>3. PICK c \in CallRecord : c = [call[t] EXCEPT !.op = "socket"]
    BY <1>1, CallTypes DEF FdInv
  <2>4. c.op = "socket" /\ c.at = "trap" /\ c.was = call[t].was /\ c.fd = call[t].fd
        /\ c.fd2 = call[t].fd2 /\ c.cx = call[t].cx /\ c # NoCall
    BY <1>1, <2>3, NoCallAssumption DEF CallRecord
  <2>5. call' = [call EXCEPT ![t] = c]
    BY <1>7, <2>2, <2>3 DEF sys_socketpair
  <2>6. /\ WantOf(call[t]) = [op |-> "pair", fd |-> call[t].fd, fd2 |-> call[t].fd2, cx |-> call[t].cx]
        /\ WantOf(c) = [op |-> "open", fd |-> call[t].fd, fd2 |-> call[t].fd2, cx |-> call[t].cx]
    BY <1>1, <2>1, <2>4, WantRecord DEF WantOf, PosixOp
  <2>7. WantOf(call[t]).op = "pair" /\ WantOf(c) = [WantOf(call[t]) EXCEPT !.op = "open"]
    BY <2>6
  <2> QED
    BY <1>1, <1>3, <1>4, <1>5, <2>4, <2>5, <2>7, AppearPosix
<1> QED
  BY <1>6, <1>7

LEMMA PipePosix ==
  ASSUME Stress = {}, FdInv, FdInv', NEW t \in Threads, sys_pipe2(t)
  PROVE  PosixStep
<1>1. Handled(t) /\ InFlightNow(t) /\ call[t].at = "trap" /\ call[t].op = "pipe2" /\ call[t] \in CallRecord
  BY HandlingIs, CallTypes DEF sys_pipe2, Handled, FdInv
<1>2. PICK f \in Real, g \in Real, n \in Fds :
        /\ Lowest(n) /\ Install(n, f, call[t].cx)
        /\ pipe' = [by |-> t, read |-> f, write |-> g, fd |-> n]
  BY <1>1, AddfdWorks DEF sys_pipe2
<1>3. PICK c \in CallRecord : c = [call[t] EXCEPT !.at = "addfd"]
  BY <1>1, CallTypes DEF FdInv
<1>4. c.op = "pipe2" /\ c.at = "addfd" /\ c.was = call[t].was /\ c.fd = call[t].fd
      /\ c.fd2 = call[t].fd2 /\ c.cx = call[t].cx /\ c # NoCall
  BY <1>1, <1>3, NoCallAssumption DEF CallRecord
<1>5. call' = [call EXCEPT ![t] = c] /\ vtable' = vtable
  BY <1>3 DEF sys_pipe2, tracked
<1>6. /\ WantOf(call[t]) = [op |-> "pair", fd |-> call[t].fd, fd2 |-> call[t].fd2, cx |-> call[t].cx]
      /\ WantOf(c) = [op |-> "open", fd |-> call[t].fd, fd2 |-> call[t].fd2, cx |-> call[t].cx]
  BY <1>1, <1>4, WantRecord DEF WantOf, PosixOp
<1>7. WantOf(call[t]).op = "pair" /\ WantOf(c) = [WantOf(call[t]) EXCEPT !.op = "open"]
  BY <1>6
<1>8. ~HasVfd(n) /\ f \in Files /\ Backing(f) = f
  BY <1>1, <1>2, FreeNumber, GuestFdsAssumption DEF Lowest, Files, Backing
<1>9. ktable'[n] = FdEntry(f, call[t].cx) /\ \A m \in Fds \ {n} : ktable'[m] = ktable[m]
  BY <1>2, <1>8 DEF Install, FdInv, TypeOK
<1>10. /\ Under(n)' = f /\ ktable'[n].cloexec = call[t].cx
       /\ \A m \in Fds \ {n} : Under(m)' = Under(m) /\ ktable'[m].cloexec = ktable[m].cloexec
  BY <1>5, <1>8, <1>9 DEF Under, HasVfd, FdEntry
<1>11. /\ call[t].at # "kernel" \/ call[t].op = "create"
       /\ c # NoCall => c.was = call[t].was
       /\ \/ WantOf(call[t]).op = "open" /\ c = NoCall
          \/ WantOf(call[t]).op = "pair" /\ WantOf(c) = [WantOf(call[t]) EXCEPT !.op = "open"]
  BY <1>1, <1>4, <1>7
<1> QED
  BY <1>1, <1>2, <1>5, <1>8, <1>10, <1>11, AppearPosix

LEMMA PipeSecondPosix ==
  ASSUME Stress = {}, FdInv, FdInv', NEW t \in Threads, pipe2_second(t)
  PROVE  PosixStep
<1>1. pipe # NoPipe /\ pipe.by = t /\ call' = [call EXCEPT ![t] = NoCall]
  BY GuestFdsAssumption DEF pipe2_second, NoPipe, Returned
<1>2. /\ InFlightNow(t) /\ call[t].at = "addfd" /\ call[t].op = "pipe2"
      /\ pipe.read \in Real /\ pipe.write \in Real /\ pipe.fd \in Fds
      /\ ~HasVfd(pipe.fd) /\ ktable[pipe.fd] = FdEntry(pipe.read, call[t].cx)
  BY <1>1 DEF FdInv, PipeOK, CallsOK, CallOK, ArgsOK
<1>3. PICK r \in Fds : r = pipe.fd
  BY <1>2
<1>4. r \in Vfds /\ r # NoFd
  BY Numbers
<1>5. PICK n \in Fds : /\ Lowest(n) /\ Install(n, pipe.write, call[t].cx)
                       /\ insert_two(r, n, call[t].cx)
  BY <1>2, <1>3, <1>4, AddfdWorks DEF pipe2_second
<1>6. n \in Vfds /\ n # r /\ Fds \subseteq Vfds
  BY <1>2, <1>3, <1>5, Numbers, GuestFdsAssumption DEF Lowest, KFree, FdEntry, NoEntry
<1>7. /\ vtable'[n] = FdEntry(pipe.write, call[t].cx) /\ vtable'[r] = FdEntry(pipe.read, call[t].cx)
      /\ \A m \in Vfds \ {n, r} : vtable'[m] = vtable[m]
  BY <1>4, <1>5, <1>6 DEF insert_two, FdInv, TypeOK
<1>8. ktable'[n] = FdEntry(Backing(pipe.write), call[t].cx) /\ \A m \in Fds \ {n} : ktable'[m] = ktable[m]
  BY <1>5 DEF Install, FdInv, TypeOK
<1>9. PICK f \in Files : f = pipe.write
  BY <1>2 DEF Files
<1>10. Under(r)' = Under(r)
  BY <1>2, <1>3, <1>7, GuestFdsAssumption DEF Under, HasVfd, FdEntry
<1>11. Under(n)' = f /\ ktable'[n].cloexec = call[t].cx
  BY <1>2, <1>7, <1>8, <1>9, GuestFdsAssumption DEF Under, HasVfd, FdEntry
<1>12. \A m \in Fds \ {n} : Under(m)' = Under(m) /\ ktable'[m].cloexec = ktable[m].cloexec
  BY <1>6, <1>7, <1>8, <1>10 DEF Under, HasVfd
<1>13. WantOf(call[t]).op = "open"
  BY <1>2, WantRecord
<1> QED
  BY <1>1, <1>2, <1>5, <1>11, <1>12, <1>13, AppearPosix

-----------------------------------------------------------------------------
(* Calls about numbers that the guest names.                               *)

\* A call that returns with its effect.
LEMMA ReturnEffect ==
  ASSUME FdInv, FdInv', NEW t \in Threads, InFlightNow(t), Returned(t)
  PROVE  Posix!Returns(t) /\ (Posix!Effect(t, WantOf(call[t])) => PosixStep)
<1>1. call' = [call EXCEPT ![t] = NoCall] /\ WantOf(NoCall) = NoCall /\ WantOf(call[t]) # NoCall
  BY WantRecord DEF Returned, WantOf
<1>2. Want' = [Want EXCEPT ![t] = NoCall]
  BY <1>1, Wanted
<1>3. Posix!Returns(t)
  BY <1>2 DEF Posix!Returns, Want
<1>4. Posix!Effect(t, WantOf(call[t])) => PosixStep
  BY <1>1, EffectPosix
<1> QED
  BY <1>3, <1>4

LEMMA NamedShown ==
  ASSUME FdInv, NEW t \in Threads, InFlightNow(t), NEW n \in Fds,
         n \in Names(call[t]) \/ call[t].op \in Big, ~Drops(t, n)
  PROVE  Shown(n) = FdEntry(Under(n), ktable[n].cloexec)
<1>1. \A u \in Threads \ {t} : ~Drops(u, n)
  BY DroppedOnce, Numbers
<1> QED
  BY <1>1, ShownUnder

\* Where a call dropped an entry, none of the others did.
LEMMA NamedAlone ==
  ASSUME FdInv, NEW t \in Threads, InFlightNow(t), NEW n \in Fds,
         n \in Names(call[t]) \/ call[t].op \in Big
  PROVE  \A u \in Threads \ {t} : ~Drops(u, n)
BY DroppedOnce, Numbers

\* dup takes effect under a free number.
LEMMA DupEffect ==
  ASSUME FdInv, FdInv', NEW t \in Threads, InFlightNow(t), Returned(t),
         call[t].op \in {"dup", "dupfd"}, call[t].at # "addfd",
         NEW o \in Fds, call[t].fd = o, ~KFree(o),
         \A m \in Fds : ~Drops(t, m),
         NEW n \in Fds, KFree(n), NEW f, f = Under(o),
         Table' = [Table EXCEPT ![n] = FdEntry(f, call[t].cx)]
  PROVE  PosixStep
<1>1. PICK w \in Posix!CallRecords : w = WantOf(call[t])
  BY WantRecord
<1>2. w.op = "dup" /\ w.fd = o /\ w.cx = call[t].cx
  BY <1>1, WantRecord DEF PosixOp
<1>3. o \in Names(call[t])
  BY NamesOf DEF One
<1>4. Shown(o) = FdEntry(f, ktable[o].cloexec)
  BY <1>3, NamedShown
<1>5. Table[o].file = f /\ Posix!Free(n) /\ ~Posix!Free(o)
  BY <1>4, FreeShown, PosixNumbers DEF Table, FdEntry, Posix!Free
<1>6. Posix!Dup(t, w)
  BY <1>2, <1>5, PosixNumbers, ReturnEffect DEF Posix!Dup, Posix!Open, Table
<1> QED
  BY <1>1, <1>6, ReturnEffect DEF Posix!Effect

LEMMA DupPosix ==
  ASSUME Stress = {}, FdInv, FdInv', NEW t \in Threads, sys_dup(t)
  PROVE  PosixStep
<1>1. Handled(t) /\ call[t].op \in {"dup", "dupfd"} /\ call[t].fd \in Vfds /\ call[t].cx \in BOOLEAN
  BY HandlingIs, CallTypes DEF sys_dup, Handled, FdInv
<1>2. vtable[call[t].fd] \in TrackedEntry
  BY <1>1 DEF FdInv, TypeOK
<1>3. CASE vtable[call[t].fd].file = NoFile \/ (call[t].op = "dupfd" /\ call[t].fd \in Stdio)
  BY <1>1, <1>3, PassPosix DEF sys_dup
<1>4. CASE ~(vtable[call[t].fd].file = NoFile \/ (call[t].op = "dupfd" /\ call[t].fd \in Stdio))
  <2>1. PICK f \in Real \cup Virtual : f = vtable[call[t].fd].file
    BY <1>2, <1>4 DEF TrackedEntry
  <2>2. addfd_auto(t, f, call[t].cx) /\ Returned(t)
    BY <1>1, <1>4, <2>1, AddfdWorks DEF sys_dup, Handled
  <2>3. InFlightNow(t) /\ call[t].at = "trap" /\ call' = [call EXCEPT ![t] = NoCall]
    BY <1>1, <2>2 DEF Handled, Returned
  <2>4. PICK o \in Fds : o = call[t].fd
    BY <1>1, <2>3 DEF FdInv, CallsOK, CallOK, ArgsOK, One
  <2>5. HasVfd(o) /\ Under(o) = f /\ ~KFree(o)
    <3>1. HasVfd(o)
      BY <1>4, <2>4 DEF HasVfd
    <3> QED
      BY <2>1, <2>3, <2>4, <3>1, FreeNumber DEF Under
  <2>6. PICK cx \in BOOLEAN : cx = call[t].cx
    BY <1>1
  <2>7. PICK n \in Fds : Lowest(n) /\ Install(n, f, cx) /\ insert_at(n, f, cx)
    BY <2>2, <2>6 DEF addfd_auto
  <2>8. \A m \in Fds : ~Drops(t, m) /\ ~Drops(t, m)'
    BY <2>3, NoDrops
  <2>9. Shows(t, n, f, cx)
    <3>1. \A u \in Threads \ {t} : ~Drops(u, n)
      BY <2>3, <2>7, FreeUndropped DEF Lowest
    <3>2. \A u \in Threads \ {t} : call'[u] = call[u]
      BY <2>3 DEF FdInv, TypeOK
    <3>3. /\ Under(n)' = f /\ ktable'[n].cloexec = cx
          /\ \A m \in Fds \ {n} : Under(m)' = Under(m) /\ ktable'[m].cloexec = ktable[m].cloexec
      BY <2>7, AddfdShown
    <3> QED
      BY <2>8, <3>1, <3>2, <3>3 DEF Shows
  <2>10. Table' = [Table EXCEPT ![n] = FdEntry(f, call[t].cx)]
    BY <2>6, <2>9, NewShown DEF Files
  <2> QED
    BY <1>1, <2>2, <2>3, <2>4, <2>5, <2>7, <2>8, <2>10, DupEffect DEF Lowest
<1> QED
  BY <1>3, <1>4

\* dup2 replaces one number, unless it is given one number twice.
LEMMA Dup2Effect ==
  ASSUME FdInv, FdInv', NEW t \in Threads, InFlightNow(t), Returned(t),
         call[t].op \in Two, call[t].at # "addfd",
         NEW o \in Fds, NEW n \in Fds, o = call[t].fd, n = call[t].fd2, ~Drops(t, o),
         NEW f, f = Under(o),
         Table' = IF o = n THEN Table ELSE [Table EXCEPT ![n] = FdEntry(f, call[t].cx)]
  PROVE  PosixStep
<1>1. PICK w \in Posix!CallRecords : w = WantOf(call[t])
  BY WantRecord
<1>2. w.op = "dup2" /\ w.fd = o /\ w.fd2 = n /\ w.cx = call[t].cx
  BY <1>1, WantRecord DEF PosixOp, Two
<1>3. o \in Names(call[t])
  BY NamesOf
<1>4. Shown(o) = FdEntry(f, ktable[o].cloexec)
  BY <1>3, NamedShown
<1>5. ~KFree(o)
  BY DEF FdInv, CallsOK, CallOK, ArgsOK, IsOpen
<1>6. Table[o].file = f /\ ~Posix!Free(o)
  BY <1>4, <1>5, FreeShown, PosixNumbers DEF Table, FdEntry, Posix!Free
<1>7. Posix!Dup2(t, w)
  BY <1>2, <1>6, PosixNumbers, ReturnEffect DEF Posix!Dup2, Posix!Open, Table
<1> QED
  BY <1>1, <1>7, ReturnEffect DEF Posix!Effect

\* A step that changes nothing but the call of its thread, which dropped nothing.
LEMMA TableKept ==
  ASSUME FdInv, NEW t \in Threads, InFlightNow(t), Returned(t), \A m \in Fds : ~Drops(t, m),
         \A m \in Fds : Under(m)' = Under(m) /\ ktable'[m].cloexec = ktable[m].cloexec
  PROVE  Table' = Table
<1>1. \A u \in Threads \ {t} : call'[u] = call[u]
  BY DEF FdInv, TypeOK, Returned
<1>2. \A m \in Fds : ~Drops(t, m)'
  BY DEF FdInv, TypeOK, Returned, Drops, InFlightNow
<1>3. \A m \in Fds : Shown(m)' = Shown(m)
  BY <1>1, <1>2, ShownSame
<1> QED
  BY <1>3 DEF Table

LEMMA DupOntoPosix ==
  ASSUME Stress = {}, FdInv, FdInv', NEW t \in Threads, Handled(t), call[t].op \in Two,
         dup_onto(t, call[t].fd, call[t].fd2, call[t].cx)
  PROVE  PosixStep
<1>0. InFlightNow(t) /\ call[t].at = "trap"
  BY DEF Handled
<1>1. /\ call[t] \in CallRecord /\ CallOK(call[t])
      /\ Names(call[t]) = {call[t].fd, call[t].fd2}
  BY <1>0, CallTypes, NamesOf DEF FdInv, CallsOK
<1>2. PICK o \in Fds, n \in Fds : o = call[t].fd /\ n = call[t].fd2
  BY <1>1 DEF CallOK, ArgsOK
<1>3. o \in Vfds /\ n \in Vfds /\ vtable[o] \in TrackedEntry /\ Fds \subseteq Vfds
  BY <1>2, Numbers DEF FdInv, TypeOK
<1>4. \A m \in Fds : ~Drops(t, m)
  BY <1>0, <1>3, TrapQuiet DEF Drops
<1>5. CASE vtable[o].file = NoFile
  <2>1. /\ remove({n}) /\ reply_continue(t, Removed({n})) /\ UNCHANGED kernel
        /\ \A m \in Vfds : m \in {n} => m \in Names(call[t]) \/ call[t].op \in Big
    BY <1>1, <1>2, <1>5 DEF dup_onto
  <2> QED
    BY <2>1, DropPosix
<1>6. CASE vtable[o].file # NoFile /\ o = n
  <2>1. Returned(t) /\ UNCHANGED <<kernel, vtable>>
    BY <1>2, <1>6 DEF dup_onto, tracked
  <2>2. Table' = Table
    BY <1>0, <1>4, <2>1, TableKept DEF Under, HasVfd, kernel
  <2> QED
    BY <1>0, <1>2, <1>4, <1>6, <2>1, <2>2, Dup2Effect
<1>7. CASE vtable[o].file # NoFile /\ o # n
  <2>1. PICK f \in Real : f = vtable[o].file
    BY <1>0, <1>1, <1>2, <1>3, <1>7 DEF CallOK, TrapOK, TrackedEntry
  <2>2. f \notin Virtual /\ Backing(f) = f
    BY GuestFdsAssumption DEF Backing
  <2>3. PICK cx \in BOOLEAN : cx = call[t].cx
    BY <1>1 DEF CallRecord
  <2>4. insert_at(n, f, cx) /\ Install(n, f, cx) /\ Returned(t)
    BY <1>0, <1>2, <1>7, <2>1, <2>2, <2>3, AddfdWorks DEF dup_onto
  <2>5. /\ ktable'[n] = FdEntry(f, cx) /\ vtable'[n] = FdEntry(f, cx)
        /\ \A m \in Vfds \ {n} : vtable'[m] = vtable[m]
        /\ \A m \in Fds \ {n} : ktable'[m] = ktable[m]
    BY <1>3, <2>2, <2>4 DEF insert_at, Install, FdInv, TypeOK
  <2>6. Shows(t, n, f, cx)
    <3>1. \A u \in Threads \ {t} : ~Drops(u, n) /\ call'[u] = call[u]
      BY <1>0, <1>1, <1>2, <2>4, NamedAlone DEF Returned, FdInv, TypeOK
    <3>2. \A m \in Fds : ~Drops(t, m)'
      BY <2>4 DEF Returned, FdInv, TypeOK, Drops, InFlightNow
    <3>3. /\ Under(n)' = f /\ ktable'[n].cloexec = cx
          /\ \A m \in Fds \ {n} : Under(m)' = Under(m) /\ ktable'[m].cloexec = ktable[m].cloexec
      BY <1>3, <2>5, GuestFdsAssumption DEF Under, HasVfd, FdEntry
    <3> QED
      BY <1>4, <3>1, <3>2, <3>3 DEF Shows
  <2>7. Table' = [Table EXCEPT ![n] = FdEntry(f, call[t].cx)]
    BY <2>3, <2>6, NewShown DEF Files
  <2>8. Under(o) = f
    BY <1>7, <2>1 DEF Under, HasVfd
  <2> QED
    BY <1>0, <1>2, <1>4, <1>7, <2>4, <2>7, <2>8, Dup2Effect
<1> QED
  BY <1>5, <1>6, <1>7

LEMMA Dup2Posix ==
  ASSUME Stress = {}, FdInv, FdInv', NEW t \in Threads, sys_dup2(t) \/ sys_dup3(t)
  PROVE  PosixStep
<1>1. Handled(t) /\ call[t].op \in Two /\ InFlightNow(t) /\ call[t].at = "trap"
  BY HandlingIs DEF sys_dup2, sys_dup3, Two, Handled
<1>2. /\ call[t].cx \in BOOLEAN /\ ArgsOK(call[t])
      /\ Names(call[t]) = {call[t].fd, call[t].fd2}
  BY <1>1, CallTypes, NamesOf DEF FdInv, CallsOK, CallOK
<1>3. CASE sys_dup2(t)
  <2>1. call[t].op = "dup2"
    BY <1>3, HandlingIs DEF sys_dup2
  <2>2. call[t].cx = FALSE
    BY <1>2, <2>1 DEF ArgsOK
  <2> QED
    BY <1>1, <1>3, <2>2, DupOntoPosix DEF sys_dup2
<1>4. CASE sys_dup3(t) /\ call[t].fd # call[t].fd2
  BY <1>1, <1>4, DupOntoPosix DEF sys_dup3
<1>5. CASE sys_dup3(t) /\ call[t].fd = call[t].fd2
  <2>1. Returned(t) /\ UNCHANGED <<kernel, vtable>>
    BY <1>5 DEF sys_dup3, tracked
  <2>2. \A m \in Fds : ~Drops(t, m)
    BY <1>1, TrapQuiet, Numbers DEF Drops
  <2>3. Table' = Table
    BY <1>1, <2>1, <2>2, TableKept DEF Under, HasVfd, kernel
  <2>4. PICK o \in Fds, n \in Fds : o = call[t].fd /\ n = call[t].fd2
    BY <1>1, <1>2 DEF ArgsOK
  <2> QED
    BY <1>1, <1>5, <2>1, <2>2, <2>3, <2>4, Dup2Effect
<1> QED
  BY <1>3, <1>4, <1>5

LEMMA ClosePosix ==
  ASSUME Stress = {}, FdInv, FdInv', NEW t \in Threads,
         \/ sys_close(t) \/ sys_close_range(t) \/ sys_execve(t)
         \/ sys_cloexec_range(t) \/ sys_setfd(t) \/ unhandled(t)
  PROVE  PosixStep
<1>1. Handled(t) /\ InFlightNow(t) /\ call[t].at = "trap"
  BY HandlingIs DEF sys_close, sys_close_range, sys_execve, sys_cloexec_range, sys_setfd, unhandled, Handled
<1>2. /\ call[t] \in CallRecord /\ CallOK(call[t])
  BY <1>1, CallTypes DEF FdInv, CallsOK
<1>3. CASE sys_close(t)
  <2>1. call[t].op = "close"
    BY <1>3, HandlingIs DEF sys_close
  <2>2. \A n \in Vfds : n \in {call[t].fd} => n \in Names(call[t]) \/ call[t].op \in Big
    BY <2>1, NamesOf DEF One
  <2> QED
    BY <1>1, <1>3, <2>2, DropPosix DEF sys_close
<1>4. CASE sys_close_range(t)
  <2>1. call[t].op \in Big
    BY <1>4, HandlingIs DEF sys_close_range, Big
  <2> QED
    BY <1>1, <1>4, <2>1, DropPosix DEF sys_close_range
<1>5. CASE sys_execve(t)
  <2>1. call[t].op \in Big
    BY <1>5, HandlingIs DEF sys_execve, Big
  <2>2. PICK S : S = {n \in Vfds : vtable[n].cloexec}
    OBVIOUS
  <2>3. remove(S) /\ reply_continue(t, Removed(S)) /\ UNCHANGED kernel
    BY <1>5, <2>2 DEF sys_execve
  <2> QED
    BY <1>1, <2>1, <2>3, DropPosix
<1>6. CASE sys_cloexec_range(t)
  BY <1>1, <1>6, MarkPosix DEF sys_cloexec_range
<1>7. CASE sys_setfd(t)
  <2>1. call[t].op = "setfd"
    BY <1>7, HandlingIs DEF sys_setfd
  <2>2. vtable[call[t].fd].file \notin Virtual
    BY <1>1, <1>2, <2>1 DEF CallOK, TrapOK
  <2>3. \/ Continues(t)
        \/ /\ set_cloexec({call[t].fd}, call[t].cx) /\ reply_continue(t, Nothing)
           /\ UNCHANGED kernel
    BY <1>7, <2>2 DEF sys_setfd
  <2> QED
    BY <1>1, <2>3, PassPosix, MarkPosix
<1>8. CASE unhandled(t)
  BY <1>1, <1>8, PassPosix DEF unhandled
<1> QED
  BY <1>3, <1>4, <1>5, <1>6, <1>7, <1>8

LEMMA HandlerPosix ==
  ASSUME Stress = {}, FdInv, FdInv', NEW t \in Threads, Handler(t)
  PROVE  PosixStep
BY OpenPosix, PipePosix, PipeSecondPosix, DupPosix, Dup2Posix, ClosePosix DEF Handler

-----------------------------------------------------------------------------
(* Calls that take effect in the kernel.                                   *)

\* Whether the guest sees a number change is up to the kernel's table and to what
\* the call had dropped.
LEMMA KernelShown ==
  ASSUME FdInv, NEW t \in Threads, InFlightNow(t), KernelDone(t), NEW n \in Fds
  PROVE  /\ ~Drops(t, n) /\ ktable'[n] = ktable[n] => Shown(n)' = Shown(n)
         /\ n \in Names(call[t]) \/ call[t].op \in Big
              => Shown(n)' = FdEntry(Under(n)', ktable'[n].cloexec)
<1>1. /\ \A u \in Threads \ {t} : call'[u] = call[u]
      /\ ~Drops(t, n)' /\ vtable' = vtable
  BY DEF FdInv, TypeOK, KernelDone, Returned, Drops, InFlightNow, tracked
<1>2. ASSUME ~Drops(t, n), ktable'[n] = ktable[n] PROVE Shown(n)' = Shown(n)
  <2>1. Under(n)' = Under(n)
    BY <1>1, <1>2 DEF Under, HasVfd
  <2> QED
    BY <1>1, <1>2, <2>1, ShownSame
<1>3. ASSUME n \in Names(call[t]) \/ call[t].op \in Big
      PROVE  Shown(n)' = FdEntry(Under(n)', ktable'[n].cloexec)
  <2>1. \A u \in Threads : ~Drops(u, n)'
    BY <1>1, <1>3, NamedAlone DEF Drops, InFlightNow
  <2> QED
    BY <2>1, ShownUnder
<1> QED
  BY <1>2, <1>3

LEMMA KernelClosePosix ==
  ASSUME FdInv, FdInv', NEW t \in Threads, KernelClose(t)
  PROVE  PosixStep
<1>1. /\ InFlightNow(t) /\ call[t].at = "kernel" /\ call[t].op \in {"close", "close_range"}
      /\ call[t] \in CallRecord /\ CallOK(call[t])
  BY InKernelIs DEF KernelClose
<1>2. KernelDone(t) /\ Returned(t) /\ vtable' = vtable
  BY DEF KernelClose, KernelDone, tracked
<1>3. PICK w \in Posix!CallRecords : w = WantOf(call[t])
  BY <1>1, WantRecord
<1>4. w.op = "close" /\ w.fd = call[t].fd /\ w.fd2 = call[t].fd2
  BY <1>1, <1>3, WantRecord DEF PosixOp
<1>5. call[t].op = "close" => call[t].fd = call[t].fd2 /\ Names(call[t]) = {call[t].fd}
  BY <1>1, NamesOf DEF CallOK, ArgsOK, One
<1>6. call[t].fd \in Nat /\ call[t].fd2 \in Nat /\ Fds \subseteq Nat /\ Fds \subseteq Vfds
  BY <1>1, Numbers DEF CallRecord
<1>7. ASSUME NEW n \in Fds
      PROVE  Shown(n)' = IF n \in call[t].fd .. call[t].fd2 THEN NoEntry ELSE Shown(n)
  <2>1. CASE n \in call[t].fd .. call[t].fd2
    <3>1. n \in Names(call[t]) \/ call[t].op \in Big
      BY <1>1, <1>5, <1>6, <2>1 DEF Big
    <3>2. ktable'[n] = NoEntry
      BY <2>1 DEF KernelClose
    <3>3. ~HasVfd(n)'
      BY <1>1, <1>2, <1>6, <2>1 DEF CallOK, KernelOK, HasVfd
    <3> QED
      BY <1>1, <1>2, <2>1, <3>1, <3>2, <3>3, KernelShown DEF Under, FdEntry, NoEntry
  <2>2. CASE n \notin call[t].fd .. call[t].fd2
    <3>1. ktable'[n] = ktable[n]
      BY <2>2 DEF KernelClose
    <3>2. ~Drops(t, n)
      BY <1>1, <1>6, <2>2 DEF CallOK, DroppedOK, Drops, Two
    <3> QED
      BY <1>1, <1>2, <2>2, <3>1, <3>2, KernelShown
  <2> QED
    BY <2>1, <2>2
<1>8. Posix!Close(t, w)
  BY <1>1, <1>2, <1>4, <1>7, PosixNumbers, ReturnEffect DEF Posix!Close, Table
<1> QED
  BY <1>1, <1>2, <1>3, <1>8, ReturnEffect DEF Posix!Effect

LEMMA KernelSetPosix ==
  ASSUME FdInv, FdInv', NEW t \in Threads, KernelSetCloexec(t)
  PROVE  PosixStep
<1>1. /\ InFlightNow(t) /\ call[t].at = "kernel" /\ call[t].op \in {"setfd", "cloexec_range"}
      /\ call[t] \in CallRecord /\ CallOK(call[t])
  BY InKernelIs DEF KernelSetCloexec
<1>2. KernelDone(t) /\ Returned(t) /\ vtable' = vtable
  BY DEF KernelSetCloexec, KernelDone, tracked
<1>3. PICK w \in Posix!CallRecords : w = WantOf(call[t])
  BY <1>1, WantRecord
<1>4. w.op = "cloexec" /\ w.fd = call[t].fd /\ w.fd2 = call[t].fd2 /\ w.cx = call[t].cx
  BY <1>1, <1>3, WantRecord DEF PosixOp
<1>5. call[t].op = "setfd" => call[t].fd = call[t].fd2 /\ Names(call[t]) = {call[t].fd}
  BY <1>1, NamesOf DEF CallOK, ArgsOK, One
<1>6. call[t].fd \in Nat /\ call[t].fd2 \in Nat /\ Fds \subseteq Nat /\ Fds \subseteq Vfds
  BY <1>1, Numbers DEF CallRecord
<1>7. ASSUME NEW n \in Fds
      PROVE  /\ Posix!Free(n) <=> KFree(n)
             /\ Shown(n)' = IF n \in call[t].fd .. call[t].fd2 /\ ~KFree(n)
                              THEN FdEntry(Shown(n).file, call[t].cx) ELSE Shown(n)
  <2>1. ~Drops(t, n)
    BY <1>1, <1>6, TrapQuiet DEF Drops
  <2>2. Posix!Free(n) <=> KFree(n)
    BY <1>1, <2>1, FreeShown, PosixNumbers DEF Posix!Free
  <2>3. CASE n \in call[t].fd .. call[t].fd2 /\ ~KFree(n)
    <3>1. n \in Names(call[t]) \/ call[t].op \in Big
      BY <1>1, <1>5, <1>6, <2>3 DEF Big
    <3>2. ktable'[n] = FdEntry(ktable[n].file, call[t].cx)
      BY <2>3 DEF KernelSetCloexec
    <3>3. Under(n)' = Under(n)
      BY <1>2, <3>2 DEF Under, HasVfd, FdEntry
    <3>4. Shown(n).file = Under(n)
      BY <1>1, <2>1, <3>1, NamedShown DEF FdEntry
    <3>5. Shown(n)' = FdEntry(Under(n), call[t].cx)
      BY <1>1, <1>2, <3>1, <3>2, <3>3, KernelShown DEF FdEntry
    <3> QED
      BY <2>2, <2>3, <3>4, <3>5
  <2>4. CASE ~(n \in call[t].fd .. call[t].fd2 /\ ~KFree(n))
    <3>1. ktable'[n] = ktable[n]
      BY <2>4 DEF KernelSetCloexec
    <3> QED
      BY <1>1, <1>2, <2>1, <2>2, <2>4, <3>1, KernelShown
  <2> QED
    BY <2>3, <2>4
<1>8. Posix!SetCloexec(t, w)
  BY <1>1, <1>2, <1>4, <1>7, PosixNumbers, ReturnEffect DEF Posix!SetCloexec, Table
<1> QED
  BY <1>1, <1>2, <1>3, <1>8, ReturnEffect DEF Posix!Effect


\* The kernel puts one file at a number that is not tracked.
Puts(t, n, f, cx) ==
  /\ KernelDone(t) /\ ~HasVfd(n)
  /\ \A u \in Threads \ {t} : ~Drops(u, n)
  /\ \A m \in Fds \ {n} : ~Drops(t, m)
  /\ ktable' = [ktable EXCEPT ![n] = FdEntry(f, cx)]

LEMMA PutShown ==
  ASSUME FdInv, NEW t \in Threads, NEW n \in Fds,
         NEW f \in Files \cup {Placeholder, NoFile}, NEW cx \in BOOLEAN, Puts(t, n, f, cx)
  PROVE  Table' = [Table EXCEPT ![n] = FdEntry(f, cx)]
<1> USE DEF Puts
<1>1. /\ \A u \in Threads \ {t} : call'[u] = call[u]
      /\ \A m \in Fds : ~Drops(t, m)'
      /\ vtable' = vtable
  BY DEF FdInv, TypeOK, KernelDone, Returned, Drops, InFlightNow, tracked
<1>2. ktable'[n] = FdEntry(f, cx) /\ \A m \in Fds \ {n} : ktable'[m] = ktable[m]
  BY DEF FdInv, TypeOK
<1>3. /\ Under(n)' = f /\ ktable'[n].cloexec = cx
      /\ \A m \in Fds \ {n} : Under(m)' = Under(m) /\ ktable'[m].cloexec = ktable[m].cloexec
  BY <1>1, <1>2 DEF Under, HasVfd, FdEntry
<1>4. Shows(t, n, f, cx)
  BY <1>1, <1>3 DEF Shows
<1> QED
  BY <1>4, NewShown

\* What a descriptor the kernel duplicates refers to is what the guest sees there.
LEMMA UnderKernel ==
  ASSUME FdInv, NEW o \in Fds, vtable[o].file \notin Virtual
  PROVE  Under(o) = ktable[o].file /\ Under(o) \in Files \cup {Placeholder, NoFile}
<1>1. o \in Vfds /\ MatchAt(o) /\ ktable[o].file \in Files \cup {Placeholder, NoFile}
  BY Numbers DEF FdInv, AgreeAt, TypeOK
<1> QED
  BY <1>1 DEF Under, MatchAt, Backing

LEMMA KernelDupPosix ==
  ASSUME FdInv, FdInv', NEW t \in Threads, KernelDup(t)
  PROVE  PosixStep
<1>1. /\ InFlightNow(t) /\ call[t].at = "kernel" /\ call[t].op \in {"dup", "dupfd"}
      /\ call[t] \in CallRecord /\ CallOK(call[t]) /\ KernelDone(t) /\ Returned(t)
  BY InKernelIs DEF KernelDup, KernelDone
<1>2. PICK o \in Fds : o = call[t].fd
  BY <1>1 DEF CallOK, ArgsOK, One
<1>3. \A m \in Fds : ~Drops(t, m)
  BY <1>1, TrapQuiet, Numbers DEF Drops
<1>4. vtable[o].file \notin Virtual
  BY <1>1, <1>2 DEF CallOK, KernelOK
<1>5. PICK cx \in BOOLEAN : cx = call[t].cx
  BY <1>1 DEF CallRecord
<1>6. PICK f \in Files \cup {Placeholder, NoFile} : f = Under(o) /\ f = ktable[o].file
  BY <1>4, UnderKernel
<1>7. CASE \E n \in Fds : /\ IsOpen(call[t].fd) /\ KFree(n)
                          /\ ktable' = [ktable EXCEPT ![n] = FdEntry(ktable[call[t].fd].file, call[t].cx)]
  <2>1. PICK n \in Fds : /\ IsOpen(o) /\ KFree(n)
                         /\ ktable' = [ktable EXCEPT ![n] = FdEntry(f, cx)]
    BY <1>2, <1>5, <1>6, <1>7
  <2>2. ~HasVfd(n) /\ \A u \in Threads \ {t} : ~Drops(u, n)
    BY <1>1, <2>1, FreeNumber, FreeUndropped
  <2>3. Table' = [Table EXCEPT ![n] = FdEntry(f, cx)]
    <3>1. Puts(t, n, f, cx)
      BY <1>1, <1>3, <2>1, <2>2 DEF Puts
    <3> QED
      BY <3>1, PutShown
  <2>4. ~KFree(o)
    BY <2>1 DEF IsOpen
  <2> QED
    BY <1>1, <1>2, <1>3, <1>5, <1>6, <2>1, <2>3, <2>4, DupEffect
<1>8. CASE ~IsOpen(call[t].fd) /\ UNCHANGED ktable
  <2>1. PICK w \in Posix!CallRecords : w = WantOf(call[t])
    BY <1>1, WantRecord
  <2>2. w.op = "dup" /\ w.fd = o
    BY <1>1, <1>2, <2>1, WantRecord DEF PosixOp
  <2>3. KFree(o)
    BY <1>2, <1>8 DEF IsOpen
  <2>4. Posix!Free(o)
    BY <1>1, <1>3, <2>3, FreeShown, PosixNumbers DEF Posix!Free
  <2>5. Table' = Table
    BY <1>1, <1>3, <1>8, TableKept DEF KernelDone, tracked, Under, HasVfd
  <2>6. Posix!Fail(t, w)
    BY <1>1, <2>2, <2>4, <2>5, ReturnEffect DEF Posix!Fail, Posix!Open, Table
  <2> QED
    BY <1>1, <2>1, <2>6, ReturnEffect DEF Posix!Effect
<1> QED
  BY <1>7, <1>8 DEF KernelDup

LEMMA KernelDup2Posix ==
  ASSUME FdInv, FdInv', NEW t \in Threads, KernelDup2(t)
  PROVE  PosixStep
<1>1. /\ InFlightNow(t) /\ call[t].at = "kernel" /\ call[t].op \in Two
      /\ call[t] \in CallRecord /\ CallOK(call[t]) /\ KernelDone(t) /\ Returned(t)
  BY InKernelIs DEF KernelDup2, Two, KernelDone
<1>2. PICK o \in Fds, n \in Fds : o = call[t].fd /\ n = call[t].fd2
  BY <1>1 DEF CallOK, ArgsOK
<1>3. IsOpen(o) /\ ~HasVfd(o) /\ ~HasVfd(n) /\ Fds \subseteq Vfds
  BY <1>1, <1>2, Numbers DEF CallOK, ArgsOK, KernelOK
<1>4. \A m \in Fds : Drops(t, m) => m = n /\ o # n
  BY <1>1, <1>2, <1>3 DEF CallOK, DroppedOK, Drops, Two
<1>5. PICK cx \in BOOLEAN : cx = call[t].cx /\ cx = (call[t].op = "dup3" /\ call[t].cx)
  BY <1>1 DEF CallRecord, CallOK, ArgsOK, Two
<1>6. vtable[o].file \notin Virtual
  BY <1>3, GuestFdsAssumption DEF HasVfd
<1>7. PICK f \in Files \cup {Placeholder, NoFile} : f = Under(o) /\ f = ktable[o].file
  BY <1>6, UnderKernel
<1>8. CASE o = n
  <2>1. UNCHANGED ktable
    BY <1>2, <1>8 DEF KernelDup2
  <2>2. Table' = Table
    BY <1>1, <1>4, <1>8, <2>1, TableKept DEF KernelDone, tracked, Under, HasVfd
  <2> QED
    BY <1>1, <1>2, <1>4, <1>7, <1>8, <2>2, Dup2Effect
<1>9. CASE o # n
  <2>1. ktable' = [ktable EXCEPT ![n] = FdEntry(f, cx)]
    BY <1>2, <1>3, <1>5, <1>7, <1>9 DEF KernelDup2
  <2>2. \A u \in Threads \ {t} : ~Drops(u, n)
    BY <1>1, <1>2, NamesOf, NamedAlone
  <2>3. Table' = [Table EXCEPT ![n] = FdEntry(f, cx)]
    <3>1. Puts(t, n, f, cx)
      BY <1>1, <1>3, <1>4, <2>1, <2>2 DEF Puts
    <3> QED
      BY <3>1, PutShown
  <2> QED
    BY <1>1, <1>2, <1>4, <1>5, <1>7, <1>9, <2>3, Dup2Effect
<1> QED
  BY <1>8, <1>9

LEMMA KernelCreatePosix ==
  ASSUME FdInv, FdInv', NEW t \in Threads, KernelCreate(t)
  PROVE  PosixStep
<1>1. /\ InFlightNow(t) /\ call[t].at = "kernel" /\ call[t].op = "create" /\ call[t] \in CallRecord
      /\ KernelDone(t) /\ call' = [call EXCEPT ![t] = NoCall]
  BY InKernelIs DEF KernelCreate, KernelDone, Returned
<1>2. PICK n \in Fds, f \in Own : Lowest(n) /\ ktable' = [ktable EXCEPT ![n] = FdEntry(f, call[t].cx)]
  BY DEF KernelCreate
<1>3. ~HasVfd(n) /\ f \in Files /\ vtable' = vtable
  BY <1>1, <1>2, FreeNumber DEF Lowest, Files, KernelDone, tracked
<1>4. ktable'[n] = FdEntry(f, call[t].cx) /\ \A m \in Fds \ {n} : ktable'[m] = ktable[m]
  BY <1>2 DEF FdInv, TypeOK
<1>5. /\ Under(n)' = f /\ ktable'[n].cloexec = call[t].cx
      /\ \A m \in Fds \ {n} : Under(m)' = Under(m) /\ ktable'[m].cloexec = ktable[m].cloexec
  BY <1>3, <1>4 DEF Under, HasVfd, FdEntry
<1>6. WantOf(call[t]).op = "open"
  BY <1>1, WantRecord DEF PosixOp
<1> QED
  BY <1>1, <1>2, <1>3, <1>5, <1>6, AppearPosix

\* exec runs alone, and takes the rest of the process with it.
LEMMA KernelExecPosix ==
  ASSUME FdInv, FdInv', NEW t \in Threads, KernelExec(t)
  PROVE  PosixStep
<1>1. /\ InFlightNow(t) /\ call[t].at = "kernel" /\ call[t].op = "exec"
      /\ call[t] \in CallRecord /\ CallOK(call[t]) /\ vtable' = vtable
      /\ ktable' = [n \in Fds |-> IF ktable[n].cloexec THEN NoEntry ELSE ktable[n]]
  BY InKernelIs DEF KernelExec, tracked
<1>2. \A u \in Threads \ {t} : ~InFlightNow(u)
  BY <1>1 DEF FdInv, Apart, Big
<1>3. \A u \in Threads : ~InFlightNow(u)'
  <2>1. PICK kept \in SUBSET {u \in Threads \ {t} : call[u] # NoCall /\ call[u].at # "kernel"} :
           call' = [u \in Threads |-> IF u \in kept THEN call[u] ELSE NoCall]
    BY DEF KernelExec
  <2> QED
    BY <1>2, <2>1 DEF InFlightNow
<1>4. ASSUME NEW n \in Fds
      PROVE  Shown(n)' = IF Shown(n).cloexec THEN NoEntry ELSE Shown(n)
  <2>1. n \in Vfds /\ call[t].op \in Big /\ Shown(n).cloexec = ktable[n].cloexec
    BY <1>1, Numbers DEF Big, Shown
  <2>2. Shown(n)' = FdEntry(Under(n)', ktable'[n].cloexec)
    BY <1>3, ShownUnder DEF Drops, InFlightNow
  <2>3. CASE ktable[n].cloexec
    <3>1. ~HasVfd(n)
      <4>1. HasVfd(n) => ~vtable[n].cloexec
        BY <1>1, <2>1 DEF CallOK, KernelOK
      <4> QED
        BY <1>1, <2>1, <2>3, <4>1, SameFlag
    <3>2. Under(n)' = NoFile /\ ktable'[n] = NoEntry
      BY <1>1, <2>3, <3>1 DEF Under, HasVfd, NoEntry
    <3> QED
      BY <2>1, <2>2, <2>3, <3>2 DEF FdEntry, NoEntry
  <2>4. CASE ~ktable[n].cloexec
    <3>1. ~Drops(t, n)
      BY <1>1, <2>1, <2>4 DEF CallOK, DroppedOK, Drops, Two
    <3>2. Shown(n) = FdEntry(Under(n), ktable[n].cloexec)
      BY <1>2, <3>1, ShownUnder DEF Drops
    <3>3. ktable'[n] = ktable[n] /\ Under(n)' = Under(n)
      BY <1>1, <2>4 DEF Under, HasVfd
    <3> QED
      BY <2>1, <2>2, <2>4, <3>2, <3>3
  <2> QED
    BY <2>3, <2>4
<1>5. Want[t] = WantOf(call[t]) /\ Want' = [u \in Threads |-> NoCall]
  <2>1. Asked(t) = WantOf(call[t])
    BY <1>1 DEF FdInv, CallsOK, InFlightNow, Asked, WantOf
  <2>2. \A u \in Threads : Asked(u)' = NoCall
    BY <1>3 DEF Asked, InFlightNow
  <2> QED
    BY <2>1, <2>2 DEF Want
<1>6. WantOf(call[t]).op = "exec" /\ WantOf(call[t]) # NoCall
  BY <1>1, WantRecord DEF PosixOp
<1>7. Posix!Exec(t, Want[t])
  BY <1>4, <1>5, <1>6, PosixNumbers DEF Posix!Exec, Want, Table
<1>8. Want[t] # NoCall /\ Want'[t] # Want[t] /\ Posix!Effect(t, Want[t])
  BY <1>5, <1>6, <1>7 DEF Posix!Effect
<1>9. Posix!Next
  BY <1>8 DEF Posix!Next, Want
<1> QED
  BY <1>9 DEF PosixStep

LEMMA StillPosix ==
  ASSUME FdInv, FdInv', UNCHANGED <<ktable, vtable, call>>
  PROVE  PosixStep
<1>1. \A u \in Threads : Asked(u)' = Asked(u)
  BY DEF FdInv, CallsOK, InFlightNow, Asked
<1>2. \A n \in Fds : Shown(n)' = Shown(n)
  BY DEF Shown, HasVfd
<1> QED
  BY <1>1, <1>2, SamePosix DEF Want, Table

LEMMA KernelPosix ==
  ASSUME Stress = {}, FdInv, FdInv', NEW t \in Threads, Kernel(t)
  PROVE  PosixStep
<1>1. CASE KernelSpawn(t)
  BY <1>1, StillPosix DEF KernelSpawn, tracked
<1>2. ~KernelRefuses(t)
  BY DEF KernelRefuses
<1> QED
  BY <1>1, <1>2, KernelClosePosix, KernelSetPosix, KernelDupPosix, KernelDup2Posix,
     KernelCreatePosix, KernelExecPosix DEF Kernel

LEMMA CallPosix ==
  ASSUME Stress = {}, FdInv, FdInv', NEW t \in Threads, GuestCall(t)
  PROVE  PosixStep
<1>1. ~InFlightNow(t) /\ call[t] = NoCall
  BY DEF GuestCall, MayCall, InFlightNow
<1>2. \E op \in AnyOp, fd \in Vfds, fd2 \in Vfds, cx \in BOOLEAN : Made(t, op, fd, fd2, cx)
  BY TrapMade
<1>3. PICK op \in AnyOp, fd \in Vfds, fd2 \in Vfds, cx \in BOOLEAN : Trap(t, op, fd, fd2, cx)
  BY <1>2 DEF Made
<1>4. PICK c : c = Trapped(op, fd, fd2, cx)
  OBVIOUS
<1>5. /\ c.op = op /\ c.fd = fd /\ c.fd2 = fd2 /\ c.cx = cx /\ c.at = "trap" /\ c.was = Nothing
  BY <1>4 DEF Trapped
<1>6. call' = [call EXCEPT ![t] = c] /\ UNCHANGED <<ktable, vtable>>
  BY <1>3, <1>4 DEF Trap, kernel, tracked
<1>7. call'[t] = c /\ \A u \in Threads \ {t} : call'[u] = call[u]
  BY <1>6 DEF FdInv, TypeOK
<1>8. c # NoCall
  BY <1>3, <1>4, EntryTypes, NoCallAssumption
  DEF Trapped, CallRecord, AnyOp, Big, One, Two, None, Creates
<1>9. WantOf(c) \in Posix!CallRecords
  <2>1. PosixOp(op) \in {"open", "pair", "dup", "dup2", "close", "cloexec", "exec"}
    BY DEF AnyOp, Big, One, Two, None, PosixOp
  <2>2. fd \in Nat /\ fd2 \in Nat
    BY Numbers
  <2>3. WantOf(c) = [op |-> PosixOp(op), fd |-> fd, fd2 |-> fd2, cx |-> cx]
    BY <1>5, <1>8 DEF WantOf
  <2> QED
    BY <2>1, <2>2, <2>3 DEF Posix!CallRecords
<1>10. Want[t] = NoCall /\ Want' = [Want EXCEPT ![t] = WantOf(c)]
  BY <1>1, <1>6, Wanted DEF WantOf
<1>11. ASSUME NEW n \in Fds PROVE Shown(n)' = Shown(n)
  <2>1. ~Drops(t, n) /\ ~Drops(t, n)'
    BY <1>1, <1>5, <1>7, Numbers DEF Drops, InFlightNow, Nothing, NoEntry
  <2>2. Under(n)' = Under(n)
    BY <1>6 DEF Under, HasVfd
  <2> QED
    BY <1>6, <1>7, <2>1, <2>2, ShownSame
<1>12. Posix!Call(t, Want'[t])
  BY <1>10, <1>11 DEF Posix!Call, Want
<1>13. Want'[t] = WantOf(c)
  BY <1>10 DEF Want
<1>14. Want'[t] # Want[t] /\ Want[t] = NoCall /\ Want'[t] \in Posix!CallRecords
  BY <1>9, <1>10, <1>13, AskedAssumption
<1>15. Posix!Next
  BY <1>12, <1>14 DEF Posix!Next, Want
<1> QED
  BY <1>15 DEF PosixStep

LEMMA PosixStart == Init => Posix!Init
<1> SUFFICES ASSUME Init PROVE Posix!Init
  OBVIOUS
<1>1. PICK tty \in Own :
        ktable = [n \in Fds |-> IF n \in Stdio THEN FdEntry(tty, FALSE) ELSE NoEntry]
  BY DEF Init
<1>2. \A n \in Fds : Shown(n) = ktable[n]
  <2> SUFFICES ASSUME NEW n \in Fds PROVE Shown(n) = ktable[n]
    OBVIOUS
  <2>1. \A t \in Threads : ~Drops(t, n)
    BY DEF Init, Drops, InFlightNow
  <2>2. Shown(n) = FdEntry(ktable[n].file, ktable[n].cloexec)
    BY <2>1, ShownUnder, Numbers DEF Under, HasVfd, Init, Nothing, NoEntry
  <2> QED
    BY <1>1, <2>2 DEF FdEntry, NoEntry
<1>3. \A n \in Fds : Shown(n) \in {NoEntry} \cup {FdEntry(f, FALSE) : f \in Files}
  BY <1>1, <1>2 DEF Files
<1>4. \A t \in Threads : Asked(t) = NoCall
  BY DEF Init, Asked
<1> QED
  BY <1>3, <1>4, PosixNumbers DEF Posix!Init

\* The tracked table and the kernel's are together one POSIX descriptor table: every
\* call of every thread takes effect once, between its start and its return, with
\* the number and the file POSIX prescribes, whether its handler answers it or leaves
\* it to the kernel (sys_openat, sys_dup2, sys_close, sys_pipe2, sys_execve), for any
\* number of threads and descriptors, while the guest makes ordinary calls.
THEOREM PosixAlwaysImplemented == ASSUME Stress = {} PROVE Spec => ImplementsPosix
<1>1. FdInv /\ [Next]_vars => FdInv'
  BY FdKeeps
<1>2. FdInv /\ FdInv' /\ [Next]_vars => [Posix!Next]_(Posix!vars)
  <2> SUFFICES ASSUME FdInv, FdInv', [Next]_vars PROVE PosixStep
    BY DEF PosixStep
  <2>1. CASE UNCHANGED vars
    BY <2>1, StillPosix DEF vars, kernel, tracked
  <2> QED
    BY <2>1, CallPosix, HandlerPosix, KernelPosix DEF Next
<1> QED
  BY <1>1, <1>2, FdStart, PosixStart, PTL DEF Spec, ImplementsPosix, Posix!Spec
=============================================================================
