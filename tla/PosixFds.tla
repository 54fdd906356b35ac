------------------------------ MODULE PosixFds ------------------------------
(***************************************************************************)
(* What the supervisor promises the threads of a guest process about their *)
(* descriptors: one table, as POSIX has it.  A call takes effect in one    *)
(* step between its start and its return (a pair of files in two), or      *)
(* fails without an effect for one of the reasons POSIX knows.             *)
(***************************************************************************)
EXTENDS Integers

CONSTANTS
  Threads,
  Limit,           \* RLIMIT_NOFILE of the guest
  Files, NoFile,   \* open-file descriptions
  NoCall           \* what a thread asks for while it runs its own code

VARIABLES
  table,           \* number -> [file, cloexec]
  want             \* thread -> the call it waits for

vars == <<table, want>>

Fds == 0..Limit - 1
NoEntry == [file |-> NoFile, cloexec |-> FALSE]
Entry(f, cx) == [file |-> f, cloexec |-> cx]
Free(n) == table[n] = NoEntry
Lowest(n) == Free(n) /\ \A m \in Fds : m < n => ~Free(m)
Open(n) == n \in Fds /\ ~Free(n)
Full == \A n \in Fds : ~Free(n)

Returns(t) == want' = [want EXCEPT ![t] = NoCall]

\* Below, thread t has asked for c.
Call(t, c) ==
  /\ want' = [want EXCEPT ![t] = c]
  /\ UNCHANGED table

Allocate(c) ==
  \E n \in Fds, f \in Files :
    Lowest(n) /\ table' = [table EXCEPT ![n] = Entry(f, c.cx)]

\* open, socket, eventfd2, and what the kernel creates on its own.
Create(t, c) == c.op = "open" /\ Returns(t) /\ Allocate(c)

\* pipe2, socketpair: the first of two files.
CreateFirst(t, c) ==
  /\ c.op = "pair"
  /\ want' = [want EXCEPT ![t] = [c EXCEPT !.op = "open"]]
  /\ Allocate(c)

\* dup, and fcntl(F_DUPFD), which bounds the new number from below.
Dup(t, c) ==
  /\ c.op = "dup" /\ Open(c.fd)
  /\ Returns(t)
  /\ \E n \in Fds :
       /\ Free(n)
       /\ table' = [table EXCEPT ![n] = Entry(table[c.fd].file, c.cx)]

Dup2(t, c) ==
  /\ c.op = "dup2" /\ Open(c.fd) /\ c.fd2 \in Fds
  /\ Returns(t)
  /\ table' = IF c.fd = c.fd2 THEN table
              ELSE [table EXCEPT ![c.fd2] = Entry(table[c.fd].file, c.cx)]

Close(t, c) ==
  /\ c.op = "close"
  /\ Returns(t)
  /\ table' = [n \in Fds |-> IF n \in c.fd .. c.fd2 THEN NoEntry ELSE table[n]]

\* fcntl(F_SETFD), close_range(CLOSE_RANGE_CLOEXEC).
SetCloexec(t, c) ==
  /\ c.op = "cloexec"
  /\ Returns(t)
  /\ table' = [n \in Fds |-> IF n \in c.fd .. c.fd2 /\ ~Free(n)
                               THEN Entry(table[n].file, c.cx) ELSE table[n]]

\* exec: the other threads end with it.
Exec(t, c) ==
  /\ c.op = "exec"
  /\ table' = [n \in Fds |-> IF table[n].cloexec THEN NoEntry ELSE table[n]]
  /\ want' = [u \in Threads |-> NoCall]

Fail(t, c) ==
  /\ \/ c.op \in {"open", "pair", "dup"} /\ Full
     \/ c.op \in {"dup", "dup2"} /\ ~Open(c.fd)
     \/ c.op = "dup2" /\ c.fd2 \notin Fds
     \/ c.op = "exec"
  /\ Returns(t)
  /\ UNCHANGED table

Effect(t, c) == \/ Create(t, c) \/ CreateFirst(t, c) \/ Dup(t, c) \/ Dup2(t, c)
                \/ Close(t, c) \/ SetCloexec(t, c) \/ Exec(t, c) \/ Fail(t, c)

\* A guest starts with some descriptors open, none of them close-on-exec.
Init ==
  /\ table \in [Fds -> {NoEntry} \cup {Entry(f, FALSE) : f \in Files}]
  /\ want = [t \in Threads |-> NoCall]

CallRecords == [op : {"open", "pair", "dup", "dup2", "close", "cloexec", "exec"},
                fd : Nat, fd2 : Nat, cx : BOOLEAN]

\* Every step starts a call or takes one further.
Next == \E t \in Threads :
          LET c == want[t]   d == want'[t]
          IN  /\ d # c
              /\ IF c = NoCall THEN d \in CallRecords /\ Call(t, d)
                               ELSE Effect(t, c)

Spec == Init /\ [][Next]_vars
=============================================================================
