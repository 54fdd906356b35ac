------------------------------ MODULE ProcView ------------------------------
(* What a guest sees of processes and whom it signals: the files of /proc,  *)
(* the listing of /proc, kill and tkill.  All go through the registry,      *)
(* which knows tasks by number, while numbers are the host's: a task that   *)
(* ends gives its number back, to a guest or to a process outside.          *)
(*                                                                         *)
(* Every task is a process here (Threads has the threads).  gen counts the  *)
(* tasks a number has had; an entry of the registry keeps the one it was    *)
(* made for, which the code does not.  The init guest is in the process      *)
(* group of the daemon that started it.                                     *)
EXTENDS FiniteSets, Naturals

CONSTANTS
  Pids, Init0, Daemon,     \* numbers of tasks; those of the init guest and the daemon
  Askers,                  \* worker threads in kill, or in a call on /proc
  MaxTasks,                \* bound: tasks that are started
  Lifted                   \* restrictions that are lifted: signal_death, rescan, window

VARIABLES
  task,                    \* the host's tasks
  known,                   \* Threads.map
  ask,                     \* kill, or a text that was rendered, of each asker
  made
procVars == <<task, known, ask, made>>

ASSUME ProcAssumption == Pids \subseteq Nat \ {0} /\ Init0 \in Pids /\ Daemon \in Pids

NoTask == [st |-> "free", own |-> FALSE, parent |-> 0, pgrp |-> 0, gen |-> 0]
NoEntry == [gen |-> 0, parent |-> 0]
\* A rendered text: whose it is, who has the number, and which numbers in it
\* are of no guest.
NoText == [gen |-> 0, now |-> 0, own |-> TRUE, foreign |-> {}]
Silent == [pc |-> "idle", pid |-> 0, entry |-> 0, text |-> NoText]

ProcInit ==
  /\ task = [p \in Pids |-> IF p \notin {Init0, Daemon} THEN NoTask
                            ELSE [NoTask EXCEPT !.st = "live", !.own = p = Init0, !.pgrp = Daemon, !.gen = 1]]
  /\ known = [p \in Pids |-> IF p = Init0 THEN [gen |-> 1, parent |-> 0] ELSE NoEntry]
  /\ ask = [a \in Askers |-> Silent] /\ made = 0

contains(p) == known[p] # NoEntry
Guest(p) == task[p].own /\ task[p].st = "live"
Awaited(p) == \E a \in Askers : ask[a].pc = "send" /\ ask[a].pid = p
Dying == \E p \in Pids : task[p].own /\ task[p].st \in {"dying", "zombie"}

-----------------------------------------------------------------------------
(* The host.                                                                *)

\* A number is given to a guest's child, in its parent's process group or one
\* of its own, or to a process outside.
Started(p, own, parent, pgrp) ==
  /\ task[p].st = "free" /\ made < MaxTasks /\ \A q \in Pids : task[q].st # "free" => task[q].pgrp # p
  /\ Awaited(p) => "window" \in Lifted
  /\ task' = [task EXCEPT ![p] = [st |-> "live", own |-> own, parent |-> parent, pgrp |-> pgrp,
                                  gen |-> @.gen + 1]]
  /\ made' = made + 1
  /\ UNCHANGED <<known, ask>>
fork(p, c) == Guest(p) /\ contains(p) /\ \E g \in {task[p].pgrp, c} : Started(c, TRUE, p, g)
outside(p) == Started(p, FALSE, 0, p)

\* Mutant: the entry of a task that exits stays.
handle_thread_exit_keeps(p) == known
\* sys_exit prunes the entry and lets the task end; a signal only ends it.
handle_thread_exit(p) ==
  [q \in Pids |-> IF q = p THEN NoEntry
                  ELSE IF contains(q) /\ known[q].parent = p THEN [known[q] EXCEPT !.parent = Init0]
                  ELSE known[q]]
exit(p) == \E how \in {"exit"} \cup IF "signal_death" \in Lifted THEN {"signal"} ELSE {} :
  /\ Guest(p) /\ p # Init0 /\ contains(p)
  /\ known' = IF how = "exit" THEN handle_thread_exit(p) ELSE known
  /\ task' = [task EXCEPT ![p].st = "dying"]
  /\ UNCHANGED <<ask, made>>
ends(p) ==
  /\ task[p].st = "dying" \/ (task[p].st = "live" /\ ~task[p].own /\ p # Daemon)
  /\ task' = [q \in Pids |-> IF q = p THEN [task[q] EXCEPT !.st = "zombie"]
                             ELSE IF task[q].parent = p THEN [task[q] EXCEPT !.parent = 0] ELSE task[q]]
  /\ UNCHANGED <<known, ask, made>>
reaped(p) ==
  /\ task[p].st = "zombie"
  /\ task' = [task EXCEPT ![p] = [NoTask EXCEPT !.gen = task[p].gen]]
  /\ UNCHANGED <<known, ask, made>>

-----------------------------------------------------------------------------
(* The registry, as far as Threads does not have it.                        *)

\* A task registers under its parent when that is known, or can be
\* registered, and under the init guest otherwise, if it made a call.
Parent(p) == task[p].parent
Visible(p) == task[p].st # "free"
Traced(p) == Visible(p) /\ Parent(p) # 0
             /\ \/ contains(Parent(p))
                \/ Visible(Parent(p)) /\ Parent(Parent(p)) # 0 /\ contains(Parent(Parent(p)))
Entry(p) == [gen |-> task[p].gen, parent |-> IF Traced(p) THEN Parent(p) ELSE Init0]
get_or_sync(p) ==
  [q \in Pids |-> IF ~contains(q) /\ (q = p \/ (Traced(p) /\ ~contains(p) /\ q = Parent(p)))
                  THEN Entry(q) ELSE known[q]]
\* Mutant: a scan takes in processes of other sandboxes.
sync_new_threads_all(p) == [q \in Pids |-> IF ~contains(q) /\ Visible(q) THEN Entry(q) ELSE known[q]]
sync_new_threads(p) ==
  LET k == get_or_sync(p) IN
  [q \in Pids |-> IF k[q] = NoEntry /\ Traced(q) THEN Entry(q) ELSE k[q]]

\* The first call of a task.
notified(p) ==
  /\ Guest(p) /\ ~contains(p)
  /\ Dying => "rescan" \in Lifted
  /\ known' = get_or_sync(p)
  /\ UNCHANGED <<task, ask, made>>

abs_tgid_for_ns(n) == contains(n)
ns_ppid(k, n) == IF k[n].parent # 0 /\ k[k[n].parent] # NoEntry THEN k[n].parent ELSE 0

-----------------------------------------------------------------------------
(* sys_kill and sys_tkill: the lookup under the lock, the signal after it.  *)
kill(a, n) ==
  /\ ask[a].pc = "idle" /\ abs_tgid_for_ns(n)
  /\ ask' = [ask EXCEPT ![a] = [Silent EXCEPT !.pc = "send", !.pid = n, !.entry = known[n].gen]]
  /\ UNCHANGED <<task, known, made>>
deliver(a) ==
  /\ ask[a].pc = "send"
  /\ ask' = [ask EXCEPT ![a].pc = IF Visible(ask[a].pid) THEN "hit" ELSE "ESRCH",
                        ![a].text = [NoText EXCEPT !.gen = task[ask[a].pid].gen, !.own = task[ask[a].pid].own]]
  /\ UNCHANGED <<task, known, made>>

\* Mutant: the process group keeps its host number.
rewrite_pid_stat_raw(k, n) == {n, ns_ppid(k, n), task[n].pgrp}
\* build_proc for /proc/<n>/status, stat and cmdline, opened by any task, after
\* a scan.  stat is the host's line with its numbers replaced.
rewrite_pid_stat(k, n) ==
  {n, ns_ppid(k, n), IF task[n].pgrp # 0 /\ k[task[n].pgrp] # NoEntry THEN task[n].pgrp ELSE 0}
Text(n, gen, ids) ==
  [gen |-> gen, now |-> task[n].gen, own |-> task[n].own, foreign |-> {i \in ids \ {0} : ~task[i].own}]
Render(k, file, n) ==
  CASE file = "stat" -> Text(n, task[n].gen, rewrite_pid_stat(k, n))
    [] file = "status" -> Text(n, k[n].gen, {n, ns_ppid(k, n)})
    [] file = "cmdline" -> Text(n, task[n].gen, {})
build_proc(a, p, n) == \E file \in {"stat", "status", "cmdline"} :
  /\ ask[a].pc = "idle" /\ Guest(p)
  /\ Dying => "rescan" \in Lifted
  /\ known' = sync_new_threads(p)
  /\ ask' = IF known'[n] = NoEntry THEN ask
            ELSE [ask EXCEPT ![a] = [Silent EXCEPT !.pc = "text", !.pid = n, !.entry = known'[n].gen,
                                                   !.text = Render(known', file, n)]]
  /\ UNCHANGED <<task, made>>

\* getdents of /proc, whose open did the scan, and readlink of /proc/<n>/cwd:
\* what the registry has now.
Tell(a, n, ids) ==
  /\ ask[a].pc = "idle"
  /\ ask' = [ask EXCEPT ![a] = [Silent EXCEPT !.pc = "text", !.pid = n, !.entry = known[n].gen,
                                              !.text = Text(n, known[n].gen, ids)]]
  /\ UNCHANGED <<task, known, made>>
ns_tgids == {q \in Pids : contains(q)}
proc_dirents(a) == Tell(a, Init0, ns_tgids)
proc_readlink(a, n) == contains(n) /\ Tell(a, n, {})

answered(a) ==
  /\ ask[a].pc \in {"hit", "ESRCH", "text"}
  /\ ask' = [ask EXCEPT ![a] = Silent]
  /\ UNCHANGED <<task, known, made>>

ProcNext ==
  \/ \E p \in Pids : exit(p) \/ ends(p) \/ reaped(p) \/ notified(p) \/ outside(p)
                     \/ \E c \in Pids : fork(p, c)
  \/ \E a \in Askers : deliver(a) \/ answered(a) \/ proc_dirents(a)
                       \/ \E n \in Pids : kill(a, n) \/ proc_readlink(a, n) \/ \E p \in Pids : build_proc(a, p, n)

-----------------------------------------------------------------------------
(* A signal goes to the task of the sandbox that had the number when the    *)
(* guest named it, never to another and never outside, whatever ends and    *)
(* starts meanwhile (sys_kill, sys_tkill, handle_thread_exit).              *)
KillsOwn ==
  \A a \in Askers : ask[a].pc = "hit" => ask[a].text.own /\ ask[a].text.gen = ask[a].entry

(* A text of /proc is of the task it is named after, and every number in it *)
(* is a process of the sandbox or 0 (build_proc, pid_stat, proc_dirents).   *)
ShowsOwn ==
  \A a \in Askers : ask[a].pc = "text" =>
    LET t == ask[a].text IN t.own /\ t.gen = t.now /\ t.now = ask[a].entry /\ t.foreign = {}

(* The registry, which is what a guest sees in /proc, has no process that   *)
(* has ended or is not a guest's: an entry is for the task that has the     *)
(* number (sync_new_threads, handle_thread_exit).                           *)
NoGhosts ==
  \A p \in Pids : contains(p) => task[p].own /\ task[p].st = "live" /\ task[p].gen = known[p].gen

(* A number means to the guest the task of the sandbox that has it: in      *)
(* signals, in texts and in the registry (sys_kill, build_proc, Threads).   *)
NumbersOwn == KillsOwn /\ ShowsOwn /\ NoGhosts
=============================================================================
