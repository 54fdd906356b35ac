------------------------------ MODULE Session ------------------------------
(* One sandboxed run: fork of the guest and the search for its listener,    *)
(* the supervising thread, the timeout watchdog, kill_guest_tree, the       *)
(* reader of the terminal, the resource group, and the clients that stream  *)
(* its output or wait for it (setup.rs, cgroup.rs, log_buffer.rs, and the   *)
(* callers in cvisor-daemon, cvisor-cli and git.rs).                        *)
(*                                                                         *)
(* Output is counted, not spelled: written, tty, out and got are numbers of *)
(* chunks written by the guest, waiting in the terminal, waiting in the     *)
(* LogBuffer and received by the client.                                   *)
EXTENDS Integers, FiniteSets, FiniteSetsExt

CONSTANTS
  Tasks, Leader,   \* processes of the guest; the first one
  Host,            \* the session of the process that hosts the supervisor
  HostTables,      \* descriptor tables the host may have when it forks
  MaxFd,           \* highest descriptor number of those tables
  Attempts,        \* scans of /proc/<pid>/fd before giving up (2000)
  Sweeps,          \* sweeps of /proc by kill_guest_tree (10)
  MaxOut,          \* chunks of output the guest writes
  Codes,           \* exit codes of the guest
  Waiters,         \* threads that call Session::wait
  Runs,            \* how runs are asked for: client, mode, timeout, limited
  Careless         \* what guests and hosts may do beyond the usual

(* start_session and spawn_session: the modes that each caller asks for.    *)
Modes ==
  {<<"run", "none">>, <<"run_stream", "none">>, <<"shell", "none">>, <<"shell", "buffered">>,
   <<"wait", "buffered">>, <<"cli", "raw">>}

NoCode == -2                       \* NO_EXIT, Option::None

ASSUME SessionAssumption ==
  /\ Leader \in Tasks /\ Host \notin Tasks
  /\ MaxFd \in Nat /\ Attempts \in Nat \ {0} /\ Sweeps \in Nat \ {0} /\ MaxOut \in Nat
  /\ Codes \subseteq 0..127
  /\ \A r \in Runs : <<r.client, r.mode>> \in Modes /\ {r.timeout, r.limited} \subseteq BOOLEAN
  /\ \A f \in HostTables : f \in [0..MaxFd -> {"none", "file", "notify"}]
  /\ NoCode \notin Waiters

VARIABLES
  client, mode, timeout, limited,        \* how the run was asked for
  fds, child,                            \* the child's descriptors and its progress to execve
  scan, listener,                        \* steal_notify_fd; whose filter was stolen
  live, spawned, grp, ses, caged, cage,  \* guest processes, their groups, the cgroup
  asked, status, latch,                  \* the exit the guest asked for, had, and had latched
  sup, watch, timed_out, code, exit,     \* run_and_reap, its watchdog and what they answer
  pid, stray,                            \* who owns the leader's pid; killers that hit a stranger
  kills,                                 \* the runs of kill_guest_tree under way
  written, tty, out, got, reader,        \* output on its way to the client
  cl, gone, told,                        \* the client: progress, hung up, exit code received
  joins, ws, ans                         \* the two join handles and the calls of wait

guest == <<live, spawned, grp, ses, asked, status, latch>>
spawning == <<fds, child, scan, listener>>
chosen == <<client, mode, timeout, limited>>
output == <<written, tty, out, got>>
ending == <<code, exit, pid>>
waiting == <<joins, ws, ans>>
vars == <<chosen, spawning, guest, caged, cage, sup, watch, timed_out, ending, stray,
          kills, output, reader, cl, gone, told, waiting>>

Lost == -1                         \* neither a latched code nor a reaped status
Killed == 137                      \* 128 + SIGKILL
Crashed == 139                     \* 128 + the signal of a crash
Killers == {"watchdog", "caller"}
Handles == {"supervisor", "reader"}
Idle == [pc |-> "idle", n |-> 0, todo |-> {}, hit |-> FALSE]

Scan(pc, attempt) == [pc |-> pc, at |-> 0, listed |-> {}, found |-> NoCode, attempt |-> attempt]

Init ==
  /\ \E r \in Runs : /\ client = r.client /\ mode = r.mode
                     /\ timeout = r.timeout /\ limited = r.limited
  /\ fds \in HostTables /\ child = "forked"
  /\ scan = Scan("list", 0)
  /\ listener = "none"
  /\ live = {Leader} /\ spawned = {Leader}
  /\ grp = [t \in Tasks |-> Leader] /\ ses = [t \in Tasks |-> Host]
  /\ caged = {} /\ cage = "none"
  /\ asked = NoCode /\ status = NoCode /\ latch = NoCode
  /\ sup = "stealing" /\ watch = "none" /\ timed_out = FALSE
  /\ code = NoCode /\ exit = NoCode /\ pid = "guest" /\ stray = {}
  /\ kills = [k \in Killers |-> Idle]
  /\ written = 0 /\ tty = 0 /\ out = 0 /\ got = 0 /\ reader = "none"
  /\ cl = "starting" /\ gone = FALSE /\ told = NoCode
  /\ joins = [h \in Handles |-> [there |-> TRUE, by |-> NoCode]]
  /\ ws = [w \in Waiters |-> "idle"] /\ ans = [w \in Waiters |-> NoCode]

-----------------------------------------------------------------------------
(* fork_guest in the child.  Descriptors are closed one after the other     *)
(* while the parent scans; execve then waits for the supervisor.            *)
ChildUnchanged ==
  UNCHANGED <<chosen, scan, listener, spawned, grp, asked, latch, caged, cage, sup, watch,
              timed_out, ending, stray, kills, output, reader, cl, gone, told, waiting>>

OpenAbove == {n \in 3..MaxFd : fds[n] # "none"}

child_group ==
  /\ child = "forked"
  /\ child' = "closing"
  /\ ses' = [ses EXCEPT ![Leader] = IF mode = "none" THEN Host ELSE Leader]
  /\ UNCHANGED <<fds, live, status>> /\ ChildUnchanged

close_range ==
  /\ child = "closing"
  /\ IF OpenAbove = {}
     THEN child' = "closed" /\ UNCHANGED fds
     ELSE fds' = [fds EXCEPT ![Min(OpenAbove)] = "none"] /\ UNCHANGED child
  /\ UNCHANGED <<live, status, ses>> /\ ChildUnchanged

install ==
  /\ child = "closed"
  /\ \/ /\ child' = "parked"
        /\ fds' = [fds EXCEPT ![Min({n \in 0..MaxFd : fds[n] = "none"})] = "own"]
        /\ UNCHANGED <<live, status>>
     \/ /\ "install_fails" \in Careless
        /\ child' = "dead" /\ live' = {} /\ status' = 1
        /\ fds' = [n \in 0..MaxFd |-> "none"]
  /\ UNCHANGED ses /\ ChildUnchanged

-----------------------------------------------------------------------------
(* steal_notify_fd and find_seccomp_fd in the parent: the numbers are       *)
(* listed first, the links read afterwards, the descriptor fetched last.    *)
StealUnchanged ==
  UNCHANGED <<chosen, fds, child, guest, caged, cage, watch, timed_out, ending, stray,
              kills, output, reader, gone, told, waiting>>

NoMatch(s) == IF s.attempt + 1 < Attempts THEN Scan("list", s.attempt + 1) ELSE Scan("failed", 0)

list_fds ==
  /\ scan.pc = "list"
  /\ scan' = IF scan.at > MaxFd
             THEN [scan EXCEPT !.pc = "links", !.at = 0]
             ELSE [scan EXCEPT !.at = @ + 1,
                               !.listed = IF fds[scan.at] = "none" THEN @ ELSE @ \cup {scan.at}]
  /\ UNCHANGED <<listener, sup, cl>> /\ StealUnchanged

\* Mutant: several notify descriptors are no reason to give up.
find_seccomp_fd_any(s, n) ==
  IF fds[n] \in {"notify", "own"} THEN [s EXCEPT !.at = n + 1, !.found = n]
  ELSE [s EXCEPT !.at = n + 1]
find_seccomp_fd(s, n) ==
  IF Cardinality(s.listed) > 4 THEN NoMatch(s)
  ELSE IF fds[n] \in {"notify", "own"}
       THEN IF n < 3 \/ s.found # NoCode THEN NoMatch(s)
            ELSE [s EXCEPT !.at = n + 1, !.found = n]
       ELSE [s EXCEPT !.at = n + 1]

read_links ==
  /\ scan.pc = "links"
  /\ LET left == {n \in scan.listed : n >= scan.at} IN
     scan' = IF left # {} THEN find_seccomp_fd(scan, Min(left))
             ELSE IF scan.found = NoCode THEN NoMatch(scan)
             ELSE [scan EXCEPT !.pc = "get"]
  /\ UNCHANGED <<listener, sup, cl>> /\ StealUnchanged

pidfd_getfd ==
  /\ scan.pc = "get"
  /\ LET kind == fds[scan.found] IN
     IF kind = "none" THEN /\ scan' = Scan("failed", 0) /\ UNCHANGED listener
                      ELSE /\ scan' = Scan("got", 0)
                           /\ listener' = IF kind = "own" THEN "own" ELSE "other"
  /\ UNCHANGED <<sup, cl>> /\ StealUnchanged

(* The error leaves through ? : nobody kills or reaps the child.            *)
spawn_fails ==
  /\ scan.pc = "failed" /\ sup = "stealing"
  /\ sup' = "never" /\ cl' = "refused"
  /\ UNCHANGED <<scan, listener>> /\ StealUnchanged

-----------------------------------------------------------------------------
(* The rest of spawn_session and supervise_blocking: the cgroup is made and *)
(* the leader attached while the guest still waits in execve.               *)

\* Mutant: the leader is not put into the cgroup.
attach_late(made) == {}
attach(made) == IF made THEN {Leader} \cap live ELSE {}

apply ==
  /\ scan.pc = "got" /\ sup = "stealing"
  /\ sup' = "ready"
  /\ \E made \in (IF limited THEN BOOLEAN ELSE {FALSE}) :
       /\ cage' = (IF made THEN "start" ELSE "none")
       /\ caged' = attach(made)
  /\ UNCHANGED <<chosen, spawning, guest, watch, timed_out, ending, stray, kills, output,
                 reader, cl, gone, told, waiting>>

start ==
  /\ sup = "ready"
  /\ sup' = "run"
  /\ watch' = IF timeout THEN "armed" ELSE "none"
  /\ reader' = IF mode = "buffered" THEN "pump" ELSE "none"
  /\ cl' = CASE client = "wait" -> "waiting"
             [] client = "cli" -> "pump"
             [] client = "run" -> "blocked"
             [] OTHER -> "tick"
  /\ ws' = [w \in Waiters |-> IF client = "wait" THEN "supervisor" ELSE "idle"]
  /\ UNCHANGED <<chosen, spawning, guest, caged, cage, timed_out, ending, stray, kills,
                 output, gone, told, joins, ans>>

(* update_limits of a session that started without a cgroup.                *)
update_limits ==
  /\ sup \notin {"stealing", "ready", "never"} /\ cage = "none"
  /\ client \in {"run_stream", "shell"} /\ cl \in {"tick", "check"}
  /\ "configure" \in Careless
  /\ cage' = "late" /\ caged' = attach(TRUE)
  /\ UNCHANGED <<chosen, spawning, guest, sup, watch, timed_out, ending, stray, kills, output,
                 reader, cl, gone, told, waiting>>

-----------------------------------------------------------------------------
(* The guest.  Every call below is answered by the supervisor, so it needs  *)
(* the supervisor of this guest to be running.                              *)
GuestUnchanged ==
  UNCHANGED <<chosen, spawning, cage, sup, watch, timed_out, ending, stray, kills, reader, got,
              cl, gone, told, waiting>>

Running(t) == sup = "run" /\ listener = "own" /\ t \in live /\ (t = Leader => asked = NoCode)

(* A job that forks and exits between the listing of /proc and its turn     *)
(* hands over to a child that the sweep has not listed.                     *)
Steady == "hands_over" \in Careless \/ \A k \in Killers : kills[k].pc # "visit"

Fork(t) ==
  /\ Running(t)
  /\ \E c \in Tasks \ spawned :
       /\ c = CHOOSE x \in Tasks \ spawned : TRUE
       /\ live' = live \cup {c} /\ spawned' = spawned \cup {c}
       /\ grp' = [grp EXCEPT ![c] = grp[t]]
       /\ ses' = [ses EXCEPT ![c] = ses[t]]
       /\ caged' = (IF t \in caged THEN caged \cup {c} ELSE caged)
  /\ UNCHANGED <<asked, status, latch, written, tty, out>> /\ GuestUnchanged

(* setpgid(0, 0) and setsid of a job.                                       *)
Regroup(t) ==
  /\ Running(t) /\ t # Leader /\ grp[t] # t
  /\ mode # "none" \/ "regroup" \in Careless
  /\ grp' = [grp EXCEPT ![t] = t]
  /\ \E s \in {ses[t]} \cup (IF "setsid" \in Careless THEN {t} ELSE {}) :
       ses' = [ses EXCEPT ![t] = s]
  /\ UNCHANGED <<live, spawned, asked, status, latch, caged, written, tty, out>>
  /\ GuestUnchanged

(* write_to_sink to the LogBuffer, or a write to the terminal.              *)
Write(t) ==
  /\ Running(t) /\ written < MaxOut
  /\ written' = written + 1
  /\ IF mode = "none" THEN out' = out + 1 /\ UNCHANGED tty
                      ELSE tty' = tty + 1 /\ UNCHANGED out
  /\ UNCHANGED <<guest, caged>> /\ GuestUnchanged

\* Mutant: the exit of any process is the exit code.
record_any_exit(caller, arg) == IF latch = NoCode THEN arg ELSE latch
record_init_exit(caller, arg) == IF caller = Leader /\ latch = NoCode THEN arg ELSE latch

(* exit and exit_group; the call of the leader is answered before it dies.  *)
ExitCall(t, arg) ==
  /\ Running(t) /\ Steady
  /\ latch' = record_init_exit(t, arg)
  /\ IF t = Leader THEN asked' = arg /\ UNCHANGED live
                   ELSE live' = live \ {t} /\ UNCHANGED asked
  /\ UNCHANGED <<spawned, grp, ses, status, caged, written, tty, out>> /\ GuestUnchanged

(* Another thread of the leader's process calls exit_group; the first one   *)
(* may have ended alone before.                                             *)
ThreadExits(arg) ==
  /\ Running(Leader)
  /\ asked' = arg
  /\ latch' \in {latch} \cup {record_init_exit(Leader, c) :
                              c \in IF "first_thread" \in Careless THEN Codes ELSE {}}
  /\ UNCHANGED <<live, spawned, grp, ses, status, caged, written, tty, out>>
  /\ GuestUnchanged

Die ==
  /\ Leader \in live /\ asked # NoCode
  /\ live' = live \ {Leader} /\ status' = asked
  /\ UNCHANGED <<spawned, grp, ses, asked, latch, caged, written, tty, out>> /\ GuestUnchanged

Crash(t) ==
  /\ Running(t) /\ Steady
  /\ live' = live \ {t} /\ status' = (IF t = Leader THEN Crashed ELSE status)
  /\ UNCHANGED <<spawned, grp, ses, asked, latch, caged, written, tty, out>> /\ GuestUnchanged

-----------------------------------------------------------------------------
(* kill_guest_tree(leader), by the watchdog or by a caller.                 *)
KillUnchanged ==
  UNCHANGED <<chosen, spawning, spawned, grp, ses, asked, latch, caged, cage, sup, timed_out,
              ending, output, reader, gone, told, waiting>>

Strike(S) == /\ live' = live \ S
             /\ status' = (IF Leader \in S \cap live THEN Killed ELSE status)

Hits(k) == stray' = (IF pid = "stranger" THEN stray \cup {k} ELSE stray)

kill_group(k) ==
  /\ kills[k].pc = "group"
  /\ Strike({t \in live : grp[t] = Leader}) /\ Hits(k)
  /\ kills' = [kills EXCEPT ![k].pc = "list"]
  /\ UNCHANGED <<watch, cl>> /\ KillUnchanged

list_proc(k) ==
  /\ kills[k].pc = "list"
  /\ IF kills[k].n < Sweeps
     THEN /\ kills' = [kills EXCEPT ![k].pc = "visit", ![k].todo = live, ![k].hit = FALSE]
          /\ Hits(k)
     ELSE kills' = [kills EXCEPT ![k].pc = "over"] /\ UNCHANGED stray
  /\ UNCHANGED <<live, status, watch, cl>> /\ KillUnchanged

\* Mutant: only the leader's process group is killed.
Matches_group(t) == grp[t] = Leader
Matches(t) == grp[t] = Leader \/ ses[t] = Leader

visit(k) ==
  /\ kills[k].pc = "visit"
  /\ \E t \in kills[k].todo :
       /\ kills' = [kills EXCEPT ![k].todo = @ \ {t}, ![k].hit = @ \/ (t \in live /\ Matches(t))]
       /\ Strike({t} \cap {u \in live : Matches(u)})
  /\ UNCHANGED <<stray, watch, cl>> /\ KillUnchanged

sweep_ends(k) ==
  /\ kills[k].pc = "visit" /\ kills[k].todo = {}
  /\ kills' = IF kills[k].hit THEN [kills EXCEPT ![k].pc = "list", ![k].n = @ + 1]
                              ELSE [kills EXCEPT ![k].pc = "over"]
  /\ UNCHANGED <<live, status, stray, watch, cl>> /\ KillUnchanged

kill_returns(k) ==
  /\ kills[k].pc = "over"
  /\ kills' = [kills EXCEPT ![k] = Idle]
  /\ watch' = (IF k = "watchdog" THEN "done" ELSE watch)
  /\ cl' = (IF k = "watchdog" THEN cl
            ELSE CASE cl = "killing" -> "dropping" [] cl = "dropkill" -> "join" [] OTHER -> cl)
  /\ UNCHANGED <<live, status, stray>> /\ KillUnchanged

kill_guest_tree(k) ==
  kill_group(k) \/ list_proc(k) \/ visit(k) \/ sweep_ends(k) \/ kill_returns(k)

Begin(k) == kills' = [kills EXCEPT ![k].pc = "group"]

-----------------------------------------------------------------------------
(* run_and_reap on the supervising thread, and its watchdog.                *)
SupUnchanged ==
  UNCHANGED <<chosen, spawning, guest, caged, cage, stray, output, reader, cl, gone, told, waiting>>

(* run returns once no process of the guest is left.                        *)
run_returns ==
  /\ sup = "run" /\ listener = "own" /\ live = {}
  /\ sup' = "returned"
  /\ UNCHANGED <<watch, timed_out, ending, kills>> /\ SupUnchanged

drop_done ==
  /\ sup = "returned"
  /\ sup' = "joining"
  /\ UNCHANGED <<watch, timed_out, ending, kills>> /\ SupUnchanged

watch_fires ==
  /\ watch = "armed" /\ sup \in {"run", "returned"}
  /\ watch' = "killing" /\ timed_out' = TRUE
  /\ Begin("watchdog")
  /\ UNCHANGED <<sup, ending>> /\ SupUnchanged

watch_stops ==
  /\ watch = "armed" /\ sup \notin {"run", "returned"}
  /\ watch' = "done"
  /\ UNCHANGED <<sup, timed_out, ending, kills>> /\ SupUnchanged

\* Mutant: the watchdog is not joined before the leader is reaped.
Joined_never == TRUE
Joined == watch \in {"none", "done"}

join_watchdog ==
  /\ sup = "joining" /\ Joined
  /\ sup' = "reaping"
  /\ UNCHANGED <<watch, timed_out, ending, kills>> /\ SupUnchanged

(* A host that reaps its own children takes the status away.                *)
host_reaps ==
  /\ "host_reaps" \in Careless /\ client \in {"run", "wait"}
  /\ pid = "guest" /\ Leader \notin live /\ sup \notin {"stealing", "never"}
  /\ pid' = "taken"
  /\ UNCHANGED <<code, exit, sup, watch, timed_out, kills>> /\ SupUnchanged

exit_code_from_status == status

Answer(reaped) ==
  IF timed_out THEN Killed
  ELSE IF latch # NoCode THEN latch
  ELSE IF reaped THEN exit_code_from_status
  ELSE Lost

reap ==
  /\ sup = "reaping" /\ (pid = "guest" => Leader \notin live)
  /\ sup' = "reaped"
  /\ code' = Answer(pid = "guest")
  /\ pid' = (IF pid = "guest" THEN "free" ELSE pid)
  /\ UNCHANGED <<exit, watch, timed_out, kills>> /\ SupUnchanged

set_exit ==
  /\ sup = "reaped"
  /\ sup' = "done" /\ exit' = code
  /\ UNCHANGED <<code, pid, watch, timed_out, kills>> /\ SupUnchanged

(* The kernel gives the pid to a process that is not of this guest.         *)
Recycle ==
  /\ pid = "free" \/ (pid = "taken" /\ "recycle_taken" \in Careless)
  /\ pid' = "stranger"
  /\ UNCHANGED <<code, exit, sup, watch, timed_out, kills>> /\ SupUnchanged

run_and_reap == run_returns \/ drop_done \/ join_watchdog \/ reap \/ set_exit

-----------------------------------------------------------------------------
(* pump_master_to_buffer.                                                   *)
pump_master_to_buffer ==
  /\ reader = "pump"
  /\ \/ tty > 0 /\ tty' = 0 /\ out' = out + tty /\ UNCHANGED reader
     \/ tty = 0 /\ live = {} /\ reader' = "done" /\ UNCHANGED <<tty, out>>
  /\ UNCHANGED <<chosen, spawning, guest, caged, cage, sup, watch, timed_out, ending, stray,
                 kills, written, got, cl, gone, told, waiting>>

-----------------------------------------------------------------------------
(* run_stream and shell: poll, drain, and end the session.                  *)
ClientUnchanged ==
  UNCHANGED <<chosen, spawning, guest, sup, watch, timed_out, ending, stray, written, reader>>

\* Mutant: what was read stays in the buffer.
read_copy == /\ got' = got + out /\ UNCHANGED <<tty, out>>
(* LogBuffer::read, and the send of what it returns.                        *)
read == /\ out' = 0 /\ got' = got + out /\ UNCHANGED tty
unread == UNCHANGED <<tty, out, got>>

HangUp ==
  /\ cl \in {"tick", "check", "tail"} /\ ~gone
  /\ gone' = TRUE
  /\ unread /\ UNCHANGED <<caged, cage, kills, cl, told, waiting>> /\ ClientUnchanged

tick ==
  /\ cl = "tick"
  /\ read
  /\ cl' = (IF out > 0 /\ gone THEN "end" ELSE "check")
  /\ UNCHANGED <<caged, cage, kills, gone, told, waiting>> /\ ClientUnchanged

(* select! of shell sees the end of the inbound stream.                     *)
inbound_ends ==
  /\ cl = "tick" /\ client = "shell" /\ gone
  /\ cl' = "end"
  /\ unread /\ UNCHANGED <<caged, cage, kills, gone, told, waiting>> /\ ClientUnchanged

try_wait ==
  /\ cl = "check"
  /\ cl' = (IF exit = NoCode THEN "tick" ELSE "tail")
  /\ unread /\ UNCHANGED <<caged, cage, kills, gone, told, waiting>> /\ ClientUnchanged

\* Mutant: nothing is read after the end.
final_drain_none == unread
final_drain == read

send_code ==
  /\ cl = "tail"
  /\ final_drain
  /\ told' = exit /\ cl' = "end"
  /\ UNCHANGED <<caged, cage, kills, gone, waiting>> /\ ClientUnchanged

(* end_session kills whatever has happened; the drop of the last Arc kills  *)
(* only when no exit code is there yet, and joins both threads.             *)
end_session ==
  /\ cl = "end"
  /\ cl' = "killing" /\ Begin("caller")
  /\ unread /\ UNCHANGED <<caged, cage, gone, told, waiting>> /\ ClientUnchanged

drop_session ==
  /\ cl = "dropping"
  /\ IF exit = NoCode THEN cl' = "dropkill" /\ Begin("caller")
                      ELSE cl' = "join" /\ UNCHANGED kills
  /\ unread /\ UNCHANGED <<caged, cage, gone, told, waiting>> /\ ClientUnchanged

drop_joins ==
  /\ cl = "join" /\ sup = "done" /\ reader \in {"none", "done"}
  /\ cl' = "freed"
  /\ cage' = "none" /\ caged' = {}
  /\ unread /\ UNCHANGED <<kills, gone, told, waiting>> /\ ClientUnchanged

(* run_argv of run: the supervising thread is the caller's own.             *)
run_argv ==
  /\ cl = "blocked" /\ sup = "done"
  /\ cl' = "freed" /\ told' = code
  /\ cage' = "none" /\ caged' = {}
  /\ read /\ UNCHANGED <<kills, gone, waiting>> /\ ClientUnchanged

(* run_interactive: the taken master is pumped to its hangup, then wait.    *)
pump ==
  /\ cl = "pump"
  /\ \/ tty > 0 /\ tty' = 0 /\ got' = got + tty /\ UNCHANGED <<out, cl>>
     \/ tty = 0 /\ live = {} /\ cl' = "hungup" /\ unread
  /\ UNCHANGED <<caged, cage, kills, gone, told, waiting>> /\ ClientUnchanged

run_interactive ==
  /\ cl = "hungup" /\ sup = "done"
  /\ told' = exit /\ cl' = "dropping"
  /\ unread /\ UNCHANGED <<caged, cage, kills, gone, waiting>> /\ ClientUnchanged

-----------------------------------------------------------------------------
(* Session::wait: each join handle is taken under its mutex, and the guard  *)
(* lives as long as the join.                                               *)
Ended(h) == IF h = "supervisor" THEN sup = "done" ELSE reader \in {"none", "done"}
NextStage(h) == IF h = "supervisor" THEN "reader" ELSE "answer"

WaitUnchanged ==
  /\ unread
  /\ UNCHANGED <<caged, cage, kills, cl, gone, told>> /\ ClientUnchanged

\* Mutant: a waiter does not wait for the one that has taken the handle.
take_join_early(w) ==
  /\ ws[w] \in Handles /\ joins[ws[w]].by # w
  /\ IF joins[ws[w]].there
     THEN /\ joins' = [joins EXCEPT ![ws[w]] = [there |-> FALSE, by |-> w]]
          /\ UNCHANGED ws
     ELSE /\ ws' = [ws EXCEPT ![w] = NextStage(@)] /\ UNCHANGED joins
  /\ UNCHANGED ans /\ WaitUnchanged
take_join(w) ==
  /\ ws[w] \in Handles /\ joins[ws[w]].by = NoCode
  /\ IF joins[ws[w]].there
     THEN /\ joins' = [joins EXCEPT ![ws[w]] = [there |-> FALSE, by |-> w]]
          /\ UNCHANGED ws
     ELSE /\ ws' = [ws EXCEPT ![w] = NextStage(@)] /\ UNCHANGED joins
  /\ UNCHANGED ans /\ WaitUnchanged

joined(w) ==
  /\ ws[w] \in Handles /\ joins[ws[w]].by = w /\ Ended(ws[w])
  /\ joins' = [joins EXCEPT ![ws[w]].by = NoCode]
  /\ ws' = [ws EXCEPT ![w] = NextStage(@)]
  /\ UNCHANGED ans /\ WaitUnchanged

wait(w) ==
  /\ ws[w] = "answer"
  /\ ans' = [ans EXCEPT ![w] = IF exit = NoCode THEN Lost ELSE exit]
  /\ ws' = [ws EXCEPT ![w] = "over"]
  /\ UNCHANGED joins /\ WaitUnchanged

(* The last holder drops the session once every wait has returned; until    *)
(* then any thread may call Session::kill.                                  *)
waits_over ==
  /\ cl = "waiting" /\ \A w \in Waiters : ws[w] = "over"
  /\ kills["caller"] = Idle
  /\ cl' = "dropping"
  /\ unread /\ UNCHANGED <<caged, cage, kills, gone, told, waiting>> /\ ClientUnchanged

kill ==
  /\ cl = "waiting" /\ kills["caller"] = Idle /\ live # {}
  /\ Begin("caller")
  /\ unread /\ UNCHANGED <<caged, cage, cl, gone, told, waiting>> /\ ClientUnchanged

-----------------------------------------------------------------------------
Guest ==
  \/ \E t \in Tasks : Fork(t) \/ Regroup(t) \/ Write(t) \/ Crash(t)
  \/ \E t \in Tasks, arg \in Codes : ExitCall(t, arg)
  \/ \E arg \in Codes : ThreadExits(arg)

Steal == list_fds \/ read_links \/ pidfd_getfd \/ spawn_fails
Bootstrap == apply \/ start
Watchdog == watch_stops \/ kill_guest_tree("watchdog")
Client ==
  \/ tick \/ inbound_ends \/ try_wait \/ send_code \/ end_session \/ drop_session \/ drop_joins
  \/ run_argv \/ pump \/ run_interactive \/ waits_over
Wait == \E w \in Waiters : take_join(w) \/ joined(w) \/ wait(w)

Next ==
  \/ child_group \/ close_range \/ install
  \/ Steal \/ Bootstrap \/ update_limits
  \/ Guest \/ Die \/ Recycle \/ host_reaps
  \/ run_and_reap \/ watch_fires \/ Watchdog
  \/ pump_master_to_buffer \/ HangUp \/ kill \/ Client \/ Wait
  \/ kill_guest_tree("caller")

(* The threads of the supervisor's process run; a process that was told to  *)
(* exit dies.  Nothing is assumed of the rest of the guest, of timeouts, of *)
(* callers of kill, or of the client's network.  select! polls its ready    *)
(* branches in random order, so the end of the inbound stream is noticed.   *)
Fairness ==
  /\ WF_vars(run_and_reap) /\ WF_vars(Watchdog) /\ WF_vars(kill_guest_tree("caller"))
  /\ WF_vars(pump_master_to_buffer) /\ WF_vars(Client) /\ WF_vars(Wait)
  /\ WF_vars(Die) /\ SF_vars(inbound_ends)

Spec == Init /\ [][Next]_vars /\ Fairness

-----------------------------------------------------------------------------
AllCodes == Codes \cup {NoCode, Lost, 1, Killed, Crashed}

TypeOK ==
  /\ fds \in [0..MaxFd -> {"none", "file", "notify", "own"}]
  /\ child \in {"forked", "closing", "closed", "parked", "dead"}
  /\ listener \in {"none", "own", "other"}
  /\ live \subseteq spawned /\ spawned \subseteq Tasks /\ caged \subseteq spawned
  /\ grp \in [Tasks -> Tasks] /\ ses \in [Tasks -> Tasks \cup {Host}]
  /\ {asked, status, latch, code, exit, told} \subseteq AllCodes
  /\ pid \in {"guest", "free", "taken", "stranger"} /\ stray \subseteq Killers
  /\ \A k \in Killers : kills[k].n \in 0..Sweeps /\ kills[k].todo \subseteq spawned
  /\ written \in 0..MaxOut /\ tty + out + got = written

(* The supervisor serves the filter of the guest it has forked, never that  *)
(* of another session whose descriptor the child had inherited              *)
(* (find_seccomp_fd against the child's close_range).                       *)
ListenerOwn == listener # "other"

(* A run that has ended never signals a process that got the guest's pid:   *)
(* the watchdog is joined before the guest is reaped (run_and_reap).        *)
WatchdogNeverStray == "watchdog" \notin stray

(* The code that is reported is 137 after a timeout, and else the one the   *)
(* guest's process ended or asked to end with: no other process's exit, no  *)
(* stale latch.  A host that reaps its own children can take away only a    *)
(* status that was not latched (record_init_exit, run_and_reap).            *)
ExitTruth ==
  exit # NoCode => \/ timed_out /\ exit = Killed
                   \/ ~timed_out /\ exit \in {status, asked}
                   \/ "host_reaps" \in Careless /\ latch = NoCode /\ exit = Lost

(* Whoever waits for a session learns the exit code the session has, also   *)
(* when another thread is already joining (Session::wait).                  *)
WaitTruth == \A w \in Waiters : ws[w] = "over" => ans[w] = exit /\ exit # NoCode

(* A client that was told the exit code has received all that the guest     *)
(* wrote before; after wait it is in the buffer.  Streams of a terminal are *)
(* excluded: they do not wait for the reader (run_stream, run_argv, wait,   *)
(* the pump of the command line).                                           *)
OutputComplete ==
  /\ told # NoCode /\ ~gone /\ mode # "buffered" => got = written
  /\ \A w \in Waiters : ws[w] = "over" => out + got = written

(* A guest started under limits is confined with all of its processes.      *)
Confined == cage = "start" => live \subseteq caged

(* A session that is doomed is freed: one that a client or the watchdog has *)
(* begun to kill (every process of the guest dies, jobs in groups of their  *)
(* own and children forked meanwhile too), a shell whose client hung up, a  *)
(* guest that has ended.  No thread of it waits for ever for another        *)
(* (kill_guest_tree, run_and_reap, Drop of Session).                        *)
Doomed ==
  /\ sup \notin {"stealing", "ready", "never"}
  /\ live = {} \/ (client = "shell" /\ gone) \/ \E k \in Killers : kills[k].pc # "idle"
SessionEnds == Doomed ~> cl = "freed"

(* A session supervises, limits and kills its own guest, all of it and      *)
(* nothing else (find_seccomp_fd, Cgroup::attach, run_and_reap).            *)
OwnGuest == TypeOK /\ ListenerOwn /\ WatchdogNeverStray /\ Confined

(* There is one exit code, the guest's or that of the timeout, and everyone *)
(* who waits learns it (run_and_reap, Session::wait).                       *)
ExitKnown == ExitTruth /\ WaitTruth
=============================================================================
