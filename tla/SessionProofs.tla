---------------------------- MODULE SessionProofs ----------------------------
(***************************************************************************)
(* Proofs about one session, for any number of processes of the guest, any *)
(* descriptor tables of the host, exit codes and callers of wait, and for  *)
(* every way in which a run is asked for: it supervises and limits its own *)
(* guest, its watchdog never hits a stranger, the exit code is the guest's *)
(* or that of the timeout and known to everyone who waits, and whoever was *)
(* told the code has the output.                                           *)
(***************************************************************************)
EXTENDS Session, FiniteSetTheorems, WellFoundedInduction, TLAPS

-----------------------------------------------------------------------------
(* What the theorems assume of the host and the guest.                     *)

\* The standard streams of the host are open, and another descriptor is open above
\* the listener of another session.
UsualHosts ==
  \A f \in HostTables : \A n \in 0..MaxFd : f[n] = "notify" =>
    /\ n >= 3 /\ \A s \in 0..2 : f[s] # "none"
    /\ \E m \in n + 1..MaxFd : f[m] # "none"

-----------------------------------------------------------------------------
(* Which actions change what.                                              *)

Dies == \/ install \/ Die \/ \E t \in Tasks : Crash(t)
        \/ \E t \in Tasks, arg \in Codes : ExitCall(t, arg)
        \/ \E k \in Killers : kill_group(k) \/ visit(k)
Forks == \E t \in Tasks : Fork(t)
Asks == \/ \E t \in Tasks, arg \in Codes : ExitCall(t, arg)
        \/ \E arg \in Codes : ThreadExits(arg)
Writes == \E t \in Tasks : Write(t)
Begins == watch_fires \/ end_session \/ drop_session \/ kill
Kills == \E k \in Killers : kill_guest_tree(k)
Waits == \E w \in Waiters : take_join(w) \/ joined(w) \/ wait(w)

LEMMA Frames ==
  ASSUME Next
  PROVE  /\ UNCHANGED chosen
         /\ UNCHANGED <<fds, child>> \/ child_group \/ close_range \/ install
         /\ UNCHANGED <<scan, listener>> \/ list_fds \/ read_links \/ pidfd_getfd
         /\ UNCHANGED <<live, status>> \/ Dies \/ Forks
         /\ UNCHANGED <<spawned, grp>> \/ Forks \/ \E t \in Tasks : Regroup(t)
         /\ UNCHANGED ses \/ Forks \/ child_group \/ \E t \in Tasks : Regroup(t)
         /\ UNCHANGED <<asked, latch>> \/ Asks
         /\ UNCHANGED <<caged, cage>> \/ apply \/ update_limits \/ Forks \/ drop_joins \/ run_argv
         /\ UNCHANGED sup \/ spawn_fails \/ apply \/ start \/ run_and_reap
         /\ UNCHANGED watch \/ start \/ watch_fires \/ watch_stops \/ kill_returns("watchdog")
         /\ UNCHANGED timed_out \/ watch_fires
         /\ UNCHANGED pid \/ reap \/ Recycle \/ host_reaps
         /\ UNCHANGED <<code, exit>> \/ reap \/ set_exit
         /\ UNCHANGED kills \/ Kills \/ Begins
         /\ UNCHANGED stray \/ \E k \in Killers : kill_group(k) \/ list_proc(k)
         /\ UNCHANGED written \/ Writes
         /\ UNCHANGED tty \/ Writes \/ pump_master_to_buffer \/ pump
         /\ UNCHANGED <<out, got>> \/ Writes \/ pump_master_to_buffer \/ pump \/ tick \/ send_code \/ run_argv
         /\ UNCHANGED reader \/ start \/ pump_master_to_buffer
         /\ UNCHANGED cl \/ spawn_fails \/ start \/ (Client /\ ~drop_session)
                         \/ drop_session \/ kill_returns("caller")
         /\ UNCHANGED told \/ send_code \/ run_argv \/ run_interactive
         /\ UNCHANGED gone \/ HangUp
         /\ UNCHANGED <<joins, ans>> \/ Waits
         /\ UNCHANGED ws \/ Waits \/ start
<1>1. \/ child_group \/ close_range \/ install
      \/ Steal \/ Bootstrap \/ update_limits
      \/ Forks \/ (\E t \in Tasks : Regroup(t)) \/ Writes \/ Dies \/ Asks \/ Recycle \/ host_reaps
      \/ run_and_reap \/ watch_fires \/ watch_stops \/ Kills
      \/ pump_master_to_buffer \/ HangUp \/ kill \/ Client \/ Waits
  BY DEF Next, Guest, Watchdog, Wait, Kills, Killers, Forks, Writes, Dies, Asks, Waits
<1>2. CASE child_group \/ close_range \/ install
  BY <1>2 DEF child_group, close_range, install, ChildUnchanged, chosen, Dies, ending, output, waiting
<1>3. CASE Steal \/ Bootstrap \/ update_limits
  BY <1>3 DEF Steal, Bootstrap, list_fds, read_links, pidfd_getfd, spawn_fails, apply, start, update_limits,
              StealUnchanged, guest, chosen, spawning, ending, output, waiting
<1>4. CASE Forks \/ (\E t \in Tasks : Regroup(t)) \/ Writes \/ Dies \/ Asks
  <2>1. CASE Forks \/ (\E t \in Tasks : Regroup(t)) \/ Writes \/ Asks
    BY <2>1 DEF Forks, Fork, Regroup, Writes, Write, Asks, Dies, ExitCall, ThreadExits, GuestUnchanged, guest,
                chosen, spawning, ending, waiting
  <2>2. CASE Dies /\ ~Asks
    BY <2>2 DEF Dies, Asks, install, Die, Crash, kill_group, visit, ChildUnchanged, GuestUnchanged, KillUnchanged,
                guest, chosen, spawning, ending, waiting, output, Kills, kill_guest_tree
  <2> QED
    BY <1>4, <2>1, <2>2
<1>5. CASE Recycle \/ host_reaps
  BY <1>5 DEF Recycle, host_reaps, SupUnchanged, chosen, spawning, guest, output, waiting
<1>9. CASE run_and_reap
  BY <1>9 DEF run_and_reap, run_returns, drop_done, join_watchdog, reap, set_exit, SupUnchanged, chosen,
              spawning, guest, ending, output, waiting
<1>10. CASE watch_fires \/ watch_stops
  BY <1>10 DEF watch_fires, watch_stops, SupUnchanged, chosen, spawning, guest, ending, output, waiting, Begins
<1>6. CASE Kills
  <2>1. PICK k \in Killers : kill_guest_tree(k)
    BY <1>6 DEF Kills
  <2>2. CASE kill_group(k) \/ list_proc(k) \/ visit(k) \/ sweep_ends(k)
    BY <1>6, <2>2 DEF kill_group, list_proc, visit, sweep_ends, KillUnchanged,
                      chosen, spawning, ending, output, waiting, Dies
  <2>3. CASE kill_returns(k)
    BY <1>6, <2>3 DEF kill_returns, KillUnchanged, Killers, chosen, spawning, ending, output, waiting
  <2> QED
    BY <2>1, <2>2, <2>3 DEF kill_guest_tree
<1>7. CASE pump_master_to_buffer \/ HangUp \/ kill \/ Waits
  BY <1>7 DEF pump_master_to_buffer, HangUp, kill, Waits, take_join, joined, wait, unread, WaitUnchanged,
              ClientUnchanged, chosen, spawning, guest, ending, output, waiting, Begins
<1>8. CASE Client
  BY <1>8 DEF Client, tick, inbound_ends, try_wait, send_code, end_session, drop_session, drop_joins, run_argv,
              pump, run_interactive, waits_over, unread, read, final_drain, ClientUnchanged, chosen, spawning,
              guest, ending, output, waiting, Begins
<1> QED
  BY <1>1, <1>2, <1>3, <1>4, <1>5, <1>6, <1>7, <1>8, <1>9, <1>10

-----------------------------------------------------------------------------
(* The inductive invariant.                                                *)

Fds == 0..MaxFd
Kinds == {"none", "file", "notify", "own"}
ScanRecord == [pc : {"list", "links", "get", "got", "failed"}, at : Nat, listed : SUBSET Fds,
               found : Fds \cup {NoCode}, attempt : Nat]
KillRecord == [pc : {"idle", "group", "list", "visit", "over"}, n : 0..Sweeps, todo : SUBSET Tasks,
               hit : BOOLEAN]
JoinRecord == [there : BOOLEAN, by : Waiters \cup {NoCode}]

\* What the child closes, and where it stands.
ChildTypes ==
  /\ fds \in [Fds -> Kinds] /\ scan \in ScanRecord
  /\ child \in {"forked", "closing", "closed", "parked", "dead"}
  /\ listener \in {"none", "own", "other"}

\* A killer visits processes it has listed, in one of its sweeps.
KillTypes ==
  /\ kills \in [Killers -> KillRecord]
  /\ \A k \in Killers : /\ kills[k].todo \subseteq spawned
                        /\ kills[k].pc = "visit" => kills[k].n < Sweeps

\* The processes of the guest and the killers that look for them.
GuestTypes ==
  /\ live \subseteq spawned /\ spawned \subseteq Tasks /\ caged \subseteq spawned
  /\ grp \in [Tasks -> Tasks] /\ ses \in [Tasks -> Tasks \cup {Host}]
  /\ cage \in {"none", "start", "late"}
  /\ KillTypes /\ stray \subseteq Killers

\* The threads of the session and its client.
Unstarted == {"stealing", "ready", "never"}
Ended_run == {"returned", "joining", "reaping", "reaped", "done"}
Finals == {"reaping", "reaped", "done"}
ThreadTypes ==
  /\ sup \in Unstarted \cup {"run"} \cup Ended_run
  /\ watch \in {"none", "armed", "killing", "done"} /\ timed_out \in BOOLEAN
  /\ pid \in {"guest", "free", "taken", "stranger"}
  /\ reader \in {"none", "pump", "done"} /\ gone \in BOOLEAN
  /\ joins \in [Handles -> JoinRecord]
  /\ ws \in [Waiters -> Handles \cup {"idle", "answer", "over"}]
  /\ ans \in [Waiters -> AllCodes]
  /\ <<client, mode>> \in Modes

CodeTypes == {asked, status, latch, code, exit, told} \subseteq AllCodes

SessionTypes == ChildTypes /\ GuestTypes /\ ThreadTypes /\ CodeTypes

\* A listener of another session that the child still has is above the standard
\* streams and below another descriptor; the child that has closed all has none.
Crowded ==
  \A n \in Fds : fds[n] = "notify" =>
    /\ n >= 3 /\ \A s \in 0..2 : fds[s] # "none"
    /\ \E m \in n + 1..MaxFd : fds[m] # "none"
    /\ child \in {"forked", "closing"}

\* As long as it is there, the scan has listed whatever is open and was passed.
Listed ==
  scan.pc \in {"list", "links", "get"} =>
    \A n \in Fds : fds[n] = "notify" =>
      \A m \in Fds : fds[m] # "none" /\ (scan.pc = "list" => m < scan.at) => m \in scan.listed

\* What the scan has found was one of at most four descriptors.
Found ==
  /\ scan.found # NoCode => /\ Cardinality(scan.listed) <= 4
                            /\ fds[scan.found] \in {"none", "notify", "own"}
  /\ scan.pc = "get" => scan.found # NoCode
  /\ scan.pc = "list" => scan.found = NoCode

\* The guest's own listener is there once the child waits in execve, and whoever
\* supervises has it.
OwnInv ==
  /\ (\E n \in Fds : fds[n] = "own") \/ listener = "own" => child \in {"parked", "dead"}
  /\ sup \in Ended_run => listener = "own"

StealInv == Crowded /\ Listed /\ Found /\ ListenerOwn

\* Before run there is the leader alone, afterwards nobody; with a cgroup made at the
\* start the guest is in it.
LiveInv ==
  /\ sup \in Unstarted => live \subseteq {Leader}
  /\ sup \in Ended_run => live = {}
  /\ Confined

\* The leader's status is known once it is dead, and the latch is what it asked for.
StatusInv ==
  /\ Leader \notin live => status # NoCode
  /\ latch # NoCode => latch = asked

\* The watchdog kills only while it was not joined, so before the leader is reaped.
WatchInv ==
  /\ sup \in Finals => watch \in {"none", "done"}
  /\ kills["watchdog"].pc # "idle" => watch = "killing"
  /\ pid \in {"free", "stranger"} => sup \in {"reaped", "done"}
  /\ WatchdogNeverStray
  /\ sup \in Unstarted => watch = "none"

\* The code that is answered, and what it is made of.
TrueCode(x) ==
  /\ x # NoCode
  /\ \/ timed_out /\ x = Killed
     \/ ~timed_out /\ x \in {status, asked}
     \/ "host_reaps" \in Careless /\ latch = NoCode /\ x = Lost
CodeInv ==
  /\ pid = "taken" => "host_reaps" \in Careless
  /\ sup \in {"reaped", "done"} => TrueCode(code)
  /\ exit = IF sup = "done" THEN code ELSE NoCode

\* A stage of wait is passed by nobody before the thread it waits for has ended.
Over(h) == sup = "done" /\ (h = "reader" => reader = "done")
JoinAt(h) == ~joins[h].there /\ joins[h].by = NoCode => Over(h)
StageAt(w) ==
  /\ ws[w] # "idle" => client = "wait" /\ sup \notin Unstarted
  /\ ws[w] \in {"reader", "answer", "over"} => sup = "done"
  /\ ws[w] \in {"answer", "over"} => reader = "done"
  /\ ws[w] = "over" => ans[w] = exit
WaitInv ==
  /\ sup \in Unstarted => reader = "none"
  /\ sup \notin Unstarted => (reader # "none" <=> mode = "buffered")
  /\ \A h \in Handles : JoinAt(h)
  /\ \A w \in Waiters : StageAt(w)

\* Where output can be.
Drained == live = {} /\ tty = 0
Sums == /\ written \in 0..MaxOut /\ tty \in Nat /\ out \in Nat /\ got \in Nat
        /\ tty + out + got = written
OutInv ==
  /\ Sums
  /\ mode = "none" => tty = 0
  /\ mode = "raw" => out = 0
  /\ reader = "done" => Drained
  /\ cl = "hungup" => Drained
  /\ told # NoCode => sup = "done" /\ (mode # "buffered" => Drained /\ out = 0)

\* Which client is where.
ClientInv ==
  /\ cl \in {"tick", "check", "tail", "end", "killing"} => client \in {"run_stream", "shell"}
  /\ cl \in {"pump", "hungup"} => client = "cli"
  /\ cl = "blocked" => client = "run"
  /\ cl = "waiting" => client = "wait"
  /\ cl = "starting" <=> sup \in {"stealing", "ready"}
  /\ cl = "tail" => sup = "done"
  /\ cl \notin {"starting", "refused"} => sup \notin Unstarted

SessionInv == SessionTypes /\ StealInv /\ OwnInv /\ LiveInv /\ StatusInv /\ WatchInv /\ CodeInv
              /\ WaitInv /\ OutInv /\ ClientInv

-----------------------------------------------------------------------------
(* Types.                                                                  *)

\* A set of numbers has a least one, and Min names it.
LEMMA LeastOf ==
  ASSUME NEW S \in SUBSET Nat, S # {}
  PROVE  Min(S) \in S /\ \A y \in S : Min(S) <= y
<1> DEFINE R == OpToRel(<, Nat)
<1>1. IsWellFoundedOn(R, Nat)
  BY NatLessThanWellFounded
<1>2. PICK x \in S : \A y \in S : ~(<<y, x>> \in R)
  <2> HIDE DEF R
  <2> QED
    BY <1>1, WFMin
<1>3. ASSUME NEW y \in S PROVE x <= y
  <2>1. ~(<<y, x>> \in {ss \in Nat \X Nat : ss[1] < ss[2]})
    BY <1>2 DEF OpToRel
  <2> QED
    BY <2>1
<1>4. \E m \in S : \A y \in S : m <= y
  BY <1>2, <1>3
<1> QED
  BY <1>4 DEF Min

LEMMA ScanTypes ==
  ASSUME NEW s \in ScanRecord
  PROVE  /\ \A m \in Nat : [s EXCEPT !.at = m] \in ScanRecord
         /\ \A m \in Nat, n \in Fds : [s EXCEPT !.at = m, !.found = n] \in ScanRecord
         /\ \A m \in Nat, l \in SUBSET Fds : [s EXCEPT !.at = m, !.listed = l] \in ScanRecord
         /\ [s EXCEPT !.pc = "links", !.at = 0] \in ScanRecord
         /\ [s EXCEPT !.pc = "get"] \in ScanRecord
BY DEF ScanRecord

LEMMA NoMatchTypes ==
  ASSUME NEW s \in ScanRecord
  PROVE  /\ NoMatch(s) \in ScanRecord /\ NoMatch(s).pc \in {"list", "failed"}
         /\ NoMatch(s).at = 0 /\ NoMatch(s).found = NoCode
BY DEF NoMatch, Scan, ScanRecord, NoCode

\* One link is read: the scan starts anew, or goes on with what it had or found.
LEMMA LinkTypes ==
  ASSUME NEW s \in ScanRecord, s.pc = "links", fds \in [Fds -> Kinds], NEW n \in s.listed
  PROVE  LET r == find_seccomp_fd(s, n) IN
         /\ r \in ScanRecord
         /\ \/ r.pc \in {"list", "failed"} /\ r.at = 0 /\ r.found = NoCode
            \/ r.pc = "links" /\ r.listed = s.listed /\ r.found = s.found
            \/ /\ r.pc = "links" /\ r.listed = s.listed /\ r.found = n
               /\ fds[n] \in {"notify", "own"} /\ ~(Cardinality(s.listed) > 4)
<1>1. n \in Fds /\ n \in Nat /\ MaxFd \in Nat
  BY SessionAssumption DEF ScanRecord, Fds
<1>2. [s EXCEPT !.at = n + 1] \in ScanRecord /\ [s EXCEPT !.at = n + 1, !.found = n] \in ScanRecord
  <2>1. n + 1 \in Nat
    BY <1>1
  <2> QED
    BY <1>1, <2>1, ScanTypes
<1>3. CASE find_seccomp_fd(s, n) = NoMatch(s)
  BY <1>3, NoMatchTypes
<1>4. CASE find_seccomp_fd(s, n) = [s EXCEPT !.at = n + 1]
  BY <1>2, <1>4 DEF ScanRecord
<1>5. CASE /\ find_seccomp_fd(s, n) = [s EXCEPT !.at = n + 1, !.found = n]
           /\ fds[n] \in {"notify", "own"} /\ ~(Cardinality(s.listed) > 4)
  BY <1>2, <1>5 DEF ScanRecord
<1> QED
  BY <1>3, <1>4, <1>5 DEF find_seccomp_fd

\* What becomes of the scan in a step.
ScanMoves ==
  \/ UNCHANGED <<scan, listener>>
  \/ UNCHANGED listener /\ scan'.pc \in {"list", "failed"} /\ scan'.at = 0 /\ scan'.found = NoCode
  \/ /\ UNCHANGED listener /\ scan.pc = "list" /\ scan.at \in Fds /\ scan'.pc = "list"
     /\ scan'.at = scan.at + 1 /\ scan'.found = scan.found
     /\ scan'.listed = IF fds[scan.at] = "none" THEN scan.listed ELSE scan.listed \cup {scan.at}
  \/ /\ UNCHANGED listener /\ scan.pc = "list" /\ ~(scan.at <= MaxFd) /\ scan'.pc = "links"
     /\ scan'.found = scan.found /\ scan'.listed = scan.listed
  \/ /\ UNCHANGED listener /\ scan.pc = "links" /\ scan'.pc = "links" /\ scan'.listed = scan.listed
     /\ \/ scan'.found = scan.found
        \/ \E n \in scan.listed : /\ scan'.found = n /\ fds[n] \in {"notify", "own"}
                                  /\ ~(Cardinality(scan.listed) > 4)
  \/ /\ UNCHANGED listener /\ scan.pc = "links" /\ scan'.pc = "get" /\ scan'.listed = scan.listed
     /\ scan'.found = scan.found /\ scan.found # NoCode
  \/ /\ scan.pc = "get" /\ scan'.pc \in {"got", "failed"} /\ scan'.found = NoCode
     /\ \/ fds[scan.found] = "none" /\ UNCHANGED listener
        \/ fds[scan.found] # "none" /\ listener' = IF fds[scan.found] = "own" THEN "own" ELSE "other"

LEMMA ScanStep ==
  ASSUME SessionTypes, Next
  PROVE  scan' \in ScanRecord /\ ScanMoves /\ (UNCHANGED <<fds, child>> \/ UNCHANGED scan)
<1> USE DEF SessionTypes, ChildTypes
<1>1. UNCHANGED <<scan, listener>> \/ (UNCHANGED <<fds, child>> /\ (list_fds \/ read_links \/ pidfd_getfd))
  BY Frames DEF list_fds, read_links, pidfd_getfd, StealUnchanged
<1>2. CASE UNCHANGED <<scan, listener>>
  BY <1>2 DEF ScanMoves
<1>3. CASE list_fds /\ UNCHANGED <<fds, child>>
  <2>1. scan.at \in Nat /\ MaxFd \in Nat
    BY SessionAssumption DEF ScanRecord
  <2>2. CASE scan.at > MaxFd
    <3>1. scan' = [scan EXCEPT !.pc = "links", !.at = 0] /\ scan.pc = "list" /\ UNCHANGED listener
      BY <1>3, <2>2 DEF list_fds
    <3>2. scan' \in ScanRecord
      BY <3>1, ScanTypes
    <3>3. ~(scan.at <= MaxFd)
      BY <2>1, <2>2
    <3>4. scan'.pc = "links" /\ scan'.found = scan.found /\ scan'.listed = scan.listed
      BY <3>1 DEF ScanRecord
    <3> QED
      BY <1>3, <3>1, <3>2, <3>3, <3>4 DEF ScanMoves
  <2>3. CASE ~(scan.at > MaxFd)
    <3>1. /\ scan' = [scan EXCEPT !.at = @ + 1,
                               !.listed = IF fds[scan.at] = "none" THEN @ ELSE @ \cup {scan.at}]
          /\ scan.pc = "list" /\ UNCHANGED listener
      BY <1>3, <2>3 DEF list_fds
    <3>2. scan.at \in Fds
      BY <2>1, <2>3 DEF Fds
    <3>3. PICK l \in SUBSET Fds : l = IF fds[scan.at] = "none" THEN scan.listed ELSE scan.listed \cup {scan.at}
      BY <3>2 DEF ScanRecord
    <3>4. PICK m \in Nat : m = scan.at + 1
      BY <2>1
    <3>5. scan' = [scan EXCEPT !.at = m, !.listed = l]
      BY <3>1, <3>3, <3>4 DEF ScanRecord
    <3>6. scan' \in ScanRecord
      BY <3>5, ScanTypes
    <3>7. scan'.pc = "list" /\ scan'.found = scan.found /\ scan'.at = m /\ scan'.listed = l
      BY <3>1, <3>5 DEF ScanRecord
    <3> QED
      BY <1>3, <3>1, <3>2, <3>3, <3>4, <3>6, <3>7 DEF ScanMoves
  <2> QED
    BY <2>2, <2>3
<1>4. CASE read_links /\ UNCHANGED <<fds, child>>
  <2> DEFINE left == {n \in scan.listed : n >= scan.at}
  <2>1. scan.pc = "links" /\ UNCHANGED listener
    BY <1>4 DEF read_links
  <2>2. CASE left # {}
    <3>1. scan' = find_seccomp_fd(scan, Min(left))
      BY <1>4, <2>2 DEF read_links
    <3>2. left \in SUBSET Nat
      BY SessionAssumption DEF ScanRecord, Fds
    <3>3. Min(left) \in scan.listed
      BY <2>2, <3>2, LeastOf
    <3> HIDE DEF left
    <3> QED
      BY <1>4, <2>1, <3>1, <3>3, LinkTypes DEF ScanMoves
  <2>3. CASE left = {} /\ scan.found = NoCode
    <3>1. scan' = NoMatch(scan)
      BY <1>4, <2>3 DEF read_links
    <3> QED
      BY <1>4, <2>1, <3>1, NoMatchTypes DEF ScanMoves
  <2>4. CASE left = {} /\ scan.found # NoCode
    <3>1. scan' = [scan EXCEPT !.pc = "get"]
      BY <1>4, <2>4 DEF read_links
    <3> QED
      BY <1>4, <2>1, <2>4, <3>1 DEF ScanMoves, ScanRecord
  <2> QED
    BY <2>2, <2>3, <2>4
<1>5. CASE pidfd_getfd /\ UNCHANGED <<fds, child>>
  BY <1>5 DEF pidfd_getfd, ScanMoves, Scan, ScanRecord
<1> QED
  BY <1>1, <1>2, <1>3, <1>4, <1>5

\* What becomes of the child's descriptors in a step: those above the standard streams
\* are closed from below, and its own listener comes when they are gone.
ChildMoves ==
  \/ UNCHANGED fds /\ child' \in {child, "closing"} /\ (child' # child => child = "forked")
  \/ /\ child = "closing" /\ UNCHANGED child
     /\ \E k \in Fds : /\ k >= 3 /\ \A m \in Fds : m >= 3 /\ fds[m] # "none" => k <= m
                       /\ fds' = [fds EXCEPT ![k] = "none"]
  \/ UNCHANGED fds /\ child = "closing" /\ child' = "closed" /\ \A m \in Fds : m >= 3 => fds[m] = "none"
  \/ /\ child = "closed" /\ child' \in {"parked", "dead"}
     /\ \A n \in Fds : fds'[n] \in {fds[n], "own", "none"}

LEMMA ChildStep ==
  ASSUME SessionTypes, Next
  PROVE  ChildMoves /\ fds' \in [Fds -> Kinds]
         /\ child' \in {"forked", "closing", "closed", "parked", "dead"}
<1> USE DEF SessionTypes, ChildTypes
<1>1. CASE UNCHANGED <<fds, child>>
  BY <1>1 DEF ChildMoves
<1>2. CASE child_group
  BY <1>2 DEF child_group, ChildMoves
<1>3. CASE close_range /\ OpenAbove # {}
  <2>1. MaxFd \in Nat /\ OpenAbove \in SUBSET Nat /\ OpenAbove \subseteq Fds
    BY SessionAssumption DEF OpenAbove, Fds
  <2>2. PICK k \in OpenAbove : k = Min(OpenAbove) /\ \A m \in OpenAbove : k <= m
    BY <1>3, <2>1, LeastOf
  <2>3. k \in Fds /\ k >= 3
    BY <2>1, <2>2 DEF OpenAbove
  <2>4. \A m \in Fds : m >= 3 /\ fds[m] # "none" => k <= m
    BY <2>1, <2>2 DEF OpenAbove, Fds
  <2>5. child = "closing" /\ UNCHANGED child /\ fds' = [fds EXCEPT ![k] = "none"]
    BY <1>3, <2>2 DEF close_range
  <2> QED
    BY <2>3, <2>4, <2>5 DEF ChildMoves, Kinds
<1>4. CASE close_range /\ OpenAbove = {}
  <2>1. \A m \in Fds : m >= 3 => fds[m] = "none"
    BY <1>4, SessionAssumption DEF OpenAbove, Fds
  <2> QED
    BY <1>4, <2>1 DEF close_range, ChildMoves
<1>5. CASE install
  <2>1. fds' \in [Fds -> Kinds] /\ \A n \in Fds : fds'[n] \in {fds[n], "own", "none"}
    BY <1>5 DEF install, Kinds, Fds
  <2> QED
    BY <1>5, <2>1 DEF install, ChildMoves
<1> QED
  BY <1>1, <1>2, <1>3, <1>4, <1>5, Frames

\* No more than four descriptors are not five.
LEMMA TooMany ==
  ASSUME NEW S \in SUBSET Fds, Cardinality(S) <= 4, NEW n \in Fds, NEW m \in Fds, n >= 3, m > n,
         0 \in S, 1 \in S, 2 \in S, n \in S, m \in S
  PROVE  FALSE
<1>1. MaxFd \in Nat
  BY SessionAssumption
<1>2. IsFiniteSet(S) /\ Cardinality(S) \in Nat
  <2>1. IsFiniteSet(Fds)
    BY <1>1, FS_Interval DEF Fds
  <2> QED
    BY <2>1, FS_Subset, FS_CardinalityType
<1> DEFINE A == {0} B == A \cup {1} C == B \cup {2} D == C \cup {n} E == D \cup {m}
<1>3. IsFiniteSet(A) /\ Cardinality(A) = 1
  BY FS_Singleton
<1>4. IsFiniteSet(B) /\ Cardinality(B) = 2
  <2>1. 1 \notin A
    OBVIOUS
  <2> HIDE DEF A
  <2> QED
    BY <1>3, <2>1, FS_AddElement
<1>5. IsFiniteSet(C) /\ Cardinality(C) = 3
  <2>1. 2 \notin B
    OBVIOUS
  <2> HIDE DEF B
  <2> QED
    BY <1>4, <2>1, FS_AddElement
<1>6. IsFiniteSet(D) /\ Cardinality(D) = 4
  <2>1. n \notin C
    BY <1>1 DEF Fds
  <2> HIDE DEF C
  <2> QED
    BY <1>5, <2>1, FS_AddElement
<1>7. IsFiniteSet(E) /\ Cardinality(E) = 5
  <2>1. m \notin D
    BY <1>1 DEF Fds
  <2> HIDE DEF D
  <2> QED
    BY <1>6, <2>1, FS_AddElement
<1>8. E \subseteq S
  OBVIOUS
<1> HIDE DEF E
<1> QED
  BY <1>2, <1>7, <1>8, FS_Subset

LEMMA StealStep ==
  ASSUME SessionTypes, StealInv, Next PROVE StealInv'
<1>0. MaxFd \in Nat /\ fds \in [Fds -> Kinds] /\ scan \in ScanRecord /\ scan' \in ScanRecord
      /\ fds' \in [Fds -> Kinds]
  BY SessionAssumption, ChildStep, ScanStep DEF SessionTypes, ChildTypes
\* A descriptor of another session that is there was there before, and so were those above it.
<1>1. ASSUME NEW n \in Fds, fds'[n] = "notify"
      PROVE  /\ fds[n] = "notify" /\ child' \in {"forked", "closing"}
             /\ \A m \in Fds : (m >= n \/ m <= 2) => fds'[m] = fds[m]
             /\ \A m \in Fds : fds'[m] # "none" => fds[m] # "none"
  <2>1. CASE UNCHANGED fds /\ child' \in {child, "closing"} /\ (child' # child => child = "forked")
    BY <1>1, <2>1 DEF StealInv, Crowded
  <2>2. CASE \E k \in Fds : /\ k >= 3 /\ \A m \in Fds : m >= 3 /\ fds[m] # "none" => k <= m
                            /\ fds' = [fds EXCEPT ![k] = "none"] /\ child = "closing" /\ UNCHANGED child
    <3>1. PICK k \in Fds : /\ k >= 3 /\ \A m \in Fds : m >= 3 /\ fds[m] # "none" => k <= m
                           /\ fds' = [fds EXCEPT ![k] = "none"] /\ child = "closing" /\ UNCHANGED child
      BY <2>2
    <3>2. n # k /\ fds[n] = "notify" /\ n >= 3 /\ k <= n
      BY <1>0, <1>1, <3>1 DEF StealInv, Crowded
    <3> QED
      BY <1>0, <3>1, <3>2 DEF Fds
  <2>3. CASE UNCHANGED fds /\ child' = "closed" /\ \A m \in Fds : m >= 3 => fds[m] = "none"
    BY <1>1, <2>3 DEF StealInv, Crowded
  <2>4. CASE /\ child = "closed" /\ child' \in {"parked", "dead"}
             /\ \A m \in Fds : fds'[m] \in {fds[m], "own", "none"}
    BY <1>1, <2>4 DEF StealInv, Crowded
  <2> QED
    BY <2>1, <2>2, <2>3, <2>4, ChildStep DEF ChildMoves
<1>2. Crowded'
  <2> SUFFICES ASSUME NEW n \in Fds, fds'[n] = "notify"
               PROVE  /\ n >= 3 /\ \A s \in 0..2 : fds'[s] # "none"
                      /\ \E m \in n + 1..MaxFd : fds'[m] # "none"
                      /\ child' \in {"forked", "closing"}
    BY DEF Crowded
  <2>1. n >= 3 /\ (\A s \in 0..2 : fds[s] # "none") /\ fds[n] = "notify"
    BY <1>1 DEF StealInv, Crowded
  <2>2. PICK m \in n + 1..MaxFd : fds[m] # "none"
    BY <2>1 DEF StealInv, Crowded
  <2>3. m \in Fds /\ m >= n /\ \A s \in 0..2 : s \in Fds /\ s <= 2
    BY <1>0, <2>1, <2>2 DEF Fds
  <2> QED
    BY <1>1, <2>1, <2>2, <2>3
<1>3. Listed'
  <2> SUFFICES ASSUME scan'.pc \in {"list", "links", "get"}, NEW n \in Fds, fds'[n] = "notify",
                      NEW m \in Fds, fds'[m] # "none", scan'.pc = "list" => m < scan'.at
               PROVE  m \in scan'.listed
    BY DEF Listed
  <2>1. fds[n] = "notify" /\ fds[m] # "none"
    BY <1>1
  <2>2. scan.pc \in {"list", "links", "get"} /\ (scan.pc = "list" => m < scan.at) => m \in scan.listed
    BY <2>1 DEF StealInv, Listed
  <2>3. CASE UNCHANGED <<scan, listener>>
    BY <2>2, <2>3
  <2>4. CASE scan'.pc \in {"list", "failed"} /\ scan'.at = 0
    BY <1>0, <2>4 DEF Fds
  <2>5. CASE /\ scan.pc = "list" /\ scan.at \in Fds /\ scan'.pc = "list" /\ scan'.at = scan.at + 1
             /\ scan'.listed = IF fds[scan.at] = "none" THEN scan.listed ELSE scan.listed \cup {scan.at}
    <3>1. m < scan.at \/ m = scan.at
      BY <1>0, <2>5 DEF Fds
    <3> QED
      BY <2>1, <2>2, <2>5, <3>1
  <2>6. CASE scan.pc = "list" /\ ~(scan.at <= MaxFd) /\ scan'.listed = scan.listed
    <3>1. m < scan.at
      BY <1>0, <2>6 DEF Fds, ScanRecord
    <3> QED
      BY <2>2, <2>6, <3>1
  <2>7. CASE scan.pc \in {"links", "get"} /\ scan'.listed = scan.listed
    BY <2>2, <2>7
  <2>8. CASE scan'.pc \in {"got", "failed"}
    BY <2>8
  <2> QED
    BY <2>3, <2>4, <2>5, <2>6, <2>7, <2>8, ScanStep DEF ScanMoves
<1>4. Found'
  <2>1. ASSUME NEW n \in Fds, fds[n] \in {"none", "notify", "own"}
        PROVE  fds'[n] \in {"none", "notify", "own"}
    BY <1>0, <2>1, ChildStep DEF ChildMoves
  <2>2. scan.found # NoCode => scan.found \in Fds
    BY <1>0 DEF ScanRecord
  <2>3. scan.found # NoCode => fds'[scan.found] \in {"none", "notify", "own"}
    BY <2>1, <2>2 DEF StealInv, Found
  <2>4. CASE scan'.found = NoCode /\ scan'.pc # "get"
    BY <2>4 DEF Found
  <2>5. CASE /\ scan'.found = scan.found /\ scan'.listed = scan.listed
             /\ scan'.pc = "get" => scan.pc = "get" \/ scan.found # NoCode
             /\ (scan'.pc = "list" => scan.pc = "list")
    BY <2>3, <2>5 DEF StealInv, Found
  <2>6. CASE /\ scan'.pc = "links" /\ scan'.listed = scan.listed
             /\ \E n \in scan.listed : /\ scan'.found = n /\ fds[n] \in {"notify", "own"}
                                       /\ ~(Cardinality(scan.listed) > 4)
    <3>1. PICK n \in scan.listed : /\ scan'.found = n /\ fds[n] \in {"notify", "own"}
                                   /\ ~(Cardinality(scan.listed) > 4)
      BY <2>6
    <3>2. n \in Fds /\ IsFiniteSet(scan.listed)
      <4>1. IsFiniteSet(Fds) /\ scan.listed \subseteq Fds
        BY <1>0, FS_Interval DEF Fds, ScanRecord
      <4> QED
        BY <4>1, FS_Subset
    <3>3. Cardinality(scan.listed) <= 4
      BY <3>1, <3>2, FS_CardinalityType
    <3> QED
      BY <2>1, <2>6, <3>1, <3>2, <3>3 DEF Found
  <2>7. CASE scan.pc = "list" /\ scan'.pc = "list" /\ scan'.found = scan.found
    BY <2>7 DEF StealInv, Found
  <2> QED
    BY <2>4, <2>5, <2>6, <2>7, ScanStep DEF ScanMoves
<1>5. ListenerOwn'
  <2>1. CASE UNCHANGED listener
    BY <2>1 DEF StealInv, ListenerOwn
  <2>2. CASE /\ scan.pc = "get" /\ fds[scan.found] # "none"
             /\ listener' = IF fds[scan.found] = "own" THEN "own" ELSE "other"
    <3>1. scan.found # NoCode /\ scan.found \in Fds /\ Cardinality(scan.listed) <= 4
          /\ scan.listed \in SUBSET Fds
      BY <1>0, <2>2 DEF StealInv, Found, ScanRecord
    <3>2. CASE fds[scan.found] = "own"
      BY <2>2, <3>2 DEF ListenerOwn
    <3>3. CASE fds[scan.found] = "notify"
      <4> DEFINE n == scan.found
      <4>1. n >= 3 /\ \A s \in 0..2 : fds[s] # "none"
        BY <3>1, <3>3 DEF StealInv, Crowded
      <4>2. PICK m \in n + 1..MaxFd : fds[m] # "none"
        BY <3>1, <3>3 DEF StealInv, Crowded
      <4>3. m \in Fds /\ m > n /\ 0 \in Fds /\ 1 \in Fds /\ 2 \in Fds
        BY <1>0, <3>1, <4>1, <4>2 DEF Fds
      <4>4. \A x \in Fds : fds[x] # "none" => x \in scan.listed
        BY <2>2, <3>1, <3>3 DEF StealInv, Listed
      <4>5. fds[0] # "none" /\ fds[1] # "none" /\ fds[2] # "none"
        BY <4>1
      <4> QED
        BY <2>2, <3>1, <4>1, <4>2, <4>3, <4>4, <4>5, TooMany
    <3> QED
      BY <2>2, <3>1, <3>2, <3>3 DEF StealInv, Found
  <2> QED
    BY <2>1, <2>2, ScanStep DEF ScanMoves
<1> QED
  BY <1>2, <1>3, <1>4, <1>5 DEF StealInv

-----------------------------------------------------------------------------
(* The processes of the guest.                                             *)

LEMMA OwnStep ==
  ASSUME SessionTypes, StealInv, OwnInv, ListenerOwn', Next PROVE OwnInv'
<1> USE DEF SessionTypes, ChildTypes
<1>1. scan.pc = "get" => scan.found \in Fds
  BY DEF StealInv, Found, ScanRecord
<1>2. listener' # listener => listener' = "own" /\ \E n \in Fds : fds[n] = "own"
  BY <1>1, ScanStep DEF ScanMoves, ListenerOwn
<1>3. (\E n \in Fds : fds[n] = "own") \/ listener' = "own" => child' \in {"parked", "dead"}
  BY <1>2, ChildStep DEF OwnInv, ChildMoves
<1>4. (\E n \in Fds : fds'[n] = "own") /\ ~(\E n \in Fds : fds[n] = "own") => child' \in {"parked", "dead"}
  BY ChildStep DEF ChildMoves
<1>5. sup' \in Ended_run => sup \in Ended_run \/ listener = "own"
  BY Frames DEF run_and_reap, run_returns, drop_done, join_watchdog, reap, set_exit, spawn_fails, apply, start,
                Ended_run
<1>6. listener = "own" => listener' = "own"
  BY ScanStep DEF ScanMoves, ListenerOwn
<1>7. sup' \in Ended_run => listener' = "own"
  BY <1>5, <1>6 DEF OwnInv
<1> QED
  BY <1>3, <1>4, <1>7 DEF OwnInv

\* Processes die, or one is forked.
LiveMoves ==
  \/ live' \subseteq live /\ UNCHANGED spawned
     /\ (Leader \in live \ live' => status' # NoCode) /\ (Leader \notin live => UNCHANGED status \/ install)
     /\ (Leader \in live' => UNCHANGED status)
  \/ /\ sup = "run" /\ UNCHANGED <<status, cage>>
     /\ \E t \in live, c \in Tasks \ spawned :
          /\ Fork(t) /\ live' = live \cup {c} /\ spawned' = spawned \cup {c}
          /\ grp' = [grp EXCEPT ![c] = grp[t]] /\ ses' = [ses EXCEPT ![c] = ses[t]]
          /\ caged' = IF t \in caged THEN caged \cup {c} ELSE caged

LEMMA LiveStep ==
  ASSUME SessionTypes, Next PROVE LiveMoves
<1>1. CASE UNCHANGED <<live, status>> /\ ~Forks
  BY <1>1, Frames DEF LiveMoves, Forks, Regroup
<1>2. CASE Forks
  BY <1>2 DEF Forks, Fork, Running, GuestUnchanged, LiveMoves
<1>3. CASE Dies /\ ~Forks
  <2>1. UNCHANGED spawned
    BY <1>3 DEF Dies, install, Die, Crash, ExitCall, kill_group, visit, ChildUnchanged, KillUnchanged
  <2>2. CASE install
    BY <2>1, <2>2 DEF install, LiveMoves, NoCode
  <2>3. CASE Die \/ \E t \in Tasks : Crash(t)
    BY <2>1, <2>3 DEF Die, Crash, Running, Crashed, LiveMoves, NoCode
  <2>4. CASE \E t \in Tasks, arg \in Codes : ExitCall(t, arg)
    BY <2>1, <2>4 DEF ExitCall, LiveMoves
  <2>5. CASE \E k \in Killers : kill_group(k) \/ visit(k)
    <3>1. PICK S : Strike(S)
      BY <2>5 DEF kill_group, visit
    <3> QED
      BY <2>1, <3>1 DEF Strike, LiveMoves, Killed, NoCode
  <2> QED
    BY <1>3, <2>2, <2>3, <2>4, <2>5 DEF Dies
<1> QED
  BY <1>1, <1>2, <1>3, Frames

\* Once run has returned nothing of the guest changes any more, and after the
\* watchdog was joined it does not fire.
LEMMA AtRest ==
  ASSUME SessionTypes, OwnInv, LiveInv, WatchInv, Next, sup \in Ended_run
  PROVE  /\ live = {} /\ live' = {} /\ UNCHANGED <<status, asked, latch, written>>
         /\ sup \in Finals => UNCHANGED timed_out
<1>1. live = {} /\ sup # "run" /\ child \in {"parked", "dead"}
  BY DEF LiveInv, OwnInv, Ended_run
<1>2. ~Forks /\ ~Asks /\ ~Writes
  BY <1>1 DEF Forks, Fork, Asks, ExitCall, ThreadExits, Writes, Write, Running
<1>3. ~install /\ ~Die /\ ~(\E t \in Tasks : Crash(t)) /\ ~(\E t \in Tasks, arg \in Codes : ExitCall(t, arg))
  BY <1>1 DEF install, Die, Crash, ExitCall, Running
<1>4. UNCHANGED <<live, status>>
  <2>1. CASE \E k \in Killers : kill_group(k) \/ visit(k)
    <3>1. PICK S : Strike(S)
      BY <2>1 DEF kill_group, visit
    <3> QED
      BY <1>1, <3>1 DEF Strike
  <2> QED
    BY <1>2, <1>3, <2>1, Frames DEF Dies
<1>5. sup \in Finals => UNCHANGED timed_out
  BY Frames DEF watch_fires, WatchInv
<1> QED
  BY <1>1, <1>2, <1>4, <1>5, Frames

LEMMA VisitTypes ==
  \A q \in KillRecord, r \in SUBSET Tasks, b \in BOOLEAN : [q EXCEPT !.todo = r, !.hit = b] \in KillRecord
BY DEF KillRecord

LEMMA GuestTypesStep ==
  ASSUME SessionTypes, Next PROVE GuestTypes'
<1> USE DEF SessionTypes, GuestTypes
<1>0. Leader \in Tasks /\ Sweeps \in Nat
  BY SessionAssumption
<1>1. live' \subseteq spawned' /\ spawned' \subseteq Tasks /\ spawned \subseteq spawned'
  BY LiveStep DEF LiveMoves
<1>2. grp' \in [Tasks -> Tasks] /\ ses' \in [Tasks -> Tasks \cup {Host}]
  <2>1. CASE UNCHANGED <<grp, ses>>
    BY <2>1
  <2>2. CASE Forks
    BY <2>2 DEF Forks, Fork
  <2>3. CASE \E t \in Tasks : Regroup(t)
    BY <2>3 DEF Regroup
  <2>4. CASE child_group
    BY <1>0, <2>4 DEF child_group, ChildUnchanged
  <2> QED
    BY <2>1, <2>2, <2>3, <2>4, Frames
<1>3. caged' \subseteq spawned' /\ cage' \in {"none", "start", "late"}
  <2>1. CASE UNCHANGED <<caged, cage>>
    BY <1>1, <2>1
  <2>2. CASE apply \/ update_limits
    BY <1>1, <2>2 DEF apply, update_limits, attach, guest
  <2>3. CASE Forks
    BY <2>3 DEF Forks, Fork, GuestUnchanged
  <2>4. CASE drop_joins \/ run_argv
    BY <2>4 DEF drop_joins, run_argv
  <2> QED
    BY <2>1, <2>2, <2>3, <2>4, Frames
<1>4. stray' \subseteq Killers
  BY Frames DEF kill_group, list_proc, Hits
<1>5. KillTypes'
  <2>0. kills \in [Killers -> KillRecord] /\ live \subseteq Tasks /\ live \subseteq spawned'
    BY <1>1 DEF KillTypes
  <2>1. CASE UNCHANGED kills
    BY <1>1, <2>1 DEF KillTypes
  <2>2. CASE \E j \in Killers : kill_group(j) \/ Begin(j)
    BY <1>1, <2>2 DEF kill_group, Begin, KillRecord, KillTypes
  <2>3. CASE \E j \in Killers : list_proc(j)
    BY <1>1, <2>0, <2>3 DEF list_proc, KillRecord, KillTypes
  <2>4. CASE \E j \in Killers : visit(j)
    <3>1. PICK j \in Killers : visit(j)
      BY <2>4
    <3>2. PICK t \in kills[j].todo :
            kills' = [kills EXCEPT ![j].todo = @ \ {t}, ![j].hit = @ \/ (t \in live /\ Matches(t))]
      BY <3>1 DEF visit
    <3>3. PICK b \in BOOLEAN : b = (kills[j].hit \/ (t \in live /\ Matches(t)))
      OBVIOUS
    <3>4. kills' = [kills EXCEPT ![j].todo = @ \ {t}, ![j].hit = b]
      BY <3>2, <3>3
    <3>5. PICK r \in SUBSET kills[j].todo : r = kills[j].todo \ {t}
      OBVIOUS
    <3>6. kills' = [kills EXCEPT ![j].todo = r, ![j].hit = b]
      BY <3>4, <3>5
    <3>7. r \in SUBSET Tasks /\ r \subseteq spawned'
      BY <1>1, <2>0, <3>5 DEF KillTypes, KillRecord
    <3>8. kills' \in [Killers -> KillRecord]
      <4>1. [kills[j] EXCEPT !.todo = r, !.hit = b] \in KillRecord
        BY <2>0, <3>7, VisitTypes
      <4>2. kills' = [kills EXCEPT ![j] = [kills[j] EXCEPT !.todo = r, !.hit = b]]
        BY <3>6
      <4> QED
        BY <2>0, <4>1, <4>2
    <3>9. ASSUME NEW k \in Killers
          PROVE  /\ kills'[k].todo \subseteq spawned' /\ kills'[k].pc = kills[k].pc
                 /\ kills'[k].n = kills[k].n
      BY <1>1, <2>0, <3>6, <3>7, <3>9 DEF KillTypes, KillRecord
    <3> QED
      BY <3>8, <3>9 DEF KillTypes
  <2>5. CASE \E j \in Killers : sweep_ends(j)
    <3>1. PICK j \in Killers : sweep_ends(j)
      BY <2>5
    <3>2. kills[j].n + 1 \in 0..Sweeps
      BY <1>0, <2>0, <3>1 DEF sweep_ends, KillRecord, KillTypes
    <3>3. PICK m \in 0..Sweeps : m = kills[j].n + 1
      BY <3>2
    <3>4. \/ kills' = [kills EXCEPT ![j].pc = "list", ![j].n = m]
          \/ kills' = [kills EXCEPT ![j].pc = "over"]
      BY <3>1, <3>3 DEF sweep_ends
    <3> QED
      BY <1>1, <2>0, <3>4 DEF KillRecord, KillTypes
  <2>6. CASE \E j \in Killers : kill_returns(j)
    BY <1>0, <1>1, <2>0, <2>6 DEF kill_returns, KillRecord, KillTypes, Idle
  <2>7. Begins => \E j \in Killers : Begin(j) \/ UNCHANGED kills
    BY DEF Begins, watch_fires, end_session, drop_session, kill, Killers
  <2> QED
    BY <2>1, <2>2, <2>3, <2>4, <2>5, <2>6, <2>7, Frames DEF Kills, kill_guest_tree
<1> QED
  BY <1>1, <1>2, <1>3, <1>4, <1>5

LEMMA CodeTypesStep ==
  ASSUME SessionTypes, Next PROVE CodeTypes'
<1> USE DEF SessionTypes, CodeTypes
<1>1. {asked', latch'} \subseteq AllCodes
  <2>1. CASE UNCHANGED <<asked, latch>>
    BY <2>1
  <2>2. CASE \E t \in Tasks, arg \in Codes : ExitCall(t, arg)
    BY <2>2 DEF ExitCall, record_init_exit, AllCodes
  <2>3. CASE \E arg \in Codes : ThreadExits(arg)
    <3>1. PICK arg \in Codes : ThreadExits(arg)
      BY <2>3
    <3>2. latch' = latch \/ \E c \in Codes : latch' = record_init_exit(Leader, c)
      BY <3>1 DEF ThreadExits
    <3>3. asked' = arg
      BY <3>1 DEF ThreadExits
    <3> QED
      BY <3>2, <3>3 DEF record_init_exit, AllCodes
  <2> QED
    BY <2>1, <2>2, <2>3, Frames DEF Asks
<1>2. status' \in AllCodes
  <2>1. CASE UNCHANGED status
    BY <2>1
  <2>2. CASE install \/ Die \/ \E t \in Tasks : Crash(t)
    BY <2>2 DEF install, Die, Crash, AllCodes
  <2>3. CASE \E t \in Tasks, arg \in Codes : ExitCall(t, arg)
    BY <2>3 DEF ExitCall
  <2>4. CASE \E k \in Killers : kill_group(k) \/ visit(k)
    <3>1. PICK S : Strike(S)
      BY <2>4 DEF kill_group, visit
    <3> QED
      BY <3>1 DEF Strike, AllCodes
  <2>5. CASE Forks
    BY <2>5 DEF Forks, Fork
  <2> QED
    BY <2>1, <2>2, <2>3, <2>4, <2>5, Frames DEF Dies
<1>3. {code', exit'} \subseteq AllCodes
  <2>1. Answer(TRUE) \in AllCodes /\ Answer(FALSE) \in AllCodes
    BY DEF Answer, exit_code_from_status, AllCodes
  <2>2. reap => code' \in {Answer(TRUE), Answer(FALSE)} /\ UNCHANGED exit
    BY DEF reap, Answer
  <2>3. set_exit => exit' = code /\ UNCHANGED code
    BY DEF set_exit
  <2> QED
    BY <2>1, <2>2, <2>3, Frames
<1>4. told' \in AllCodes
  BY Frames DEF send_code, run_argv, run_interactive
<1> QED
  BY <1>1, <1>2, <1>3, <1>4

LEMMA ThreadTypesStep ==
  ASSUME SessionTypes, Next PROVE ThreadTypes'
<1> USE DEF SessionTypes, ThreadTypes
<1>1. <<client', mode'>> \in Modes
  BY Frames DEF chosen
<1>2. sup' \in Unstarted \cup {"run"} \cup Ended_run
  BY Frames DEF spawn_fails, apply, start, run_and_reap, run_returns, drop_done, join_watchdog, reap, set_exit,
                Unstarted, Ended_run
<1>3. watch' \in {"none", "armed", "killing", "done"} /\ timed_out' \in BOOLEAN
  BY Frames DEF start, watch_fires, watch_stops, kill_returns
<1>4. pid' \in {"guest", "free", "taken", "stranger"}
  BY Frames DEF reap, Recycle, host_reaps
<1>5. reader' \in {"none", "pump", "done"}
  BY Frames DEF start, pump_master_to_buffer
<1>6. gone' \in BOOLEAN
  BY Frames DEF HangUp
<1>7. /\ joins' \in [Handles -> JoinRecord] /\ ans' \in [Waiters -> AllCodes]
      /\ ws' \in [Waiters -> Handles \cup {"idle", "answer", "over"}]
  <2>1. CASE UNCHANGED <<joins, ans, ws>>
    BY <2>1
  <2>2. CASE start
    BY <2>2 DEF start, Handles
  <2>3. CASE Waits
    <3>1. PICK w \in Waiters : take_join(w) \/ joined(w) \/ wait(w)
      BY <2>3 DEF Waits
    <3>2. \A h \in Handles : NextStage(h) \in Handles \cup {"answer"}
      BY DEF NextStage, Handles
    <3>3. CASE take_join(w)
      <4>1. [there |-> FALSE, by |-> w] \in JoinRecord
        BY DEF JoinRecord
      <4>2. \/ UNCHANGED ws /\ joins' = [joins EXCEPT ![ws[w]] = [there |-> FALSE, by |-> w]]
            \/ UNCHANGED joins /\ ws' = [ws EXCEPT ![w] = NextStage(@)]
        BY <3>3 DEF take_join
      <4>3. ws[w] \in Handles /\ UNCHANGED ans
        BY <3>3 DEF take_join
      <4> QED
        BY <3>2, <4>1, <4>2, <4>3
    <3>4. CASE joined(w)
      BY <3>2, <3>4 DEF joined, JoinRecord
    <3>5. CASE wait(w)
      BY <3>5 DEF wait, CodeTypes, AllCodes
    <3> QED
      BY <3>1, <3>3, <3>4, <3>5
  <2> QED
    BY <2>1, <2>2, <2>3, Frames
<1> QED
  BY <1>1, <1>2, <1>3, <1>4, <1>5, <1>6, <1>7

LEMMA TypesStep ==
  ASSUME SessionTypes, StealInv, Next PROVE SessionTypes'
<1>1. listener' \in {"none", "own", "other"}
  BY ScanStep DEF ScanMoves, SessionTypes, ChildTypes
<1>2. ChildTypes'
  BY <1>1, ChildStep, ScanStep DEF ChildTypes
<1> QED
  BY <1>2, GuestTypesStep, ThreadTypesStep, CodeTypesStep DEF SessionTypes

LEMMA LiveInvStep ==
  ASSUME SessionTypes, LiveInv, Next PROVE LiveInv'
<1>1. sup' = sup \/ (sup \in Unstarted /\ sup' \in Unstarted \cup {"run"})
      \/ (live = {} /\ UNCHANGED live /\ sup \notin Unstarted /\ sup' \in Ended_run)
  BY Frames DEF spawn_fails, apply, start, run_and_reap, run_returns, drop_done, join_watchdog, reap, set_exit,
                SupUnchanged, guest, Unstarted, Ended_run, LiveInv
<1>2. sup' \in Unstarted => live' \subseteq {Leader}
  BY <1>1, LiveStep DEF LiveMoves, LiveInv, Unstarted, Ended_run
<1>3. sup' \in Ended_run => live' = {}
  BY <1>1, LiveStep DEF LiveMoves, LiveInv, Unstarted, Ended_run
<1>4. Confined'
  <2>1. CASE UNCHANGED <<caged, cage>> /\ ~Forks
    BY <2>1, LiveStep DEF LiveMoves, LiveInv, Confined, Forks
  <2>2. CASE apply
    BY <2>2 DEF apply, attach, LiveInv, Confined, Unstarted, guest
  <2>3. CASE update_limits
    BY <2>3 DEF update_limits, Confined
  <2>4. CASE Forks
    <3>1. PICK t \in Tasks : Fork(t)
      BY <2>4 DEF Forks
    <3>2. PICK c \in Tasks : live' = live \cup {c} /\ caged' = IF t \in caged THEN caged \cup {c} ELSE caged
      BY <3>1 DEF Fork
    <3>3. t \in live /\ UNCHANGED cage
      BY <3>1 DEF Fork, Running, GuestUnchanged
    <3> QED
      BY <3>2, <3>3 DEF LiveInv, Confined
  <2>5. CASE drop_joins \/ run_argv
    BY <2>5 DEF drop_joins, run_argv, Confined
  <2> QED
    BY <2>1, <2>2, <2>3, <2>4, <2>5, Frames
<1> QED
  BY <1>2, <1>3, <1>4 DEF LiveInv

LEMMA StatusInvStep ==
  ASSUME SessionTypes, StatusInv, "first_thread" \notin Careless, Next PROVE StatusInv'
<1>1. Leader \notin live' => status' # NoCode
  BY LiveStep DEF LiveMoves, StatusInv, install, NoCode
<1>2. latch' # NoCode => latch' = asked'
  <2>1. CASE UNCHANGED <<asked, latch>>
    BY <2>1 DEF StatusInv
  <2>2. CASE \E t \in Tasks, arg \in Codes : ExitCall(t, arg)
    BY <2>2 DEF ExitCall, Running, record_init_exit, StatusInv
  <2>3. CASE \E arg \in Codes : ThreadExits(arg)
    BY <2>3 DEF ThreadExits, Running, StatusInv
  <2> QED
    BY <2>1, <2>2, <2>3, Frames DEF Asks
<1> QED
  BY <1>1, <1>2 DEF StatusInv

-----------------------------------------------------------------------------
(* The end of the run.                                                     *)

\* A thread of the supervisor goes on.
SupMoves ==
  \/ UNCHANGED sup
  \/ /\ UNCHANGED <<watch, timed_out, kills, stray, pid, code, exit>>
     /\ \/ sup \in Unstarted /\ sup' \in Unstarted
        \/ sup = "run" /\ sup' = "returned"
        \/ sup = "returned" /\ sup' = "joining"
        \/ sup = "joining" /\ sup' = "reaping" /\ watch \in {"none", "done"}
  \/ start /\ sup = "ready" /\ sup' = "run" /\ watch' \in {"none", "armed"}
     /\ UNCHANGED <<timed_out, kills, stray, pid, code, exit>>
  \/ reap /\ sup = "reaping" /\ sup' = "reaped" /\ code' = Answer(pid = "guest")
     /\ UNCHANGED <<watch, timed_out, kills, stray, exit>>
     /\ (pid = "guest" => Leader \notin live) /\ pid' = IF pid = "guest" THEN "free" ELSE pid
  \/ set_exit /\ sup = "reaped" /\ sup' = "done" /\ exit' = code /\ UNCHANGED code
     /\ UNCHANGED <<watch, timed_out, kills, stray, pid>>

LEMMA SupStep == ASSUME Next PROVE SupMoves
<1>1. CASE spawn_fails \/ apply
  BY <1>1 DEF spawn_fails, apply, SupMoves, Unstarted, StealUnchanged, ending
<1>2. CASE start
  <2>1. sup = "ready" /\ sup' = "run" /\ UNCHANGED <<timed_out, kills, stray, ending>>
    BY <1>2 DEF start
  <2>2. watch' \in {"none", "armed"}
    BY <1>2 DEF start
  <2> QED
    BY <1>2, <2>1, <2>2 DEF SupMoves, ending
<1>3. CASE run_returns \/ drop_done \/ join_watchdog
  BY <1>3 DEF run_returns, drop_done, join_watchdog, Joined, SupMoves, SupUnchanged, ending
<1>4. CASE reap
  BY <1>4 DEF reap, SupMoves, SupUnchanged
<1>5. CASE set_exit
  BY <1>5 DEF set_exit, SupMoves, SupUnchanged
<1> QED
  BY <1>1, <1>2, <1>3, <1>4, <1>5, Frames DEF SupMoves, run_and_reap

\* The watchdog begins, kills and is done.
WatchMoves ==
  \/ UNCHANGED <<watch, timed_out>> /\ (kills["watchdog"].pc = "idle" => kills'["watchdog"].pc = "idle")
  \/ watch = "armed" /\ sup \in {"run", "returned"} /\ UNCHANGED sup /\ watch' = "killing"
  \/ /\ watch = "armed" /\ watch' = "done" /\ UNCHANGED <<sup, timed_out, kills>>
  \/ /\ watch' = "done" /\ UNCHANGED <<sup, timed_out>>
     /\ kills["watchdog"].pc # "idle" /\ kills'["watchdog"].pc = "idle"
  \/ start

LEMMA WatchStep == ASSUME SessionTypes, Next PROVE WatchMoves
<1>0. kills \in [Killers -> KillRecord] /\ "watchdog" \in Killers /\ "caller" \in Killers /\ "watchdog" # "caller"
  BY DEF SessionTypes, GuestTypes, KillTypes, Killers
<1>1. CASE UNCHANGED <<watch, timed_out>>
  <2>1. CASE UNCHANGED kills
    BY <1>1, <2>1 DEF WatchMoves
  <2>2. CASE Begin("caller")
    BY <1>0, <1>1, <2>2 DEF Begin, WatchMoves, KillRecord
  <2>3. CASE \E k \in Killers : kills[k].pc # "idle" /\ \E r : kills' = [kills EXCEPT ![k] = r]
    BY <1>0, <1>1, <2>3 DEF WatchMoves
  <2>4. ASSUME NEW k \in Killers, kill_group(k) \/ list_proc(k) \/ visit(k) \/ sweep_ends(k)
        PROVE  kills[k].pc # "idle" /\ (k # "watchdog" => kills'["watchdog"] = kills["watchdog"])
    BY <1>0, <2>4 DEF kill_group, list_proc, visit, sweep_ends
  <2>5. ASSUME NEW k \in Killers, kill_returns(k)
        PROVE  kills[k].pc # "idle" /\ (k # "watchdog" => kills'["watchdog"] = kills["watchdog"])
    BY <1>0, <2>5 DEF kill_returns
  <2>6. Begins => Begin("caller") \/ UNCHANGED kills \/ watch_fires
    BY DEF Begins, end_session, drop_session, kill
  <2>7. watch_fires => watch = "armed" /\ watch' = "killing"
    BY DEF watch_fires
  <2> QED
    BY <1>1, <2>1, <2>2, <2>4, <2>5, <2>6, <2>7, Frames DEF WatchMoves, Kills, kill_guest_tree
<1>2. CASE watch_fires
  BY <1>2 DEF watch_fires, WatchMoves
<1>3. CASE watch_stops
  BY <1>3 DEF watch_stops, WatchMoves
<1>4. CASE kill_returns("watchdog")
  BY <1>0, <1>4 DEF kill_returns, KillUnchanged, WatchMoves, Idle
<1> QED
  BY <1>1, <1>2, <1>3, <1>4, Frames DEF WatchMoves

LEMMA WatchInvStep ==
  ASSUME SessionTypes, WatchInv, "recycle_taken" \notin Careless, Next PROVE WatchInv'
<1> USE DEF Unstarted, Finals
<1>1. sup' \in Finals => watch' \in {"none", "done"}
  BY SupStep, WatchStep DEF SupMoves, WatchMoves, WatchInv, start
<1>2. sup' \in Unstarted => watch' = "none"
  BY SupStep, WatchStep DEF SupMoves, WatchMoves, WatchInv, start
<1>3. kills'["watchdog"].pc # "idle" => watch' = "killing"
  BY SupStep, WatchStep DEF SupMoves, WatchMoves, WatchInv, start
<1>4. pid' \in {"free", "stranger"} => sup' \in {"reaped", "done"}
  <2>1. CASE UNCHANGED pid
    BY <2>1, SupStep DEF SupMoves, WatchInv
  <2>2. CASE reap
    BY <2>2 DEF reap
  <2>3. CASE Recycle \/ host_reaps
    BY <2>3 DEF Recycle, host_reaps, WatchInv
  <2> QED
    BY <2>1, <2>2, <2>3, Frames
<1>5. WatchdogNeverStray'
  <2>1. CASE UNCHANGED stray
    BY <2>1 DEF WatchInv, WatchdogNeverStray
  <2>2. ASSUME NEW k \in Killers, kill_group(k) \/ list_proc(k) PROVE WatchdogNeverStray'
    <3>1. UNCHANGED stray \/ (pid = "stranger" /\ stray' = stray \cup {k})
      BY <2>2 DEF kill_group, list_proc, Hits
    <3>2. kills[k].pc # "idle"
      BY <2>2 DEF kill_group, list_proc
    <3>3. pid = "stranger" => k # "watchdog"
      BY <3>2 DEF WatchInv
    <3> QED
      BY <3>1, <3>3 DEF WatchInv, WatchdogNeverStray
  <2> QED
    BY <2>1, <2>2, Frames
<1> QED
  BY <1>1, <1>2, <1>3, <1>4, <1>5 DEF WatchInv

LEMMA CodeInvStep ==
  ASSUME SessionTypes, OwnInv, LiveInv, StatusInv, WatchInv, CodeInv, Next PROVE CodeInv'
<1>1. pid' = "taken" => "host_reaps" \in Careless
  BY Frames DEF reap, Recycle, host_reaps, CodeInv
<1>2. sup' \in {"reaped", "done"} => TrueCode(code)' 
  <2>1. CASE sup \in {"reaped", "done"}
    <3>1. UNCHANGED <<status, asked, latch, timed_out>>
      BY <2>1, AtRest DEF Ended_run, Finals
    <3>2. UNCHANGED code
      BY <2>1, SupStep, Frames DEF SupMoves, reap, set_exit
    <3>3. TrueCode(code)
      BY <2>1 DEF CodeInv
    <3> QED
      BY <3>1, <3>2, <3>3 DEF TrueCode
  <2>2. CASE reap
    <3>1. sup = "reaping" /\ code' = Answer(pid = "guest") /\ (pid = "guest" => Leader \notin live)
      BY <2>2 DEF reap
    <3>2. UNCHANGED <<status, asked, latch, timed_out>>
      BY <3>1, AtRest DEF Ended_run, Finals
    <3>3. pid \in {"guest", "taken"}
      BY <3>1 DEF WatchInv, SessionTypes, ThreadTypes
    <3>4. TrueCode(Answer(pid = "guest"))
      BY <3>1, <3>3 DEF TrueCode, Answer, exit_code_from_status, StatusInv, CodeInv, Killed, Lost, NoCode
    <3> QED
      BY <3>1, <3>2, <3>4 DEF TrueCode
  <2>3. CASE sup \notin {"reaped", "done"} /\ ~reap
    BY <2>3, SupStep DEF SupMoves, Unstarted
  <2> QED
    BY <2>1, <2>2, <2>3
<1>3. exit' = IF sup' = "done" THEN code' ELSE NoCode
  BY SupStep, Frames DEF SupMoves, reap, set_exit, Unstarted, CodeInv
<1> QED
  BY <1>1, <1>2, <1>3 DEF CodeInv

-----------------------------------------------------------------------------
(* The client, the output and the calls of wait.                           *)

ClientMoves ==
  \/ UNCHANGED cl /\ (sup' = sup \/ sup # "ready" \/ sup' # "run")
  \/ sup = "stealing" /\ sup' = "never" /\ cl' = "refused"
  \/ /\ sup = "ready" /\ sup' = "run"
     /\ cl' = CASE client = "wait" -> "waiting"
                [] client = "cli" -> "pump"
                [] client = "run" -> "blocked"
                [] OTHER -> "tick"
  \/ UNCHANGED sup /\ cl \in {"tick", "check", "tail", "end"} /\ cl' \in {"tick", "check", "end", "killing"}
  \/ UNCHANGED sup /\ cl = "check" /\ cl' = "tail" /\ exit # NoCode
  \/ UNCHANGED sup /\ cl = "pump" /\ cl' = "hungup" /\ live = {} /\ tty = 0 /\ UNCHANGED <<live, tty>>
  \/ /\ UNCHANGED sup /\ cl' \in {"dropping", "dropkill", "join", "freed"}
     /\ cl \in {"killing", "dropping", "dropkill", "join", "blocked", "hungup", "waiting"}

LEMMA ClientStep == ASSUME Next PROVE ClientMoves
<1>1. CASE spawn_fails
  BY <1>1 DEF spawn_fails, ClientMoves
<1>2. CASE start
  BY <1>2 DEF start, ClientMoves
<1>3. CASE tick \/ inbound_ends \/ send_code \/ end_session \/ try_wait
  BY <1>3 DEF tick, inbound_ends, send_code, end_session, try_wait, ClientUnchanged, ClientMoves
<1>4. CASE drop_session \/ drop_joins \/ run_argv \/ run_interactive \/ waits_over
  BY <1>4 DEF drop_session, drop_joins, run_argv, run_interactive, waits_over, ClientUnchanged, ClientMoves
<1>5. CASE pump
  BY <1>5 DEF pump, unread, ClientUnchanged, guest, ClientMoves
<1>6. CASE kill_returns("caller")
  BY <1>6 DEF kill_returns, KillUnchanged, ClientMoves
<1>7. CASE UNCHANGED cl
  BY <1>7, Frames DEF ClientMoves, spawn_fails, apply, start, run_and_reap, run_returns, drop_done,
                      join_watchdog, reap, set_exit
<1> QED
  BY <1>1, <1>2, <1>3, <1>4, <1>5, <1>6, <1>7, Frames DEF Client

LEMMA ClientInvStep ==
  ASSUME SessionTypes, CodeInv, ClientInv, Next PROVE ClientInv'
<1>1. UNCHANGED client /\ client \in {"run", "run_stream", "shell", "wait", "cli"}
  BY Frames DEF SessionTypes, ThreadTypes, Modes, chosen
<1>2. sup' = sup \/ <<sup, sup'>> \in {<<"stealing", "never">>, <<"stealing", "ready">>, <<"ready", "run">>}
      \/ (sup \notin Unstarted /\ sup' \in Ended_run)
  BY Frames DEF spawn_fails, apply, start, run_and_reap, run_returns, drop_done, join_watchdog, reap, set_exit,
                Unstarted, Ended_run
<1>3. sup = "done" => sup' = "done"
  BY Frames DEF spawn_fails, apply, start, run_and_reap, run_returns, drop_done, join_watchdog, reap, set_exit
<1>4. CASE UNCHANGED cl /\ (sup' = sup \/ sup # "ready" \/ sup' # "run")
  <2>1. ~(sup = "stealing" /\ sup' = "never")
    BY <1>4, Frames DEF spawn_fails, apply, start, run_and_reap, run_returns, drop_done, join_watchdog, reap,
                        set_exit, ClientInv
  <2> QED
    BY <1>1, <1>2, <1>3, <1>4, <2>1 DEF ClientInv, Unstarted, Ended_run
<1>5. CASE ~(UNCHANGED cl /\ (sup' = sup \/ sup # "ready" \/ sup' # "run"))
  BY <1>1, <1>2, <1>5, ClientStep DEF ClientMoves, ClientInv, CodeInv, Unstarted
<1> QED
  BY <1>4, <1>5

\* How output moves on.
OutMoves ==
  \/ UNCHANGED output
  \/ /\ live # {} /\ written < MaxOut /\ written' = written + 1 /\ UNCHANGED got
     /\ IF mode = "none" THEN out' = out + 1 /\ UNCHANGED tty ELSE tty' = tty + 1 /\ UNCHANGED out
  \/ reader = "pump" /\ tty' = 0 /\ out' = out + tty /\ UNCHANGED <<written, got>>
  \/ cl = "pump" /\ tty' = 0 /\ got' = got + tty /\ UNCHANGED <<written, out>>
  \/ out' = 0 /\ got' = got + out /\ UNCHANGED <<written, tty>>

LEMMA OutStep == ASSUME Next PROVE OutMoves
<1>1. CASE Writes
  BY <1>1 DEF Writes, Write, Running, GuestUnchanged, OutMoves
<1>2. CASE pump_master_to_buffer
  BY <1>2 DEF pump_master_to_buffer, OutMoves, output
<1>3. CASE pump
  BY <1>3 DEF pump, unread, ClientUnchanged, OutMoves, output
<1>4. CASE tick \/ send_code \/ run_argv
  BY <1>4 DEF tick, send_code, run_argv, final_drain, read, ClientUnchanged, OutMoves
<1> QED
  BY <1>1, <1>2, <1>3, <1>4, Frames DEF OutMoves, output

\* What is drained stays so.
LEMMA DrainedStays ==
  ASSUME SessionTypes, Next PROVE live = {} => live' = {} /\ (tty = 0 => tty' = 0)
BY LiveStep, OutStep DEF LiveMoves, OutMoves, output

LEMMA SumsStep == ASSUME Sums, Next PROVE Sums'
<1>1. MaxOut \in Nat /\ written \in Nat
  BY SessionAssumption DEF Sums
<1> QED
  BY <1>1, OutStep DEF OutMoves, Sums, output

LEMMA OutInvStep ==
  ASSUME SessionTypes, OwnInv, LiveInv, WatchInv, WaitInv, OutInv, ClientInv, CodeInv, Next PROVE OutInv'
<1>1. Sums /\ Sums'
  BY SumsStep DEF OutInv
<1>2. UNCHANGED <<mode, client>> /\ <<client, mode>> \in Modes
  BY Frames DEF chosen, SessionTypes, ThreadTypes
<1>3. reader = "pump" => mode = "buffered"
  BY DEF WaitInv
<1>4. mode' = "none" => tty' = 0
  BY <1>2, OutStep DEF OutMoves, OutInv, Sums, output
<1>5. mode' = "raw" => out' = 0
  BY <1>2, <1>3, OutStep DEF OutMoves, OutInv, Sums, output
<1>6. reader' = "done" => Drained'
  <2>1. CASE reader = "done"
    BY <2>1, DrainedStays DEF OutInv, Drained
  <2>2. CASE pump_master_to_buffer /\ reader # "done"
    BY <2>2 DEF pump_master_to_buffer, guest, Drained
  <2> QED
    BY <2>1, <2>2, Frames DEF start
<1>7. cl' = "hungup" => Drained'
  <2>1. CASE cl = "hungup"
    BY <2>1, DrainedStays DEF OutInv, Drained
  <2> QED
    BY <2>1, <1>2, ClientStep DEF ClientMoves, Drained
<1>8. told' # NoCode => sup' = "done" /\ (mode' # "buffered" => Drained' /\ out' = 0)
  <2>1. CASE UNCHANGED told
    <3> SUFFICES ASSUME told # NoCode PROVE sup' = "done" /\ (mode' # "buffered" => Drained' /\ out' = 0)
      BY <2>1
    <3>1. sup = "done" /\ sup' = "done"
      BY SupStep DEF OutInv, SupMoves, Unstarted
    <3>2. ASSUME mode # "buffered" PROVE Drained' /\ out' = 0
      <4>1. live = {} /\ tty = 0 /\ out = 0 /\ reader # "pump"
        BY <1>3, <3>2 DEF OutInv, Drained
      <4>2. out' = 0
        BY <1>1, <4>1, OutStep DEF OutMoves, Sums, output
      <4> QED
        BY <4>1, <4>2, DrainedStays DEF Drained
    <3> QED
      BY <1>2, <3>1, <3>2
  <2>2. CASE send_code \/ run_argv
    <3>1. sup = "done" /\ UNCHANGED sup /\ out' = 0 /\ UNCHANGED tty
          /\ client \in {"run_stream", "shell", "run"}
      BY <2>2 DEF send_code, run_argv, final_drain, read, ClientUnchanged, ClientInv
    <3>2. live' = {}
      BY <3>1, AtRest DEF Ended_run
    <3>3. mode # "buffered" => tty = 0
      BY <1>2, <3>1 DEF Modes, OutInv
    <3> QED
      BY <1>2, <3>1, <3>2, <3>3 DEF Drained
  <2>3. CASE run_interactive
    <3>1. sup = "done" /\ UNCHANGED sup /\ UNCHANGED <<tty, out, got>> /\ client = "cli" /\ Drained
      BY <2>3 DEF run_interactive, unread, ClientUnchanged, ClientInv, OutInv
    <3>2. out = 0
      BY <1>2, <3>1 DEF Modes, OutInv
    <3> QED
      BY <3>1, <3>2, DrainedStays DEF Drained
  <2> QED
    BY <2>1, <2>2, <2>3, Frames
<1> QED
  BY <1>1, <1>4, <1>5, <1>6, <1>7, <1>8 DEF OutInv

LEMMA WaitInvStep ==
  ASSUME SessionTypes, WatchInv, CodeInv, WaitInv, OwnInv, LiveInv, Next PROVE WaitInv'
<1> USE DEF Unstarted
<1>0. UNCHANGED <<mode, client>> /\ <<client, mode>> \in Modes /\ NoCode \notin Waiters
      /\ joins \in [Handles -> JoinRecord] /\ ws \in [Waiters -> Handles \cup {"idle", "answer", "over"}]
      /\ ans \in [Waiters -> AllCodes]
  BY Frames, SessionAssumption DEF chosen, SessionTypes, ThreadTypes
<1>1. sup' \in Unstarted => reader' = "none"
  BY SupStep, Frames DEF SupMoves, WaitInv, start, pump_master_to_buffer
<1>2. sup' \notin Unstarted => (reader' # "none" <=> mode' = "buffered")
  <2>1. CASE start
    BY <1>0, <2>1 DEF start
  <2>2. CASE pump_master_to_buffer
    BY <1>0, <2>2, SupStep DEF pump_master_to_buffer, SupMoves, WaitInv
  <2>3. CASE UNCHANGED reader /\ ~start
    BY <1>0, <2>3, SupStep DEF SupMoves, WaitInv
  <2> QED
    BY <2>1, <2>2, <2>3, Frames
<1>3. sup = "done" => sup' = "done" /\ exit' = exit /\ ~start
  BY SupStep, Frames DEF SupMoves, reap, set_exit, start
<1>4. reader = "done" /\ ~start => reader' = "done"
  BY Frames DEF pump_master_to_buffer
<1>5. \A h \in Handles : Over(h) => Over(h)'
  BY <1>3, <1>4 DEF Over
\* What holds of a caller, or of a handle, that does not move goes on to hold.
<1>6. ASSUME NEW w \in Waiters, ws'[w] = ws[w], ans'[w] = ans[w], ~start PROVE StageAt(w)'
  <2>1. StageAt(w)
    BY DEF WaitInv
  <2>2. sup \notin Unstarted => sup' \notin Unstarted
    BY <1>6, SupStep DEF SupMoves
  <2> QED
    BY <1>0, <1>3, <1>4, <1>6, <2>1, <2>2 DEF StageAt
<1>7. ASSUME NEW h \in Handles, joins'[h] = joins[h] PROVE JoinAt(h)'
  BY <1>5, <1>7 DEF WaitInv, JoinAt
<1>8. CASE start
  <2>1. UNCHANGED <<joins, ans>> /\ sup' = "run"
    BY <1>8 DEF start
  <2>2. \A w \in Waiters : ws'[w] = IF client = "wait" THEN "supervisor" ELSE "idle"
    BY <1>8 DEF start
  <2>3. \A w \in Waiters : StageAt(w)'
    BY <1>0, <2>1, <2>2 DEF StageAt
  <2> QED
    BY <1>1, <1>2, <1>7, <2>1, <2>3 DEF WaitInv
<1>9. CASE UNCHANGED <<joins, ans, ws>> /\ ~start
  BY <1>1, <1>2, <1>6, <1>7, <1>9 DEF WaitInv
<1>10. CASE Waits /\ ~start
  <2>1. PICK w \in Waiters : take_join(w) \/ joined(w) \/ wait(w)
    BY <1>10 DEF Waits
  <2>2. UNCHANGED <<sup, reader, exit>> /\ StageAt(w)
    BY <2>1 DEF take_join, joined, wait, WaitUnchanged, ClientUnchanged, ending, WaitInv
  <2>3. CASE take_join(w) /\ joins[ws[w]].there
    <3>1. UNCHANGED <<ws, ans>> /\ ws[w] \in Handles
      BY <2>3 DEF take_join
    <3>2. \A h \in Handles \ {ws[w]} : joins'[h] = joins[h]
      BY <1>0, <2>3 DEF take_join
    <3>3. joins'[ws[w]].by = w
      BY <1>0, <2>3 DEF take_join
    <3>4. JoinAt(ws[w])'
      BY <1>0, <3>1, <3>3 DEF JoinAt
    <3> QED
      BY <1>1, <1>2, <1>6, <1>7, <1>10, <3>1, <3>2, <3>4 DEF WaitInv
  <2>4. CASE take_join(w) /\ ~joins[ws[w]].there
    <3>1. UNCHANGED <<joins, ans>> /\ ws[w] \in Handles /\ Over(ws[w])
      BY <2>4 DEF take_join, WaitInv, JoinAt
    <3>2. ws' = [ws EXCEPT ![w] = NextStage(ws[w])]
      BY <2>4 DEF take_join
    <3>3. StageAt(w)'
      BY <1>0, <2>2, <3>1, <3>2 DEF StageAt, Over, NextStage, Handles
    <3>4. \A v \in Waiters \ {w} : ws'[v] = ws[v]
      BY <1>0, <3>2
    <3> QED
      BY <1>1, <1>2, <1>6, <1>7, <1>10, <3>1, <3>3, <3>4 DEF WaitInv
  <2>5. CASE joined(w)
    <3>0. PICK h \in Handles : h = ws[w]
      BY <2>5 DEF joined
    <3>1. UNCHANGED ans /\ Ended(h)
      BY <2>5, <3>0 DEF joined
    <3>2. ws' = [ws EXCEPT ![w] = NextStage(h)]
      BY <2>5, <3>0 DEF joined
    <3>3. \A g \in Handles \ {h} : joins'[g] = joins[g]
      BY <1>0, <2>5, <3>0 DEF joined
    <3>4. reader # "none"
      BY <1>0, <2>2, <3>0 DEF StageAt, WaitInv, Modes, Handles
    <3>5. Over(h)'
      BY <2>2, <3>0, <3>1, <3>4 DEF Ended, Over, StageAt, Handles
    <3>6. StageAt(w)'
      BY <1>0, <2>2, <3>0, <3>1, <3>2, <3>5 DEF StageAt, Over, NextStage, Handles
    <3>7. \A v \in Waiters \ {w} : ws'[v] = ws[v]
      BY <1>0, <3>2
    <3>8. JoinAt(h)'
      BY <3>5 DEF JoinAt
    <3> QED
      BY <1>1, <1>2, <1>6, <1>7, <1>10, <3>1, <3>3, <3>6, <3>7, <3>8 DEF WaitInv
  <2>6. CASE wait(w)
    <3>1. UNCHANGED joins /\ ws[w] = "answer"
      BY <2>6 DEF wait
    <3>2. ws' = [ws EXCEPT ![w] = "over"]
      BY <2>6 DEF wait
    <3>3. ans' = [ans EXCEPT ![w] = IF exit = NoCode THEN Lost ELSE exit]
      BY <2>6 DEF wait
    <3>4. sup = "done" /\ exit # NoCode
      BY <2>2, <3>1 DEF StageAt, CodeInv, TrueCode
    <3>5. StageAt(w)'
      BY <1>0, <2>2, <3>1, <3>2, <3>3, <3>4 DEF StageAt
    <3>6. \A v \in Waiters \ {w} : ws'[v] = ws[v] /\ ans'[v] = ans[v]
      BY <1>0, <3>2, <3>3
    <3> QED
      BY <1>1, <1>2, <1>6, <1>7, <1>10, <3>1, <3>5, <3>6 DEF WaitInv
  <2> QED
    BY <2>1, <2>3, <2>4, <2>5, <2>6
<1> QED
  BY <1>8, <1>9, <1>10, Frames

-----------------------------------------------------------------------------
(* The theorems.                                                           *)

\* What holds of the guest and the host, also when exits are recorded early.
GuestInv == SessionTypes /\ StealInv /\ OwnInv /\ LiveInv /\ WatchInv /\ Sums

LEMMA SessionInit == ASSUME Init, UsualHosts PROVE SessionInv
<1> USE DEF Init, SessionInv
<1>0. /\ Leader \in Tasks /\ MaxFd \in Nat /\ Sweeps \in Nat /\ MaxOut \in Nat
      /\ fds \in [Fds -> {"none", "file", "notify"}] /\ <<client, mode>> \in Modes
  BY SessionAssumption DEF Fds
<1>1. SessionTypes
  <2>1. scan \in ScanRecord
    BY DEF Scan, ScanRecord
  <2>2. kills \in [Killers -> KillRecord] /\ \A k \in Killers : kills[k].todo = {} /\ kills[k].pc = "idle"
    BY <1>0 DEF Idle, KillRecord, Killers
  <2>3. joins \in [Handles -> JoinRecord]
    BY DEF JoinRecord
  <2>4. ChildTypes
    BY <1>0, <2>1 DEF ChildTypes, Kinds
  <2>5. GuestTypes
    BY <1>0, <2>2 DEF GuestTypes, KillTypes
  <2>6. CodeTypes
    BY DEF CodeTypes, AllCodes
  <2>7. ThreadTypes
    BY <1>0, <2>3 DEF ThreadTypes, Unstarted, AllCodes
  <2> QED
    BY <2>4, <2>5, <2>6, <2>7 DEF SessionTypes
<1>2. StealInv
  <2>1. Crowded
    BY DEF UsualHosts, Crowded, Fds
  <2>2. Listed
    BY <1>0 DEF Listed, Scan, Fds
  <2> QED
    BY <2>1, <2>2 DEF StealInv, Found, ListenerOwn, Scan
<1>3. OwnInv /\ LiveInv
  BY <1>0 DEF OwnInv, LiveInv, Confined, Unstarted, Ended_run
<1>4. StatusInv /\ CodeInv
  BY DEF StatusInv, CodeInv
<1>5. WatchInv
  BY DEF WatchInv, Finals, Killers, Idle, WatchdogNeverStray
<1>6. WaitInv
  BY DEF WaitInv, JoinAt, StageAt, Unstarted
<1>7. OutInv /\ ClientInv
  BY <1>0 DEF OutInv, Sums, ClientInv
<1> QED
  BY <1>1, <1>2, <1>3, <1>4, <1>5, <1>6, <1>7

LEMMA GuestStep ==
  ASSUME GuestInv, "recycle_taken" \notin Careless, [Next]_vars PROVE GuestInv'
<1>1. CASE Next
  <2>1. SessionTypes' /\ StealInv'
    BY <1>1, TypesStep, StealStep DEF GuestInv
  <2>2. OwnInv'
    BY <1>1, <2>1, OwnStep DEF GuestInv, StealInv
  <2>3. LiveInv' /\ WatchInv' /\ Sums'
    BY <1>1, LiveInvStep, WatchInvStep, SumsStep DEF GuestInv
  <2> QED
    BY <2>1, <2>2, <2>3 DEF GuestInv
<1>2. CASE UNCHANGED vars
  <2> USE <1>2 DEF vars, chosen, spawning, guest, ending, output, waiting, GuestInv
  <2>1. SessionTypes'
    BY DEF SessionTypes, ChildTypes, GuestTypes, KillTypes, ThreadTypes, CodeTypes
  <2>2. StealInv' /\ OwnInv'
    BY DEF StealInv, Crowded, Listed, Found, ListenerOwn, OwnInv
  <2>3. LiveInv' /\ WatchInv' /\ Sums'
    BY DEF LiveInv, Confined, WatchInv, WatchdogNeverStray, Sums
  <2> QED
    BY <2>1, <2>2, <2>3
<1> QED
  BY <1>1, <1>2

LEMMA SessionStep ==
  ASSUME SessionInv, {"recycle_taken", "first_thread"} \cap Careless = {}, [Next]_vars PROVE SessionInv'
<1>1. GuestInv'
  BY GuestStep DEF SessionInv, GuestInv, OutInv
<1>2. CASE Next
  <2>1. StatusInv' /\ CodeInv'
    BY <1>2, StatusInvStep, CodeInvStep DEF SessionInv
  <2>2. WaitInv' /\ ClientInv' /\ OutInv'
    BY <1>2, WaitInvStep, ClientInvStep, OutInvStep DEF SessionInv
  <2> QED
    BY <1>1, <2>1, <2>2 DEF SessionInv, GuestInv
<1>3. CASE UNCHANGED vars
  <2> USE <1>3 DEF vars, chosen, spawning, guest, ending, output, waiting
  <2>1. StatusInv' /\ CodeInv'
    BY DEF SessionInv, StatusInv, CodeInv, TrueCode
  <2>2. WaitInv'
    BY DEF SessionInv, WaitInv, JoinAt, StageAt, Over
  <2>3. ClientInv' /\ OutInv'
    BY DEF SessionInv, ClientInv, OutInv, Sums, Drained
  <2> QED
    BY <1>1, <2>1, <2>2, <2>3 DEF SessionInv, GuestInv
<1> QED
  BY <1>2, <1>3

\* The session of a host with ordinary descriptors supervises, limits and kills its own
\* guest, whatever else guest, callers and host do (find_seccomp_fd, Cgroup::attach,
\* run_and_reap and its watchdog).  A host that reaps its own children and lets another
\* take the pid is excluded: then the watchdog can hit a stranger.
THEOREM GuestAlwaysOwn ==
  ASSUME UsualHosts, "recycle_taken" \notin Careless PROVE Spec => []OwnGuest
<1>1. Init => GuestInv
  BY SessionInit DEF SessionInv, GuestInv, OutInv
<1>2. GuestInv /\ [Next]_vars => GuestInv'
  BY GuestStep
<1>3. GuestInv => OwnGuest
  <2> SUFFICES ASSUME GuestInv PROVE OwnGuest
    OBVIOUS
  <2> USE DEF GuestInv
  <2>1. TypeOK
    <3>1. ChildTypes => fds \in [0..MaxFd -> {"none", "file", "notify", "own"}]
                        /\ child \in {"forked", "closing", "closed", "parked", "dead"}
                        /\ listener \in {"none", "own", "other"}
      BY DEF ChildTypes, Fds, Kinds
    <3>2. \A k \in Killers : kills[k].n \in 0..Sweeps /\ kills[k].todo \subseteq spawned
      BY DEF SessionTypes, GuestTypes, KillTypes, KillRecord
    <3> QED
      BY <3>1, <3>2 DEF SessionTypes, GuestTypes, CodeTypes, ThreadTypes, Sums, TypeOK
  <2>2. ListenerOwn /\ WatchdogNeverStray /\ Confined
    BY DEF StealInv, WatchInv, LiveInv
  <2> QED
    BY <2>1, <2>2 DEF OwnGuest
<1> QED
  BY <1>1, <1>2, <1>3, PTL DEF Spec

LEMMA SessionAlways ==
  ASSUME UsualHosts, {"recycle_taken", "first_thread"} \cap Careless = {} PROVE Spec => []SessionInv
<1>1. Init => SessionInv
  BY SessionInit
<1>2. SessionInv /\ [Next]_vars => SessionInv'
  BY SessionStep
<1> QED
  BY <1>1, <1>2, PTL DEF Spec

\* There is one exit code, 137 after a timeout and else the guest's own, and each thread
\* that has called wait got it, also when another one was joining (run_and_reap,
\* record_init_exit, Session::wait).  Excluded is a guest whose first thread has ended
\* alone: its latched exit is then not the one of the process.
THEOREM ExitAlwaysKnown ==
  ASSUME UsualHosts, {"recycle_taken", "first_thread"} \cap Careless = {} PROVE Spec => []ExitKnown
<1>1. SessionInv => ExitKnown
  <2> SUFFICES ASSUME SessionInv PROVE ExitKnown
    OBVIOUS
  <2>1. exit # NoCode => sup = "done" /\ TrueCode(exit)
    BY DEF SessionInv, CodeInv, TrueCode
  <2>2. \A w \in Waiters : ws[w] = "over" => ans[w] = exit /\ exit # NoCode
    BY DEF SessionInv, WaitInv, StageAt, CodeInv, TrueCode
  <2> QED
    BY <2>1, <2>2 DEF ExitKnown, ExitTruth, WaitTruth, TrueCode
<1> QED
  BY <1>1, SessionAlways, PTL

\* Whoever was told the exit code, and did not hang up, has all output of the guest; after
\* wait it is in the buffer (the final drain of run_stream, run_argv, the two joins of
\* Session::wait, the pump of the command line).
THEOREM OutputAlwaysComplete ==
  ASSUME UsualHosts, {"recycle_taken", "first_thread"} \cap Careless = {} PROVE Spec => []OutputComplete
<1>1. SessionInv => OutputComplete
  <2> SUFFICES ASSUME SessionInv PROVE OutputComplete
    OBVIOUS
  <2> USE DEF SessionInv, OutInv, Sums
  <2>1. told # NoCode /\ mode # "buffered" => got = written
    BY DEF Drained
  <2>2. ASSUME NEW w \in Waiters, ws[w] = "over" PROVE out + got = written
    <3>1. Drained
      BY <2>2 DEF WaitInv, StageAt
    <3> QED
      BY <3>1 DEF Drained
  <2> QED
    BY <2>1, <2>2 DEF OutputComplete
<1> QED
  BY <1>1, SessionAlways, PTL

=============================================================================
