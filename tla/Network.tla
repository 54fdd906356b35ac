------------------------------ MODULE Network ------------------------------
(* The network policy of a live guest: two flags that configure stores one  *)
(* after the other and that the handlers of socket, bind, connect, listen   *)
(* and accept load one after the other, on threads of their own and under   *)
(* no lock.  A call that passes goes to the kernel after its decision.      *)
(*                                                                         *)
(* sock is what the kernel knows of the guest's sockets.  INET stands for   *)
(* both internet families, LOCAL for all others.                            *)
EXTENDS FiniteSets, Naturals, Sequences

CONSTANTS
  Socks, Callers, Pushers, \* sockets, guest threads in a call, threads in configure
  Policies,                \* policies that are configured: [net, listen]
  MaxPushes,               \* bound: calls of set_network_policy
  Torn                     \* whether configure may swap the flags (also in two
                           \* steps during one call), or overlap with itself

VARIABLES
  allow_network, allow_listen,
  push,                    \* set_network_policy under way
  force, ever,             \* policies in force now; all so far
  sock, ncall, pushes
netVars == <<allow_network, allow_listen, push, force, ever, sock, ncall, pushes>>

Policy == [net : BOOLEAN, listen : BOOLEAN]
ASSUME NetworkAssumption == Policies \subseteq Policy /\ Torn \in BOOLEAN

Idle == [pc |-> "idle", todo |-> {}, want |-> [net |-> FALSE, listen |-> FALSE]]
NoSock == [family |-> "none", port |-> "none", listening |-> FALSE, peer |-> FALSE]
Quiet == [op |-> "none", pc |-> "idle", todo |-> {}, s |-> CHOOSE s \in Socks : TRUE, arg |-> "none",
          net |-> FALSE, listen |-> FALSE, seen |-> {}]

NetInit ==
  /\ \E p \in Policies : allow_network = p.net /\ allow_listen = p.listen
                         /\ force = {p} /\ ever = {p}
  /\ push = [c \in Pushers |-> Idle] /\ pushes = 0
  /\ sock = [s \in Socks |-> NoSock] /\ ncall = [c \in Callers |-> Quiet]

-----------------------------------------------------------------------------
(* Supervisor::set_network_policy, called for every live session after      *)
(* configure has changed the settings.  Until it returns both policies are  *)
(* in force; a call under way sees every policy that is in force meanwhile. *)
InForce(ps) ==
  /\ force' = ps /\ ever' = ever \cup ps
  /\ ncall' = [c \in Callers |-> IF ncall[c].pc = "idle" THEN ncall[c]
                                 ELSE [ncall[c] EXCEPT !.seen = @ \cup ps]]

Swaps(p, q) == p.net # q.net /\ p.listen # q.listen /\ p.net # p.listen

configure(c) == \E p \in Policies :
  /\ push[c].pc = "idle" /\ pushes < MaxPushes /\ p \notin force
  /\ \/ Torn
     \/ /\ \A d \in Pushers : push[d].pc = "idle"
        /\ \A q \in force \cup UNION {ncall[d].seen : d \in Callers} : ~Swaps(q, p)
  /\ push' = [push EXCEPT ![c] = [pc |-> "store", todo |-> {"network", "listen"}, want |-> p]]
  /\ pushes' = pushes + 1
  /\ InForce(force \cup {p})
  /\ UNCHANGED <<allow_network, allow_listen, sock>>

\* The flags are Relaxed atomics: the two stores of a call, and the two loads
\* of one, are seen in either order.
store_network(c) ==
  /\ "network" \in push[c].todo
  /\ allow_network' = push[c].want.net
  /\ push' = [push EXCEPT ![c].todo = @ \ {"network"}]
  /\ UNCHANGED <<allow_listen, force, ever, sock, ncall, pushes>>

\* Mutant: the flag for listening keeps its value.
store_listen_keeps(c) ==
  /\ "listen" \in push[c].todo
  /\ push' = [push EXCEPT ![c].todo = @ \ {"listen"}]
  /\ UNCHANGED <<allow_network, allow_listen, force, ever, sock, ncall, pushes>>
store_listen(c) ==
  /\ "listen" \in push[c].todo
  /\ allow_listen' = push[c].want.listen
  /\ push' = [push EXCEPT ![c].todo = @ \ {"listen"}]
  /\ UNCHANGED <<allow_network, force, ever, sock, ncall, pushes>>

(* Of calls that overlap, each may be the one that counts in the end.       *)
push_returns(c) ==
  /\ push[c].pc = "store" /\ push[c].todo = {}
  /\ push' = [push EXCEPT ![c] = Idle]
  /\ InForce(IF Torn THEN force ELSE {push[c].want})
  /\ UNCHANGED <<allow_network, allow_listen, sock, pushes>>

-----------------------------------------------------------------------------
(* The decisions, as functions of the flags a handler has loaded.           *)
Inet(f) == f = "INET"

\* Mutant: ports are not compared with the ones to listen on.
bind_policy_any_port(net, listen, addr) == addr = "local" \/ addr = "short" \/ net
\* The family and the port are read from the address; one that is too short
\* for them is left to the kernel.
bind_policy(net, listen, addr) ==
  \/ addr \in {"local", "short"}
  \/ net /\ (addr = "fixed" => listen)

Allowed(op, net, listen, arg) ==
  CASE op = "socket" -> net \/ ~Inet(arg)
    [] op = "bind" -> bind_policy(net, listen, arg)
    [] op = "connect" -> net \/ arg \in {"local", "short"}
    [] op \in {"listen", "accept"} -> listen

Args(op) == CASE op = "socket" -> {"INET", "LOCAL"}
              [] op = "bind" -> {"ephemeral", "fixed", "local", "short"}
              [] op = "connect" -> {"inet", "local", "short"}
              [] OTHER -> {"none"}

\* The flags each handler loads.
Loads(op) == CASE op \in {"listen", "accept"} -> {"listen"}
               [] op = "bind" -> {"network", "listen"}
               [] OTHER -> {"network"}

call(c) == \E op \in {"socket", "bind", "connect", "listen", "accept"}, s \in Socks :
  /\ ncall[c].pc = "idle"
  /\ (op = "socket") <=> sock[s].family = "none"
  /\ \E arg \in Args(op) :
       ncall' = [ncall EXCEPT ![c] = [Quiet EXCEPT !.op = op, !.pc = "act", !.todo = Loads(op), !.s = s, !.arg = arg,
                                                   !.seen = force]]
  /\ UNCHANGED <<allow_network, allow_listen, push, force, ever, sock, pushes>>

load_network(c) ==
  /\ "network" \in ncall[c].todo
  /\ ncall' = [ncall EXCEPT ![c].net = allow_network, ![c].todo = @ \ {"network"}]
  /\ UNCHANGED <<allow_network, allow_listen, push, force, ever, sock, pushes>>

load_listen(c) ==
  /\ "listen" \in ncall[c].todo
  /\ ncall' = [ncall EXCEPT ![c].listen = allow_listen, ![c].todo = @ \ {"listen"}]
  /\ UNCHANGED <<allow_network, allow_listen, push, force, ever, sock, pushes>>

-----------------------------------------------------------------------------
(* What the kernel makes of a call that is let through.                     *)
Kernel(x, op, arg) ==
  CASE op = "socket" -> [x EXCEPT !.family = arg]
    [] op = "bind" /\ Inet(x.family) /\ x.port = "none" /\ arg \in {"ephemeral", "fixed"} ->
         [x EXCEPT !.port = arg]
    [] op = "connect" /\ Inet(x.family) /\ arg = "inet" /\ ~x.listening -> [x EXCEPT !.peer = TRUE]
    [] op = "listen" /\ ~x.peer ->
         [x EXCEPT !.listening = TRUE, !.port = IF Inet(x.family) /\ @ = "none" THEN "ephemeral" ELSE @]
    [] OTHER -> x

\* EPERM, or on to the kernel.  Two calls may have gone for one new socket.
Passes(c) == LET n == ncall[c] IN Allowed(n.op, n.net, n.listen, n.arg)
act(c) ==
  LET n == ncall[c] IN
  /\ n.pc = "act" /\ n.todo = {}
  /\ sock' = IF Passes(c) /\ ((n.op = "socket") <=> sock[n.s].family = "none")
             THEN [sock EXCEPT ![n.s] = Kernel(@, n.op, n.arg)] ELSE sock
  /\ ncall' = [ncall EXCEPT ![c].pc = "answered"]
  /\ UNCHANGED <<allow_network, allow_listen, push, force, ever, pushes>>

answer(c) ==
  /\ ncall[c].pc = "answered"
  /\ ncall' = [ncall EXCEPT ![c] = Quiet]
  /\ UNCHANGED <<allow_network, allow_listen, push, force, ever, sock, pushes>>

close(s) ==
  /\ sock[s] # NoSock /\ \A c \in Callers : ncall[c].pc = "idle" \/ ncall[c].s # s
  /\ sock' = [sock EXCEPT ![s] = NoSock]
  /\ UNCHANGED <<allow_network, allow_listen, push, force, ever, ncall, pushes>>

NetNext ==
  \/ \E c \in Pushers : configure(c) \/ store_network(c) \/ store_listen(c) \/ push_returns(c)
  \/ \E c \in Callers : call(c) \/ load_network(c) \/ load_listen(c) \/ act(c) \/ answer(c)
  \/ \E s \in Socks : close(s)

-----------------------------------------------------------------------------
(* Every call is decided by one policy that was in force while it ran: no   *)
(* mixture of the flags of two decides one, and a call that starts after    *)
(* configure has returned follows the new policy (set_network_policy).      *)
PolicyAtomic ==
  \A c \in Callers : ncall[c].pc = "answered" =>
    \E p \in ncall[c].seen : Allowed(ncall[c].op, p.net, p.listen, ncall[c].arg) = Passes(c)

(* Between two calls of configure the flags are one policy that was asked   *)
(* for.                                                                     *)
PolicyWhole ==
  (\A c \in Pushers : push[c].pc = "idle") =>
    [net |-> allow_network, listen |-> allow_listen] \in force

(* A guest that was never allowed to listen has no internet socket that     *)
(* listens or holds a fixed port, by whatever order of calls; one that was  *)
(* never allowed the network has none at all (sys_socket, bind_policy, the  *)
(* gate of listen and accept).                                              *)
OutboundOnly ==
  \A s \in Socks : Inet(sock[s].family) =>
    /\ \E p \in ever : p.net
    /\ sock[s].listening \/ sock[s].port = "fixed" => \E p \in ever : p.listen

(* The policy a guest meets is one that was asked for, and it lets through  *)
(* no more than it says (set_network_policy, sys_socket, sys_bind).         *)
PolicyHolds == PolicyAtomic /\ PolicyWhole /\ OutboundOnly
=============================================================================
