----------------------------- MODULE CallsProofs -----------------------------
(***************************************************************************)
(* Proofs about the groups of handlers that Calls puts together.  Each has *)
(* an invariant of its own, which the steps of the others leave alone.     *)
(***************************************************************************)
EXTENDS Calls, FiniteSetTheorems, SequenceTheorems, WellFoundedInduction, TLAPS

-----------------------------------------------------------------------------
(* Network: the invariant.                                                 *)

Ops == {"socket", "bind", "connect", "listen", "accept"}
NetworkCall == [op : Ops \cup {"none"}, pc : {"idle", "act", "answered"},
                todo : SUBSET {"network", "listen"}, s : Socks \cup {Quiet.s},
                arg : {"none", "INET", "LOCAL", "ephemeral", "fixed", "local", "short", "inet"},
                net : BOOLEAN, listen : BOOLEAN, seen : SUBSET Policies]
Push == [pc : {"idle", "store"}, todo : SUBSET {"network", "listen"}, want : Policy]
SocketState == [family : {"none", "INET", "LOCAL"}, port : {"none", "ephemeral", "fixed"},
            listening : BOOLEAN, peer : BOOLEAN]
Asks(n) == n.op \in Ops /\ n.arg \in Args(n.op) /\ n.s \in Socks

NetTypes ==
  /\ allow_network \in BOOLEAN /\ allow_listen \in BOOLEAN
  /\ push \in [Pushers -> Push] /\ sock \in [Socks -> SocketState]
  /\ ncall \in [Callers -> NetworkCall]
  /\ force \subseteq ever /\ ever \subseteq Policies
  /\ \A c \in Pushers : push[c].pc = "idle" => push[c].todo = {}
  /\ \A c \in Callers : IF ncall[c].pc = "idle" THEN ncall[c] = Quiet ELSE Asks(ncall[c])

\* A flag was never set but for a policy that was asked for.
FlagsAsked ==
  /\ allow_network => \E p \in ever : p.net
  /\ allow_listen => \E p \in ever : p.listen
  /\ \A c \in Pushers : push[c].pc = "store" => push[c].want \in ever
  /\ \A c \in Callers : /\ ncall[c].net => \E p \in ever : p.net
                        /\ ncall[c].listen => \E p \in ever : p.listen

\* A slot without a socket has nothing that a socket has.
SlotsClean == \A s \in Socks : sock[s].family = "none" => sock[s] = NoSock

\* It holds however configure overlaps with itself and with calls.
NetInv == NetTypes /\ FlagsAsked /\ SlotsClean /\ OutboundOnly

\* What the calls and the policies are made of.
LEMMA NetworkFacts ==
  /\ Quiet \in NetworkCall /\ Quiet.pc = "idle" /\ Quiet.todo = {} /\ Quiet.seen = {}
  /\ ~Quiet.net /\ ~Quiet.listen
  /\ Idle \in Push /\ Idle.pc = "idle" /\ Idle.todo = {}
  /\ NoSock \in SocketState /\ NoSock.family = "none" /\ ~Inet("none")
  /\ \A op \in Ops : Loads(op) \in SUBSET {"network", "listen"}
  /\ \A op \in Ops : Args(op) \subseteq {"none", "INET", "LOCAL", "ephemeral", "fixed",
                                         "local", "short", "inet"}
<1>1. Quiet \in NetworkCall /\ Quiet.pc = "idle" /\ Quiet.todo = {} /\ Quiet.seen = {}
      /\ ~Quiet.net /\ ~Quiet.listen
  <2> DEFINE s0 == CHOOSE s \in Socks : TRUE
  <2>1. Quiet = [op |-> "none", pc |-> "idle", todo |-> {}, s |-> s0, arg |-> "none",
                 net |-> FALSE, listen |-> FALSE, seen |-> {}]
    BY DEF Quiet
  <2> HIDE DEF s0
  <2> QED
    BY <2>1 DEF NetworkCall
<1>2. Idle \in Push /\ Idle.pc = "idle" /\ Idle.todo = {}
  BY DEF Idle, Push, Policy
<1>3. NoSock \in SocketState /\ NoSock.family = "none" /\ ~Inet("none")
  BY DEF NoSock, SocketState, Inet
<1>4. \A op \in Ops : Loads(op) \in SUBSET {"network", "listen"}
  BY DEF Loads, Ops
<1>5. \A op \in Ops : Args(op) \subseteq {"none", "INET", "LOCAL", "ephemeral", "fixed",
                                         "local", "short", "inet"}
  BY DEF Args, Ops
<1> QED
  BY <1>1, <1>2, <1>3, <1>4, <1>5

\* A change of the policies in force is seen by the calls that are under way.
LEMMA InForceCalls ==
  ASSUME NetTypes, NEW ps \in SUBSET Policies, InForce(ps)
  PROVE  /\ ncall' \in [Callers -> NetworkCall]
         /\ \A c \in Callers :
              /\ ncall'[c].net = ncall[c].net /\ ncall'[c].listen = ncall[c].listen
              /\ ncall'[c].op = ncall[c].op /\ ncall'[c].pc = ncall[c].pc
              /\ ncall'[c].todo = ncall[c].todo /\ ncall'[c].arg = ncall[c].arg
              /\ ncall'[c].s = ncall[c].s
              /\ ncall'[c].seen = IF ncall[c].pc = "idle" THEN ncall[c].seen
                                                          ELSE ncall[c].seen \cup ps
              /\ IF ncall'[c].pc = "idle" THEN ncall'[c] = Quiet ELSE Asks(ncall'[c])
<1>1. \A c \in Callers : ncall[c] \in NetworkCall
  BY DEF NetTypes
<1>2. \A c \in Callers : ncall'[c] = IF ncall[c].pc = "idle" THEN ncall[c]
                                     ELSE [ncall[c] EXCEPT !.seen = @ \cup ps]
  BY DEF InForce
<1>3. ASSUME NEW c \in Callers, ncall[c].pc # "idle"
      PROVE  [ncall[c] EXCEPT !.seen = @ \cup ps] \in NetworkCall
  BY <1>1, <1>3 DEF NetworkCall
<1>4. ncall' \in [Callers -> NetworkCall]
  <2>1. ncall' = [c \in Callers |-> ncall'[c]]
    BY DEF InForce
  <2>2. \A c \in Callers : ncall'[c] \in NetworkCall
    BY <1>1, <1>2, <1>3
  <2> QED
    BY <2>1, <2>2
<1>5. ASSUME NEW c \in Callers
      PROVE  /\ ncall'[c].net = ncall[c].net /\ ncall'[c].listen = ncall[c].listen
             /\ ncall'[c].op = ncall[c].op /\ ncall'[c].pc = ncall[c].pc
             /\ ncall'[c].todo = ncall[c].todo /\ ncall'[c].arg = ncall[c].arg
             /\ ncall'[c].s = ncall[c].s
             /\ ncall'[c].seen = IF ncall[c].pc = "idle" THEN ncall[c].seen
                                                         ELSE ncall[c].seen \cup ps
  <2>1. CASE ncall[c].pc = "idle"
    BY <1>2, <2>1
  <2>2. CASE ncall[c].pc # "idle"
    <3>1. ncall'[c] = [ncall[c] EXCEPT !.seen = @ \cup ps]
      BY <1>2, <2>2
    <3> QED
      BY <1>1, <2>2, <3>1 DEF NetworkCall
  <2> QED
    BY <2>1, <2>2
<1>6. ASSUME NEW c \in Callers
      PROVE  IF ncall'[c].pc = "idle" THEN ncall'[c] = Quiet ELSE Asks(ncall'[c])
  <2>1. CASE ncall[c].pc = "idle"
    BY <1>2, <2>1 DEF NetTypes
  <2>2. CASE ncall[c].pc # "idle"
    <3>1. Asks(ncall[c])
      BY <2>2 DEF NetTypes
    <3> QED
      BY <1>5, <2>2, <3>1 DEF Asks
  <2> QED
    BY <2>1, <2>2
<1> QED
  BY <1>4, <1>5, <1>6

\* configure asks for a policy.
LEMMA ConfigureInv ==
  ASSUME NetInv, NEW c \in Pushers, configure(c)
  PROVE  NetInv'
<1> USE DEF NetInv
<1>1. PICK p \in Policies :
        /\ push' = [push EXCEPT ![c] = [pc |-> "store", todo |-> {"network", "listen"}, want |-> p]]
        /\ InForce(force \cup {p})
        /\ UNCHANGED <<allow_network, allow_listen, sock>>
  BY DEF configure
<1>2. force \cup {p} \in SUBSET Policies
  BY DEF NetTypes
<1>3. force' = force \cup {p} /\ ever' = ever \cup (force \cup {p})
  BY <1>1 DEF InForce
<1>4. p \in Policy
  BY NetworkAssumption
<1>5. NetTypes'
  <2>1. push' \in [Pushers -> Push]
    BY <1>1, <1>4 DEF NetTypes, Push
  <2>2. \A d \in Pushers : push'[d].pc = "idle" => push'[d].todo = {}
    BY <1>1 DEF NetTypes
  <2> QED
    BY <1>1, <1>2, <1>3, <2>1, <2>2, InForceCalls DEF NetTypes
<1>6. FlagsAsked'
  <2>1. \A d \in Pushers : push'[d].pc = "store" => push'[d].want \in ever'
    BY <1>1, <1>3 DEF NetTypes, FlagsAsked
  <2>2. \A d \in Callers : ncall'[d].net = ncall[d].net /\ ncall'[d].listen = ncall[d].listen
    BY <1>1, <1>2, InForceCalls
  <2> QED
    BY <1>1, <1>3, <2>1, <2>2 DEF FlagsAsked
<1>7. SlotsClean' /\ OutboundOnly'
  BY <1>1, <1>3 DEF SlotsClean, OutboundOnly
<1> QED
  BY <1>5, <1>6, <1>7

\* A store of one of the flags.
LEMMA StoreInv ==
  ASSUME NetInv, NEW c \in Pushers, store_network(c) \/ store_listen(c)
  PROVE  NetInv'
<1> USE DEF NetInv
<1>1. UNCHANGED <<force, ever, sock, ncall>>
  BY DEF store_network, store_listen
<1>2. push[c] \in Push /\ push[c].pc = "store" /\ push[c].want \in Policy /\ push[c].want \in ever
  BY DEF NetTypes, Push, FlagsAsked, store_network, store_listen
<1>3. \E x \in {"network", "listen"} : push' = [push EXCEPT ![c].todo = @ \ {x}]
  BY DEF store_network, store_listen
<1>4. /\ push' \in [Pushers -> Push]
      /\ \A d \in Pushers : push'[d].pc = push[d].pc /\ push'[d].want = push[d].want
      /\ \A d \in Pushers : d # c => push'[d] = push[d]
  BY <1>3 DEF NetTypes, Push
<1>5. /\ allow_network' \in {allow_network, push[c].want.net}
      /\ allow_listen' \in {allow_listen, push[c].want.listen}
  BY DEF store_network, store_listen
<1>6. NetTypes'
  BY <1>1, <1>2, <1>4, <1>5 DEF NetTypes, Policy
<1>7. FlagsAsked'
  BY <1>1, <1>2, <1>4, <1>5 DEF FlagsAsked
<1>8. SlotsClean' /\ OutboundOnly'
  BY <1>1 DEF SlotsClean, OutboundOnly
<1> QED
  BY <1>6, <1>7, <1>8

\* set_network_policy returns.
LEMMA PushReturnsInv ==
  ASSUME NetInv, NEW c \in Pushers, push_returns(c)
  PROVE  NetInv'
<1> USE DEF NetInv
<1> DEFINE ps == IF Torn THEN force ELSE {push[c].want}
<1>1. push[c].want \in ever /\ ps \in SUBSET Policies /\ ps \subseteq ever
  BY DEF push_returns, FlagsAsked, NetTypes
<1>2. /\ push' = [push EXCEPT ![c] = Idle] /\ InForce(ps)
      /\ UNCHANGED <<allow_network, allow_listen, sock>>
  BY DEF push_returns
<1> HIDE DEF ps
<1>3. force' = ps /\ ever' = ever
  BY <1>1, <1>2 DEF InForce
<1>4. NetTypes'
  BY <1>1, <1>2, <1>3, InForceCalls, NetworkFacts DEF NetTypes
<1>5. FlagsAsked'
  <2>1. \A d \in Pushers : push'[d].pc = "store" => push'[d].want \in ever'
    BY <1>2, <1>3, NetworkFacts DEF NetTypes, FlagsAsked
  <2>2. \A d \in Callers : ncall'[d].net = ncall[d].net /\ ncall'[d].listen = ncall[d].listen
    BY <1>1, <1>2, InForceCalls
  <2> QED
    BY <1>2, <1>3, <2>1, <2>2 DEF FlagsAsked
<1>6. SlotsClean' /\ OutboundOnly'
  BY <1>2, <1>3 DEF SlotsClean, OutboundOnly
<1> QED
  BY <1>4, <1>5, <1>6

\* A call starts, loads a flag or returns.
LEMMA CallInv ==
  ASSUME NetInv, NEW c \in Callers, call(c) \/ load_network(c) \/ load_listen(c) \/ answer(c)
  PROVE  NetInv'
<1> USE DEF NetInv
<1>1. UNCHANGED <<allow_network, allow_listen, push, force, ever, sock>>
  BY DEF call, load_network, load_listen, answer
<1>2. ncall[c] \in NetworkCall
  BY DEF NetTypes
<1>3. PICK n \in NetworkCall :
        /\ ncall' = [ncall EXCEPT ![c] = n]
        /\ IF n.pc = "idle" THEN n = Quiet ELSE Asks(n)
        /\ n.net => ncall[c].net \/ allow_network
        /\ n.listen => ncall[c].listen \/ allow_listen
  <2>1. CASE call(c)
    <3>0. PICK op \in Ops, s \in Socks :
            \E arg \in Args(op) :
              ncall' = [ncall EXCEPT ![c] = [Quiet EXCEPT !.op = op, !.pc = "act", !.todo = Loads(op), !.s = s,
                                                          !.arg = arg, !.seen = force]]
      BY <2>1 DEF call, Ops
    <3>1. PICK arg \in Args(op) :
              ncall' = [ncall EXCEPT ![c] = [Quiet EXCEPT !.op = op, !.pc = "act", !.todo = Loads(op), !.s = s,
                                                          !.arg = arg, !.seen = force]]
      BY <3>0
    <3> DEFINE n == [Quiet EXCEPT !.op = op, !.pc = "act", !.todo = Loads(op), !.s = s,
                                  !.arg = arg, !.seen = force]
    <3>2. Loads(op) \in SUBSET {"network", "listen"} /\ force \in SUBSET Policies
      BY NetworkFacts DEF NetTypes
    <3>3. arg \in {"none", "INET", "LOCAL", "ephemeral", "fixed", "local", "short", "inet"}
      BY NetworkFacts
    <3>4. Quiet \in NetworkCall /\ ~Quiet.net /\ ~Quiet.listen
      BY NetworkFacts
    <3>5. n \in NetworkCall /\ n.pc = "act" /\ ~n.net /\ ~n.listen /\ Asks(n)
      BY <3>2, <3>3, <3>4 DEF NetworkCall, Asks
    <3> QED
      BY <3>1, <3>5
  <2>2. CASE load_network(c)
    <3> DEFINE n == [ncall[c] EXCEPT !.net = allow_network, !.todo = @ \ {"network"}]
    <3>1. ncall' = [ncall EXCEPT ![c] = n]
      BY <2>2 DEF load_network, NetTypes, NetworkCall
    <3>2. n \in NetworkCall /\ n.pc = ncall[c].pc /\ n.net = allow_network /\ n.listen = ncall[c].listen
          /\ (Asks(ncall[c]) => Asks(n))
      BY <1>2 DEF Asks, NetTypes, NetworkCall
    <3>3. ncall[c].pc # "idle" /\ Asks(ncall[c])
      BY <2>2, NetworkFacts DEF load_network, NetTypes
    <3> QED
      BY <3>1, <3>2, <3>3
  <2>3. CASE load_listen(c)
    <3> DEFINE n == [ncall[c] EXCEPT !.listen = allow_listen, !.todo = @ \ {"listen"}]
    <3>1. ncall' = [ncall EXCEPT ![c] = n]
      BY <2>3 DEF load_listen, NetTypes, NetworkCall
    <3>2. n \in NetworkCall /\ n.pc = ncall[c].pc /\ n.listen = allow_listen /\ n.net = ncall[c].net
          /\ (Asks(ncall[c]) => Asks(n))
      BY <1>2 DEF Asks, NetTypes, NetworkCall
    <3>3. ncall[c].pc # "idle" /\ Asks(ncall[c])
      BY <2>3, NetworkFacts DEF load_listen, NetTypes
    <3> QED
      BY <3>1, <3>2, <3>3
  <2>4. CASE answer(c)
    BY <2>4, NetworkFacts DEF answer
  <2> QED
    BY <2>1, <2>2, <2>3, <2>4
<1>4. \A d \in Callers : ncall'[d] = IF d = c THEN n ELSE ncall[d]
  BY <1>3 DEF NetTypes
<1>5. NetTypes'
  BY <1>1, <1>3, <1>4 DEF NetTypes
<1>6. FlagsAsked'
  BY <1>1, <1>3, <1>4 DEF FlagsAsked
<1>7. SlotsClean' /\ OutboundOnly'
  BY <1>1 DEF SlotsClean, OutboundOnly
<1> QED
  BY <1>5, <1>6, <1>7

\* What the kernel makes of a call that passed: a socket of the internet, an
\* open port or a listening socket only where a flag allowed it.
LEMMA KernelFacts ==
  ASSUME NEW n \in NetworkCall, n.op \in Ops, NEW x \in SocketState,
         x.family = "none" => x = NoSock, (n.op = "socket") <=> x.family = "none",
         n.op = "socket" => n.arg \in {"INET", "LOCAL"},
         Allowed(n.op, n.net, n.listen, n.arg)
  PROVE  LET y == Kernel(x, n.op, n.arg)
         IN  /\ y \in SocketState /\ y.family # "none"
             /\ Inet(y.family) => Inet(x.family) \/ n.net
             /\ Inet(y.family) /\ (y.listening \/ y.port = "fixed") =>
                  n.listen \/ (Inet(x.family) /\ (x.listening \/ x.port = "fixed"))
<1> DEFINE y == Kernel(x, n.op, n.arg)
<1> USE DEF Inet
<1>1. CASE n.op = "socket"
  <2>1. y = [x EXCEPT !.family = n.arg] /\ ~x.listening /\ x.port = "none"
        /\ (n.net \/ n.arg # "INET")
    BY <1>1 DEF Kernel, Allowed, NoSock
  <2> QED
    BY <1>1, <2>1 DEF SocketState
<1>2. CASE n.op = "bind"
  <2>1. CASE Inet(x.family) /\ x.port = "none" /\ n.arg \in {"ephemeral", "fixed"}
    <3>1. y = [x EXCEPT !.port = n.arg] /\ (n.arg = "fixed" => n.listen)
      BY <1>2, <2>1 DEF Kernel, Allowed, bind_policy
    <3> QED
      BY <1>2, <2>1, <3>1 DEF SocketState
  <2>2. CASE ~(Inet(x.family) /\ x.port = "none" /\ n.arg \in {"ephemeral", "fixed"})
    <3>1. y = x
      BY <1>2, <2>2 DEF Kernel
    <3> QED
      BY <1>2, <3>1
  <2> QED
    BY <2>1, <2>2
<1>3. CASE n.op = "connect"
  <2>1. y = x \/ y = [x EXCEPT !.peer = TRUE]
    BY <1>3 DEF Kernel
  <2> QED
    BY <1>3, <2>1 DEF SocketState
<1>4. CASE n.op = "listen"
  <2>1. n.listen
    BY <1>4 DEF Allowed
  <2>2. \/ y = x
        \/ y = [x EXCEPT !.listening = TRUE, !.port = IF Inet(x.family) /\ @ = "none" THEN "ephemeral" ELSE @]
    BY <1>4 DEF Kernel
  <2> QED
    BY <1>4, <2>1, <2>2 DEF SocketState
<1>5. CASE n.op = "accept"
  <2>1. y = x
    BY <1>5 DEF Kernel
  <2> QED
    BY <1>5, <2>1
<1> HIDE DEF y
<1> QED
  BY <1>1, <1>2, <1>3, <1>4, <1>5 DEF Ops, y

\* A call is refused or goes to the kernel.
LEMMA ActInv ==
  ASSUME NetInv, NEW c \in Callers, act(c)
  PROVE  NetInv'
<1> DEFINE n == ncall[c]
           x == sock[n.s]
           y == Kernel(x, n.op, n.arg)
<1> USE DEF NetInv
<1>1. UNCHANGED <<allow_network, allow_listen, push, force, ever>>
      /\ ncall' = [ncall EXCEPT ![c].pc = "answered"]
  BY DEF act
<1>2. n \in NetworkCall /\ n.pc = "act" /\ Asks(n) /\ x \in SocketState
      /\ (x.family = "none" => x = NoSock)
  BY DEF act, NetTypes, Asks, SlotsClean
<1>3. /\ ncall' \in [Callers -> NetworkCall]
      /\ \A d \in Callers : /\ ncall'[d].net = ncall[d].net /\ ncall'[d].listen = ncall[d].listen
                            /\ IF ncall'[d].pc = "idle" THEN ncall'[d] = Quiet ELSE Asks(ncall'[d])
  BY <1>1, <1>2 DEF NetTypes, NetworkCall, Asks
<1>4. FlagsAsked'
  BY <1>1, <1>3 DEF FlagsAsked
<1>5. CASE sock' = sock
  BY <1>1, <1>3, <1>4, <1>5 DEF NetTypes, SlotsClean, OutboundOnly
<1>6. CASE sock' # sock
  <2>1. /\ Passes(c) /\ ((n.op = "socket") <=> x.family = "none")
        /\ sock' = [sock EXCEPT ![n.s] = y]
    BY <1>6 DEF act
  <2>2. n.op = "socket" => n.arg \in {"INET", "LOCAL"}
    BY <1>2 DEF Asks, Args
  <2>3. /\ y \in SocketState /\ y.family # "none"
        /\ Inet(y.family) => Inet(x.family) \/ n.net
        /\ Inet(y.family) /\ (y.listening \/ y.port = "fixed") =>
             n.listen \/ (Inet(x.family) /\ (x.listening \/ x.port = "fixed"))
    BY <1>2, <2>1, <2>2, KernelFacts DEF Passes, Asks
  <2> HIDE DEF y
  <2>4. n.s \in Socks /\ \A s \in Socks : sock'[s] = IF s = n.s THEN y ELSE sock[s]
    BY <1>2, <2>1 DEF Asks, NetTypes
  <2>5. NetTypes'
    BY <1>1, <1>2, <1>3, <2>1, <2>3, <2>4 DEF NetTypes
  <2>6. SlotsClean'
    BY <2>3, <2>4 DEF SlotsClean
  <2>7. OutboundOnly'
    BY <1>1, <2>3, <2>4 DEF OutboundOnly, FlagsAsked
  <2> QED
    BY <1>4, <2>5, <2>6, <2>7
<1> QED
  BY <1>5, <1>6

\* A socket is closed.
LEMMA CloseInv ==
  ASSUME NetInv, NEW s \in Socks, close(s)
  PROVE  NetInv'
<1> USE DEF NetInv, close
<1>1. \A u \in Socks : sock'[u] = IF u = s THEN NoSock ELSE sock[u]
  BY DEF NetTypes
<1>2. NetTypes'
  BY NetworkFacts DEF NetTypes
<1>3. FlagsAsked'
  BY DEF FlagsAsked
<1>4. SlotsClean' /\ OutboundOnly'
  BY <1>1, NetworkFacts DEF SlotsClean, OutboundOnly
<1> QED
  BY <1>2, <1>3, <1>4

\* The policy of the network is in force from the first call on.
LEMMA NetInvInit == NetInit => NetInv
<1> SUFFICES ASSUME NetInit PROVE NetInv
  OBVIOUS
<1>1. PICK p \in Policies : allow_network = p.net /\ allow_listen = p.listen
                            /\ force = {p} /\ ever = {p}
  BY DEF NetInit
<1>2. p \in Policy
  BY NetworkAssumption
<1>3. /\ \A c \in Pushers : push[c] = Idle
      /\ \A c \in Callers : ncall[c] = Quiet
      /\ \A s \in Socks : sock[s] = NoSock
  BY DEF NetInit
<1>4. NetTypes
  BY <1>1, <1>2, NetworkFacts DEF NetInit, NetTypes, Policy
<1>5. FlagsAsked
  BY <1>1, <1>3, NetworkFacts DEF FlagsAsked
<1>6. SlotsClean /\ OutboundOnly
  BY <1>3, NetworkFacts DEF SlotsClean, OutboundOnly
<1> QED
  BY <1>4, <1>5, <1>6 DEF NetInv

\* Every step of the handlers of the network, and any other that leaves the
\* network alone.
LEMMA NetInvStep == NetInv /\ [NetNext]_netVars => NetInv'
<1>1. ASSUME NetInv, NetNext PROVE NetInv'
  BY <1>1, ConfigureInv, StoreInv, PushReturnsInv, CallInv, ActInv, CloseInv DEF NetNext
<1>2. ASSUME NetInv, UNCHANGED netVars PROVE NetInv'
  BY <1>2 DEF netVars, NetInv, NetTypes, FlagsAsked, SlotsClean, OutboundOnly
<1> QED
  BY <1>1, <1>2

\* What a step of Calls is for each group of handlers.
LEMMA GroupSteps ==
  ASSUME [Next]_vars
  PROVE  [NetNext]_netVars /\ [IoNext]_ioVars /\ [ExecNext]_execVars /\ [ProcNext]_procVars
BY DEF Next, vars

\* A guest that was never allowed to listen has no internet socket that listens
\* or holds a fixed port, and one that was never allowed the network has none:
\* whatever configure swaps meanwhile, and however its calls overlap
\* (sys_socket, sys_bind, bind_policy, is_listen_syscall).
THEOREM AlwaysOutboundOnly == Spec => []OutboundOnly
<1>1. Init => NetInv
  BY NetInvInit DEF Init
<1>2. NetInv /\ [Next]_vars => NetInv'
  BY NetInvStep, GroupSteps
<1>3. NetInv => OutboundOnly
  BY DEF NetInv
<1> QED
  BY <1>1, <1>2, <1>3, PTL DEF Spec

-----------------------------------------------------------------------------
(* Network: a call is decided by one policy, when no policy swaps the flags *)
(* of one that a call may still see.                                        *)

AllStored == \A c \in Pushers : push[c].pc = "idle"
NoneSwaps(ps) == \A p, q \in ps : ~Swaps(p, q)

\* One call of configure at a time is under way.
OnePush == \A c, d \in Pushers : push[c].pc = "store" /\ push[d].pc = "store" => c = d

\* Between two calls of configure the flags are the policy in force; during one
\* each of them is of the old policy until it was stored.
FlagsInForce ==
  /\ AllStored => force = {[net |-> allow_network, listen |-> allow_listen]}
  /\ \A c \in Pushers : push[c].pc = "store" => \E q \in force :
       /\ force = {q, push[c].want}
       /\ allow_network = IF "network" \in push[c].todo THEN q.net ELSE push[c].want.net
       /\ allow_listen = IF "listen" \in push[c].todo THEN q.listen ELSE push[c].want.listen
  /\ NoneSwaps(force)

\* What a call has loaded is of policies it has seen, which go together.
LoadsSeen(n) ==
  /\ force \subseteq n.seen /\ NoneSwaps(n.seen)
  /\ "network" \in Loads(n.op) => "network" \in n.todo \/ \E p \in n.seen : n.net = p.net
  /\ "listen" \in Loads(n.op) => "listen" \in n.todo \/ \E p \in n.seen : n.listen = p.listen
  /\ n.pc = "answered" => n.todo = {}
CallsSeen == \A c \in Callers : ncall[c].pc # "idle" => LoadsSeen(ncall[c])

PolicyInv == NetInv /\ OnePush /\ FlagsInForce /\ CallsSeen

\* Swapping is mutual.
LEMMA SwapsSymmetric == \A p, q \in Policy : Swaps(p, q) <=> Swaps(q, p)
BY DEF Swaps, Policy

\* Each flag is that of a policy in force.
LEMMA FlagsOfForce ==
  ASSUME PolicyInv
  PROVE  /\ \E p \in force : p.net = allow_network
         /\ \E p \in force : p.listen = allow_listen
<1>1. CASE AllStored
  <2> DEFINE f == [net |-> allow_network, listen |-> allow_listen]
  <2>1. f \in force /\ f.net = allow_network /\ f.listen = allow_listen
    BY <1>1 DEF PolicyInv, FlagsInForce
  <2> QED
    BY <2>1
<1>2. CASE ~AllStored
  <2>1. PICK c \in Pushers : push[c].pc = "store"
    BY <1>2 DEF AllStored, PolicyInv, NetInv, NetTypes, Push
  <2>2. PICK q \in force :
       /\ force = {q, push[c].want}
       /\ allow_network = IF "network" \in push[c].todo THEN q.net ELSE push[c].want.net
       /\ allow_listen = IF "listen" \in push[c].todo THEN q.listen ELSE push[c].want.listen
    BY <2>1 DEF PolicyInv, FlagsInForce
  <2>3. q \in force /\ push[c].want \in force
    BY <2>2
  <2> QED
    BY <2>2, <2>3
<1> QED
  BY <1>1, <1>2

\* configure asks for a policy that goes with all that calls may see.
LEMMA ConfigurePolicy ==
  ASSUME ~Torn, PolicyInv, NetInv', NEW c \in Pushers, configure(c)
  PROVE  PolicyInv'
<1> USE DEF PolicyInv
<1>1. PICK p \in Policies :
        /\ AllStored
        /\ \A q \in force \cup UNION {ncall[d].seen : d \in Callers} : ~Swaps(q, p)
        /\ push' = [push EXCEPT ![c] = [pc |-> "store", todo |-> {"network", "listen"}, want |-> p]]
        /\ InForce(force \cup {p})
        /\ UNCHANGED <<allow_network, allow_listen, sock>>
  BY DEF configure, AllStored
<1>2. force' = force \cup {p} /\ force \cup {p} \in SUBSET Policies /\ p \in Policy
      /\ Policies \subseteq Policy
  BY <1>1, NetworkAssumption DEF InForce, NetInv, NetTypes
<1>3. force = {[net |-> allow_network, listen |-> allow_listen]}
  BY <1>1 DEF FlagsInForce
<1>4. \A d \in Pushers : push'[d].pc = "store" => d = c
  BY <1>1 DEF AllStored, NetInv, NetTypes
<1>5. push'[c] = [pc |-> "store", todo |-> {"network", "listen"}, want |-> p]
  BY <1>1 DEF NetInv, NetTypes
<1>6. \A ps \in SUBSET Policies : (\A q \in ps : ~Swaps(q, p)) /\ NoneSwaps(ps)
                                    => NoneSwaps(ps \cup {p})
  <2>1. ~Swaps(p, p)
    BY DEF Swaps
  <2> QED
    BY <1>2, <2>1, SwapsSymmetric DEF NoneSwaps
<1>7. OnePush'
  BY <1>4 DEF OnePush
<1>8. FlagsInForce'
  <2>1. NoneSwaps(force)'
    BY <1>1, <1>2, <1>6 DEF FlagsInForce, NetInv, NetTypes, NoneSwaps
  <2>2. ~AllStored'
    BY <1>5 DEF AllStored
  <2>3. \E q \in force' : force' = {q, p} /\ allow_network' = q.net /\ allow_listen' = q.listen
    BY <1>1, <1>2, <1>3
  <2>4. push'[c].want = p /\ push'[c].todo = {"network", "listen"}
    BY <1>5
  <2> QED
    BY <1>4, <2>1, <2>2, <2>3, <2>4 DEF FlagsInForce
<1>9. CallsSeen'
  <2> SUFFICES ASSUME NEW d \in Callers, ncall'[d].pc # "idle" PROVE LoadsSeen(ncall[d])'
    BY DEF CallsSeen
  <2>1. /\ ncall'[d].net = ncall[d].net /\ ncall'[d].listen = ncall[d].listen
        /\ ncall'[d].op = ncall[d].op /\ ncall'[d].pc = ncall[d].pc
        /\ ncall'[d].todo = ncall[d].todo
        /\ ncall[d].pc # "idle" => ncall'[d].seen = ncall[d].seen \cup (force \cup {p})
    BY <1>1, <1>2, InForceCalls DEF NetInv
  <2>2. LoadsSeen(ncall[d]) /\ ncall'[d].seen = ncall[d].seen \cup {p}
    BY <2>1 DEF CallsSeen, LoadsSeen
  <2>3. ncall[d].seen \in SUBSET Policies
    BY DEF NetInv, NetTypes, NetworkCall
  <2>4. NoneSwaps(ncall'[d].seen)
    <3>1. \A q \in ncall[d].seen : ~Swaps(q, p)
      BY <1>1
    <3> QED
      BY <1>6, <2>2, <2>3, <3>1 DEF LoadsSeen
  <2> QED
    BY <1>2, <2>1, <2>2, <2>4 DEF LoadsSeen, NoneSwaps
<1> QED
  BY <1>7, <1>8, <1>9

\* A store of one of the flags.
LEMMA StorePolicy ==
  ASSUME PolicyInv, NetInv', NEW c \in Pushers, store_network(c) \/ store_listen(c)
  PROVE  PolicyInv'
<1> USE DEF PolicyInv
<1>1. UNCHANGED <<force, ever, sock, ncall>>
  BY DEF store_network, store_listen
<1>2. push[c] \in Push /\ push[c].pc = "store"
  BY DEF NetInv, NetTypes, Push, store_network, store_listen
<1>3. PICK x \in {"network", "listen"} :
        /\ push' = [push EXCEPT ![c].todo = @ \ {x}]
        /\ allow_network' = IF x = "network" THEN push[c].want.net ELSE allow_network
        /\ allow_listen' = IF x = "listen" THEN push[c].want.listen ELSE allow_listen
  BY DEF store_network, store_listen
<1>4. /\ \A d \in Pushers : push'[d].pc = push[d].pc /\ push'[d].want = push[d].want
      /\ \A d \in Pushers : d # c => push'[d] = push[d]
      /\ push'[c].todo = push[c].todo \ {x}
  BY <1>3 DEF NetInv, NetTypes, Push
<1>5. OnePush'
  BY <1>4 DEF OnePush
<1>6. FlagsInForce'
  <2>1. ~AllStored'
    BY <1>2, <1>4 DEF AllStored
  <2>2. \A d \in Pushers : push'[d].pc = "store" => d = c
    BY <1>2, <1>4 DEF OnePush
  <2>3. PICK q \in force :
       /\ force = {q, push[c].want}
       /\ allow_network = IF "network" \in push[c].todo THEN q.net ELSE push[c].want.net
       /\ allow_listen = IF "listen" \in push[c].todo THEN q.listen ELSE push[c].want.listen
    BY <1>2 DEF FlagsInForce
  <2>4. /\ force' = {q, push'[c].want}
        /\ allow_network' = IF "network" \in push'[c].todo THEN q.net ELSE push'[c].want.net
        /\ allow_listen' = IF "listen" \in push'[c].todo THEN q.listen ELSE push'[c].want.listen
    BY <1>1, <1>2, <1>3, <1>4, <2>3
  <2>5. NoneSwaps(force)'
    BY <1>1 DEF FlagsInForce, NoneSwaps
  <2> QED
    BY <1>1, <2>1, <2>2, <2>3, <2>4, <2>5 DEF FlagsInForce
<1>7. CallsSeen'
  BY <1>1 DEF CallsSeen, LoadsSeen, NoneSwaps
<1> QED
  BY <1>5, <1>6, <1>7

\* The new policy alone is in force once set_network_policy has returned.
LEMMA PushReturnsPolicy ==
  ASSUME ~Torn, PolicyInv, NetInv', NEW c \in Pushers, push_returns(c)
  PROVE  PolicyInv'
<1> USE DEF PolicyInv
<1> DEFINE p == push[c].want
<1>1. /\ push[c].pc = "store" /\ push[c].todo = {} /\ push[c] \in Push
      /\ push' = [push EXCEPT ![c] = Idle]
      /\ InForce({p}) /\ UNCHANGED <<allow_network, allow_listen, sock>>
  BY DEF push_returns, NetInv, NetTypes
<1>2. force' = {p} /\ p \in force /\ {p} \in SUBSET Policies
      /\ allow_network = p.net /\ allow_listen = p.listen /\ p \in Policy
  BY <1>1 DEF InForce, FlagsInForce, NetInv, NetTypes, Push
<1> HIDE DEF p
<1>3. \A d \in Pushers : push'[d].pc = "idle"
  BY <1>1, NetworkFacts DEF OnePush, NetInv, NetTypes, Push
<1>4. OnePush'
  BY <1>3 DEF OnePush
<1>5. FlagsInForce'
  <2>1. p = [net |-> allow_network, listen |-> allow_listen]
    BY <1>2 DEF Policy
  <2>2. NoneSwaps(force)'
    BY <1>2 DEF NoneSwaps, Swaps
  <2> QED
    BY <1>1, <1>2, <1>3, <2>1, <2>2 DEF FlagsInForce
<1>6. CallsSeen'
  <2> SUFFICES ASSUME NEW d \in Callers, ncall'[d].pc # "idle" PROVE LoadsSeen(ncall[d])'
    BY DEF CallsSeen
  <2>1. /\ ncall'[d].net = ncall[d].net /\ ncall'[d].listen = ncall[d].listen
        /\ ncall'[d].op = ncall[d].op /\ ncall'[d].pc = ncall[d].pc
        /\ ncall'[d].todo = ncall[d].todo
        /\ ncall[d].pc # "idle" => ncall'[d].seen = ncall[d].seen \cup {p}
    BY <1>1, <1>2, InForceCalls DEF NetInv
  <2>2. LoadsSeen(ncall[d]) /\ ncall'[d].seen = ncall[d].seen
    BY <1>2, <2>1 DEF CallsSeen, LoadsSeen
  <2> QED
    BY <1>2, <2>1, <2>2 DEF LoadsSeen, NoneSwaps
<1> QED
  BY <1>4, <1>5, <1>6

\* A call of the guest goes on: it loads what is in force, and sees it.
LEMMA CallPolicy ==
  ASSUME PolicyInv, NetInv', NEW c \in Callers,
         call(c) \/ load_network(c) \/ load_listen(c) \/ act(c) \/ answer(c)
  PROVE  PolicyInv'
<1> USE DEF PolicyInv
<1>1. UNCHANGED <<allow_network, allow_listen, push, force, ever>>
  BY DEF call, load_network, load_listen, act, answer
<1>2. OnePush' /\ FlagsInForce'
  BY <1>1 DEF OnePush, FlagsInForce, AllStored, NoneSwaps
<1>3. PICK p \in force : p.net = allow_network
  BY FlagsOfForce
<1>4. PICK q \in force : q.listen = allow_listen
  BY FlagsOfForce
<1>5. ncall[c] \in NetworkCall
  BY DEF NetInv, NetTypes
<1>6. /\ \A d \in Callers : d # c => ncall'[d] = ncall[d]
      /\ ncall'[c].pc # "idle" => LoadsSeen(ncall[c])'
  <2>1. CASE call(c)
    <3>1. PICK n \in NetworkCall :
            /\ ncall' = [ncall EXCEPT ![c] = n]
            /\ n.pc = "act" /\ n.todo = Loads(n.op) /\ n.seen = force
      <4>1. PICK op \in Ops, s \in Socks :
              \E arg \in Args(op) :
                ncall' = [ncall EXCEPT ![c] = [Quiet EXCEPT !.op = op, !.pc = "act", !.todo = Loads(op), !.s = s,
                                                            !.arg = arg, !.seen = force]]
        BY <2>1 DEF call, Ops
      <4>2. PICK arg \in Args(op) :
                ncall' = [ncall EXCEPT ![c] = [Quiet EXCEPT !.op = op, !.pc = "act", !.todo = Loads(op), !.s = s,
                                                            !.arg = arg, !.seen = force]]
        BY <4>1
      <4> DEFINE n == [Quiet EXCEPT !.op = op, !.pc = "act", !.todo = Loads(op), !.s = s,
                                    !.arg = arg, !.seen = force]
      <4>3. /\ Quiet \in NetworkCall /\ Loads(op) \in SUBSET {"network", "listen"}
            /\ force \in SUBSET Policies
            /\ arg \in {"none", "INET", "LOCAL", "ephemeral", "fixed", "local", "short", "inet"}
        BY NetworkFacts DEF NetInv, NetTypes
      <4>4. n \in NetworkCall /\ n.pc = "act" /\ n.op = op /\ n.todo = Loads(op) /\ n.seen = force
        BY <4>3 DEF NetworkCall
      <4> QED
        BY <4>2, <4>4
    <3> QED
      BY <1>1, <3>1 DEF LoadsSeen, FlagsInForce, NetInv, NetTypes
  <2>2. CASE load_network(c)
    <3>1. "network" \in ncall[c].todo /\ ncall[c].pc # "idle" /\ LoadsSeen(ncall[c])
      BY <2>2, NetworkFacts DEF load_network, NetInv, NetTypes, CallsSeen
    <3>2. /\ ncall'[c].net = allow_network /\ ncall'[c].listen = ncall[c].listen
          /\ ncall'[c].todo = ncall[c].todo \ {"network"} /\ ncall'[c].seen = ncall[c].seen
          /\ ncall'[c].op = ncall[c].op /\ ncall'[c].pc = ncall[c].pc
          /\ \A d \in Callers : d # c => ncall'[d] = ncall[d]
      BY <1>5, <2>2 DEF load_network, NetInv, NetTypes, NetworkCall
    <3> QED
      BY <1>1, <1>3, <3>1, <3>2 DEF LoadsSeen
  <2>3. CASE load_listen(c)
    <3>1. "listen" \in ncall[c].todo /\ ncall[c].pc # "idle" /\ LoadsSeen(ncall[c])
      BY <2>3, NetworkFacts DEF load_listen, NetInv, NetTypes, CallsSeen
    <3>2. /\ ncall'[c].listen = allow_listen /\ ncall'[c].net = ncall[c].net
          /\ ncall'[c].todo = ncall[c].todo \ {"listen"} /\ ncall'[c].seen = ncall[c].seen
          /\ ncall'[c].op = ncall[c].op /\ ncall'[c].pc = ncall[c].pc
          /\ \A d \in Callers : d # c => ncall'[d] = ncall[d]
      BY <1>5, <2>3 DEF load_listen, NetInv, NetTypes, NetworkCall
    <3> QED
      BY <1>1, <1>4, <3>1, <3>2 DEF LoadsSeen
  <2>4. CASE act(c)
    <3>1. ncall[c].pc = "act" /\ ncall[c].todo = {} /\ LoadsSeen(ncall[c])
      BY <2>4 DEF act, CallsSeen
    <3>2. /\ ncall'[c].net = ncall[c].net /\ ncall'[c].listen = ncall[c].listen
          /\ ncall'[c].todo = ncall[c].todo /\ ncall'[c].seen = ncall[c].seen
          /\ ncall'[c].op = ncall[c].op
          /\ \A d \in Callers : d # c => ncall'[d] = ncall[d]
      BY <1>5, <2>4 DEF act, NetInv, NetTypes, NetworkCall
    <3> QED
      BY <1>1, <3>1, <3>2 DEF LoadsSeen
  <2>5. CASE answer(c)
    BY <2>5, NetworkFacts DEF answer, NetInv, NetTypes
  <2> QED
    BY <2>1, <2>2, <2>3, <2>4, <2>5
<1>7. CallsSeen'
  <2> SUFFICES ASSUME NEW d \in Callers, ncall'[d].pc # "idle" PROVE LoadsSeen(ncall[d])'
    BY DEF CallsSeen
  <2>1. CASE d = c
    BY <1>6, <2>1
  <2>2. CASE d # c
    BY <1>1, <1>6, <2>2 DEF CallsSeen, LoadsSeen, NoneSwaps
  <2> QED
    BY <2>1, <2>2
<1> QED
  BY <1>2, <1>7

\* One policy suffices to tell what a call was decided by: two flags of policies
\* that do not swap are those of one of them, as far as the decision goes.
LEMMA DecidedByOne ==
  ASSUME PolicyInv, NEW c \in Callers, ncall[c].pc = "answered"
  PROVE  \E p \in ncall[c].seen : Allowed(ncall[c].op, p.net, p.listen, ncall[c].arg) = Passes(c)
<1> DEFINE n == ncall[c]
<1> USE DEF PolicyInv
<1>1. n \in NetworkCall /\ n.op \in Ops /\ n.arg \in Args(n.op) /\ LoadsSeen(n) /\ n.todo = {}
  BY DEF NetInv, NetTypes, Asks, CallsSeen, LoadsSeen
<1>2. \A p \in n.seen : p \in Policy
  BY <1>1, NetworkAssumption DEF NetworkCall
<1>3. n.net \in BOOLEAN /\ n.listen \in BOOLEAN
  BY <1>1 DEF NetworkCall
<1>4. Passes(c) = Allowed(n.op, n.net, n.listen, n.arg)
  BY DEF Passes
<1> HIDE DEF n
<1>5. CASE n.op \in {"socket", "connect"}
  <2>1. PICK p \in n.seen : n.net = p.net
    BY <1>1, <1>5 DEF LoadsSeen, Loads
  <2>2. Allowed(n.op, p.net, p.listen, n.arg) = Allowed(n.op, n.net, n.listen, n.arg)
    BY <1>5, <2>1 DEF Allowed
  <2> QED
    BY <1>4, <2>2 DEF n
<1>6. CASE n.op \in {"listen", "accept"}
  <2>1. PICK p \in n.seen : n.listen = p.listen
    BY <1>1, <1>6 DEF LoadsSeen, Loads
  <2>2. Allowed(n.op, p.net, p.listen, n.arg) = Allowed(n.op, n.net, n.listen, n.arg)
    BY <1>6, <2>1 DEF Allowed
  <2> QED
    BY <1>4, <2>2 DEF n
<1>7. CASE n.op = "bind"
  <2>1. PICK p \in n.seen : n.net = p.net
    BY <1>1, <1>7 DEF LoadsSeen, Loads
  <2>2. PICK q \in n.seen : n.listen = q.listen
    BY <1>1, <1>7 DEF LoadsSeen, Loads
  <2>3. p \in Policy /\ q \in Policy /\ ~Swaps(p, q)
    BY <1>1, <1>2 DEF LoadsSeen, NoneSwaps
  <2>4. p.net \in BOOLEAN /\ p.listen \in BOOLEAN /\ q.net \in BOOLEAN /\ q.listen \in BOOLEAN
    BY <2>3 DEF Policy
  <2>5. \A a, b : Allowed("bind", a, b, n.arg) =
                    (n.arg \in {"local", "short"} \/ (a /\ (n.arg = "fixed" => b)))
    BY DEF Allowed, bind_policy
  <2>6. \E r \in {p, q} : (n.arg \in {"local", "short"} \/ (r.net /\ (n.arg = "fixed" => r.listen)))
                        = (n.arg \in {"local", "short"} \/ (p.net /\ (n.arg = "fixed" => q.listen)))
    BY <2>3, <2>4 DEF Swaps
  <2>7. PICK r \in {p, q} : Allowed(n.op, r.net, r.listen, n.arg) = Allowed(n.op, n.net, n.listen, n.arg)
    BY <1>7, <2>1, <2>2, <2>5, <2>6
  <2> QED
    BY <1>4, <2>7 DEF n
<1> QED
  BY <1>1, <1>5, <1>6, <1>7 DEF Ops

\* The policy a guest meets is one that was asked for, and it lets through no
\* more than it says, when configure does not swap the flags within what a call
\* may see and does not overlap with itself (set_network_policy, sys_bind).
THEOREM PolicyAlwaysHolds == ASSUME ~Torn PROVE Spec => []PolicyHolds
<1>1. Init => PolicyInv
  <2> SUFFICES ASSUME Init PROVE PolicyInv
    OBVIOUS
  <2>1. NetInv
    BY NetInvInit DEF Init
  <2>2. PICK p \in Policies : allow_network = p.net /\ allow_listen = p.listen /\ force = {p}
    BY DEF Init, NetInit
  <2>3. p = [net |-> allow_network, listen |-> allow_listen]
    BY <2>2, NetworkAssumption DEF Policy
  <2>4. /\ \A c \in Pushers : push[c].pc = "idle"
        /\ \A c \in Callers : ncall[c].pc = "idle"
    BY NetworkFacts DEF Init, NetInit
  <2> QED
    BY <2>1, <2>2, <2>3, <2>4
    DEF PolicyInv, OnePush, FlagsInForce, CallsSeen, AllStored, NoneSwaps, Swaps
<1>2. PolicyInv /\ [Next]_vars => PolicyInv'
  <2> SUFFICES ASSUME PolicyInv, [NetNext]_netVars PROVE PolicyInv'
    BY GroupSteps
  <2>1. NetInv'
    BY NetInvStep DEF PolicyInv
  <2>2. CASE NetNext
    <3>1. ASSUME NEW s \in Socks, close(s) PROVE PolicyInv'
      BY <2>1, <3>1 DEF close, PolicyInv, OnePush, FlagsInForce, CallsSeen, AllStored,
                        NoneSwaps, LoadsSeen
    <3> QED
      BY <2>1, <2>2, <3>1, ConfigurePolicy, StorePolicy, PushReturnsPolicy, CallPolicy DEF NetNext
  <2>3. CASE UNCHANGED netVars
    BY <2>1, <2>3 DEF netVars, PolicyInv, OnePush, FlagsInForce, CallsSeen, AllStored,
                      NoneSwaps, LoadsSeen
  <2> QED
    BY <2>2, <2>3
<1>3. PolicyInv => PolicyHolds
  <2> SUFFICES ASSUME PolicyInv PROVE PolicyHolds
    OBVIOUS
  <2>1. PolicyAtomic
    BY DecidedByOne DEF PolicyAtomic
  <2>2. PolicyWhole
    BY DEF PolicyWhole, PolicyInv, FlagsInForce, AllStored
  <2> QED
    BY <2>1, <2>2 DEF PolicyHolds, PolicyInv, NetInv
<1> QED
  BY <1>1, <1>2, <1>3, PTL DEF Spec

-----------------------------------------------------------------------------
(* ExecLinks: the names of the slots.                                      *)

\* A set of numbers that is not empty has a least one.
LEMMA LeastNatural ==
  ASSUME NEW T \in SUBSET Nat, T # {}
  PROVE  \E x \in T : \A y \in T : x <= y
<1> DEFINE R == OpToRel(<, Nat)
<1>1. IsWellFoundedOn(R, Nat)
  BY NatLessThanWellFounded
<1>2. PICK x \in T : \A y \in T : ~(<<y, x>> \in R)
  <2> HIDE DEF R
  <2> QED
    BY <1>1, WFMin
<1>3. ASSUME NEW y \in T PROVE x <= y
  <2>1. ~(<<y, x>> \in {ss \in Nat \X Nat : ss[1] < ss[2]})
    BY <1>2 DEF OpToRel
  <2> QED
    BY <2>1
<1> QED
  BY <1>2, <1>3

\* The weights of the digits are numbers, and not 0.
LEMMA Weights == \A k \in 0 .. CODE_LEN : Base ^ k \in Nat \ {0}
<1> DEFINE T == {k \in 0 .. CODE_LEN : Base ^ k \notin Nat \ {0}}
<1>1. SUFFICES ASSUME T # {} PROVE FALSE
  OBVIOUS
<1>2. T \in SUBSET Nat
  BY ExecAssumption
<1>3. PICK k \in T : \A j \in T : k <= j
  <2> HIDE DEF T
  <2> QED
    BY <1>1, <1>2, LeastNatural
<1>4. k \in 0 .. CODE_LEN /\ Base ^ k \notin Nat \ {0} /\ CODE_LEN \in Nat /\ Base \in Nat \ {0}
  BY <1>3, ExecAssumption
<1>5. k # 0
  BY <1>4, ExecAssumption
<1>6. k - 1 \in 0 .. CODE_LEN /\ k - 1 \notin T /\ k = (k - 1) + 1
  BY <1>3, <1>4, <1>5
<1>7. Base ^ (k - 1) \in Nat \ {0} /\ Base ^ ((k - 1) + 1) = Base * Base ^ (k - 1)
  BY <1>6, ExecAssumption
<1>8. \A a, c \in Nat \ {0} : a * c \in Nat \ {0}
  OBVIOUS
<1> QED
  BY <1>4, <1>6, <1>7, <1>8

\* A number is what its digits make of the number without the last digit.
LEMMA Digits ==
  ASSUME NEW n \in Nat, NEW a \in Nat \ {0}, NEW c \in Nat \ {0}
  PROVE  /\ n \div a \in Nat /\ n % a \in 0 .. a - 1
         /\ n = (n \div a) * a + (n % a)
         /\ (n \div a) \div c = n \div (c * a)
         /\ n < a => n \div a = 0
  OBVIOUS

\* Every number is the name of a slot.
LEMMA CodeIsName == \A idx \in Nat : Code(idx) \in Codes
<1> SUFFICES ASSUME NEW idx \in Nat, NEW i \in 1 .. CODE_LEN
             PROVE  (idx \div Base ^ (CODE_LEN - i)) % Base \in 0 .. Base - 1
  BY DEF Code, Codes
<1>1. CODE_LEN \in Nat /\ Base \in Nat \ {0} /\ CODE_LEN - i \in 0 .. CODE_LEN
  BY ExecAssumption
<1>2. Base ^ (CODE_LEN - i) \in Nat \ {0}
  BY <1>1, Weights
<1> DEFINE w == Base ^ (CODE_LEN - i)
<1> HIDE DEF w
<1>3. idx \div w \in Nat
  BY <1>2, Digits DEF w
<1>4. (idx \div w) % Base \in 0 .. Base - 1
  BY <1>1, <1>3, Digits
<1> QED
  BY <1>4 DEF w

\* Slots are told apart by their names.
LEMMA CodesDiffer ==
  ASSUME NEW x \in 0 .. MAX_ENTRIES - 1, NEW y \in 0 .. MAX_ENTRIES - 1, Code(x) = Code(y)
  PROVE  x = y
<1> DEFINE Same(k) == x \div Base ^ k = y \div Base ^ k
           T == {j \in 0 .. CODE_LEN : ~Same(CODE_LEN - j)}
<1>0. CODE_LEN \in Nat /\ Base \in Nat \ {0} /\ MAX_ENTRIES \in Nat \ {0} /\ x \in Nat /\ y \in Nat
      /\ x < MAX_ENTRIES /\ y < MAX_ENTRIES
  BY ExecAssumption, Weights DEF MAX_ENTRIES
<1>1. T = {}
  <2>1. SUFFICES ASSUME T # {} PROVE FALSE
    OBVIOUS
  <2>2. PICK j \in T : \A i \in T : j <= i
    <3>1. T \in SUBSET Nat
      BY <1>0
    <3> HIDE DEF T
    <3> QED
      BY <2>1, <3>1, LeastNatural
  <2>3. j \in 0 .. CODE_LEN /\ ~Same(CODE_LEN - j)
    BY <2>2
  <2>4. j # 0
    <3>1. x \div MAX_ENTRIES = 0 /\ y \div MAX_ENTRIES = 0
      BY <1>0, Digits
    <3> QED
      BY <1>0, <2>3, <3>1 DEF MAX_ENTRIES
  <2> DEFINE k == CODE_LEN - j
             w == Base ^ k
  <2>5. k \in 0 .. CODE_LEN /\ k + 1 = CODE_LEN - (j - 1) /\ j - 1 \in 0 .. CODE_LEN /\ ~(j <= j - 1)
    BY <1>0, <2>3, <2>4
  <2>6. Same(k + 1)
    <3> HIDE DEF Same, k
    <3> QED
      BY <2>2, <2>5
  <2>7. w \in Nat \ {0} /\ Base ^ (k + 1) = Base * w
    BY <2>5, Weights, ExecAssumption
  <2>8. (x \div w) % Base = (y \div w) % Base
    <3>1. j \in 1 .. CODE_LEN /\ Code(x)[j] = Code(y)[j]
      BY <1>0, <2>3, <2>4
    <3> QED
      BY <3>1 DEF Code
  <2>9. x \div (Base * w) = y \div (Base * w)
    BY <2>6, <2>7
  <2> HIDE DEF w
  <2>10. (x \div w) \div Base = (y \div w) \div Base
    BY <1>0, <2>7, <2>9, Digits
  <2>11. x \div w \in Nat /\ y \div w \in Nat
    BY <1>0, <2>7, Digits
  <2>12. x \div w = ((x \div w) \div Base) * Base + ((x \div w) % Base)
    BY <1>0, <2>11, Digits
  <2>13. y \div w = ((y \div w) \div Base) * Base + ((y \div w) % Base)
    BY <1>0, <2>11, Digits
  <2>14. x \div w = y \div w
    BY <2>8, <2>10, <2>12, <2>13
  <2> QED
    BY <2>3, <2>14 DEF w
<1>2. Same(0)
  <2>1. CODE_LEN \in 0 .. CODE_LEN /\ CODE_LEN - CODE_LEN = 0
    BY <1>0
  <2> HIDE DEF Same
  <2> QED
    BY <1>1, <2>1
<1> QED
  BY <1>0, <1>2, ExecAssumption

\* Fewer than MAX_ENTRIES numbers in a row are different slots.
LEMMA SlotsInARow ==
  ASSUME NEW m \in Nat, NEW n \in Nat, m < n, n - m < MAX_ENTRIES
  PROVE  Code(m % MAX_ENTRIES) # Code(n % MAX_ENTRIES)
<1> DEFINE M == MAX_ENTRIES
<1>1. M \in Nat \ {0}
  BY ExecAssumption, Weights DEF MAX_ENTRIES
<1> HIDE DEF M
<1>2. m % M \in 0 .. M - 1 /\ n % M \in 0 .. M - 1
  BY <1>1, Digits
<1>3. m = (m \div M) * M + (m % M) /\ n = (n \div M) * M + (n % M) /\ m \div M \in Nat /\ n \div M \in Nat
  BY <1>1, Digits
<1>4. m % M # n % M
  <2>1. SUFFICES ASSUME m % M = n % M PROVE FALSE
    OBVIOUS
  <2> DEFINE a == m \div M
             c == n \div M
             r == m % M
  <2>2. m = a * M + r /\ n = c * M + r /\ a \in Nat /\ c \in Nat /\ r \in Nat
    BY <1>2, <1>3, <2>1, <1>1
  <2> HIDE DEF a, c, r
  <2>3. n - m = (c - a) * M
    BY <2>2, <1>1
  <2>4. c - a >= 1
    BY <2>2, <1>1
  <2>5. (c - a) * M >= M
    BY <2>2, <2>4, <1>1
  <2> QED
    BY <2>3, <2>5, <1>1, <2>2 DEF M
<1> QED
  BY <1>2, <1>4, CodesDiffer DEF M

-----------------------------------------------------------------------------
(* ExecLinks: the invariant, however the guest's threads share a path.     *)

Names == Programs \cup {"lower", "none"}
LinkEntry == [box : Boxes \cup {"none"}, program : Names]
PathBuffer == [link : BOOLEAN, program : Names, code : Codes]
ExecPcs == {"idle", "route", "probe", "write", "kernel", "ran", "failed"} \cup Refused
ExecCall == [pc : ExecPcs, program : Names, tries : 0 .. Probes, taken : SUBSET Codes,
             code : Codes, ran : LinkEntry]

ExecTypes ==
  /\ links \in [Codes -> LinkEntry] /\ counter \in [Boxes -> Nat]
  /\ created \in [Boxes -> Seq(Nat)] /\ path \in [Boxes -> PathBuffer]
  /\ ecall \in [Threads_ -> ExecCall]

\* A slot that a sandbox will remove is one of its own.
SlotsOwned == \A b \in Boxes : \A i \in ToSet(created[b]) : links[Code(i)].box = b

\* The state lock: one create at a time in a sandbox.
OneProber ==
  \A g, h \in Threads_ :
    Guests[g] = Guests[h] /\ g # h => ecall[g].pc # "probe" \/ ecall[h].pc # "probe"

\* The slots a create found taken are those the counter passed meanwhile.
Settled(e) ==
  /\ IsFiniteSet(e.taken) /\ Cardinality(e.taken) = e.tries
  /\ e.pc \in {"idle", "route"} => e.tries = 0 /\ e.taken = {}
  /\ e.pc = "ENOSPC" => e.tries = Probes
Spread(e, n) ==
  e.tries <= n /\ \A c \in e.taken : \E m \in n - e.tries .. n - 1 : c = Code(m % MAX_ENTRIES)
TriesTrue ==
  \A g \in Threads_ :
    Settled(ecall[g]) /\ (ecall[g].pc = "probe" => Spread(ecall[g], counter[Guests[g]]))

ExecInv == ExecTypes /\ SlotsOwned /\ OneProber /\ TriesTrue

\* What calls start from, and what a refusal says.
LEMMA ExecFacts ==
  /\ Rest \in ExecCall /\ Settled(Rest)
  /\ Rest.pc = "idle" /\ Rest.tries = 0 /\ Rest.taken = {}
  /\ NoLink \in LinkEntry /\ NoLink.box = "none"
  /\ \A p \in Names : Named(p) \in PathBuffer
  /\ \A c \in Codes : Short(c) \in PathBuffer
  /\ \A p : Refusal(p) \in {"none"} \cup (Refused \ {"ENOSPC"})
  /\ Probes \in Nat /\ MAX_ENTRIES \in Nat \ {0}
  /\ \A n \in Nat : n % MAX_ENTRIES \in Nat /\ Code(n % MAX_ENTRIES) \in Codes
<1>1. Code(0) \in Codes
  BY CodeIsName
<1>2. NoLink \in LinkEntry /\ NoLink.box = "none"
  BY DEF NoLink, LinkEntry, Names
<1>3. Rest = [pc |-> "idle", program |-> "none", tries |-> 0, taken |-> {}, code |-> Code(0), ran |-> NoLink]
  BY DEF Rest
<1>4. Probes \in Nat /\ MAX_ENTRIES \in Nat \ {0}
  BY ExecAssumption, Weights DEF MAX_ENTRIES
<1>5. Rest \in ExecCall
  BY <1>1, <1>2, <1>3, <1>4 DEF ExecCall, ExecPcs, Names
<1>6. Rest.pc = "idle" /\ Rest.tries = 0 /\ Rest.taken = {}
  BY <1>3
<1>7. Settled(Rest)
  BY <1>6, FS_EmptySet DEF Settled
<1>8. \A p \in Names : Named(p) \in PathBuffer
  BY <1>1 DEF Named, PathBuffer
<1>9. \A c \in Codes : Short(c) \in PathBuffer
  BY DEF Short, PathBuffer, Names
<1>10. \A p : Refusal(p) \in {"none"} \cup (Refused \ {"ENOSPC"})
  BY DEF Refusal, Refused
<1>11. \A n \in Nat : n % MAX_ENTRIES \in Nat /\ Code(n % MAX_ENTRIES) \in Codes
  <2> DEFINE M == MAX_ENTRIES
  <2> HIDE DEF M
  <2>1. \A n \in Nat : n % M \in Nat
    BY <1>4, Digits DEF M
  <2> QED
    BY <2>1, CodeIsName DEF M
<1> QED
  BY <1>2, <1>4, <1>5, <1>6, <1>7, <1>8, <1>9, <1>10, <1>11

\* Steps of a call that take no slot.
LEMMA CallStep ==
  ASSUME ExecInv, NEW g \in Threads_, NEW e \in ExecCall,
         ecall' = [ecall EXCEPT ![g] = e], path' \in [Boxes -> PathBuffer],
         UNCHANGED <<links, counter, created>>, Settled(e),
         e.pc = "probe" => /\ e.taken = {} /\ e.tries = 0
                           /\ \A h \in Threads_ : Guests[h] = Guests[g] => ecall[h].pc # "probe"
  PROVE  ExecInv'
<1> USE DEF ExecInv
<1>1. \A h \in Threads_ : ecall'[h] = IF h = g THEN e ELSE ecall[h]
  BY DEF ExecTypes
<1>2. ExecTypes'
  BY DEF ExecTypes
<1>3. SlotsOwned'
  BY DEF SlotsOwned
<1>4. OneProber'
  BY <1>1 DEF OneProber
<1>5. TriesTrue'
  <2>1. Guests[g] \in Boxes /\ counter[Guests[g]] \in Nat
    BY ExecAssumption DEF ExecTypes
  <2>2. e.pc = "probe" => Spread(e, counter[Guests[g]])
    BY <2>1 DEF Spread
  <2> QED
    BY <1>1, <2>2 DEF TriesTrue
<1> QED
  BY <1>2, <1>3, <1>4, <1>5

\* Which these are.
LEMMA CallSteps ==
  ASSUME ExecInv, NEW g \in Threads_,
         call_execve(g) \/ sys_execve(g) \/ no_space(g) \/ write_string(g)
         \/ kernel_execve(g) \/ go_on(g)
  PROVE  ExecInv'
<1> USE DEF ExecInv
<1> DEFINE b == Guests[g]
           x == ecall[g]
<1>1. b \in Boxes /\ x \in ExecCall /\ Settled(x) /\ path[b] \in PathBuffer /\ links \in [Codes -> LinkEntry]
  BY ExecAssumption DEF ExecTypes, TriesTrue
<1>2. ASSUME NEW pc \in ExecPcs \ {"idle", "route", "probe", "ENOSPC"}
      PROVE  LET e == [Rest EXCEPT !.pc = pc, !.program = x.program]
             IN  e \in ExecCall /\ Settled(e) /\ e.pc = pc
  BY <1>1, ExecFacts DEF ExecCall, Settled
<1>3. CASE call_execve(g)
  <2>1. PICK p \in Programs :
          /\ path' = [path EXCEPT ![b] = Named(p)]
          /\ ecall' = [ecall EXCEPT ![g] = [Rest EXCEPT !.pc = "route", !.program = p]]
    BY <1>3 DEF call_execve
  <2> DEFINE e == [Rest EXCEPT !.pc = "route", !.program = p]
  <2>2. e \in ExecCall /\ Settled(e) /\ e.pc = "route"
    BY ExecFacts DEF ExecCall, ExecPcs, Names, Settled
  <2>3. path' \in [Boxes -> PathBuffer]
    BY <1>1, <2>1, ExecFacts DEF ExecTypes, Names
  <2>4. UNCHANGED <<links, counter, created>>
    BY <1>3 DEF call_execve
  <2> HIDE DEF e
  <2> QED
    BY <2>1, <2>2, <2>3, <2>4, CallStep DEF e
<1>4. CASE sys_execve(g)
  <2>1. UNCHANGED <<links, counter, created, path>> /\ x.pc = "route"
        /\ \A h \in Threads_ : Guests[h] = b => ecall[h].pc # "probe"
    BY <1>4 DEF sys_execve
  <2>2. path' \in [Boxes -> PathBuffer]
    BY <2>1 DEF ExecTypes
  <2>3. CASE Refusal(path[b]) # "none"
    <3> DEFINE e == [Rest EXCEPT !.pc = Refusal(path[b]), !.program = x.program]
    <3>1. ecall' = [ecall EXCEPT ![g] = e]
      BY <1>4, <2>3 DEF sys_execve, Replied
    <3>2. Refusal(path[b]) \in ExecPcs \ {"idle", "route", "probe", "ENOSPC"}
      BY <2>3, ExecFacts DEF ExecPcs, Refused
    <3>3. e \in ExecCall /\ Settled(e) /\ e.pc # "probe"
      BY <1>2, <3>2
    <3> HIDE DEF e
    <3> QED
      BY <2>1, <2>2, <3>1, <3>3, CallStep
  <2>4. CASE Refusal(path[b]) = "none"
    <3> DEFINE e == [x EXCEPT !.pc = IF Redirected(path[b].program) THEN "probe" ELSE "kernel"]
    <3>1. ecall' = [ecall EXCEPT ![g] = e]
      BY <1>4, <2>4 DEF sys_execve, ExecTypes
    <3>2. e \in ExecCall /\ Settled(e) /\ e.taken = {} /\ e.tries = 0
      BY <1>1, <2>1 DEF ExecCall, ExecPcs, Settled
    <3> HIDE DEF e
    <3> QED
      BY <2>1, <2>2, <3>1, <3>2, CallStep
  <2> QED
    BY <2>3, <2>4
<1>5. CASE no_space(g)
  <2> DEFINE e == [x EXCEPT !.pc = "ENOSPC"]
  <2>1. ecall' = [ecall EXCEPT ![g] = e] /\ UNCHANGED <<links, counter, created, path>>
    BY <1>5 DEF no_space, ExecTypes
  <2>2. e \in ExecCall /\ Settled(e) /\ e.pc = "ENOSPC"
    BY <1>1, <1>5 DEF ExecCall, ExecPcs, Refused, Settled, no_space
  <2>3. path' \in [Boxes -> PathBuffer]
    BY <2>1 DEF ExecTypes
  <2> HIDE DEF e
  <2> QED
    BY <2>1, <2>2, <2>3, CallStep
<1>6. CASE write_string(g)
  <2>1. UNCHANGED <<links, counter, created>> /\ x.pc = "write"
    BY <1>6 DEF write_string
  <2>2. CASE path' = [path EXCEPT ![b] = Short(x.code)] /\ ecall' = [ecall EXCEPT ![g].pc = "kernel"]
    <3> DEFINE e == [x EXCEPT !.pc = "kernel"]
    <3>1. ecall' = [ecall EXCEPT ![g] = e]
      BY <2>2 DEF ExecTypes
    <3>2. e \in ExecCall /\ Settled(e) /\ e.pc = "kernel"
      BY <1>1 DEF ExecCall, ExecPcs, Settled
    <3>3. x.code \in Codes
      BY <1>1 DEF ExecCall
    <3>4. path' \in [Boxes -> PathBuffer]
      BY <1>1, <2>2, <3>3, ExecFacts DEF ExecTypes
    <3> HIDE DEF e
    <3> QED
      BY <2>1, <3>1, <3>2, <3>4, CallStep
  <2>3. CASE UNCHANGED path /\ Replied(g, "EFAULT")
    <3> DEFINE e == [Rest EXCEPT !.pc = "EFAULT", !.program = x.program]
    <3>1. ecall' = [ecall EXCEPT ![g] = e] /\ path' \in [Boxes -> PathBuffer]
      BY <2>3 DEF Replied, ExecTypes
    <3>2. e \in ExecCall /\ Settled(e) /\ e.pc = "EFAULT"
      BY <1>2 DEF ExecPcs, Refused
    <3> HIDE DEF e
    <3> QED
      BY <2>1, <3>1, <3>2, CallStep
  <2> QED
    BY <1>6, <2>2, <2>3 DEF write_string
<1>7. CASE kernel_execve(g)
  <2>1. UNCHANGED <<links, counter, created, path>>
    BY <1>7 DEF kernel_execve
  <2>2. path' \in [Boxes -> PathBuffer]
    BY <2>1 DEF ExecTypes
  <2>3. CASE ecall' = [ecall EXCEPT ![g].pc = "ran", ![g].ran = Leads(b)]
    <3> DEFINE e == [x EXCEPT !.pc = "ran", !.ran = Leads(b)]
    <3>1. ecall' = [ecall EXCEPT ![g] = e]
      BY <2>3 DEF ExecTypes
    <3>2. Leads(b) \in LinkEntry
      BY <1>1 DEF Leads, LinkEntry, PathBuffer
    <3>3. e \in ExecCall /\ Settled(e) /\ e.pc = "ran"
      BY <1>1, <3>2 DEF ExecCall, ExecPcs, Settled
    <3> HIDE DEF e
    <3> QED
      BY <2>1, <2>2, <3>1, <3>3, CallStep
  <2>4. CASE Replied(g, "failed")
    <3> DEFINE e == [Rest EXCEPT !.pc = "failed", !.program = x.program]
    <3>1. ecall' = [ecall EXCEPT ![g] = e]
      BY <2>4 DEF Replied
    <3>2. e \in ExecCall /\ Settled(e) /\ e.pc = "failed"
      BY <1>2 DEF ExecPcs, Refused
    <3> HIDE DEF e
    <3> QED
      BY <2>1, <2>2, <3>1, <3>2, CallStep
  <2> QED
    BY <1>7, <2>3, <2>4 DEF kernel_execve
<1>8. CASE go_on(g)
  <2>1. UNCHANGED <<links, counter, created>> /\ ecall' = [ecall EXCEPT ![g] = Rest]
    BY <1>8 DEF go_on
  <2>2. path' \in [Boxes -> PathBuffer]
    BY <1>1, <1>8, ExecFacts DEF go_on, ExecTypes, Names
  <2> QED
    BY <2>1, <2>2, CallStep, ExecFacts
<1> QED
  BY <1>3, <1>4, <1>5, <1>6, <1>7, <1>8

\* The slots of a sandbox, with one more and without any.
LEMMA SlotsAppend ==
  ASSUME NEW s \in Seq(Nat), NEW n \in Nat
  PROVE  /\ Append(s, n) \in Seq(Nat) /\ ToSet(Append(s, n)) = ToSet(s) \cup {n}
         /\ ToSet(s) \subseteq Nat /\ <<>> \in Seq(Nat) /\ ToSet(<<>>) = {}
<1>1. /\ Append(s, n) \in Seq(Nat) /\ Len(Append(s, n)) = Len(s) + 1 /\ Len(s) \in Nat
      /\ \A i \in 1..Len(s) : Append(s, n)[i] = s[i] /\ Append(s, n)[Len(s) + 1] = n
      /\ Append(s, n)[Len(s) + 1] = n
  BY AppendProperties
<1>2. DOMAIN s = 1..Len(s) /\ DOMAIN Append(s, n) = 1..Len(s) + 1
  BY <1>1
<1>3. ToSet(Append(s, n)) = ToSet(s) \cup {n}
  BY <1>1, <1>2 DEF ToSet
<1>4. ToSet(s) \subseteq Nat
  BY <1>2 DEF ToSet
<1>5. <<>> \in Seq(Nat) /\ ToSet(<<>>) = {}
  BY DEF ToSet
<1> QED
  BY <1>1, <1>3, <1>4, <1>5

\* A create tries the next slot.
LEMMA ProbeStep ==
  ASSUME ExecInv, NEW g \in Threads_, probe(g)
  PROVE  ExecInv'
<1> USE DEF ExecInv
<1> DEFINE b == Guests[g]
           x == ecall[g]
           n == counter[b]
           idx == n % MAX_ENTRIES
           c == Code(idx)
<1>1. b \in Boxes /\ x \in ExecCall /\ Settled(x) /\ n \in Nat /\ x.pc = "probe" /\ x.tries < Probes
      /\ Spread(x, n) /\ x.tries \in 0 .. Probes /\ x.taken \subseteq Codes
  BY ExecAssumption DEF ExecTypes, TriesTrue, probe, ExecCall
<1>2. idx \in Nat /\ c \in Codes
  BY <1>1, ExecFacts
<1>3. counter' = [counter EXCEPT ![b] = n + 1] /\ path' = path
  BY DEF probe
<1>4. c \notin x.taken
  <2> SUFFICES ASSUME c \in x.taken PROVE FALSE
    OBVIOUS
  <2>1. PICK m \in n - x.tries .. n - 1 : c = Code(m % MAX_ENTRIES)
    BY <1>1 DEF Spread
  <2>2. m \in Nat /\ m < n /\ n - m < MAX_ENTRIES
    BY <1>1, ExecAssumption, ExecFacts DEF Spread
  <2> QED
    BY <1>1, <2>1, <2>2, SlotsInARow
<1>5. PICK e \in ExecCall :
        /\ ecall' = [ecall EXCEPT ![g] = e] /\ Settled(e)
        /\ e.pc = "probe" => Spread(e, n + 1)
  <2>1. CASE links[c] = NoLink
    <3> DEFINE e == [x EXCEPT !.pc = "write", !.code = c]
    <3>1. ecall' = [ecall EXCEPT ![g] = e]
      BY <2>1 DEF probe, ExecTypes
    <3>2. e \in ExecCall /\ Settled(e) /\ e.pc = "write"
      BY <1>1, <1>2 DEF ExecCall, ExecPcs, Settled
    <3> HIDE DEF e
    <3> QED
      BY <3>1, <3>2
  <2>2. CASE links[c] # NoLink
    <3> DEFINE t == x.taken \cup {c}
               e == [x EXCEPT !.tries = @ + 1, !.taken = t]
    <3>1. ecall' = [ecall EXCEPT ![g] = e]
      BY <2>2 DEF probe, ExecTypes
    <3>2. IsFiniteSet(t) /\ Cardinality(t) = x.tries + 1
      BY <1>1, <1>4, FS_AddElement DEF Settled
    <3>3. t \subseteq Codes /\ x.tries + 1 \in 0 .. Probes
      BY <1>1, <1>2, ExecFacts
    <3>4. \A d \in t : \E m \in n - x.tries .. n : d = Code(m % MAX_ENTRIES)
      <4>1. \A d \in x.taken : \E m \in n - x.tries .. n - 1 : d = Code(m % MAX_ENTRIES)
        BY <1>1 DEF Spread
      <4>2. n \in n - x.tries .. n /\ n - x.tries .. n - 1 \subseteq n - x.tries .. n
        BY <1>1
      <4> QED
        BY <4>1, <4>2
    <3> HIDE DEF t, c
    <3>5. e \in ExecCall /\ e.pc = "probe" /\ e.tries = x.tries + 1 /\ e.taken = t
      BY <1>1, <3>3 DEF ExecCall, ExecPcs
    <3> HIDE DEF e
    <3>6. Settled(e)
      BY <3>2, <3>5 DEF Settled
    <3>7. Spread(e, n + 1)
      <4>1. (n + 1) - e.tries = n - x.tries /\ (n + 1) - 1 = n /\ e.tries <= n + 1
        BY <1>1, <3>5 DEF Spread
      <4> QED
        BY <3>4, <3>5, <4>1 DEF Spread
    <3> QED
      BY <3>1, <3>5, <3>6, <3>7
  <2> QED
    BY <2>1, <2>2
<1>6. \A h \in Threads_ : ecall'[h] = IF h = g THEN e ELSE ecall[h]
  BY <1>5 DEF ExecTypes
<1>7. \A a \in Boxes : counter'[a] = IF a = b THEN n + 1 ELSE counter[a]
  BY <1>3 DEF ExecTypes
<1>8. OneProber'
  BY <1>1, <1>6 DEF OneProber
<1>9. TriesTrue'
  <2> SUFFICES ASSUME NEW h \in Threads_
               PROVE  Settled(ecall'[h]) /\ (ecall'[h].pc = "probe" => Spread(ecall'[h], counter'[Guests[h]]))
    BY DEF TriesTrue, Settled, Spread
  <2>1. CASE h = g
    BY <1>1, <1>5, <1>6, <1>7, <2>1
  <2>2. CASE h # g
    <3>1. Guests[h] \in Boxes /\ ecall'[h] = ecall[h]
      BY <1>6, <2>2, ExecAssumption
    <3>2. ecall[h].pc = "probe" => Guests[h] # b
      BY <1>1, <2>2 DEF OneProber
    <3> QED
      BY <1>7, <3>1, <3>2 DEF TriesTrue
  <2> QED
    BY <2>1, <2>2
<1>10. CASE links[c] = NoLink
  <2> DEFINE l == [box |-> b, program |-> path[b].program]
  <2>1. links' = [links EXCEPT ![c] = l] /\ created' = [created EXCEPT ![b] = Append(@, idx)]
    BY <1>10 DEF probe
  <2>2. l \in LinkEntry
    BY <1>1 DEF ExecTypes, LinkEntry, PathBuffer
  <2>3. created[b] \in Seq(Nat) /\ Append(created[b], idx) \in Seq(Nat)
        /\ ToSet(Append(created[b], idx)) = ToSet(created[b]) \cup {idx}
    BY <1>1, <1>2, SlotsAppend DEF ExecTypes
  <2>4. ExecTypes'
    BY <1>1, <1>2, <1>3, <1>5, <2>1, <2>2, <2>3 DEF ExecTypes
  <2>5. SlotsOwned'
    <3> SUFFICES ASSUME NEW a \in Boxes, NEW i \in ToSet(created'[a])
                 PROVE  links'[Code(i)].box = a
      BY DEF SlotsOwned
    <3>1. a # b \/ i \in ToSet(created[b]) \/ i = idx
      BY <1>1, <2>1, <2>3 DEF ExecTypes
    <3>2. CASE i \in ToSet(created[a])
      <4>1. links[Code(i)].box = a
        BY <3>2 DEF SlotsOwned
      <4>2. Code(i) # c
        BY <1>10, <4>1, ExecFacts, ExecAssumption
      <4>3. i \in Nat
        BY <3>2, SlotsAppend DEF ExecTypes
      <4>4. links'[Code(i)] = links[Code(i)]
        BY <2>1, <4>2, <4>3, CodeIsName DEF ExecTypes
      <4> QED
        BY <4>1, <4>4
    <3>3. CASE a = b /\ i = idx
      BY <1>2, <2>1, <3>3 DEF ExecTypes
    <3> QED
      BY <2>1, <3>1, <3>2, <3>3 DEF ExecTypes
  <2> QED
    BY <1>8, <1>9, <2>4, <2>5
<1>11. CASE links[c] # NoLink
  <2>1. UNCHANGED <<links, created>>
    BY <1>11 DEF probe
  <2>2. ExecTypes'
    BY <1>1, <1>3, <1>5, <2>1 DEF ExecTypes
  <2>3. SlotsOwned'
    BY <2>1 DEF SlotsOwned
  <2> QED
    BY <1>8, <1>9, <2>2, <2>3
<1> QED
  BY <1>10, <1>11

\* What the drop of a sandbox leaves of the links.
LEMMA DropFacts ==
  ASSUME ExecInv, NEW b \in Boxes, drop(b)
  PROVE  /\ created' = [created EXCEPT ![b] = <<>>] /\ counter' = [counter EXCEPT ![b] = 0]
         /\ path' = [path EXCEPT ![b] = Named("lower")] /\ ecall' = ecall
         /\ \A g \in Threads_ : Guests[g] = b => ecall[g].pc = "idle"
         /\ links' \in [Codes -> LinkEntry]
         /\ \A c \in Codes : links[c].box # b => links'[c] = links[c]
         /\ "crash" \notin Habits =>
              \A c \in Codes : links'[c] = IF c \in drop_links(b) THEN NoLink ELSE links[c]
<1> USE DEF ExecInv
<1>1. \E crash \in IF "crash" \in Habits THEN BOOLEAN ELSE {FALSE} :
         /\ drops < MaxDrops /\ \A g \in Threads_ : Guests[g] = b => ecall[g].pc = "idle"
         /\ links' = IF crash THEN links
                     ELSE [c \in Codes |-> IF c \in drop_links(b) THEN NoLink ELSE links[c]]
         /\ created' = [created EXCEPT ![b] = <<>>] /\ counter' = [counter EXCEPT ![b] = 0]
         /\ path' = [path EXCEPT ![b] = Named("lower")]
         /\ UNCHANGED ecall
  BY DEF drop
<1> DEFINE cut == [c \in Codes |-> IF c \in drop_links(b) THEN NoLink ELSE links[c]]
<1>2. (links' = links /\ "crash" \in Habits) \/ links' = cut
  BY <1>1
<1>3. \A c \in Codes : c \in drop_links(b) => links[c].box = b
  BY DEF drop_links, SlotsOwned
<1>4. links \in [Codes -> LinkEntry] /\ cut \in [Codes -> LinkEntry]
  BY ExecFacts DEF ExecTypes
<1>5. \A c \in Codes : cut[c] = IF c \in drop_links(b) THEN NoLink ELSE links[c]
  OBVIOUS
<1> HIDE DEF cut
<1> QED
  BY <1>1, <1>2, <1>3, <1>4, <1>5

\* A sandbox goes.
LEMMA DropStep ==
  ASSUME ExecInv, NEW b \in Boxes, drop(b)
  PROVE  ExecInv'
<1> USE DEF ExecInv
<1>1. \A a \in Boxes : /\ created'[a] = IF a = b THEN <<>> ELSE created[a]
                       /\ counter'[a] = IF a = b THEN 0 ELSE counter[a]
  BY DropFacts DEF ExecTypes
<1>2. ExecTypes'
  <2>1. created' \in [Boxes -> Seq(Nat)]
    BY DropFacts, SlotsAppend DEF ExecTypes
  <2>2. path' \in [Boxes -> PathBuffer]
    <3>1. Named("lower") \in PathBuffer
      BY ExecFacts DEF Names
    <3>2. path' = [path EXCEPT ![b] = Named("lower")] /\ path \in [Boxes -> PathBuffer]
      BY DropFacts DEF ExecTypes
    <3> QED
      BY <3>1, <3>2
  <2>3. counter' \in [Boxes -> Nat]
    <3>1. counter' = [counter EXCEPT ![b] = 0] /\ counter \in [Boxes -> Nat]
      BY DropFacts DEF ExecTypes
    <3> QED
      BY <3>1
  <2>4. ecall' \in [Threads_ -> ExecCall]
    BY DropFacts DEF ExecTypes
  <2>5. links' \in [Codes -> LinkEntry]
    BY DropFacts
  <2> QED
    BY <2>1, <2>2, <2>3, <2>4, <2>5 DEF ExecTypes
<1>3. SlotsOwned'
  <2> SUFFICES ASSUME NEW a \in Boxes, NEW i \in ToSet(created'[a])
               PROVE  links'[Code(i)].box = a
    BY DEF SlotsOwned
  <2>1. a # b /\ i \in ToSet(created[a])
    BY <1>1 DEF ToSet
  <2>2. i \in Nat /\ Code(i) \in Codes
    BY <2>1, SlotsAppend, CodeIsName DEF ExecTypes
  <2>3. links[Code(i)].box = a
    BY <2>1 DEF SlotsOwned
  <2> QED
    BY <2>1, <2>2, <2>3, DropFacts
<1>4. OneProber'
  BY DropFacts DEF OneProber
<1>5. TriesTrue'
  <2> SUFFICES ASSUME NEW h \in Threads_
               PROVE  Settled(ecall[h]) /\ (ecall[h].pc = "probe" => Spread(ecall[h], counter'[Guests[h]]))
    BY DropFacts DEF TriesTrue, Settled, Spread
  <2>1. Guests[h] \in Boxes /\ (ecall[h].pc = "probe" => Guests[h] # b)
    BY DropFacts, ExecAssumption
  <2> QED
    BY <1>1, <2>1 DEF TriesTrue
<1> QED
  BY <1>2, <1>3, <1>4, <1>5

\* From the start on.
LEMMA ExecInvInit == ExecInit => ExecInv
<1> SUFFICES ASSUME ExecInit PROVE ExecInv
  OBVIOUS
<1>1. ExecTypes
  BY ExecFacts, SlotsAppend DEF ExecInit, ExecTypes, Names
<1>2. SlotsOwned
  BY DEF SlotsOwned, ExecInit, ToSet
<1>3. OneProber
  BY ExecFacts DEF OneProber, ExecInit
<1>4. TriesTrue
  BY ExecFacts DEF TriesTrue, ExecInit
<1> QED
  BY <1>1, <1>2, <1>3, <1>4 DEF ExecInv
LEMMA ExecInvStep == ExecInv /\ [ExecNext]_execVars => ExecInv'
<1> SUFFICES ASSUME ExecInv, [ExecNext]_execVars PROVE ExecInv'
  OBVIOUS
<1>1. CASE ExecNext
  BY <1>1, CallSteps, ProbeStep, DropStep DEF ExecNext
<1>2. CASE UNCHANGED execVars
  BY <1>2 DEF execVars, ExecInv, ExecTypes, SlotsOwned, OneProber, TriesTrue, Settled, Spread
<1> QED
  BY <1>1, <1>2

\* A slot is never tried twice in one create, across the wrap of the counter and
\* whatever other sandboxes take and free meanwhile (Symlinks::create).
THEOREM AlwaysProbesSpread == ExecInit /\ [][ExecNext]_execVars => []ProbesSpread
<1>1. ExecInv => ProbesSpread
  BY DEF ExecInv, TriesTrue, Settled, ProbesSpread
<1> QED
  BY <1>1, ExecInvInit, ExecInvStep, PTL

-----------------------------------------------------------------------------
(* ExecLinks: every link has an owner, as long as no sandbox is dropped    *)
(* without its drop.                                                       *)

LEMMA OwnersStep ==
  ASSUME "crash" \notin Habits, ExecInv, LinksOwned, [ExecNext]_execVars
  PROVE  LinksOwned'
<1> USE DEF ExecInv
<1> DEFINE Owned(c, b) == links[c].box = b <=> \E i \in ToSet(created[b]) : Code(i) = c
<1>1. SUFFICES ASSUME ExecNext PROVE LinksOwned'
  BY DEF execVars, LinksOwned
<1>2. CASE UNCHANGED <<links, created>>
  BY <1>2 DEF LinksOwned
<1>3. ASSUME NEW g \in Threads_, probe(g), links[Code(counter[Guests[g]] % MAX_ENTRIES)] = NoLink
      PROVE  LinksOwned'
  <2> DEFINE a == Guests[g]
             idx == counter[a] % MAX_ENTRIES
             d == Code(idx)
  <2>1. a \in Boxes /\ counter[a] \in Nat
    BY ExecAssumption DEF ExecTypes
  <2>2. idx \in Nat /\ d \in Codes
    BY <2>1, ExecFacts
  <2>3. /\ links' = [links EXCEPT ![d] = [box |-> a, program |-> path[a].program]]
        /\ created' = [created EXCEPT ![a] = Append(@, idx)]
    BY <1>3 DEF probe
  <2>4. created[a] \in Seq(Nat) /\ ToSet(Append(created[a], idx)) = ToSet(created[a]) \cup {idx}
    BY <2>1, <2>2, SlotsAppend DEF ExecTypes
  <2>5. /\ \A b \in Boxes : ToSet(created'[b]) = IF b = a THEN ToSet(created[a]) \cup {idx} ELSE ToSet(created[b])
        /\ \A c \in Codes : links'[c].box = IF c = d THEN a ELSE links[c].box
    BY <2>1, <2>2, <2>3, <2>4 DEF ExecTypes
  <2>6. links[d].box \notin Boxes
    BY <1>3, ExecFacts, ExecAssumption
  <2> SUFFICES ASSUME NEW c \in Codes, NEW b \in Boxes
               PROVE  links'[c].box = b <=> \E i \in ToSet(created'[b]) : Code(i) = c
    BY DEF LinksOwned
  <2>7. links[c].box = b <=> \E i \in ToSet(created[b]) : Code(i) = c
    BY DEF LinksOwned
  <2> HIDE DEF d, idx, a
  <2>8. d = Code(idx)
    BY DEF d
  <2> QED
    BY <2>1, <2>5, <2>6, <2>7, <2>8
<1>4. ASSUME NEW b \in Boxes, drop(b) PROVE LinksOwned'
  <2>1. /\ \A c \in Codes : links'[c] = IF c \in drop_links(b) THEN NoLink ELSE links[c]
        /\ \A a \in Boxes : created'[a] = IF a = b THEN <<>> ELSE created[a]
    BY <1>4, DropFacts DEF ExecTypes
  <2> SUFFICES ASSUME NEW c \in Codes, NEW a \in Boxes
               PROVE  links'[c].box = a <=> \E i \in ToSet(created'[a]) : Code(i) = c
    BY DEF LinksOwned
  <2>2. links[c].box = a <=> \E i \in ToSet(created[a]) : Code(i) = c
    BY DEF LinksOwned
  <2>3. links[c].box = b <=> c \in drop_links(b)
    BY DEF LinksOwned, drop_links
  <2>4. ToSet(<<>>) = {}
    BY DEF ToSet
  <2> QED
    BY <2>1, <2>2, <2>3, <2>4, ExecFacts, ExecAssumption
<1>5. ASSUME NEW g \in Threads_, probe(g) PROVE LinksOwned'
  BY <1>2, <1>3, <1>5 DEF probe
<1> QED
  BY <1>1, <1>2, <1>4, <1>5
  DEF ExecNext, call_execve, sys_execve, no_space, write_string, kernel_execve, go_on

-----------------------------------------------------------------------------
(* ExecLinks: what runs, when threads of one memory take turns at its      *)
(* path.                                                                   *)

RunsAlone ==
  \A g, h \in Threads_ :
    Guests[g] = Guests[h] /\ g # h => ecall[g].pc = "idle" \/ ecall[h].pc = "idle"
\* The link of a call is there, and leads where it should.
Mine(g) == links[ecall[g].code] = [box |-> Guests[g], program |-> ecall[g].program]
PathOf(g) == path[Guests[g]]
CallTrue(g) ==
  /\ ecall[g].pc \in {"route", "probe", "write"} \cup Refused => PathOf(g) = Named(ecall[g].program)
  /\ ecall[g].pc = "write" => Mine(g)
  /\ ecall[g].pc = "kernel" => \/ PathOf(g) = Named(ecall[g].program)
                               \/ PathOf(g) = Short(ecall[g].code) /\ Mine(g)
  /\ ecall[g].pc = "ran" => ecall[g].ran = [box |-> Guests[g], program |-> ecall[g].program]
AloneInv == ExecInv /\ RunsAlone /\ \A g \in Threads_ : CallTrue(g)

\* A step of one call leaves the others as they are: those of its sandbox are
\* idle, and their links are not taken for free.
LEMMA OthersTrue ==
  ASSUME AloneInv, ExecInv', NEW g \in Threads_, ecall[g].pc # "idle" \/ OnlyOne(g),
         \A h \in Threads_ : h # g => ecall'[h] = ecall[h],
         \A b \in Boxes : b # Guests[g] => path'[b] = path[b],
         \A c \in Codes : links[c] # NoLink => links'[c] = links[c],
         CallTrue(g)'
  PROVE  AloneInv'
<1> USE DEF AloneInv
<1>1. \A h \in Threads_ : h # g /\ Guests[h] = Guests[g] => ecall[h].pc = "idle"
  BY DEF RunsAlone, OnlyOne
<1>2. RunsAlone'
  BY <1>1 DEF RunsAlone
<1>3. ASSUME NEW h \in Threads_, h # g PROVE CallTrue(h)'
  <2>1. CASE ecall[h].pc = "idle"
    BY <1>3, <2>1 DEF CallTrue, Refused
  <2>2. CASE ecall[h].pc # "idle"
    <3>1. Guests[h] # Guests[g] /\ Guests[h] \in Boxes /\ ecall[h] \in ExecCall
      BY <1>1, <1>3, <2>2, ExecAssumption DEF ExecInv, ExecTypes
    <3>2. path'[Guests[h]] = path[Guests[h]] /\ ecall'[h] = ecall[h] /\ CallTrue(h)
      BY <1>3, <3>1
    <3>3. Mine(h) => Mine(h)'
      <4>1. ecall[h].code \in Codes
        BY <3>1 DEF ExecCall
      <4>2. Mine(h) => links[ecall[h].code] # NoLink
        BY <3>1, ExecAssumption, ExecFacts DEF Mine
      <4> QED
        BY <3>2, <4>1, <4>2 DEF Mine
    <3> QED
      BY <3>2, <3>3 DEF CallTrue, PathOf
  <2> QED
    BY <2>1, <2>2
<1> QED
  BY <1>2, <1>3

\* A call goes on.
LEMMA AloneCalls ==
  ASSUME "shared" \notin Habits, AloneInv, ExecInv', NEW g \in Threads_,
         call_execve(g) \/ sys_execve(g) \/ probe(g) \/ no_space(g) \/ write_string(g)
         \/ kernel_execve(g) \/ go_on(g)
  PROVE  AloneInv'
<1> DEFINE b == Guests[g]
           x == ecall[g]
<1>1. /\ b \in Boxes /\ x \in ExecCall /\ CallTrue(g) /\ path \in [Boxes -> PathBuffer]
      /\ links \in [Codes -> LinkEntry] /\ ecall \in [Threads_ -> ExecCall]
  BY ExecAssumption DEF AloneInv, ExecInv, ExecTypes
<1>2. x.pc # "idle" \/ OnlyOne(g)
  BY DEF call_execve, sys_execve, probe, no_space, write_string, kernel_execve, go_on, Turn, Refused
<1>3. \A h \in Threads_ : h # g => ecall'[h] = ecall[h]
  BY <1>1 DEF call_execve, sys_execve, probe, no_space, write_string, kernel_execve, go_on, Replied
<1>4. \A a \in Boxes : a # b => path'[a] = path[a]
  BY <1>1 DEF call_execve, sys_execve, probe, no_space, write_string, kernel_execve, go_on
<1>5. \A c \in Codes : links[c] # NoLink => links'[c] = links[c]
  BY <1>1 DEF call_execve, sys_execve, probe, no_space, write_string, kernel_execve, go_on
<1>6. ASSUME NEW pc \in Refused \cup {"failed"}, Replied(g, pc), UNCHANGED path,
             pc \in Refused => path[b] = Named(x.program)
      PROVE  CallTrue(g)'
  <2>1. ecall'[g] = [Rest EXCEPT !.pc = pc, !.program = x.program]
    BY <1>1, <1>6 DEF Replied
  <2>2. Rest \in ExecCall
    BY ExecFacts
  <2>3. ecall'[g].pc = pc /\ ecall'[g].program = x.program
    BY <2>1, <2>2 DEF ExecCall
  <2> QED
    BY <1>6, <2>3 DEF CallTrue, PathOf, Refused
<1>7. CallTrue(g)'
  <2>1. CASE call_execve(g)
    <3>1. PICK p \in Programs :
            /\ path' = [path EXCEPT ![b] = Named(p)]
            /\ ecall' = [ecall EXCEPT ![g] = [Rest EXCEPT !.pc = "route", !.program = p]]
      BY <2>1 DEF call_execve
    <3>2. ecall'[g].pc = "route" /\ ecall'[g].program = p
      BY <1>1, <3>1, ExecFacts DEF ExecCall
    <3>3. PathOf(g)' = Named(p)
      BY <1>1, <3>1 DEF PathOf
    <3> QED
      BY <3>2, <3>3 DEF CallTrue
  <2>2. CASE sys_execve(g)
    <3>1. x.pc = "route" /\ path' = path /\ path[b] = Named(x.program)
      BY <1>1, <2>2 DEF sys_execve, CallTrue, PathOf
    <3>2. CASE Refusal(path[b]) # "none"
      <4>1. Replied(g, Refusal(path[b])) /\ Refusal(path[b]) \in Refused
        BY <2>2, <3>2, ExecFacts DEF sys_execve
      <4> QED
        BY <1>6, <3>1, <4>1
    <3>3. CASE Refusal(path[b]) = "none"
      <4>1. ecall'[g].program = x.program /\ ecall'[g].pc \in {"probe", "kernel"}
        BY <1>1, <2>2, <3>3 DEF sys_execve, ExecCall
      <4> QED
        BY <3>1, <4>1 DEF CallTrue, PathOf, Refused
    <3> QED
      BY <3>2, <3>3
  <2>3. CASE probe(g)
    <3> DEFINE c == Code(counter[b] % MAX_ENTRIES)
    <3>1. x.pc = "probe" /\ path' = path /\ path[b] = Named(x.program) /\ c \in Codes
      BY <1>1, <2>3, ExecFacts DEF probe, CallTrue, PathOf, AloneInv, ExecInv, ExecTypes
    <3>2. CASE links[c] = NoLink
      <4>1. ecall'[g].program = x.program /\ ecall'[g].pc = "write" /\ ecall'[g].code = c
        BY <1>1, <2>3, <3>2 DEF probe, ExecCall
      <4>2. links'[c] = [box |-> b, program |-> path[b].program]
        BY <1>1, <2>3, <3>1, <3>2 DEF probe
      <4>3. path[b].program = x.program
        BY <3>1 DEF Named
      <4> QED
        BY <3>1, <4>1, <4>2, <4>3 DEF CallTrue, PathOf, Mine
    <3>3. CASE links[c] # NoLink
      <4>1. ecall'[g].program = x.program /\ ecall'[g].pc = "probe"
        BY <1>1, <2>3, <3>1, <3>3 DEF probe, ExecCall
      <4> QED
        BY <3>1, <4>1 DEF CallTrue, PathOf
    <3> QED
      BY <3>2, <3>3
  <2>4. CASE no_space(g)
    <3>1. path' = path /\ path[b] = Named(x.program)
      BY <1>1, <2>4 DEF no_space, CallTrue, PathOf
    <3>2. ecall'[g].program = x.program /\ ecall'[g].pc = "ENOSPC"
      BY <1>1, <2>4 DEF no_space, ExecCall
    <3> QED
      BY <3>1, <3>2 DEF CallTrue, PathOf
  <2>5. CASE write_string(g)
    <3>1. x.pc = "write" /\ links' = links /\ path[b] = Named(x.program) /\ Mine(g)
      BY <1>1, <2>5 DEF write_string, CallTrue, PathOf
    <3>2. CASE path' = [path EXCEPT ![b] = Short(x.code)] /\ ecall' = [ecall EXCEPT ![g].pc = "kernel"]
      <4>1. ecall'[g].pc = "kernel" /\ ecall'[g].program = x.program /\ ecall'[g].code = x.code
        BY <1>1, <3>2 DEF ExecCall
      <4>2. PathOf(g)' = Short(x.code)
        BY <1>1, <3>2 DEF PathOf
      <4>3. Mine(g)'
        BY <3>1, <4>1 DEF Mine
      <4> QED
        BY <4>1, <4>2, <4>3 DEF CallTrue, Refused
    <3>3. CASE UNCHANGED path /\ Replied(g, "EFAULT")
      BY <1>6, <3>1, <3>3 DEF Refused
    <3> QED
      BY <2>5, <3>2, <3>3 DEF write_string
  <2>6. CASE kernel_execve(g)
    <3>1. x.pc = "kernel" /\ path' = path
      BY <2>6 DEF kernel_execve
    <3>2. CASE ecall' = [ecall EXCEPT ![g].pc = "ran", ![g].ran = Leads(b)]
      <4>1. ecall'[g].pc = "ran" /\ ecall'[g].program = x.program /\ ecall'[g].ran = Leads(b)
        BY <1>1, <3>2 DEF ExecCall
      <4>2. Leads(b) = [box |-> b, program |-> x.program]
        <5>1. \/ path[b] = Named(x.program)
              \/ path[b] = Short(x.code) /\ links[x.code] = [box |-> b, program |-> x.program]
          BY <1>1, <3>1 DEF CallTrue, PathOf, Mine
        <5> QED
          BY <5>1 DEF Leads, Named, Short
      <4> QED
        BY <4>1, <4>2 DEF CallTrue, Refused
    <3>3. CASE Replied(g, "failed")
      BY <1>6, <3>1, <3>3 DEF Refused
    <3> QED
      BY <2>6, <3>2, <3>3 DEF kernel_execve
  <2>7. CASE go_on(g)
    <3>1. ecall'[g].pc = "idle"
      BY <1>1, <2>7, ExecFacts DEF go_on
    <3> QED
      BY <3>1 DEF CallTrue, Refused
  <2> QED
    BY <2>1, <2>2, <2>3, <2>4, <2>5, <2>6, <2>7
<1> QED
  BY <1>2, <1>3, <1>4, <1>5, <1>7, OthersTrue

\* A sandbox goes while another's calls are under way.
LEMMA AloneDrop ==
  ASSUME AloneInv, ExecInv', NEW b \in Boxes, drop(b)
  PROVE  AloneInv'
<1> USE DEF AloneInv
<1>1. RunsAlone'
  BY DropFacts DEF RunsAlone
<1>2. ASSUME NEW h \in Threads_ PROVE CallTrue(h)'
  <2>1. Guests[h] \in Boxes /\ ecall' = ecall /\ (Guests[h] = b => ecall[h].pc = "idle")
        /\ ecall[h] \in ExecCall
    BY DropFacts, ExecAssumption DEF ExecInv, ExecTypes
  <2>2. CASE Guests[h] = b
    BY <2>1, <2>2 DEF CallTrue, Refused
  <2>3. CASE Guests[h] # b
    <3>1. path'[Guests[h]] = path[Guests[h]]
      <4>1. path' = [path EXCEPT ![b] = Named("lower")] /\ path \in [Boxes -> PathBuffer]
        BY DropFacts DEF ExecInv, ExecTypes
      <4> QED
        BY <2>1, <2>3, <4>1
    <3>2. Mine(h) => Mine(h)'
      <4>1. ecall[h].code \in Codes
        BY <2>1 DEF ExecCall
      <4>2. Mine(h) => links[ecall[h].code].box # b
        BY <2>3 DEF Mine
      <4> QED
        BY <2>1, <4>1, <4>2, DropFacts DEF Mine
    <3> QED
      BY <2>1, <3>1, <3>2 DEF CallTrue, PathOf
  <2> QED
    BY <2>2, <2>3
<1> QED
  BY <1>1, <1>2

\* What a thread alone with its memory can count on.
LEMMA AloneInvInit == ExecInit => AloneInv
<1> SUFFICES ASSUME ExecInit PROVE AloneInv
  OBVIOUS
<1>1. \A g \in Threads_ : ecall[g].pc = "idle"
  BY ExecFacts DEF ExecInit
<1> QED
  BY <1>1, ExecInvInit DEF AloneInv, RunsAlone, CallTrue, Refused
LEMMA AloneInvStep ==
  ASSUME "shared" \notin Habits
  PROVE  AloneInv /\ [ExecNext]_execVars => AloneInv'
<1> SUFFICES ASSUME AloneInv, [ExecNext]_execVars PROVE AloneInv'
  OBVIOUS
<1>1. ExecInv'
  BY ExecInvStep DEF AloneInv
<1>2. CASE ExecNext
  BY <1>1, <1>2, AloneCalls, AloneDrop DEF ExecNext
<1>3. CASE UNCHANGED execVars
  BY <1>1, <1>3 DEF execVars, AloneInv, RunsAlone, CallTrue, Mine, PathOf
<1> QED
  BY <1>2, <1>3

\* An exec runs the program the guest named, from the overlay of its own
\* sandbox, whatever execs and drops of other sandboxes do to the slots meanwhile,
\* daemons that crash included, when the threads of one memory take turns at the
\* path (sys_execve, Symlinks::create, Drop).
THEOREM RunsWhatWasNamedAlways ==
  ASSUME "shared" \notin Habits PROVE Spec => []RunsWhatWasNamed
<1>1. AloneInv => RunsWhatWasNamed
  BY DEF AloneInv, CallTrue, RunsWhatWasNamed
<1> QED
  BY <1>1, AloneInvInit, AloneInvStep, GroupSteps, PTL DEF Spec, Init

\* Links and slots are accounted for and a refused exec leaves the path as it
\* was, when besides no sandbox goes without its drop (Symlinks, sys_execve).
THEOREM LinksAlwaysRight ==
  ASSUME Habits \cap {"shared", "crash"} = {} PROVE Spec => []LinksRight
<1> DEFINE Inv == AloneInv /\ LinksOwned
<1>1. ExecInit => LinksOwned
  <2> SUFFICES ASSUME ExecInit, NEW c \in Codes, NEW b \in Boxes
               PROVE  links[c].box = b <=> \E i \in ToSet(created[b]) : Code(i) = c
    BY DEF LinksOwned
  <2>1. links[c].box # b /\ ToSet(created[b]) = {}
    BY ExecFacts, ExecAssumption DEF ExecInit, ToSet
  <2> QED
    BY <2>1
<1>2. Inv /\ [ExecNext]_execVars => Inv'
  BY AloneInvStep, OwnersStep DEF AloneInv
<1>3. Inv => LinksRight
  <2>1. AloneInv => ProbesSpread
    BY DEF AloneInv, ExecInv, TriesTrue, Settled, ProbesSpread
  <2>2. AloneInv => PathKept
    BY DEF AloneInv, CallTrue, PathOf, PathKept
  <2> QED
    BY <2>1, <2>2 DEF LinksRight
<1> QED
  BY <1>1, <1>2, <1>3, AloneInvInit, GroupSteps, PTL DEF Spec, Init

-----------------------------------------------------------------------------
(* ProcView: the registry has guests only, and numbers keep their meaning. *)

HostTask == [st : {"free", "live", "dying", "zombie"}, own : BOOLEAN, parent : Pids \cup {0},
             pgrp : Pids \cup {0}, gen : Nat]
KnownEntry == [gen : Nat, parent : Pids \cup {0}]
ProcText == [gen : Nat, now : Nat, own : BOOLEAN, foreign : SUBSET Pids]
Question == [pc : {"idle", "send", "hit", "ESRCH", "text"}, pid : Pids \cup {0}, entry : Nat,
             text : ProcText]

ProcTypes ==
  /\ task \in [Pids -> HostTask] /\ known \in [Pids -> KnownEntry] /\ ask \in [Askers -> Question]

\* Whoever has a parent is a guest's child, and the parent is a guest's that has
\* not ended.
ParentsOwn ==
  \A p \in Pids : Parent(p) # 0 => task[p].own /\ task[Parent(p)].own /\ Parent(p) # p
                                   /\ task[Parent(p)].st \in {"live", "dying"}
InitKnown == known[Init0].gen # 0
\* A signal on its way is for a task that is still there, or for none.
SendsOwn ==
  \A a \in Askers : ask[a].pc = "send" =>
    /\ ask[a].pid \in Pids /\ task[ask[a].pid].gen = ask[a].entry
    /\ Visible(ask[a].pid) => task[ask[a].pid].own
ProcInv == ProcTypes /\ ParentsOwn /\ InitKnown /\ SendsOwn /\ NumbersOwn

\* What tasks, entries and texts are made of.
LEMMA ProcFacts ==
  /\ NoTask \in HostTask /\ NoTask.st = "free" /\ NoTask.parent = 0 /\ ~NoTask.own
  /\ NoEntry \in KnownEntry /\ NoEntry.gen = 0
  /\ Silent \in Question /\ Silent.pc = "idle" /\ NoText \in ProcText
  /\ Init0 \in Pids /\ 0 \notin Pids
<1>1. NoText \in ProcText
  BY DEF NoText, ProcText
<1>2. Silent \in Question /\ Silent.pc = "idle"
  BY <1>1 DEF Silent, Question
<1> QED
  BY <1>1, <1>2, ProcAssumption DEF NoTask, HostTask, NoEntry, KnownEntry

\* A step of the host that leaves the entries and the questions alone.
LEMMA HostStep ==
  ASSUME ProcInv, NEW p \in Pids, task' \in [Pids -> HostTask], UNCHANGED <<known, ask>>,
         \A q \in Pids : contains(q) => task'[q].own /\ task'[q].st = "live" /\ task'[q].gen = task[q].gen,
         \A q \in Pids : Awaited(q) => task'[q].gen = task[q].gen /\ (task'[q].st # "free" => task[q].st # "free" /\ task'[q].own = task[q].own),
         ParentsOwn'
  PROVE  ProcInv'
<1> USE DEF ProcInv
<1>1. ProcTypes' /\ InitKnown'
  BY DEF ProcTypes, InitKnown
<1>2. SendsOwn'
  BY DEF SendsOwn, Awaited, Visible
<1>3. NumbersOwn'
  BY DEF NumbersOwn, KillsOwn, ShowsOwn, NoGhosts, contains
<1> QED
  BY <1>1, <1>2, <1>3

\* A number is given.
LEMMA StartedStep ==
  ASSUME Lifted = {}, ProcInv, NEW c \in Pids, NEW own \in BOOLEAN, NEW parent \in Pids \cup {0},
         NEW pgrp \in Pids \cup {0}, Started(c, own, parent, pgrp),
         parent # 0 => own /\ task[parent].own /\ task[parent].st = "live"
  PROVE  ProcInv'
<1> USE DEF ProcInv
<1> DEFINE t == [st |-> "live", own |-> own, parent |-> parent, pgrp |-> pgrp, gen |-> task[c].gen + 1]
<1>1. task' = [task EXCEPT ![c] = t] /\ task[c].st = "free" /\ ~Awaited(c) /\ UNCHANGED <<known, ask>>
  BY DEF Started
<1>2. task[c] \in HostTask /\ task \in [Pids -> HostTask]
  BY DEF ProcTypes
<1>3. t \in HostTask
  BY <1>2 DEF HostTask
<1>4. t.own = own /\ t.parent = parent /\ t.st = "live"
  OBVIOUS
<1> HIDE DEF t
<1>5. task' \in [Pids -> HostTask] /\ \A q \in Pids : task'[q] = IF q = c THEN t ELSE task[q]
  BY <1>1, <1>2, <1>3
<1>6. ~contains(c)
  BY <1>1 DEF NumbersOwn, NoGhosts
<1>7. ParentsOwn'
  <2> SUFFICES ASSUME NEW p \in Pids, task'[p].parent # 0
               PROVE  /\ task'[p].own /\ task'[task'[p].parent].own /\ task'[p].parent # p
                      /\ task'[task'[p].parent].st \in {"live", "dying"}
    BY DEF ParentsOwn, Parent
  <2>1. CASE p = c
    <3>1. parent \in Pids /\ parent # c
      BY <1>1, <1>4, <1>5, <2>1
    <3> QED
      BY <1>4, <1>5, <2>1, <3>1
  <2>2. CASE p # c
    <3>1. /\ task'[p] = task[p] /\ task[p].parent \in Pids
          /\ task[p].own /\ task[task[p].parent].own /\ task[task[p].parent].st \in {"live", "dying"}
          /\ task[p].parent # p
      BY <1>2, <1>5, <2>2 DEF ParentsOwn, Parent, HostTask
    <3>2. task[p].parent # c
      BY <1>1, <3>1
    <3> QED
      BY <1>5, <3>1, <3>2
  <2> QED
    BY <2>1, <2>2
<1>8. \A q \in Pids : contains(q) => task'[q].own /\ task'[q].st = "live" /\ task'[q].gen = task[q].gen
  BY <1>5, <1>6 DEF NumbersOwn, NoGhosts
<1>9. \A q \in Pids : Awaited(q) => task'[q] = task[q]
  BY <1>1, <1>5
<1> QED
  BY <1>1, <1>5, <1>7, <1>8, <1>9, HostStep

\* A task ends, or its number is free again.
LEMMA EndStep ==
  ASSUME ProcInv, NEW p \in Pids, ends(p) \/ reaped(p)
  PROVE  ProcInv'
<1> USE DEF ProcInv
<1>1. UNCHANGED <<known, ask>> /\ ~contains(p) /\ task \in [Pids -> HostTask]
  BY DEF ends, reaped, NumbersOwn, NoGhosts, ProcTypes
<1>2. CASE ends(p)
  <2>1. \A q \in Pids : task'[q] = IF q = p THEN [task[q] EXCEPT !.st = "zombie"]
                                   ELSE IF task[q].parent = p THEN [task[q] EXCEPT !.parent = 0] ELSE task[q]
    BY <1>2 DEF ends
  <2>2. \A q \in Pids : /\ task'[q] \in HostTask /\ task'[q].own = task[q].own /\ task'[q].gen = task[q].gen
                        /\ q # p => task'[q].st = task[q].st
                        /\ task'[q].parent = IF q # p /\ task[q].parent = p THEN 0 ELSE task[q].parent
                        /\ task[p].st # "free"
    BY <1>1, <1>2, <2>1 DEF HostTask, ends
  <2>3. task' \in [Pids -> HostTask]
    BY <1>2, <2>2 DEF ends
  <2>4. ParentsOwn'
    <3> SUFFICES ASSUME NEW q \in Pids, task'[q].parent # 0
                 PROVE  /\ task'[q].own /\ task'[task'[q].parent].own /\ task'[q].parent # q
                        /\ task'[task'[q].parent].st \in {"live", "dying"}
      BY DEF ParentsOwn, Parent
    <3>1. /\ task'[q].parent = task[q].parent /\ task[q].parent \in Pids
          /\ task[q].own /\ task[task[q].parent].own /\ task[task[q].parent].st \in {"live", "dying"}
          /\ task[q].parent # q
      BY <1>1, <2>2 DEF ParentsOwn, Parent, HostTask
    <3>2. task[q].parent # p
      BY <2>2, <3>1
    <3> QED
      BY <2>2, <3>1, <3>2
  <2>5. /\ \A q \in Pids : contains(q) => task'[q].own /\ task'[q].st = "live" /\ task'[q].gen = task[q].gen
        /\ \A q \in Pids : task'[q].st # "free" => task[q].st # "free"
    BY <1>1, <2>2 DEF NumbersOwn, NoGhosts
  <2> QED
    BY <1>1, <2>2, <2>3, <2>4, <2>5, HostStep
<1>3. CASE reaped(p)
  <2>1. task[p].st = "zombie" /\ task' = [task EXCEPT ![p] = [NoTask EXCEPT !.gen = task[p].gen]]
    BY <1>3 DEF reaped
  <2> DEFINE t == [NoTask EXCEPT !.gen = task[p].gen]
  <2>2. t \in HostTask /\ t.st = "free" /\ t.parent = 0 /\ t.gen = task[p].gen
    BY <1>1, ProcFacts DEF HostTask
  <2> HIDE DEF t
  <2>3. task' \in [Pids -> HostTask] /\ \A q \in Pids : task'[q] = IF q = p THEN t ELSE task[q]
    BY <1>1, <2>1, <2>2 DEF t
  <2>4. ParentsOwn'
    <3> SUFFICES ASSUME NEW q \in Pids, task'[q].parent # 0
                 PROVE  /\ task'[q].own /\ task'[task'[q].parent].own /\ task'[q].parent # q
                        /\ task'[task'[q].parent].st \in {"live", "dying"}
      BY DEF ParentsOwn, Parent
    <3>1. task'[q] = task[q] /\ q # p
      BY <2>2, <2>3
    <3>2. /\ task[q].own /\ task[task[q].parent].own /\ task[task[q].parent].st \in {"live", "dying"}
          /\ task[q].parent # q /\ task[q].parent \in Pids
      BY <1>1, <3>1 DEF ParentsOwn, Parent, HostTask
    <3>3. task[q].parent # p
      BY <2>1, <3>2
    <3> QED
      BY <2>3, <3>1, <3>2, <3>3
  <2>5. \A q \in Pids : contains(q) => task'[q].own /\ task'[q].st = "live" /\ task'[q].gen = task[q].gen
    BY <1>1, <2>3 DEF NumbersOwn, NoGhosts
  <2>6. \A q \in Pids : task'[q].gen = task[q].gen /\ (task'[q].st # "free" => task'[q] = task[q])
    BY <2>2, <2>3
  <2> QED
    BY <1>1, <2>3, <2>4, <2>5, <2>6, HostStep
<1> QED
  BY <1>2, <1>3

\* A scan or a first call takes in tasks that are guests' and live.
Scanned(k) ==
  /\ k \in [Pids -> KnownEntry]
  /\ \A q \in Pids :
       /\ contains(q) => k[q] = known[q]
       /\ k[q] # NoEntry => task[q].own /\ task[q].st = "live" /\ k[q].gen = task[q].gen
LEMMA ScanFacts ==
  ASSUME ProcInv, ~Dying, NEW p \in Pids, Guest(p)
  PROVE  Scanned(get_or_sync(p)) /\ Scanned(sync_new_threads(p))
<1> USE DEF ProcInv
<1>1. task \in [Pids -> HostTask] /\ known \in [Pids -> KnownEntry]
  BY DEF ProcTypes
<1>2. ASSUME NEW q \in Pids
      PROVE  /\ Entry(q) \in KnownEntry /\ Entry(q).gen = task[q].gen
             /\ Traced(q) => Parent(q) \in Pids /\ task[q].own /\ task[q].st = "live"
                             /\ task[Parent(q)].own /\ task[Parent(q)].st = "live"
  <2>1. task[q] \in HostTask /\ Parent(q) \in Pids \cup {0}
    BY <1>1 DEF Parent, HostTask
  <2>2. Entry(q) \in KnownEntry /\ Entry(q).gen = task[q].gen
    BY <2>1, ProcFacts DEF Entry, KnownEntry, HostTask
  <2>3. ASSUME Traced(q)
        PROVE  /\ Parent(q) \in Pids /\ task[q].own /\ task[q].st = "live"
               /\ task[Parent(q)].own /\ task[Parent(q)].st = "live"
    <3>1. Parent(q) # 0 /\ task[q].st # "free" /\ Parent(q) \in Pids
      BY <2>1, <2>3 DEF Traced, Visible
    <3>2. task[q].own /\ task[Parent(q)].own /\ task[Parent(q)].st \in {"live", "dying"}
      BY <3>1 DEF ParentsOwn
    <3>3. task[q].st \in {"free", "live", "dying", "zombie"}
      BY <2>1 DEF HostTask
    <3> QED
      BY <3>1, <3>2, <3>3 DEF Dying
  <2> QED
    BY <2>2, <2>3
<1>3. \A q \in Pids : contains(q) => task[q].own /\ task[q].st = "live" /\ known[q].gen = task[q].gen
  BY DEF NumbersOwn, NoGhosts
<1>4. ASSUME NEW q \in Pids
      PROVE  LET v == get_or_sync(p)[q]
             IN  /\ v \in KnownEntry /\ (contains(q) => v = known[q])
                 /\ v # NoEntry => task[q].own /\ task[q].st = "live" /\ v.gen = task[q].gen
  <2>1. get_or_sync(p)[q] = IF ~contains(q) /\ (q = p \/ (Traced(p) /\ ~contains(p) /\ q = Parent(p)))
                            THEN Entry(q) ELSE known[q]
    BY DEF get_or_sync
  <2> QED
    BY <1>1, <1>2, <1>3, <2>1 DEF Guest, contains
<1>5. get_or_sync(p) \in [Pids -> KnownEntry]
  <2> DEFINE f == get_or_sync(p)
  <2>1. f = [q \in Pids |-> f[q]]
    BY DEF get_or_sync
  <2>2. \A q \in Pids : f[q] \in KnownEntry
    BY <1>4
  <2> HIDE DEF f
  <2>3. f \in [Pids -> KnownEntry]
    BY <2>1, <2>2
  <2> QED
    BY <2>3 DEF f
<1>6. ASSUME NEW q \in Pids
      PROVE  LET v == sync_new_threads(p)[q]
             IN  /\ v \in KnownEntry /\ (contains(q) => v = known[q])
                 /\ v # NoEntry => task[q].own /\ task[q].st = "live" /\ v.gen = task[q].gen
  <2>1. sync_new_threads(p)[q] = IF get_or_sync(p)[q] = NoEntry /\ Traced(q) THEN Entry(q) ELSE get_or_sync(p)[q]
    BY DEF sync_new_threads
  <2> HIDE DEF ProcInv
  <2> QED
    BY <1>2, <1>4, <2>1 DEF contains
<1>7. sync_new_threads(p) \in [Pids -> KnownEntry]
  <2> DEFINE f == sync_new_threads(p)
  <2>1. f = [q \in Pids |-> f[q]]
    BY DEF sync_new_threads
  <2>2. \A q \in Pids : f[q] \in KnownEntry
    BY <1>6
  <2> HIDE DEF f
  <2>3. f \in [Pids -> KnownEntry]
    BY <2>1, <2>2
  <2> QED
    BY <2>3 DEF f
<1> QED
  BY <1>4, <1>5, <1>6, <1>7 DEF Scanned

\* The registry takes tasks in; a text that is rendered then is of guests.
LEMMA ScanStep ==
  ASSUME Lifted = {}, ProcInv, NEW p \in Pids,
         notified(p) \/ \E a \in Askers, n \in Pids : build_proc(a, p, n)
  PROVE  ProcInv'
<1> USE DEF ProcInv
<1>1. ~Dying /\ Guest(p) /\ known' \in {get_or_sync(p), sync_new_threads(p)} /\ task' = task
  BY DEF notified, build_proc
<1>2. /\ known' \in [Pids -> KnownEntry]
      /\ \A q \in Pids :
           /\ contains(q) => known'[q] = known[q]
           /\ known'[q] # NoEntry => task[q].own /\ task[q].st = "live" /\ known'[q].gen = task[q].gen
  <2>1. Scanned(known')
    BY <1>1, ScanFacts
  <2> QED
    BY <2>1 DEF Scanned
<1>3. InitKnown'
  BY <1>2, ProcFacts DEF InitKnown, contains
<1>4. NoGhosts'
  BY <1>1, <1>2 DEF NoGhosts, contains
<1>5. ParentsOwn'
  BY <1>1 DEF ParentsOwn, Parent
<1>6. CASE ask' = ask
  BY <1>1, <1>2, <1>3, <1>4, <1>5, <1>6
  DEF ProcTypes, SendsOwn, Visible, NumbersOwn, KillsOwn, ShowsOwn
<1>7. CASE ask' # ask
  <2>1. PICK a \in Askers, n \in Pids : build_proc(a, p, n)
    BY <1>7 DEF notified
  <2>2. PICK file \in {"stat", "status", "cmdline"} :
          /\ known'[n] # NoEntry /\ known' = sync_new_threads(p)
          /\ ask' = [ask EXCEPT ![a] = [Silent EXCEPT !.pc = "text", !.pid = n, !.entry = known'[n].gen,
                                                      !.text = Render(known', file, n)]]
    BY <1>7, <2>1 DEF build_proc
  <2> DEFINE t == Render(known', file, n)
             e == [Silent EXCEPT !.pc = "text", !.pid = n, !.entry = known'[n].gen, !.text = t]
  <2>3. /\ task[n].own /\ known'[n].gen = task[n].gen /\ known'[n] \in KnownEntry /\ task[n] \in HostTask
    BY <1>2, <2>2 DEF ProcTypes
  <2>4. ns_ppid(known', n) \in {0} \cup {q \in Pids : task[q].own}
    BY <1>2, <2>3 DEF ns_ppid, KnownEntry
  <2>5. \A i \in rewrite_pid_stat(known', n) : i = 0 \/ (i \in Pids /\ task[i].own)
    BY <1>2, <2>3, <2>4 DEF rewrite_pid_stat, HostTask
  <2>6. \E ids \in SUBSET {i \in Pids \cup {0} : i = 0 \/ task[i].own} : t = Text(n, task[n].gen, ids)
    <3>1. CASE file = "stat"
      BY <2>5, <3>1 DEF Render
    <3>2. CASE file = "status"
      BY <2>3, <2>4, <3>2 DEF Render
    <3>3. CASE file = "cmdline"
      BY <3>3 DEF Render
    <3> QED
      BY <3>1, <3>2, <3>3
  <2>7. t \in ProcText /\ t.own /\ t.gen = task[n].gen /\ t.now = task[n].gen /\ t.foreign = {}
    BY <2>3, <2>6 DEF Text, ProcText, HostTask
  <2> HIDE DEF t
  <2>8. e \in Question /\ e.pc = "text" /\ e.text = t /\ e.entry = task[n].gen
    BY <2>3, <2>7, ProcFacts DEF Question, KnownEntry
  <2> HIDE DEF e
  <2>9. ask' = [ask EXCEPT ![a] = e]
    BY <2>2 DEF e, t
  <2>10. \A b \in Askers : ask'[b] = IF b = a THEN e ELSE ask[b]
    BY <2>9 DEF ProcTypes
  <2>11. ProcTypes'
    BY <1>1, <1>2, <2>8, <2>9 DEF ProcTypes
  <2>12. SendsOwn' /\ KillsOwn' /\ ShowsOwn'
    BY <1>1, <2>7, <2>8, <2>10 DEF SendsOwn, KillsOwn, ShowsOwn, Visible, NumbersOwn
  <2> QED
    BY <1>3, <1>4, <1>5, <2>11, <2>12 DEF NumbersOwn
<1> QED
  BY <1>6, <1>7

\* A task of the sandbox exits: its entry goes while it is still there.
LEMMA ExitStep ==
  ASSUME Lifted = {}, ProcInv, NEW p \in Pids, exit(p)
  PROVE  ProcInv'
<1> USE DEF ProcInv
<1>1. /\ Guest(p) /\ p # Init0 /\ known' = handle_thread_exit(p)
      /\ task' = [task EXCEPT ![p].st = "dying"] /\ UNCHANGED ask
      /\ task \in [Pids -> HostTask] /\ known \in [Pids -> KnownEntry]
  BY DEF exit, ProcTypes
<1>2. \A q \in Pids :
        /\ task'[q] \in HostTask /\ task'[q].own = task[q].own /\ task'[q].parent = task[q].parent
        /\ task'[q].gen = task[q].gen /\ task'[q].st = IF q = p THEN "dying" ELSE task[q].st
  BY <1>1 DEF HostTask
<1>3. task' \in [Pids -> HostTask]
  BY <1>1, <1>2
<1>4. ASSUME NEW q \in Pids
      PROVE  /\ known'[q] \in KnownEntry
             /\ known'[q].gen = IF q = p THEN 0 ELSE known[q].gen
             /\ known'[q] # NoEntry => q # p /\ contains(q)
  <2>1. known'[q] = IF q = p THEN NoEntry
                    ELSE IF contains(q) /\ known[q].parent = p THEN [known[q] EXCEPT !.parent = Init0]
                    ELSE known[q]
    BY <1>1 DEF handle_thread_exit
  <2> QED
    BY <1>1, <2>1, ProcFacts DEF KnownEntry, contains
<1>5. known' \in [Pids -> KnownEntry]
  <2>1. known' = [q \in Pids |-> known'[q]]
    BY <1>1 DEF handle_thread_exit
  <2>2. \A q \in Pids : known'[q] \in KnownEntry
    BY <1>4
  <2> QED
    BY <2>1, <2>2
<1>6. ProcTypes'
  BY <1>1, <1>3, <1>5 DEF ProcTypes
<1>7. ParentsOwn'
  <2> SUFFICES ASSUME NEW q \in Pids, task'[q].parent # 0
               PROVE  /\ task'[q].own /\ task'[task'[q].parent].own /\ task'[q].parent # q
                      /\ task'[task'[q].parent].st \in {"live", "dying"}
    BY DEF ParentsOwn, Parent
  <2>1. /\ task[q].own /\ task[task[q].parent].own /\ task[task[q].parent].st \in {"live", "dying"}
        /\ task[q].parent # q /\ task[q].parent \in Pids
    BY <1>1, <1>2 DEF ParentsOwn, Parent, HostTask
  <2> QED
    BY <1>2, <2>1
<1>8. InitKnown'
  BY <1>1, <1>4, ProcFacts DEF InitKnown
<1>9. SendsOwn'
  <2>1. \A q \in Pids : task'[q].st # "free" => task[q].st # "free"
    BY <1>1, <1>2 DEF Guest
  <2> QED
    BY <1>1, <1>2, <2>1 DEF SendsOwn, Visible
<1>10. NoGhosts'
  BY <1>2, <1>4 DEF NoGhosts, NumbersOwn, contains
<1>11. KillsOwn' /\ ShowsOwn'
  BY <1>1 DEF KillsOwn, ShowsOwn, NumbersOwn
<1> QED
  BY <1>6, <1>7, <1>8, <1>9, <1>10, <1>11 DEF NumbersOwn

\* A question is asked, sent or answered.
LEMMA AskStep ==
  ASSUME ProcInv, NEW a \in Askers, UNCHANGED <<task, known>>,
         NEW e \in Question, ask' = [ask EXCEPT ![a] = e],
         e.pc = "send" => /\ e.pid \in Pids /\ task[e.pid].gen = e.entry
                          /\ (Visible(e.pid) => task[e.pid].own),
         e.pc = "hit" => e.text.own /\ e.text.gen = e.entry,
         e.pc = "text" => /\ e.text.own /\ e.text.gen = e.text.now /\ e.text.now = e.entry
                          /\ e.text.foreign = {}
  PROVE  ProcInv'
<1> USE DEF ProcInv
<1>1. \A b \in Askers : ask'[b] = IF b = a THEN e ELSE ask[b]
  BY DEF ProcTypes
<1>2. ProcTypes' /\ ParentsOwn' /\ InitKnown'
  BY DEF ProcTypes, ParentsOwn, Parent, InitKnown
<1>3. SendsOwn'
  BY <1>1 DEF SendsOwn, Visible
<1>4. NumbersOwn'
  BY <1>1 DEF NumbersOwn, KillsOwn, ShowsOwn, NoGhosts, contains
<1> QED
  BY <1>2, <1>3, <1>4
LEMMA AskSteps ==
  ASSUME ProcInv, NEW a \in Askers,
         \/ deliver(a) \/ answered(a) \/ proc_dirents(a)
         \/ \E n \in Pids : kill(a, n) \/ proc_readlink(a, n)
  PROVE  ProcInv'
<1> USE DEF ProcInv
<1>1. /\ ask[a] \in Question /\ ask \in [Askers -> Question] /\ task \in [Pids -> HostTask]
      /\ known \in [Pids -> KnownEntry]
  BY DEF ProcTypes
<1>2. \A q \in Pids : contains(q) => task[q].own /\ known[q].gen = task[q].gen
  BY DEF NumbersOwn, NoGhosts
<1>3. contains(Init0)
  BY ProcFacts DEF InitKnown, contains
<1>4. CASE answered(a)
  BY <1>4, AskStep, ProcFacts DEF answered
<1>5. ASSUME NEW n \in Pids, contains(n), NEW ids \in SUBSET {q \in Pids : task[q].own}, Tell(a, n, ids)
      PROVE  ProcInv'
  <2> DEFINE t == Text(n, known[n].gen, ids)
             e == [Silent EXCEPT !.pc = "text", !.pid = n, !.entry = known[n].gen, !.text = t]
  <2>1. UNCHANGED <<task, known>> /\ ask' = [ask EXCEPT ![a] = e]
    BY <1>5 DEF Tell
  <2>2. t \in ProcText /\ t.own /\ t.gen = known[n].gen /\ t.now = known[n].gen /\ t.foreign = {}
    BY <1>1, <1>2, <1>5 DEF Text, ProcText, HostTask, KnownEntry
  <2> HIDE DEF t
  <2>3. e \in Question /\ e.pc = "text" /\ e.text = t /\ e.entry = known[n].gen
    BY <1>1, <2>2, ProcFacts DEF Question, KnownEntry
  <2> HIDE DEF e
  <2> QED
    BY <2>1, <2>2, <2>3, AskStep
<1>6. CASE proc_dirents(a)
  <2>1. ns_tgids \in SUBSET {q \in Pids : task[q].own}
    BY <1>2 DEF ns_tgids
  <2> QED
    BY <1>3, <1>5, <1>6, <2>1, ProcFacts DEF proc_dirents
<1>7. ASSUME NEW n \in Pids, proc_readlink(a, n) PROVE ProcInv'
  <2>1. {} \in SUBSET {q \in Pids : task[q].own}
    OBVIOUS
  <2> QED
    BY <1>5, <1>7, <2>1 DEF proc_readlink
<1>8. ASSUME NEW n \in Pids, kill(a, n) PROVE ProcInv'
  <2> DEFINE e == [Silent EXCEPT !.pc = "send", !.pid = n, !.entry = known[n].gen]
  <2>1. UNCHANGED <<task, known>> /\ ask' = [ask EXCEPT ![a] = e] /\ contains(n)
    BY <1>8 DEF kill, abs_tgid_for_ns
  <2>2. e \in Question /\ e.pc = "send" /\ e.pid = n /\ e.entry = known[n].gen
    BY <1>1, ProcFacts DEF Question, KnownEntry
  <2> HIDE DEF e
  <2> QED
    BY <1>2, <2>1, <2>2, AskStep
<1>9. CASE deliver(a)
  <2> DEFINE n == ask[a].pid
             t == [NoText EXCEPT !.gen = task[n].gen, !.own = task[n].own]
             pc == IF Visible(n) THEN "hit" ELSE "ESRCH"
             e == [ask[a] EXCEPT !.pc = pc, !.text = t]
  <2>1. n \in Pids /\ task[n].gen = ask[a].entry /\ (Visible(n) => task[n].own)
    BY <1>9 DEF deliver, SendsOwn
  <2>2. t \in ProcText /\ t.gen = task[n].gen /\ t.own = task[n].own
    BY <1>1, <2>1, ProcFacts DEF ProcText, HostTask
  <2>3. UNCHANGED <<task, known>> /\ ask' = [ask EXCEPT ![a] = e]
    BY <1>1, <1>9 DEF deliver
  <2> HIDE DEF t
  <2>4. e \in Question /\ e.pc = pc /\ e.text = t /\ e.entry = ask[a].entry
    BY <1>1, <2>2 DEF Question
  <2> HIDE DEF e
  <2> QED
    BY <2>1, <2>2, <2>3, <2>4, AskStep
<1> QED
  BY <1>4, <1>6, <1>7, <1>8, <1>9

LEMMA ProcInvInit == ProcInit => ProcInv
<1> SUFFICES ASSUME ProcInit PROVE ProcInv
  OBVIOUS
<1>1. \A p \in Pids :
        /\ task[p] \in HostTask /\ task[p].parent = 0
        /\ p \in {Init0} => task[p].own /\ task[p].st = "live" /\ task[p].gen = 1
  BY ProcAssumption, ProcFacts DEF ProcInit, HostTask
<1>2. \A p \in Pids : /\ known[p] \in KnownEntry
                      /\ p # Init0 => known[p] = NoEntry
                      /\ p = Init0 => known[p].gen = 1
  BY ProcFacts DEF ProcInit, KnownEntry
<1>3. \A a \in Askers : ask[a] = Silent
  BY DEF ProcInit
<1>4. ProcTypes
  BY <1>1, <1>2, <1>3, ProcFacts DEF ProcInit, ProcTypes
<1>5. ParentsOwn
  BY <1>1 DEF ParentsOwn, Parent
<1>6. InitKnown /\ SendsOwn
  BY <1>2, <1>3, ProcFacts DEF InitKnown, SendsOwn
<1>7. NumbersOwn
  BY <1>1, <1>2, <1>3, ProcFacts DEF NumbersOwn, KillsOwn, ShowsOwn, NoGhosts, contains
<1> QED
  BY <1>4, <1>5, <1>6, <1>7 DEF ProcInv

LEMMA ProcInvStep ==
  ASSUME Lifted = {}
  PROVE  ProcInv /\ [ProcNext]_procVars => ProcInv'
<1> SUFFICES ASSUME ProcInv, [ProcNext]_procVars PROVE ProcInv'
  OBVIOUS
<1>1. ASSUME NEW p \in Pids, outside(p) PROVE ProcInv'
  BY <1>1, StartedStep DEF outside
<1>2. ASSUME NEW p \in Pids, NEW c \in Pids, fork(p, c) PROVE ProcInv'
  <2>1. PICK g \in {task[p].pgrp, c} : Started(c, TRUE, p, g)
    BY <1>2 DEF fork
  <2>2. task[p].own /\ task[p].st = "live" /\ g \in Pids \cup {0}
    BY <1>2 DEF fork, Guest, ProcInv, ProcTypes, HostTask
  <2> QED
    BY <2>1, <2>2, StartedStep
<1>3. CASE ProcNext
  BY <1>1, <1>2, <1>3, ExitStep, EndStep, ScanStep, AskSteps DEF ProcNext
<1>4. CASE UNCHANGED procVars
  BY <1>4 DEF procVars, ProcInv, ProcTypes, ParentsOwn, Parent, InitKnown, SendsOwn, Visible,
              NumbersOwn, KillsOwn, ShowsOwn, NoGhosts, contains
<1> QED
  BY <1>3, <1>4

\* A number means to the guest the task of its sandbox that has it: a signal
\* reaches no task that got the number later and none outside, a text of /proc
\* names only processes of the sandbox, and the registry keeps no task that has
\* ended.  This is for guests that end by exit and do not rescan while one of
\* their tasks ends, and numbers that are not given again between the lookup of
\* sys_kill and its signal (sys_kill, sys_tkill, build_proc, handle_thread_exit,
\* sync_new_threads).
THEOREM NumbersAlwaysOwn == ASSUME Lifted = {} PROVE Spec => []NumbersOwn
<1>1. ProcInv => NumbersOwn
  BY DEF ProcInv
<1> QED
  BY <1>1, ProcInvInit, ProcInvStep, GroupSteps, PTL DEF Spec, Init

-----------------------------------------------------------------------------
(* Transfer: the invariant.                                                *)

Streams == {"pipe", "stream", "log"}
Busy(w) == rcall[w].pc # "idle"
Handing(w) == rcall[w].pc \in {"store", "reply"}
Increasing(s) == \A i, j \in DOMAIN s : i < j => s[i] < s[j]

ReceiveCall ==
  [pc : {"idle", "recv", "load", "poll", "read", "store", "reply"},
   op : {"none", "read", "readv", "recvfrom", "recvmsg"}, thread : Readers, iov : Seq(Nat),
   hand : Seq(Nat), size : Nat, at : Nat, nb : BOOLEAN, live : BOOLEAN]
SendCall == [pc : {"idle", "write", "reply"}, gathered : Nat, size : Nat, n : Nat]

IoTypes ==
  /\ kind \in Kinds /\ closed \in BOOLEAN /\ off \in Nat /\ pos \in Nat /\ sent \in Nat
  /\ queue \in Seq([data : Seq(Nat), size : Nat])
  /\ rcall \in [Workers -> ReceiveCall] /\ wcall \in SendCall
  /\ got \in [Readers -> Seq(Nat)]

\* A worker has the call it was given.  A guest that was taken out of its call
\* left it before anything was there, and so it stays until the worker has looked.
CallMade(w) ==
  LET c == rcall[w] IN
  IF c.pc = "idle" THEN c = NoCall
  ELSE /\ kind # "log" /\ c.op \in ReadOps /\ c.iov \in Iovs /\ Fits(c.op, c.iov)
       /\ c.op \in {"read", "recvfrom"} => Len(c.iov) = 1
       /\ c.nb => Recv(c.op) /\ c.pc # "poll"
       /\ kind = "proc" => c.pc \in {"load", "store", "reply"}
       /\ c.pc \in {"load", "store"} => kind = "proc"
       /\ c.pc = "recv" => Recv(c.op)
       /\ c.pc = "read" => ~Recv(c.op) /\ Readable
       /\ ~Handing(w) => c.hand = <<>>
       /\ ~c.live => c.pc \in {"poll", "recv"} /\ wcall.pc = "idle" /\ ~Readable

\* Several calls at a time are all receives, of different threads.
CallsApart ==
  \A v, w \in Workers : v # w /\ Busy(v) /\ Busy(w) =>
    Recv(rcall[v].op) /\ Recv(rcall[w].op) /\ rcall[v].thread # rcall[w].thread

SendMade ==
  /\ wcall.pc # "reply" => wcall.n = 0
  /\ wcall.pc = "write" => /\ wcall.gathered \in 1 .. IO_CHUNK
                           /\ kind = "dgram" => wcall.gathered = wcall.size
  /\ closed => wcall.pc = "idle" /\ kind \in {"pipe", "stream"}
  /\ kind = "proc" => wcall.pc = "idle" /\ queue = <<>>

\* Everything in the kernel is newer than what came out of it.
Out(b) == b <= Accepted /\ \A i \in DOMAIN queue : \A j \in DOMAIN queue[i].data : b < queue[i].data[j]
QueueOrdered ==
  /\ \A i \in DOMAIN queue :
       /\ Increasing(queue[i].data) /\ Len(queue[i].data) >= 1
       /\ \A j \in DOMAIN queue[i].data : queue[i].data[j] <= Accepted
       /\ kind = "dgram" => Len(queue[i].data) = queue[i].size /\ queue[i].size <= IO_CHUNK
  /\ \A i, j \in DOMAIN queue : i < j =>
       \A k \in DOMAIN queue[i].data, l \in DOMAIN queue[j].data : queue[i].data[k] < queue[j].data[l]

\* What a worker holds is newer than what its thread has.
HandsOrdered ==
  /\ InOrder
  /\ kind # "proc" => \A t \in Readers : \A i \in DOMAIN got[t] : Out(got[t][i])
  /\ \A w \in Workers : Busy(w) =>
       /\ Increasing(rcall[w].hand)
       /\ \A i \in DOMAIN got[rcall[w].thread], j \in DOMAIN rcall[w].hand : got[rcall[w].thread][i] < rcall[w].hand[j]
       /\ kind # "proc" => \A j \in DOMAIN rcall[w].hand : Out(rcall[w].hand[j])

\* What a worker holds is what it was asked for.
HandsRight ==
  \A w \in Workers : Handing(w) =>
    LET c == rcall[w]
        n == Len(c.hand) IN
    /\ n <= Want(c.op, c.iov)
    /\ n = 0 /\ kind # "proc" => closed /\ queue = <<>>
    /\ kind = "dgram" => n = Least(Want(c.op, c.iov), c.size) /\ c.size <= IO_CHUNK

\* The offset of a file of /proc is the one its readers know, but for what the
\* one worker holds.
OffsetsRight ==
  IF kind # "proc" THEN off = pos
  ELSE
    /\ off <= Content
    /\ \A t \in Readers : \A i \in DOMAIN got[t] : got[t][i] <= pos
    /\ (\A w \in Workers : ~Busy(w)) => off = pos
    /\ \A w \in Workers :
         LET c == rcall[w]
             n == Len(c.hand) IN
         /\ c.pc = "load" => off = pos
         /\ c.pc = "store" => off = pos /\ c.at = pos
         /\ c.pc = "reply" => off = pos + n
         /\ Handing(w) => /\ pos + n <= Content /\ (n = 0 => pos = Content)
                          /\ \A i \in DOMAIN c.hand : c.hand[i] = pos + i

\* The bytes of a stream that are no more in the kernel.
Gone == Accepted - Len(queue)
StreamKept ==
  kind \in Streams =>
    /\ Len(queue) <= Accepted
    /\ \A i \in DOMAIN queue : queue[i].data = <<Gone + i>>
    /\ (UNION {ToSet(got[t]) : t \in Readers}) \cup (UNION {ToSet(rcall[w].hand) : w \in Workers}) = 1 .. Gone
    /\ \A t, u \in Readers : t # u => ToSet(got[t]) \cap ToSet(got[u]) = {}
    /\ \A t \in Readers, w \in Workers : ToSet(got[t]) \cap ToSet(rcall[w].hand) = {}
    /\ \A v, w \in Workers : v # w => ToSet(rcall[v].hand) \cap ToSet(rcall[w].hand) = {}

IoInv ==
  /\ IoTypes /\ (\A w \in Workers : CallMade(w)) /\ CallsApart /\ SendMade
  /\ QueueOrdered /\ HandsOrdered /\ HandsRight /\ OffsetsRight /\ StreamKept

-----------------------------------------------------------------------------
(* Sums and pieces of sequences.                                           *)

\* Induction over the natural numbers, for a set.
LEMMA AllNumbers ==
  ASSUME NEW S \in SUBSET Nat, 0 \in S, \A n \in S : n + 1 \in S
  PROVE  S = Nat
<1> SUFFICES ASSUME Nat \ S # {} PROVE FALSE
  OBVIOUS
<1>1. PICK x \in Nat \ S : \A y \in Nat \ S : x <= y
  BY LeastNatural
<1>2. x \in Nat /\ x \notin S /\ x # 0
  OBVIOUS
<1>3. x - 1 \in Nat /\ ~(x <= x - 1)
  BY <1>2
<1>4. x - 1 \in S
  BY <1>1, <1>3
<1> QED
  BY <1>2, <1>3, <1>4

\* The sums that Total adds up.
Sums(s) == CHOOSE sum : sum = [n \in 0 .. Len(s) |-> IF n = 0 THEN 0 ELSE sum[n - 1] + s[n]]
LEMMA TotalSums == \A s : Total(s) = Sums(s)[Len(s)]
BY DEF Total, Sums

LEMMA SumsExist ==
  ASSUME NEW s \in Seq(Nat)
  PROVE  \E f : f = [n \in 0 .. Len(s) |-> IF n = 0 THEN 0 ELSE f[n - 1] + s[n]]
<1> DEFINE Good(m) == \E f : f = [n \in 0 .. m |-> IF n = 0 THEN 0 ELSE f[n - 1] + s[n]]
           S == {m \in Nat : Good(m)}
<1>1. 0 \in S
  <2> DEFINE f == [n \in 0 .. 0 |-> 0]
  <2>1. f = [n \in 0 .. 0 |-> IF n = 0 THEN 0 ELSE f[n - 1] + s[n]]
    OBVIOUS
  <2> QED
    BY <2>1
<1>2. ASSUME NEW m \in S PROVE m + 1 \in S
  <2>1. m \in Nat /\ Good(m)
    OBVIOUS
  <2>2. PICK f : f = [n \in 0 .. m |-> IF n = 0 THEN 0 ELSE f[n - 1] + s[n]]
    BY <2>1
  <2> DEFINE g == [n \in 0 .. m + 1 |-> IF n = m + 1 THEN f[m] + s[m + 1] ELSE f[n]]
  <2>3. \A n \in 0 .. m + 1 : g[n] = IF n = 0 THEN 0 ELSE g[n - 1] + s[n]
    <3> SUFFICES ASSUME NEW n \in 0 .. m + 1 PROVE g[n] = IF n = 0 THEN 0 ELSE g[n - 1] + s[n]
      OBVIOUS
    <3>1. CASE n = m + 1
      <4>1. n # 0 /\ n - 1 = m /\ m \in 0 .. m + 1 /\ m # m + 1
        BY <2>1, <3>1
      <4> QED
        BY <3>1, <4>1
    <3>2. CASE n # m + 1
      <4>1. n \in 0 .. m /\ (n # 0 => n - 1 \in 0 .. m + 1 /\ n - 1 # m + 1)
        BY <2>1, <3>2
      <4>2. f[n] = IF n = 0 THEN 0 ELSE f[n - 1] + s[n]
        BY <2>2, <4>1
      <4> QED
        BY <3>2, <4>1, <4>2
    <3> QED
      BY <3>1, <3>2
  <2>4. g = [n \in 0 .. m + 1 |-> IF n = 0 THEN 0 ELSE g[n - 1] + s[n]]
    BY <2>3
  <2>5. Good(m + 1)
    <3> HIDE DEF g
    <3> QED
      BY <2>4
  <2> HIDE DEF Good
  <2> QED
    BY <2>1, <2>5
<1>3. S \in SUBSET Nat
  OBVIOUS
<1> HIDE DEF S
<1>4. S = Nat
  BY <1>1, <1>2, <1>3, AllNumbers
<1>5. Good(Len(s))
  BY <1>4 DEF S
<1> QED
  BY <1>5

LEMMA SumsRight ==
  ASSUME NEW s \in Seq(Nat)
  PROVE  /\ Sums(s)[0] = 0
         /\ \A n \in 1 .. Len(s) : Sums(s)[n] = Sums(s)[n - 1] + s[n]
         /\ \A n \in 0 .. Len(s) : Sums(s)[n] \in Nat
<1> DEFINE f == Sums(s)
<1>1. f = [n \in 0 .. Len(s) |-> IF n = 0 THEN 0 ELSE f[n - 1] + s[n]]
  BY SumsExist DEF Sums
<1>2. Len(s) \in Nat /\ \A n \in 1 .. Len(s) : s[n] \in Nat
  OBVIOUS
<1> HIDE DEF f
<1>3. f[0] = 0
  BY <1>1, <1>2
<1>4. ASSUME NEW n \in 1 .. Len(s) PROVE f[n] = f[n - 1] + s[n]
  BY <1>1, <1>2
<1> DEFINE S == {n \in Nat : n <= Len(s) => f[n] \in Nat}
<1>5. 0 \in S
  BY <1>3
<1>6. ASSUME NEW n \in S PROVE n + 1 \in S
  <2> SUFFICES ASSUME n + 1 <= Len(s) PROVE f[n + 1] \in Nat
    OBVIOUS
  <2>1. n \in Nat /\ n <= Len(s) /\ n + 1 \in 1 .. Len(s) /\ (n + 1) - 1 = n
    BY <1>2
  <2>2. f[n] \in Nat
    BY <2>1
  <2>3. f[n + 1] = f[n] + s[n + 1]
    BY <1>4, <2>1
  <2>4. s[n + 1] \in Nat
    BY <1>2, <2>1
  <2> QED
    BY <2>2, <2>3, <2>4
<1> HIDE DEF S
<1>7. S = Nat
  <2>1. S \in SUBSET Nat
    BY DEF S
  <2> QED
    BY <1>5, <1>6, <2>1, AllNumbers
<1>8. \A n \in 0 .. Len(s) : f[n] \in Nat
  BY <1>2, <1>7 DEF S
<1> QED
  BY <1>3, <1>4, <1>8 DEF f

\* The sums grow.
LEMMA SumsGrow ==
  ASSUME NEW s \in Seq(Nat), NEW n \in 0 .. Len(s)
  PROVE  \A m \in n .. Len(s) : Sums(s)[n] <= Sums(s)[m]
<1> DEFINE f == Sums(s)
           S == {k \in Nat : n + k <= Len(s) => f[n] <= f[n + k]}
<1>1. Len(s) \in Nat /\ n \in Nat /\ (\A i \in 1 .. Len(s) : s[i] \in Nat) /\ (\A i \in 0 .. Len(s) : f[i] \in Nat)
      /\ \A i \in 1 .. Len(s) : f[i] = f[i - 1] + s[i]
  BY SumsRight
<1> HIDE DEF f
<1>2. 0 \in S
  BY <1>1
<1>3. ASSUME NEW k \in S PROVE k + 1 \in S
  <2> SUFFICES ASSUME n + (k + 1) <= Len(s) PROVE f[n] <= f[n + (k + 1)]
    OBVIOUS
  <2>1. k \in Nat /\ n + k <= Len(s) /\ n + (k + 1) \in 1 .. Len(s) /\ (n + (k + 1)) - 1 = n + k /\ n + k \in 0 .. Len(s)
    BY <1>1
  <2>2. f[n] <= f[n + k] /\ f[n + (k + 1)] = f[n + k] + s[n + (k + 1)]
    BY <1>1, <2>1
  <2> QED
    BY <1>1, <2>1, <2>2
<1> HIDE DEF S
<1>4. S = Nat
  <2>1. S \in SUBSET Nat
    BY DEF S
  <2> QED
    BY <1>2, <1>3, <2>1, AllNumbers
<1>5. ASSUME NEW m \in n .. Len(s) PROVE f[n] <= f[m]
  <2>1. m - n \in Nat /\ n + (m - n) = m /\ m <= Len(s)
    BY <1>1
  <2> QED
    BY <1>4, <2>1 DEF S
<1> QED
  BY <1>5 DEF f

\* The first numbers of a sequence add up alike.
LEMMA SumsFirst ==
  ASSUME NEW s \in Seq(Nat), NEW m \in 0 .. Len(s)
  PROVE  /\ SubSeq(s, 1, m) \in Seq(Nat) /\ Len(SubSeq(s, 1, m)) = m
         /\ Sums(SubSeq(s, 1, m))[m] = Sums(s)[m]
<1> DEFINE r == SubSeq(s, 1, m)
           f == Sums(s)
           g == Sums(r)
           S == {n \in Nat : n <= m => g[n] = f[n]}
<1>1. Len(s) \in Nat /\ m \in Nat /\ m <= Len(s)
  OBVIOUS
<1>2. r \in Seq(Nat) /\ Len(r) = m /\ \A i \in 1 .. m : r[i] = s[i]
  BY <1>1
<1> HIDE DEF r
<1>3. /\ f[0] = 0 /\ g[0] = 0
      /\ \A i \in 1 .. Len(s) : f[i] = f[i - 1] + s[i]
      /\ \A i \in 1 .. m : g[i] = g[i - 1] + r[i]
  BY <1>2, SumsRight
<1> HIDE DEF f, g
<1>4. 0 \in S
  BY <1>3
<1>5. ASSUME NEW n \in S PROVE n + 1 \in S
  <2> SUFFICES ASSUME n + 1 <= m PROVE g[n + 1] = f[n + 1]
    OBVIOUS
  <2>1. n \in Nat /\ n <= m /\ n + 1 \in 1 .. m /\ n + 1 \in 1 .. Len(s) /\ (n + 1) - 1 = n /\ g[n] = f[n]
    BY <1>1
  <2>2. g[n + 1] = g[n] + r[n + 1] /\ f[n + 1] = f[n] + s[n + 1] /\ r[n + 1] = s[n + 1]
    BY <1>2, <1>3, <2>1
  <2> QED
    BY <2>1, <2>2
<1> HIDE DEF S
<1>6. S = Nat
  <2>1. S \in SUBSET Nat
    BY DEF S
  <2> QED
    BY <1>4, <1>5, <2>1, AllNumbers
<1>7. g[m] = f[m]
  BY <1>1, <1>6 DEF S
<1> QED
  BY <1>2, <1>7 DEF r, f, g

\* What the lengths of buffers add up to.
LEMMA TotalFacts ==
  ASSUME NEW s \in Seq(Nat)
  PROVE  /\ Total(s) \in Nat
         /\ Len(s) = 1 => Total(s) = s[1]
         /\ Len(s) >= 1 => Total(s) >= s[1]
         /\ \A m \in 0 .. Len(s) : Total(SubSeq(s, 1, m)) \in Nat /\ Total(SubSeq(s, 1, m)) <= Total(s)
<1>1. Len(s) \in Nat /\ (Len(s) >= 1 => s[1] \in Nat)
  OBVIOUS
<1>2. Total(s) = Sums(s)[Len(s)] /\ Total(s) \in Nat
  BY <1>1, TotalSums, SumsRight
<1>3. Len(s) >= 1 => Sums(s)[1] = s[1]
  <2>1. Len(s) >= 1 => Sums(s)[1] = Sums(s)[1 - 1] + s[1]
    BY <1>1, SumsRight
  <2> QED
    BY <1>1, <2>1, SumsRight
<1>4. Len(s) >= 1 => Total(s) >= s[1]
  <2> SUFFICES ASSUME Len(s) >= 1 PROVE Total(s) >= s[1]
    OBVIOUS
  <2>1. Sums(s)[1] <= Sums(s)[Len(s)]
    <3>1. 1 \in 0 .. Len(s) /\ Len(s) \in 1 .. Len(s)
      BY <1>1
    <3> QED
      BY <3>1, SumsGrow
  <2> QED
    BY <1>1, <1>2, <1>3, <2>1
<1>5. ASSUME NEW m \in 0 .. Len(s)
      PROVE  Total(SubSeq(s, 1, m)) \in Nat /\ Total(SubSeq(s, 1, m)) <= Total(s)
  <2>1. Total(SubSeq(s, 1, m)) = Sums(s)[m] /\ Sums(s)[m] \in Nat
    BY SumsFirst, SumsRight, TotalSums
  <2>2. Len(s) \in m .. Len(s)
    BY <1>1
  <2>3. Sums(s)[m] <= Sums(s)[Len(s)]
    BY <2>2, SumsGrow
  <2> QED
    BY <1>2, <2>1, <2>3
<1>6. ASSUME Len(s) = 1 PROVE Total(s) = s[1]
  BY <1>2, <1>3, <1>6
<1> QED
  BY <1>2, <1>4, <1>5, <1>6

\* The buffers of a call.
LEMMA IovFacts ==
  ASSUME NEW iov \in Iovs
  PROVE  /\ iov \in Seq(Nat) /\ Len(iov) \in Nat /\ Len(iov) >= 1 /\ iov[1] \in Nat /\ iov[1] >= 1
         /\ Total(iov) \in Nat /\ Total(iov) >= 1 /\ (Len(iov) = 1 => Total(iov) = iov[1])
         /\ Cap(iov) \in Nat /\ Cap(iov) >= 1 /\ Cap(iov) <= Total(iov) /\ (Len(iov) = 1 => Cap(iov) = iov[1])
         /\ Gathered(iov) \in 1 .. IO_CHUNK /\ Gathered(iov) <= Total(iov)
<1>1. iov \in Seq(Nat) /\ Len(iov) \in Nat /\ Len(iov) >= 1 /\ iov[1] \in Nat /\ iov[1] >= 1
  <2>1. CASE iov \in {<<n>> : n \in 1 .. IO_CHUNK + 1}
    <3>1. PICK n \in 1 .. IO_CHUNK + 1 : iov = <<n>>
      BY <2>1
    <3>2. n \in Nat /\ n >= 1
      BY TransferAssumption
    <3> QED
      BY <3>1, <3>2
  <2>2. CASE iov = <<1, 1>>
    BY <2>2
  <2>3. CASE iov = <<1, 1, 1>>
    BY <2>3
  <2> QED
    BY <2>1, <2>2, <2>3 DEF Iovs
<1>2. Total(iov) \in Nat /\ Total(iov) >= 1 /\ (Len(iov) = 1 => Total(iov) = iov[1])
  BY <1>1, TotalFacts
<1> DEFINE m == Least(Len(iov), MAX_IOV)
           r == SubSeq(iov, 1, m)
<1>3. m \in 1 .. Len(iov) /\ m \in 0 .. Len(iov)
  BY <1>1, TransferAssumption DEF Least
<1> HIDE DEF m
<1>4. r \in Seq(Nat) /\ Len(r) = m /\ r[1] = iov[1]
  BY <1>1, <1>3
<1>5. Total(r) \in Nat /\ Total(r) <= Total(iov) /\ Total(r) >= 1 /\ (Len(iov) = 1 => Total(r) = iov[1])
  <2>1. Total(r) \in Nat /\ Total(r) <= Total(iov)
    BY <1>1, <1>3, TotalFacts
  <2> HIDE DEF r
  <2>2. (Len(r) = 1 => Total(r) = r[1]) /\ (Len(r) >= 1 => Total(r) >= r[1])
    BY <1>4, TotalFacts
  <2>3. Len(iov) = 1 => Len(r) = 1
    BY <1>3, <1>4
  <2> QED
    BY <1>1, <1>3, <1>4, <2>1, <2>2, <2>3
<1>6. Cap(iov) = Total(r) /\ Gathered(iov) = Least(Total(r), IO_CHUNK)
  BY DEF Cap, Gathered, m
<1> HIDE DEF r
<1>7. Gathered(iov) \in 1 .. IO_CHUNK /\ Gathered(iov) <= Total(iov)
  BY <1>2, <1>5, <1>6, TransferAssumption DEF Least
<1> QED
  BY <1>1, <1>2, <1>5, <1>6, <1>7

\* What a worker reads fits the buffers of its guest.
LEMMA WantFacts ==
  ASSUME Reckless = {}, NEW op \in {"read", "readv", "recvfrom", "recvmsg"}, NEW iov \in Iovs, Fits(op, iov),
         op \in {"read", "recvfrom"} => Len(iov) = 1
  PROVE  /\ Want(op, iov) \in 1 .. IO_CHUNK /\ Want(op, iov) <= Cap(iov)
         /\ \A n \in 1 .. IO_CHUNK : Least(Want(op, iov), n) = Least(n, Total(iov))
<1>1. IO_CHUNK \in Nat /\ IO_CHUNK >= 1
  BY TransferAssumption
<1>2. CASE op \in {"read", "recvfrom"}
  <2>1. Want(op, iov) = Least(iov[1], IO_CHUNK) /\ Cap(iov) = iov[1] /\ Total(iov) = iov[1] /\ iov[1] \in Nat /\ iov[1] >= 1
    BY <1>2, IovFacts DEF Want
  <2> QED
    BY <1>1, <2>1 DEF Least
<1>3. CASE op \in {"readv", "recvmsg"}
  <2>1. Want(op, iov) = IO_CHUNK /\ Cap(iov) >= IO_CHUNK /\ Cap(iov) \in Nat /\ Total(iov) \in Nat /\ Cap(iov) <= Total(iov)
    BY <1>3, IovFacts DEF Want, Fits
  <2> QED
    BY <1>1, <2>1 DEF Least
<1> QED
  BY <1>2, <1>3

-----------------------------------------------------------------------------
(* Transfer: the steps.                                                    *)

\* A call that is made and not yet served is what it says.
LEMMA CallFacts ==
  ASSUME Reckless = {}, IoInv, NEW w \in Workers, Busy(w)
  PROVE  LET c == rcall[w] IN
         /\ c \in ReceiveCall /\ c.op \in {"read", "readv", "recvfrom", "recvmsg"} /\ c.iov \in Iovs /\ kind # "log"
         /\ Want(c.op, c.iov) \in 1 .. IO_CHUNK /\ Want(c.op, c.iov) <= Cap(c.iov)
         /\ Want(c.op, c.iov) \in Nat /\ Cap(c.iov) \in Nat
         /\ \A n \in 1 .. IO_CHUNK : Least(Want(c.op, c.iov), n) = Least(n, Total(c.iov))
         /\ Recv(c.op) <=> c.op \in {"recvfrom", "recvmsg"}
<1> DEFINE c == rcall[w]
<1>1. c \in ReceiveCall
  BY DEF IoInv, IoTypes
<1>2. /\ kind # "log" /\ c.op \in ReadOps /\ c.iov \in Iovs /\ Fits(c.op, c.iov)
      /\ c.op \in {"read", "recvfrom"} => Len(c.iov) = 1
  BY DEF IoInv, CallMade, Busy
<1>3. c.op \in {"read", "readv", "recvfrom", "recvmsg"}
  BY <1>2 DEF ReadOps
<1>4. Want(c.op, c.iov) \in 1 .. IO_CHUNK /\ Want(c.op, c.iov) <= Cap(c.iov)
      /\ \A n \in 1 .. IO_CHUNK : Least(Want(c.op, c.iov), n) = Least(n, Total(c.iov))
  BY <1>2, <1>3, WantFacts
<1>5. Cap(c.iov) \in Nat
  BY <1>2, IovFacts
<1>6. Want(c.op, c.iov) \in Nat
  BY <1>4, TransferAssumption
<1> QED
  BY <1>1, <1>2, <1>3, <1>4, <1>5, <1>6 DEF Recv

\* The call without a caller.
LEMMA NoCallFacts ==
  /\ NoCall \in ReceiveCall /\ NoCall.pc = "idle" /\ NoCall.hand = <<>> /\ ~NoCall.live /\ ~NoCall.nb /\ NoCall.size = 0
<1> DEFINE t0 == CHOOSE t \in Readers : TRUE
<1>1. t0 \in Readers
  BY TransferAssumption
<1>2. NoCall = [pc |-> "idle", op |-> "none", thread |-> t0, iov |-> <<>>, hand |-> <<>>, size |-> 0, at |-> 0,
                nb |-> FALSE, live |-> FALSE]
  BY DEF NoCall
<1> HIDE DEF t0
<1> QED
  BY <1>1, <1>2 DEF ReceiveCall

\* The steps of a call while nothing is in the worker's hands.
LEMMA CallOnly ==
  ASSUME IoInv, NEW w \in Workers, NEW c \in ReceiveCall,
         rcall' = [rcall EXCEPT ![w] = c], UNCHANGED <<kind, queue, closed, off, pos, wcall, sent, got>>,
         ~Handing(w), rcall[w].hand = <<>>, c.hand = <<>>, c.pc \notin {"store", "reply"}, CallMade(w)',
         c.pc # "idle" => \A v \in Workers : v # w /\ Busy(v) =>
           Recv(c.op) /\ Recv(rcall[v].op) /\ rcall[v].thread # c.thread,
         kind = "proc" => off = pos
  PROVE  IoInv'
<1>1. /\ rcall'[w] = c /\ \A v \in Workers : v # w => rcall'[v] = rcall[v]
      /\ rcall' \in [Workers -> ReceiveCall]
  BY DEF IoInv, IoTypes
<1>2. IoTypes'
  BY <1>1 DEF IoInv, IoTypes
<1>3. ASSUME NEW v \in Workers PROVE CallMade(v)'
  <2>1. CASE v = w
    BY <2>1
  <2>2. CASE v # w
    <3>1. rcall'[v] = rcall[v] /\ CallMade(v)
      BY <1>1, <2>2 DEF IoInv
    <3> QED
      BY <3>1 DEF CallMade, Handing, Readable, ReadOps, Socket
  <2> QED
    BY <2>1, <2>2
<1>4. CallsApart'
  BY <1>1 DEF IoInv, CallsApart, Busy
<1>5. SendMade' /\ QueueOrdered'
  BY DEF IoInv, SendMade, QueueOrdered, Accepted
<1>6. HandsOrdered'
  <2>1. InOrder' /\ (\A b : Out(b)' <=> Out(b))
    BY DEF IoInv, HandsOrdered, InOrder, Out, Accepted
  <2>2. \A t \in Readers : \A i \in DOMAIN got[t] : kind # "proc" => Out(got[t][i])
    BY DEF IoInv, HandsOrdered
  <2>3. ASSUME NEW v \in Workers, rcall'[v].pc # "idle"
        PROVE  /\ Increasing(rcall'[v].hand)
               /\ \A i \in DOMAIN got[rcall'[v].thread], j \in DOMAIN rcall'[v].hand :
                    got[rcall'[v].thread][i] < rcall'[v].hand[j]
               /\ kind # "proc" => \A j \in DOMAIN rcall'[v].hand : Out(rcall'[v].hand[j])
    <3>1. CASE v = w
      BY <1>1, <3>1 DEF Increasing
    <3>2. CASE v # w
      BY <1>1, <2>3, <3>2 DEF IoInv, HandsOrdered, Busy
    <3> QED
      BY <3>1, <3>2
  <2> QED
    BY <2>1, <2>2, <2>3 DEF HandsOrdered, Busy, Increasing
<1>7. HandsRight'
  BY <1>1 DEF IoInv, HandsRight, Handing
<1>8. OffsetsRight'
  BY <1>1 DEF IoInv, OffsetsRight, Handing, Busy
<1>9. StreamKept'
  <2>1. \A v \in Workers : rcall'[v].hand = rcall[v].hand
    BY <1>1
  <2>2. UNION {ToSet(rcall'[v].hand) : v \in Workers} = UNION {ToSet(rcall[v].hand) : v \in Workers}
    BY <2>1
  <2>3. Gone' = Gone /\ Accepted' = Accepted
    BY DEF Gone, Accepted
  <2> QED
    BY <2>1, <2>2, <2>3 DEF IoInv, StreamKept
<1> QED
  BY <1>2, <1>3, <1>4, <1>5, <1>6, <1>7, <1>8, <1>9 DEF IoInv

\* A worker that gives its call up, or goes on to poll or to read.
LEMMA WaitSteps ==
  ASSUME Reckless = {}, IoInv, NEW w \in Workers, poll(w) \/ poll_slice(w) \/ recv_again(w) \/ signal(w)
  PROVE  IoInv'
<1> DEFINE c == rcall[w]
<1>1. UNCHANGED <<kind, queue, closed, off, pos, wcall, sent, got>>
  BY DEF poll, poll_slice, recv_again, signal
<1>2. /\ c.pc \in {"poll", "recv"} /\ ~Handing(w) /\ kind # "proc"
      /\ \/ rcall' = [rcall EXCEPT ![w] = NoCall]
         \/ rcall' = [rcall EXCEPT ![w] = [c EXCEPT !.pc = "read"]] /\ c.pc = "poll" /\ Readable /\ ~Recv(c.op)
         \/ rcall' = [rcall EXCEPT ![w] = [c EXCEPT !.pc = "recv"]] /\ Recv(c.op) /\ c.pc = "poll"
         \/ rcall' = [rcall EXCEPT ![w] = [c EXCEPT !.pc = "poll"]] /\ ~c.nb
         \/ rcall' = [rcall EXCEPT ![w] = [c EXCEPT !.live = FALSE]] /\ wcall.pc = "idle" /\ ~Readable
  <2>1. /\ c.pc = "idle" \/ (c.pc = "read" => Readable)
        /\ c.pc \in {"poll", "recv", "read"} => kind # "proc"
    BY DEF IoInv, CallMade
  <2>2. c.pc \in {"poll", "recv"}
    BY <2>1 DEF poll, poll_slice, recv_again, signal
  <2> QED
    BY <2>1, <2>2 DEF poll, poll_slice, recv_again, signal, End, Handing, poll_is_ready
<1>3. c \in ReceiveCall /\ CallMade(w)
  BY DEF IoInv, IoTypes
<1>4. c.hand = <<>> /\ Busy(w)
  BY <1>2, <1>3 DEF CallMade, Busy
<1>5. \A v \in Workers : v # w /\ Busy(v) => Recv(c.op) /\ Recv(rcall[v].op) /\ rcall[v].thread # c.thread
  BY <1>4 DEF IoInv, CallsApart
<1>6. ASSUME NEW d \in ReceiveCall, rcall' = [rcall EXCEPT ![w] = d],
             d.op = c.op, d.thread = c.thread, d.iov = c.iov, d.hand = <<>>, d.nb = c.nb, d.pc \in {"poll", "recv", "read"},
             d.nb => d.pc # "poll", d.pc = "recv" => Recv(d.op), d.pc = "read" => Readable /\ ~Recv(d.op),
             ~d.live => d.pc \in {"poll", "recv"} /\ wcall.pc = "idle" /\ ~Readable
      PROVE  IoInv'
  <2>1. rcall'[w] = d
    BY <1>6 DEF IoInv, IoTypes
  <2>2. CallMade(w)'
    BY <1>1, <1>2, <1>3, <1>6, <2>1 DEF CallMade, Readable, ReadOps, Socket, Handing
  <2> QED
    BY <1>1, <1>2, <1>4, <1>5, <1>6, <2>2, CallOnly
<1>7. CASE rcall' = [rcall EXCEPT ![w] = NoCall]
  <2>1. rcall'[w] = NoCall
    BY <1>7 DEF IoInv, IoTypes
  <2>2. CallMade(w)'
    BY <2>1, NoCallFacts DEF CallMade
  <2> QED
    BY <1>1, <1>2, <1>4, <1>7, <2>2, NoCallFacts, CallOnly
<1>8. CASE rcall' = [rcall EXCEPT ![w] = [c EXCEPT !.pc = "read"]] /\ c.pc = "poll" /\ Readable /\ ~Recv(c.op)
  <2> DEFINE d == [c EXCEPT !.pc = "read"]
  <2>1. d \in ReceiveCall /\ d.op = c.op /\ d.thread = c.thread /\ d.iov = c.iov /\ d.hand = <<>> /\ d.nb = c.nb
        /\ d.pc = "read" /\ d.live = c.live
    BY <1>3, <1>4 DEF ReceiveCall
  <2>2. c.live
    BY <1>2, <1>3, <1>8 DEF CallMade
  <2> HIDE DEF d
  <2> QED
    BY <1>6, <1>8, <2>1, <2>2 DEF d
<1>9. CASE rcall' = [rcall EXCEPT ![w] = [c EXCEPT !.pc = "recv"]] /\ Recv(c.op) /\ c.pc = "poll"
  <2> DEFINE d == [c EXCEPT !.pc = "recv"]
  <2>1. d \in ReceiveCall /\ d.op = c.op /\ d.thread = c.thread /\ d.iov = c.iov /\ d.hand = <<>> /\ d.nb = c.nb
        /\ d.pc = "recv" /\ d.live = c.live
    BY <1>3, <1>4 DEF ReceiveCall
  <2>2. ~c.live => wcall.pc = "idle" /\ ~Readable
    BY <1>2, <1>3 DEF CallMade
  <2> HIDE DEF d
  <2> QED
    BY <1>6, <1>9, <2>1, <2>2 DEF d
<1>10. CASE rcall' = [rcall EXCEPT ![w] = [c EXCEPT !.pc = "poll"]] /\ ~c.nb
  <2> DEFINE d == [c EXCEPT !.pc = "poll"]
  <2>1. d \in ReceiveCall /\ d.op = c.op /\ d.thread = c.thread /\ d.iov = c.iov /\ d.hand = <<>> /\ d.nb = c.nb
        /\ d.pc = "poll" /\ d.live = c.live
    BY <1>3, <1>4 DEF ReceiveCall
  <2>2. ~c.live => wcall.pc = "idle" /\ ~Readable
    BY <1>2, <1>3 DEF CallMade
  <2> HIDE DEF d
  <2> QED
    BY <1>6, <1>10, <2>1, <2>2 DEF d
<1>11. CASE rcall' = [rcall EXCEPT ![w] = [c EXCEPT !.live = FALSE]] /\ wcall.pc = "idle" /\ ~Readable
  <2> DEFINE d == [c EXCEPT !.live = FALSE]
  <2>1. d \in ReceiveCall /\ d.op = c.op /\ d.thread = c.thread /\ d.iov = c.iov /\ d.hand = <<>> /\ d.nb = c.nb
        /\ d.pc = c.pc
    BY <1>3, <1>4 DEF ReceiveCall
  <2>2. (c.nb => c.pc # "poll") /\ (c.pc = "recv" => Recv(c.op))
    BY <1>2, <1>3 DEF CallMade
  <2> HIDE DEF d
  <2> QED
    BY <1>2, <1>6, <1>11, <2>1, <2>2 DEF d
<1> QED
  BY <1>2, <1>7, <1>8, <1>9, <1>10, <1>11

\* A guest calls.
LEMMA ReceiveStep ==
  ASSUME Reckless = {}, IoInv, NEW w \in Workers, NEW t \in Readers, Undisturbed, receive(t, w)
  PROVE  IoInv'
<1>1. PICK op \in ReadOps, iov \in Iovs, nb \in BOOLEAN :
        /\ kind # "log" /\ rcall[w].pc = "idle"
        /\ \A v \in Workers : rcall[v].pc = "idle" \/ ~rcall[v].live \/ rcall[v].thread # t
        /\ op \in {"read", "recvfrom"} => Len(iov) = 1
        /\ Fits(op, iov) /\ Alone(t, op)
        /\ nb => Recv(op)
        /\ rcall' = [rcall EXCEPT ![w] = [NoCall EXCEPT !.pc = FirstPc(op), !.op = op, !.thread = t,
                                                        !.iov = iov, !.nb = nb, !.live = TRUE]]
  BY DEF receive
<1>2. UNCHANGED <<kind, queue, closed, off, pos, wcall, sent, got>>
  BY DEF receive
<1> DEFINE c == [NoCall EXCEPT !.pc = FirstPc(op), !.op = op, !.thread = t, !.iov = iov, !.nb = nb, !.live = TRUE]
<1>3. op \in {"read", "readv", "recvfrom", "recvmsg"} /\ (kind = "proc" => ~Recv(op))
      /\ (Recv(op) <=> op \in {"recvfrom", "recvmsg"})
  BY DEF ReadOps, Recv, Socket
<1>4. FirstPc(op) \in {"recv", "load", "poll"} /\ (FirstPc(op) = "recv" <=> Recv(op)) /\ (FirstPc(op) = "load" <=> kind = "proc")
  BY <1>3 DEF FirstPc
<1>5. iov \in Seq(Nat)
  BY IovFacts
<1>6. c \in ReceiveCall /\ c.pc = FirstPc(op) /\ c.op = op /\ c.thread = t /\ c.iov = iov /\ c.nb = nb /\ c.live /\ c.hand = <<>>
  BY <1>3, <1>4, <1>5, NoCallFacts DEF ReceiveCall
<1> HIDE DEF c
<1>7. rcall' = [rcall EXCEPT ![w] = c] /\ rcall'[w] = c
  BY <1>1 DEF c, IoInv, IoTypes
<1>8. CallMade(w)'
  BY <1>1, <1>2, <1>3, <1>4, <1>6, <1>7 DEF CallMade, Readable, ReadOps, Socket, Handing, Fits, Recv
<1>9. rcall[w] = NoCall
  BY <1>1 DEF IoInv, CallMade
<1>10. \A v \in Workers : v # w /\ Busy(v) => Recv(c.op) /\ Recv(rcall[v].op) /\ rcall[v].thread # c.thread
  <2> SUFFICES ASSUME NEW v \in Workers, Busy(v) PROVE Recv(c.op) /\ Recv(rcall[v].op) /\ rcall[v].thread # c.thread
    OBVIOUS
  <2>1. rcall[v].live
    BY DEF Undisturbed, Unaware, Busy
  <2> QED
    BY <1>1, <1>6, <2>1 DEF Alone, Busy
<1>11. kind = "proc" => off = pos
  <2> SUFFICES ASSUME kind = "proc" PROVE \A v \in Workers : ~Busy(v)
    BY DEF IoInv, OffsetsRight
  <2> QED
    BY <1>1, <1>3 DEF Alone, Busy
<1> QED
  BY <1>2, <1>4, <1>6, <1>7, <1>8, <1>9, <1>10, <1>11, NoCallFacts, CallOnly DEF Handing

\* The bytes of a stream in the kernel, one by one.
QueueWhole ==
  kind \in Streams => Len(queue) <= Accepted /\ \A i \in DOMAIN queue : queue[i].data = <<Gone + i>>

\* The steps of the sender, which no worker and no reader takes part in.
LEMMA SenderOnly ==
  ASSUME IoInv, UNCHANGED <<kind, off, pos, rcall, got>>,
         IoTypes', SendMade', QueueOrdered', QueueWhole', kind \in Streams => Gone' = Gone,
         \A b \in Nat : Out(b) => Out(b)',
         Readable => Readable',
         \A w \in Workers : Busy(w) /\ ~rcall[w].live => wcall'.pc = "idle" /\ ~Readable',
         \A w \in Workers : Handing(w) /\ Len(rcall[w].hand) = 0 /\ kind # "proc" => closed' /\ queue' = <<>>
  PROVE  IoInv'
<1>1. ASSUME NEW w \in Workers PROVE CallMade(w)'
  <2>1. CallMade(w)
    BY DEF IoInv
  <2>2. Readable => Readable'
    OBVIOUS
  <2>3. Busy(w) /\ ~rcall[w].live => wcall'.pc = "idle" /\ ~Readable'
    OBVIOUS
  <2> QED
    BY <2>1, <2>2, <2>3 DEF CallMade, ReadOps, Socket, Handing, Busy
<1>2. CallsApart'
  BY DEF IoInv, CallsApart, Busy
<1>3. HandsOrdered'
  <2>1. \A t \in Readers : \A i \in DOMAIN got[t] : got[t][i] \in Nat
    BY DEF IoInv, IoTypes
  <2>2. \A w \in Workers : \A i \in DOMAIN rcall[w].hand : rcall[w].hand[i] \in Nat
    BY DEF IoInv, IoTypes, ReceiveCall
  <2>3. InOrder'
    BY DEF IoInv, HandsOrdered, InOrder
  <2>4. kind # "proc" => \A t \in Readers : \A i \in DOMAIN got[t] : Out(got[t][i])'
    BY <2>1 DEF IoInv, HandsOrdered
  <2>5. ASSUME NEW w \in Workers, Busy(w), kind # "proc" PROVE \A j \in DOMAIN rcall[w].hand : Out(rcall[w].hand[j])'
    BY <2>2, <2>5 DEF IoInv, HandsOrdered
  <2> QED
    BY <2>3, <2>4, <2>5 DEF IoInv, HandsOrdered, Busy, Increasing
<1>4. HandsRight'
  BY DEF IoInv, HandsRight, Handing
<1>5. OffsetsRight'
  BY DEF IoInv, OffsetsRight, Handing, Busy
<1>6. StreamKept'
  BY DEF IoInv, StreamKept, QueueWhole
<1> QED
  BY <1>1, <1>2, <1>3, <1>4, <1>5, <1>6 DEF IoInv

LEMMA SendSteps ==
  ASSUME Reckless = {}, IoInv, (Undisturbed /\ (send \/ shutdown)) \/ send_reply
  PROVE  IoInv'
<1>1. UNCHANGED <<kind, queue, off, pos, rcall, got>>
  BY DEF send, shutdown, send_reply
<1>2. sent \in Nat /\ wcall \in SendCall /\ NoSend \in SendCall /\ SendMade /\ NoSend.pc = "idle" /\ NoSend.n = 0
  BY DEF IoInv, IoTypes, NoSend, SendCall
<1>3. CASE Undisturbed /\ send
  <2>1. PICK iov \in Iovs :
          /\ kind # "proc" /\ wcall.pc = "idle" /\ ~closed
          /\ kind = "dgram" => Gathered(iov) = Total(iov)
          /\ wcall' = [NoSend EXCEPT !.pc = "write", !.gathered = Gathered(iov), !.size = Total(iov)]
          /\ UNCHANGED <<closed, sent>>
    BY <1>3 DEF send
  <2>2. Gathered(iov) \in 1 .. IO_CHUNK /\ Gathered(iov) \in Nat /\ Total(iov) \in Nat
    BY IovFacts, TransferAssumption
  <2>3. wcall' = [pc |-> "write", gathered |-> Gathered(iov), size |-> Total(iov), n |-> 0]
    BY <2>1 DEF NoSend
  <2>4. wcall' \in SendCall /\ wcall'.n = 0 /\ wcall.n = 0
    BY <1>2, <2>1, <2>2, <2>3 DEF SendCall, SendMade
  <2>5. Accepted' = Accepted /\ Gone' = Gone
    BY <1>1, <2>1, <2>4 DEF Accepted, Gone
  <2>6. IoTypes'
    BY <1>1, <2>1, <2>4 DEF IoInv, IoTypes
  <2>7. SendMade'
    <3>1. /\ wcall'.pc = "write" /\ wcall'.n = 0 /\ wcall'.gathered = Gathered(iov) /\ wcall'.size = Total(iov)
          /\ ~closed' /\ kind' # "proc"
      <4>1. ~closed' /\ kind' # "proc"
        BY <1>1, <2>1
      <4>2. wcall'.pc = "write" /\ wcall'.n = 0 /\ wcall'.gathered = Gathered(iov) /\ wcall'.size = Total(iov)
        BY <2>3
      <4> QED
        BY <4>1, <4>2
    <3>2. wcall'.gathered \in 1 .. IO_CHUNK
      BY <2>2, <3>1
    <3>3. (kind = "dgram" => wcall.gathered = wcall.size)'
      BY <1>1, <2>1, <3>1
    <3> QED
      BY <3>1, <3>2, <3>3 DEF SendMade
  <2>8. QueueOrdered' /\ QueueWhole' /\ \A b \in Nat : Out(b) => Out(b)'
    BY <1>1, <2>5 DEF IoInv, QueueOrdered, StreamKept, QueueWhole, Out
  <2>9. \A w \in Workers : ~(Busy(w) /\ ~rcall[w].live)
    BY <1>3 DEF Undisturbed, Unaware, Busy
  <2>10. (Readable => Readable')
         /\ \A w \in Workers : Handing(w) /\ Len(rcall[w].hand) = 0 /\ kind # "proc" => closed' /\ queue' = <<>>
    BY <1>1, <2>1 DEF Readable, IoInv, HandsRight
  <2> QED
    BY <1>1, <2>5, <2>6, <2>7, <2>8, <2>9, <2>10, SenderOnly
<1>4. CASE Undisturbed /\ shutdown
  <2>1. kind \in {"pipe", "stream"} /\ ~closed /\ wcall.pc = "idle" /\ closed' = TRUE /\ UNCHANGED <<wcall, sent>>
    BY <1>4 DEF shutdown
  <2>2. Accepted' = Accepted /\ Gone' = Gone
    BY <1>1, <2>1 DEF Accepted, Gone
  <2>3. IoTypes' /\ SendMade'
    BY <1>1, <1>2, <2>1 DEF IoInv, IoTypes, SendMade
  <2>4. QueueOrdered' /\ QueueWhole' /\ \A b \in Nat : Out(b) => Out(b)'
    BY <1>1, <2>2 DEF IoInv, QueueOrdered, StreamKept, QueueWhole, Out
  <2>5. \A w \in Workers : ~(Busy(w) /\ ~rcall[w].live)
    BY <1>4 DEF Undisturbed, Unaware, Busy
  <2>6. (Readable => Readable')
         /\ \A w \in Workers : Handing(w) /\ Len(rcall[w].hand) = 0 /\ kind # "proc" => closed' /\ queue' = <<>>
    BY <1>1, <2>1 DEF Readable, IoInv, HandsRight
  <2> QED
    BY <1>1, <2>2, <2>3, <2>4, <2>5, <2>6, SenderOnly
<1>5. CASE send_reply
  <2>1. wcall.pc = "reply" /\ sent' = sent + wcall.n /\ wcall' = NoSend /\ UNCHANGED closed
    BY <1>5 DEF send_reply
  <2>2. sent' \in Nat /\ Accepted' = Accepted /\ Gone' = Gone
    BY <1>1, <1>2, <2>1 DEF Accepted, Gone, SendCall
  <2>3. IoTypes' /\ SendMade'
    BY <1>1, <1>2, <2>1, <2>2 DEF IoInv, IoTypes, SendMade
  <2>4. QueueOrdered' /\ QueueWhole' /\ \A b \in Nat : Out(b) => Out(b)'
    BY <1>1, <2>2 DEF IoInv, QueueOrdered, StreamKept, QueueWhole, Out
  <2>5. \A w \in Workers : Busy(w) /\ ~rcall[w].live => wcall'.pc = "idle" /\ ~Readable'
    BY <1>1, <1>2, <2>1 DEF IoInv, CallMade, Busy, Readable
  <2>6. (Readable => Readable')
         /\ \A w \in Workers : Handing(w) /\ Len(rcall[w].hand) = 0 /\ kind # "proc" => closed' /\ queue' = <<>>
    BY <1>1, <2>1 DEF Readable, IoInv, HandsRight
  <2> QED
    BY <1>1, <2>2, <2>3, <2>4, <2>5, <2>6, SenderOnly
<1> QED
  BY <1>3, <1>4, <1>5

\* What a write adds to the kernel's queue.
LEMMA MessageFacts ==
  ASSUME NEW from \in Nat, NEW k \in Nat, k > 0, kind \in Kinds, wcall \in SendCall
  PROVE  LET m == Message(from, k) IN
         /\ m \in Seq([data : Seq(Nat), size : Nat]) /\ Len(m) \in Nat
         /\ Len(m) = IF kind = "dgram" THEN 1 ELSE k
         /\ \A i \in 1 .. Len(m) :
              /\ m[i].data = IF kind = "dgram" THEN [j \in 1 .. k |-> from + j] ELSE <<from + i>>
              /\ kind = "dgram" => m[i].size = wcall.size
<1>1. CASE kind = "dgram"
  <2> DEFINE d == [j \in 1 .. k |-> from + j]
  <2>1. d \in Seq(Nat)
    OBVIOUS
  <2>2. Message(from, k) = <<[data |-> d, size |-> wcall.size]>>
    BY <1>1 DEF Message
  <2>3. wcall.size \in Nat
    BY DEF SendCall
  <2> HIDE DEF d
  <2> QED
    BY <1>1, <2>1, <2>2, <2>3 DEF d
<1>2. CASE kind # "dgram"
  <2> DEFINE m == [i \in 1 .. k |-> [data |-> <<from + i>>, size |-> 1]]
  <2>1. Message(from, k) = m
    BY <1>2 DEF Message
  <2>2. \A i \in 1 .. k : <<from + i>> \in Seq(Nat)
    OBVIOUS
  <2>3. m \in [1 .. k -> [data : Seq(Nat), size : Nat]]
    BY <2>2
  <2>4. m \in Seq([data : Seq(Nat), size : Nat]) /\ Len(m) = k
    BY <2>3
  <2> QED
    BY <1>2, <2>1, <2>4
<1> QED
  BY <1>1, <1>2

\* A sequence that is put after another.
LEMMA AfterFacts ==
  ASSUME NEW S, NEW s \in Seq(S), NEW t \in Seq(S)
  PROVE  /\ s \o t \in Seq(S) /\ Len(s \o t) = Len(s) + Len(t) /\ DOMAIN (s \o t) = 1 .. Len(s) + Len(t)
         /\ \A i \in 1 .. Len(s) : (s \o t)[i] = s[i]
         /\ \A i \in 1 .. Len(s) + Len(t) : i > Len(s) => i - Len(s) \in 1 .. Len(t) /\ (s \o t)[i] = t[i - Len(s)]
  OBVIOUS

LEMMA WriteStep ==
  ASSUME IoInv, write_to_sink
  PROVE  IoInv'
<1> DEFINE n == wcall.gathered
           k == IF kind \in {"dgram", "log"} THEN n ELSE Least(n, FreeRoom)
           m == Message(sent, k)
           L == Len(queue)
<1>1. /\ wcall.pc = "write" /\ k > 0 /\ queue' = queue \o m /\ wcall' = [wcall EXCEPT !.pc = "reply", !.n = k]
      /\ UNCHANGED <<kind, closed, off, pos, rcall, sent, got>>
  BY DEF write_to_sink
<1>2. /\ sent \in Nat /\ DOMAIN queue = 1 .. L /\ wcall \in SendCall /\ queue \in Seq([data : Seq(Nat), size : Nat]) /\ L \in Nat /\ kind \in Kinds
      /\ QueueOrdered /\ SendMade
  BY DEF IoInv, IoTypes
<1>3. n \in 1 .. IO_CHUNK /\ (kind = "dgram" => n = wcall.size) /\ ~closed /\ kind # "proc" /\ wcall.n = 0
  BY <1>1, <1>2 DEF SendMade
<1>4. k \in 1 .. n /\ k \in Nat /\ (kind = "dgram" => k = wcall.size /\ k <= IO_CHUNK) /\ k <= IO_CHUNK
  <2>1. IO_CHUNK \in Nat /\ n \in Nat
    BY <1>3, TransferAssumption
  <2>2. kind \notin {"dgram", "log"} => FreeRoom \in Int
    BY <1>2, TransferAssumption DEF FreeRoom
  <2> QED
    BY <1>1, <1>3, <2>1, <2>2 DEF Least
<1> HIDE DEF k
<1>5. /\ m \in Seq([data : Seq(Nat), size : Nat]) /\ Len(m) \in Nat
      /\ Len(m) = IF kind = "dgram" THEN 1 ELSE k
      /\ \A i \in 1 .. Len(m) :
           /\ m[i].data = IF kind = "dgram" THEN [j \in 1 .. k |-> sent + j] ELSE <<sent + i>>
           /\ kind = "dgram" => m[i].size = wcall.size
  BY <1>1, <1>2, <1>4, MessageFacts
<1> HIDE DEF m, L
<1>6. Accepted = sent /\ Accepted' = sent + k
  BY <1>1, <1>2, <1>3 DEF Accepted, SendCall
<1>7. /\ queue' \in Seq([data : Seq(Nat), size : Nat]) /\ Len(queue') = L + Len(m) /\ DOMAIN queue' = 1 .. L + Len(m)
      /\ \A i \in 1 .. L : queue'[i] = queue[i]
      /\ \A i \in 1 .. L + Len(m) : i > L => i - L \in 1 .. Len(m) /\ queue'[i] = m[i - L]
  <2> DEFINE R == [data : Seq(Nat), size : Nat]
  <2>1. queue \in Seq(R) /\ m \in Seq(R) /\ L = Len(queue) /\ queue' = queue \o m
    BY <1>1, <1>2, <1>5 DEF L
  <2> HIDE DEF R
  <2>2. /\ queue \o m \in Seq(R) /\ Len(queue \o m) = L + Len(m) /\ DOMAIN (queue \o m) = 1 .. L + Len(m)
        /\ \A i \in 1 .. L : (queue \o m)[i] = queue[i]
        /\ \A i \in 1 .. L + Len(m) : i > L => i - L \in 1 .. Len(m) /\ (queue \o m)[i] = m[i - L]
    BY <2>1, AfterFacts
  <2> QED
    BY <2>1, <2>2 DEF R
<1>8. wcall' \in SendCall /\ wcall'.pc = "reply" /\ IoTypes'
  <2>1. wcall' \in SendCall /\ wcall'.pc = "reply"
    BY <1>1, <1>2, <1>4 DEF SendCall
  <2> QED
    BY <1>1, <1>7, <2>1 DEF IoInv, IoTypes
<1>9. SendMade'
  BY <1>1, <1>3, <1>8 DEF SendMade
<1>10. \A i \in 1 .. L : \A j \in DOMAIN queue[i].data : queue[i].data[j] \in Nat /\ queue[i].data[j] <= sent
  <2> DEFINE R == [data : Seq(Nat), size : Nat]
  <2>0. queue \in Seq(R) /\ L = Len(queue)
    BY <1>2 DEF L
  <2> HIDE DEF R
  <2>1. \A i \in 1 .. L : queue[i] \in R
    BY <2>0
  <2>2. \A i \in 1 .. L : queue[i].data \in Seq(Nat)
    BY <2>1 DEF R
  <2>3. \A i \in 1 .. L : \A j \in DOMAIN queue[i].data : queue[i].data[j] <= sent
    BY <1>2, <1>6 DEF QueueOrdered
  <2>4. ASSUME NEW i \in 1 .. L, NEW j \in DOMAIN queue[i].data PROVE queue[i].data[j] \in Nat
    <3> DEFINE d == queue[i].data
    <3>1. d \in Seq(Nat)
      BY <2>2
    <3> HIDE DEF d
    <3> QED
      BY <3>1 DEF d
  <2> QED
    BY <2>3, <2>4
<1>11. \A i \in 1 .. Len(m) :
         /\ Increasing(m[i].data) /\ Len(m[i].data) >= 1
         /\ \A j \in DOMAIN m[i].data : m[i].data[j] \in Nat /\ m[i].data[j] > sent /\ m[i].data[j] <= sent + k
         /\ kind = "dgram" => Len(m[i].data) = m[i].size /\ m[i].size <= IO_CHUNK
  <2> SUFFICES ASSUME NEW i \in 1 .. Len(m)
               PROVE  /\ Increasing(m[i].data) /\ Len(m[i].data) >= 1
                      /\ \A j \in DOMAIN m[i].data : m[i].data[j] \in Nat /\ m[i].data[j] > sent /\ m[i].data[j] <= sent + k
                      /\ kind = "dgram" => Len(m[i].data) = m[i].size /\ m[i].size <= IO_CHUNK
    OBVIOUS
  <2>1. CASE kind = "dgram"
    <3> DEFINE d == [j \in 1 .. k |-> sent + j]
    <3>1. m[i].data = d /\ m[i].size = wcall.size
      BY <1>5, <2>1
    <3>2. Len(d) = k /\ DOMAIN d = 1 .. k /\ \A j \in 1 .. k : d[j] = sent + j
      BY <1>4
    <3> HIDE DEF d
    <3>3. Increasing(d)
      BY <1>2, <1>4, <3>2 DEF Increasing
    <3> QED
      BY <1>2, <1>4, <2>1, <3>1, <3>2, <3>3
  <2>2. CASE kind # "dgram"
    <3> DEFINE d == <<sent + i>>
    <3>1. m[i].data = d /\ i \in 1 .. k
      BY <1>5, <2>2
    <3>2. Len(d) = 1 /\ DOMAIN d = {1} /\ d[1] = sent + i
      OBVIOUS
    <3> HIDE DEF d
    <3> QED
      BY <1>2, <1>4, <2>2, <3>1, <3>2 DEF Increasing
  <2> QED
    BY <2>1, <2>2
<1>12. QueueOrdered'
  <2>1. ASSUME NEW i \in 1 .. L + Len(m)
        PROVE  /\ Increasing(queue'[i].data) /\ Len(queue'[i].data) >= 1
               /\ \A j \in DOMAIN queue'[i].data : queue'[i].data[j] <= sent + k
               /\ kind = "dgram" => Len(queue'[i].data) = queue'[i].size /\ queue'[i].size <= IO_CHUNK
    <3>1. CASE i <= L
      <4>1. i \in 1 .. L /\ queue'[i] = queue[i]
        BY <1>2, <1>7, <3>1
      <4>2. \A j \in DOMAIN queue[i].data : queue[i].data[j] <= sent + k
        BY <1>2, <1>4, <1>10, <4>1
      <4> QED
        BY <1>2, <4>1, <4>2 DEF QueueOrdered
    <3>2. CASE i > L
      <4>1. i - L \in 1 .. Len(m) /\ queue'[i] = m[i - L]
        BY <1>7, <3>2
      <4> QED
        BY <1>11, <4>1
    <3> QED
      BY <1>2, <3>1, <3>2
  <2>2. ASSUME NEW i \in 1 .. L + Len(m), NEW j \in 1 .. L + Len(m), i < j,
               NEW x \in DOMAIN queue'[i].data, NEW y \in DOMAIN queue'[j].data
        PROVE  queue'[i].data[x] < queue'[j].data[y]
    <3>1. CASE j <= L
      <4>0. i \in 1 .. L /\ j \in 1 .. L
        BY <1>2, <1>5, <2>2, <3>1
      <4>1. i \in 1 .. L /\ j \in 1 .. L /\ queue'[i] = queue[i] /\ queue'[j] = queue[j]
        BY <1>7, <4>0
      <4> QED
        BY <1>2, <2>2, <4>1 DEF QueueOrdered
    <3>2. CASE i <= L /\ j > L
      <4>1. i \in 1 .. L /\ queue'[i] = queue[i] /\ j - L \in 1 .. Len(m) /\ queue'[j] = m[j - L]
        BY <1>2, <1>7, <3>2
      <4>2. queue[i].data[x] \in Nat /\ queue[i].data[x] <= sent /\ m[j - L].data[y] \in Nat /\ m[j - L].data[y] > sent
        BY <1>10, <1>11, <4>1
      <4> QED
        BY <1>2, <4>1, <4>2
    <3>3. CASE i > L
      <4>0. i > L /\ j > L /\ i - L < j - L
        BY <1>2, <1>5, <2>2, <3>3
      <4>1. i - L \in 1 .. Len(m) /\ queue'[i] = m[i - L] /\ j - L \in 1 .. Len(m) /\ queue'[j] = m[j - L] /\ i - L < j - L
        BY <1>7, <4>0
      <4>2. kind # "dgram"
        BY <1>5, <4>1
      <4>3. m[i - L].data = <<sent + (i - L)>> /\ m[j - L].data = <<sent + (j - L)>>
        BY <1>5, <4>1, <4>2
      <4>4. queue'[i].data[x] = sent + (i - L) /\ queue'[j].data[y] = sent + (j - L)
        BY <4>1, <4>3
      <4> QED
        BY <1>2, <4>1, <4>4
    <3> QED
      BY <1>2, <3>1, <3>2, <3>3
  <2>3. \A i \in DOMAIN queue' :
          /\ Increasing(queue'[i].data) /\ Len(queue'[i].data) >= 1
          /\ \A j \in DOMAIN queue'[i].data : queue'[i].data[j] <= Accepted'
          /\ kind' = "dgram" => Len(queue'[i].data) = queue'[i].size /\ queue'[i].size <= IO_CHUNK
    BY <1>1, <1>6, <1>7, <2>1
  <2>4. \A i, j \in DOMAIN queue' : i < j =>
          \A x \in DOMAIN queue'[i].data, y \in DOMAIN queue'[j].data : queue'[i].data[x] < queue'[j].data[y]
    BY <1>7, <2>2
  <2> QED
    BY <2>3, <2>4 DEF QueueOrdered, Increasing
<1>13. ASSUME kind \in Streams PROVE QueueWhole' /\ Gone' = Gone
  <2>1. Len(m) = k /\ L <= sent /\ \A i \in 1 .. L : queue[i].data = <<(sent - L) + i>>
    <3>1. Len(m) = k /\ Len(queue) <= Accepted /\ \A i \in DOMAIN queue : queue[i].data = <<Gone + i>>
      BY <1>5, <1>13 DEF IoInv, StreamKept, Streams
    <3>2. Gone = sent - L
      BY <1>6 DEF Gone, L
    <3> QED
      BY <1>2, <1>6, <3>1, <3>2 DEF L
  <2>2. Gone = sent - L /\ Gone' = sent - L
    <3>1. Gone = sent - L /\ Gone' = (sent + k) - (L + k)
      BY <1>6, <1>7, <2>1 DEF Gone, L
    <3> QED
      BY <1>2, <1>4, <3>1
  <2>3. ASSUME NEW i \in 1 .. L + Len(m) PROVE queue'[i].data = <<(sent - L) + i>>
    <3>1. CASE i <= L
      BY <1>2, <1>7, <2>1, <3>1
    <3>2. CASE i > L
      <4>0. sent \in Nat /\ L \in Nat /\ i \in Nat
        BY <1>2, <1>5
      <4>1. i - L \in 1 .. Len(m) /\ queue'[i] = m[i - L]
        BY <1>7, <3>2
      <4>2. sent + (i - L) = (sent - L) + i
        BY ONLY <4>0
      <4> QED
        BY <1>5, <1>13, <4>1, <4>2 DEF Streams
    <3> QED
      BY <1>2, <3>1, <3>2
  <2>4. Len(queue') <= Accepted'
    BY <1>2, <1>4, <1>6, <1>7, <2>1
  <2> QED
    BY <1>7, <2>2, <2>3, <2>4 DEF QueueWhole
<1>14. ASSUME NEW b \in Nat, Out(b) PROVE Out(b)'
  <2>1. b <= sent /\ \A i \in 1 .. L : \A j \in DOMAIN queue[i].data : b < queue[i].data[j]
    BY <1>2, <1>6, <1>14 DEF Out
  <2>2. ASSUME NEW i \in 1 .. L + Len(m), NEW j \in DOMAIN queue'[i].data PROVE b < queue'[i].data[j]
    <3>1. CASE i <= L
      <4>1. i \in 1 .. L /\ queue'[i] = queue[i]
        BY <1>2, <1>7, <3>1
      <4> QED
        BY <2>1, <4>1
    <3>2. CASE i > L
      <4>1. i - L \in 1 .. Len(m) /\ queue'[i] = m[i - L]
        BY <1>7, <3>2
      <4>2. m[i - L].data[j] \in Nat /\ m[i - L].data[j] > sent
        BY <1>11, <4>1
      <4> QED
        BY <1>2, <2>1, <4>1, <4>2
    <3> QED
      BY <1>2, <3>1, <3>2
  <2>3. b <= sent + k
    BY <1>2, <1>4, <2>1
  <2> QED
    BY <1>6, <1>7, <2>2, <2>3 DEF Out
<1>15. Readable' /\ (Readable => Readable')
  <2>1. Len(queue') > 0
    BY <1>2, <1>4, <1>5, <1>7
  <2> QED
    BY <1>7, <2>1 DEF Readable
<1>16. \A w \in Workers : /\ ~(Busy(w) /\ ~rcall[w].live)
                          /\ ~(Handing(w) /\ Len(rcall[w].hand) = 0)
  BY <1>1, <1>3 DEF IoInv, CallMade, HandsRight, Busy
<1>17. QueueWhole'
  BY <1>1, <1>13 DEF QueueWhole
<1> QED
  BY <1>1, <1>8, <1>9, <1>12, <1>13, <1>14, <1>15, <1>16, <1>17, SenderOnly

\* What a reader has after another part is put to it.
LEMMA AfterGot ==
  ASSUME NEW s \in Seq(Nat), NEW t \in Seq(Nat)
  PROVE  /\ s \o t \in Seq(Nat) /\ ToSet(s \o t) = ToSet(s) \cup ToSet(t)
         /\ (Increasing(s) /\ Increasing(t) /\ \A i \in DOMAIN s, j \in DOMAIN t : s[i] < t[j]) => Increasing(s \o t)
         /\ \A i \in DOMAIN (s \o t) : (\E j \in DOMAIN s : (s \o t)[i] = s[j]) \/ \E j \in DOMAIN t : (s \o t)[i] = t[j]
<1> DEFINE r == s \o t
           L == Len(s)
<1>1. /\ r \in Seq(Nat) /\ Len(r) = L + Len(t) /\ DOMAIN r = 1 .. L + Len(t)
      /\ \A i \in 1 .. L : r[i] = s[i]
      /\ \A i \in 1 .. L + Len(t) : i > L => i - L \in 1 .. Len(t) /\ r[i] = t[i - L]
  BY AfterFacts
<1>2. /\ L \in Nat /\ Len(t) \in Nat /\ DOMAIN s = 1 .. L /\ DOMAIN t = 1 .. Len(t)
      /\ (\A i \in DOMAIN s : s[i] \in Nat) /\ (\A i \in DOMAIN t : t[i] \in Nat)
  OBVIOUS
<1> HIDE DEF r, L
<1>3. \A i \in DOMAIN r : (\E j \in DOMAIN s : r[i] = s[j]) \/ \E j \in DOMAIN t : r[i] = t[j]
  <2> SUFFICES ASSUME NEW i \in DOMAIN r PROVE (\E j \in DOMAIN s : r[i] = s[j]) \/ \E j \in DOMAIN t : r[i] = t[j]
    OBVIOUS
  <2>1. CASE i <= L
    <3>1. i \in DOMAIN s
      BY <1>1, <1>2, <2>1
    <3> QED
      BY <1>1, <1>2, <3>1
  <2>2. CASE i > L
    BY <1>1, <1>2, <2>2
  <2> QED
    BY <1>1, <1>2, <2>1, <2>2
<1>4. (\A i \in DOMAIN s : i \in DOMAIN r /\ r[i] = s[i]) /\ \A j \in DOMAIN t : L + j \in DOMAIN r /\ r[L + j] = t[j]
  <2>1. ASSUME NEW i \in DOMAIN s PROVE i \in DOMAIN r /\ r[i] = s[i]
    BY <1>1, <1>2
  <2>2. ASSUME NEW j \in DOMAIN t PROVE L + j \in DOMAIN r /\ r[L + j] = t[j]
    <3>1. L + j \in 1 .. L + Len(t) /\ L + j > L /\ (L + j) - L = j
      BY <1>2
    <3> QED
      BY <1>1, <3>1
  <2> QED
    BY <2>1, <2>2
<1>5. ToSet(r) = ToSet(s) \cup ToSet(t)
  <2>1. ASSUME NEW b \in ToSet(r) PROVE b \in ToSet(s) \cup ToSet(t)
    BY <1>3 DEF ToSet
  <2>2. ASSUME NEW b \in ToSet(s) \cup ToSet(t) PROVE b \in ToSet(r)
    BY <1>4 DEF ToSet
  <2> QED
    BY <2>1, <2>2
<1>6. ASSUME Increasing(s), Increasing(t), \A i \in DOMAIN s, j \in DOMAIN t : s[i] < t[j] PROVE Increasing(r)
  <2> SUFFICES ASSUME NEW i \in DOMAIN r, NEW j \in DOMAIN r, i < j PROVE r[i] < r[j]
    BY DEF Increasing
  <2>1. CASE j <= L
    <3>1. i \in DOMAIN s /\ j \in DOMAIN s
      BY <1>1, <1>2, <2>1
    <3> QED
      BY <1>6, <1>4, <3>1 DEF Increasing
  <2>2. CASE i <= L /\ j > L
    <3>1. i \in DOMAIN s /\ j - L \in DOMAIN t /\ r[j] = t[j - L] /\ r[i] = s[i]
      BY <1>1, <1>2, <2>2
    <3> QED
      BY <1>6, <3>1
  <2>3. CASE i > L
    <3>1. i - L \in DOMAIN t /\ r[i] = t[i - L] /\ j > L
      BY <1>1, <1>2, <2>3
    <3>2. j - L \in DOMAIN t /\ r[j] = t[j - L] /\ i - L < j - L
      BY <1>1, <1>2, <2>3, <3>1
    <3> QED
      BY <1>6, <3>1, <3>2 DEF Increasing
  <2> QED
    BY <1>1, <1>2, <2>1, <2>2, <2>3
<1> QED
  BY <1>1, <1>3, <1>5, <1>6 DEF r

\* The bytes at the head of a stream.
LEMMA BytesFacts ==
  ASSUME IoInv, kind \in Streams, NEW k \in 0 .. Len(queue)
  PROVE  LET h == Bytes(SubSeq(queue, 1, k)) IN
         /\ Gone \in Nat /\ Len(queue) \in Nat /\ Accepted \in Nat /\ Accepted = Gone + Len(queue)
         /\ h \in Seq(Nat) /\ Len(h) = k /\ DOMAIN h = 1 .. k
         /\ (\A i \in 1 .. k : h[i] = Gone + i) /\ Increasing(h)
         /\ ToSet(h) = (Gone + 1) .. (Gone + k)
         /\ SubSeq(queue, 1, Len(queue)) = queue
<1> DEFINE r == SubSeq(queue, 1, k)
           h == Bytes(r)
           R == [data : Seq(Nat), size : Nat]
<1>1. queue \in Seq(R) /\ Len(queue) \in Nat /\ sent \in Nat /\ wcall.n \in Nat
  BY DEF IoInv, IoTypes, SendCall
<1> HIDE DEF R
<1>2. Accepted \in Nat /\ Len(queue) <= Accepted /\ \A i \in DOMAIN queue : queue[i].data = <<Gone + i>>
  BY <1>1 DEF IoInv, StreamKept, Accepted
<1>3. Gone \in Nat /\ Accepted = Gone + Len(queue)
  BY <1>1, <1>2 DEF Gone
<1> HIDE DEF Gone
<1>4. Len(r) = k /\ DOMAIN r = 1 .. k /\ (\A i \in 1 .. k : r[i] = queue[i] /\ i \in DOMAIN queue) /\ k \in Nat
  BY <1>1
<1> HIDE DEF r
<1>5. h = [i \in 1 .. k |-> Gone + i]
  <2>1. \A i \in 1 .. k : r[i].data = <<Gone + i>>
    BY <1>2, <1>4
  <2>2. \A i \in 1 .. k : r[i].data[1] = Gone + i
    BY <2>1
  <2> QED
    BY <1>4, <2>2 DEF Bytes
<1> HIDE DEF h
<1>6. h \in Seq(Nat) /\ Len(h) = k /\ DOMAIN h = 1 .. k /\ (\A i \in 1 .. k : h[i] = Gone + i)
  BY <1>3, <1>4, <1>5
<1>7. Increasing(h)
  BY <1>3, <1>4, <1>6 DEF Increasing
<1>8. ToSet(h) = (Gone + 1) .. (Gone + k)
  <2>1. ASSUME NEW b \in ToSet(h) PROVE b \in (Gone + 1) .. (Gone + k)
    BY <1>3, <1>4, <1>6 DEF ToSet
  <2>2. ASSUME NEW b \in (Gone + 1) .. (Gone + k) PROVE b \in ToSet(h)
    <3>1. b - Gone \in 1 .. k /\ Gone + (b - Gone) = b
      BY <1>3, <1>4
    <3> QED
      BY <1>6, <3>1 DEF ToSet
  <2> QED
    BY <2>1, <2>2
<1>9. SubSeq(queue, 1, Len(queue)) = queue
  BY <1>1
<1> QED
  BY <1>1, <1>2, <1>3, <1>6, <1>7, <1>8, <1>9 DEF h, r

\* The host takes what a guest wrote.
LEMMA DrainStep ==
  ASSUME IoInv, drain
  PROVE  IoInv'
<1>1. PICK t \in Readers : /\ kind = "log" /\ queue # <<>> /\ got' = [got EXCEPT ![t] = @ \o Bytes(queue)] /\ queue' = <<>>
                           /\ UNCHANGED <<kind, closed, off, pos, rcall, wcall, sent, seeks>>
  BY DEF drain
<1> DEFINE h == Bytes(queue)
           g == got[t] \o h
<1>2. \A w \in Workers : ~Busy(w) /\ rcall[w] = NoCall /\ rcall[w].hand = <<>> /\ ~Handing(w)
  <2>1. \A w \in Workers : CallMade(w)
    BY DEF IoInv
  <2> QED
    BY <1>1, <2>1, NoCallFacts DEF CallMade, Busy, Handing
<1>3. got \in [Readers -> Seq(Nat)] /\ Len(queue) \in Nat
  BY DEF IoInv, IoTypes
<1>4. /\ Gone \in Nat /\ Accepted \in Nat /\ Accepted = Gone + Len(queue)
      /\ h \in Seq(Nat) /\ DOMAIN h = 1 .. Len(queue) /\ (\A i \in 1 .. Len(queue) : h[i] = Gone + i) /\ Increasing(h)
      /\ ToSet(h) = (Gone + 1) .. (Gone + Len(queue))
  <2>1. Len(queue) \in 0 .. Len(queue) /\ kind \in Streams
    BY <1>1, <1>3 DEF Streams
  <2> QED
    BY <2>1, BytesFacts
<1>5. Accepted' = Accepted /\ Gone' = Accepted
  BY <1>1, <1>4 DEF Gone, Accepted
<1> HIDE DEF h
<1>6. /\ UNION {ToSet(got[u]) : u \in Readers} = 1 .. Gone
      /\ \A u, v \in Readers : u # v => ToSet(got[u]) \cap ToSet(got[v]) = {}
  <2>1. UNION {ToSet(rcall[w].hand) : w \in Workers} = {}
    BY <1>2 DEF ToSet
  <2> QED
    BY <1>1, <2>1 DEF IoInv, StreamKept, Streams
<1>7. \A u \in Readers : \A i \in DOMAIN got[u] : got[u][i] \in 1 .. Gone
  BY <1>6 DEF ToSet
<1>8. /\ g \in Seq(Nat) /\ ToSet(g) = ToSet(got[t]) \cup ToSet(h) /\ Increasing(g)
      /\ \A i \in DOMAIN g : g[i] \in 1 .. Accepted
  <2>1. \A i \in DOMAIN got[t], j \in DOMAIN h : got[t][i] < h[j]
    BY <1>4, <1>7
  <2>2. Increasing(got[t])
    BY DEF IoInv, HandsOrdered, InOrder, Increasing
  <2>3. \A i \in DOMAIN h : h[i] \in 1 .. Accepted
    BY <1>4
  <2>4. \A i \in DOMAIN got[t] : got[t][i] \in 1 .. Accepted
    BY <1>3, <1>4, <1>7
  <2>5. got[t] \in Seq(Nat)
    BY <1>3
  <2>6. /\ g \in Seq(Nat) /\ ToSet(g) = ToSet(got[t]) \cup ToSet(h) /\ Increasing(g)
        /\ \A i \in DOMAIN g : (\E j \in DOMAIN got[t] : g[i] = got[t][j]) \/ \E j \in DOMAIN h : g[i] = h[j]
    BY <1>4, <2>1, <2>2, <2>5, AfterGot
  <2> QED
    BY <2>3, <2>4, <2>6
<1>9. got' \in [Readers -> Seq(Nat)] /\ got'[t] = g /\ \A u \in Readers : u # t => got'[u] = got[u]
  BY <1>1, <1>3, <1>8 DEF h
<1> HIDE DEF g
<1>10. IoTypes'
  BY <1>1, <1>9 DEF IoInv, IoTypes
<1>11. \A w \in Workers : CallMade(w)'
  BY <1>1, <1>2, NoCallFacts DEF CallMade
<1>12. CallsApart' /\ SendMade' /\ QueueOrdered'
  BY <1>1, <1>2 DEF IoInv, CallsApart, SendMade, QueueOrdered, Busy
<1>13. HandsOrdered'
  <2>1. \A u \in Readers : Increasing(got'[u])
    BY <1>8, <1>9 DEF IoInv, HandsOrdered, InOrder, Increasing
  <2>2. \A u \in Readers : \A i \in DOMAIN got'[u] : got'[u][i] <= Accepted
    <3> SUFFICES ASSUME NEW u \in Readers, NEW i \in DOMAIN got'[u] PROVE got'[u][i] <= Accepted
      OBVIOUS
    <3>1. CASE u = t
      BY <1>4, <1>8, <1>9, <3>1
    <3>2. CASE u # t
      <4>1. got'[u][i] \in 1 .. Gone
        BY <1>7, <1>9, <3>2
      <4> HIDE DEF Gone
      <4> QED
        BY ONLY <1>3, <1>4, <4>1
    <3> QED
      BY <3>1, <3>2
  <2>3. Accepted' = Accepted /\ kind' # "proc" /\ DOMAIN queue' = {} /\ \A w \in Workers : ~Busy(w)'
    BY <1>1, <1>2, <1>5 DEF Busy
  <2>4. \A u \in Readers : \A i \in DOMAIN got'[u] : Out(got[u][i])'
    BY <2>2, <2>3 DEF Out
  <2>5. InOrder'
    BY <2>1 DEF InOrder, Increasing
  <2> QED
    BY <2>3, <2>4, <2>5 DEF HandsOrdered
<1>14. HandsRight' /\ OffsetsRight'
  BY <1>1, <1>2 DEF IoInv, HandsRight, OffsetsRight, Handing
<1>15. StreamKept'
  <2>1. UNION {ToSet(got'[u]) : u \in Readers} = 1 .. Accepted
    <3>1. UNION {ToSet(got'[u]) : u \in Readers} = (UNION {ToSet(got[u]) : u \in Readers}) \cup ToSet(h)
      BY <1>8, <1>9
    <3>2. (1 .. Gone) \cup ((Gone + 1) .. (Gone + Len(queue))) = 1 .. Accepted
      BY <1>3, <1>4
    <3> QED
      BY <1>4, <1>6, <3>1, <3>2
  <2>2. UNION {ToSet(rcall'[w].hand) : w \in Workers} = {} /\ \A w \in Workers : ToSet(rcall'[w].hand) = {}
    BY <1>1, <1>2 DEF ToSet
  <2>3. \A u \in Readers : ToSet(got[u]) \cap ToSet(h) = {}
    BY <1>3, <1>4, <1>7 DEF ToSet
  <2>4. \A u, v \in Readers : u # v => ToSet(got'[u]) \cap ToSet(got'[v]) = {}
    BY <1>6, <1>8, <1>9, <2>3
  <2>5. Len(queue') <= Accepted' /\ DOMAIN queue' = {}
    BY <1>1, <1>4, <1>5
  <2>6. (UNION {ToSet(got'[u]) : u \in Readers}) \cup (UNION {ToSet(rcall'[w].hand) : w \in Workers}) = 1 .. Gone'
    BY <1>5, <2>1, <2>2
  <2> QED
    BY <2>2, <2>4, <2>5, <2>6 DEF StreamKept
<1> QED
  BY <1>10, <1>11, <1>12, <1>13, <1>14, <1>15 DEF IoInv

\* The worker's call is over and the guest has what it held.
LEMMA ReplyStep ==
  ASSUME Reckless = {}, IoInv, NEW w \in Workers, receive_reply(w)
  PROVE  IoInv'
<1> DEFINE c == rcall[w]
           h == c.hand
           t == c.thread
           g == got[t] \o h
<1>1. /\ c.pc = "reply" /\ rcall' = [rcall EXCEPT ![w] = NoCall]
      /\ got' = (IF c.live THEN [got EXCEPT ![t] = @ \o scatter(h, c.iov)] ELSE got)
      /\ pos' = (IF c.live /\ kind = "proc" THEN pos + Reply(c) ELSE pos)
      /\ UNCHANGED <<kind, queue, closed, off, wcall, sent, seeks>>
  BY DEF receive_reply, End
<1>2. Busy(w) /\ Handing(w) /\ c.live /\ c \in ReceiveCall /\ kind # "log"
  BY <1>1 DEF IoInv, IoTypes, CallMade, Busy, Handing
<1>3. h \in Seq(Nat) /\ t \in Readers /\ got[t] \in Seq(Nat) /\ got \in [Readers -> Seq(Nat)] /\ pos \in Nat
      /\ rcall \in [Workers -> ReceiveCall] /\ Len(h) \in Nat
  BY <1>2 DEF IoInv, IoTypes, ReceiveCall
<1>4. scatter(h, c.iov) = h /\ Reply(c) = Len(h)
  <2>1. Len(h) <= Want(c.op, c.iov)
    BY <1>2 DEF IoInv, HandsRight
  <2>2. Want(c.op, c.iov) \in Nat /\ Cap(c.iov) \in Nat /\ Want(c.op, c.iov) <= Cap(c.iov)
    BY <1>2, CallFacts
  <2>3. Least(Len(h), Cap(c.iov)) = Len(h)
    BY <1>3, <2>1, <2>2 DEF Least
  <2>4. SubSeq(h, 1, Len(h)) = h
    BY <1>3
  <2> QED
    BY <2>3, <2>4 DEF scatter, Reply
<1>5. /\ got' = [got EXCEPT ![t] = g]
      /\ pos' = IF kind = "proc" THEN pos + Len(h) ELSE pos
  BY <1>1, <1>2, <1>3, <1>4
<1>6. /\ Increasing(h) /\ Increasing(got[t])
      /\ \A i \in DOMAIN got[t], j \in DOMAIN h : got[t][i] < h[j]
      /\ kind # "proc" => (\A i \in DOMAIN got[t] : Out(got[t][i])) /\ \A j \in DOMAIN h : Out(h[j])
  BY <1>2, <1>3 DEF IoInv, HandsOrdered, InOrder, Increasing
<1>7. /\ g \in Seq(Nat) /\ ToSet(g) = ToSet(got[t]) \cup ToSet(h) /\ Increasing(g)
      /\ \A i \in DOMAIN g : (\E j \in DOMAIN got[t] : g[i] = got[t][j]) \/ \E j \in DOMAIN h : g[i] = h[j]
  BY <1>3, <1>6, AfterGot
<1> HIDE DEF g, h, t, c
<1>8. got' \in [Readers -> Seq(Nat)] /\ got'[t] = g /\ \A u \in Readers : u # t => got'[u] = got[u]
  BY <1>3, <1>5, <1>7
<1>9. /\ rcall' \in [Workers -> ReceiveCall] /\ rcall'[w] = NoCall /\ ~Busy(w)' /\ ~Handing(w)'
      /\ \A v \in Workers : v # w => rcall'[v] = rcall[v] /\ (Busy(v)' <=> Busy(v)) /\ (Handing(v)' <=> Handing(v))
  BY <1>1, <1>3, NoCallFacts DEF Busy, Handing
<1>10. \A v \in Workers : v # w /\ Busy(v) => Recv(rcall[v].op) /\ rcall[v].thread # t /\ kind # "proc"
  <2>1. \A v \in Workers : v # w /\ Busy(v) => Recv(rcall[v].op) /\ rcall[v].thread # t
    BY <1>2 DEF IoInv, CallsApart, c, t
  <2>2. \A v \in Workers : Busy(v) /\ Recv(rcall[v].op) => kind # "proc"
    BY DEF IoInv, CallMade, Busy, ReadOps, Recv, Socket
  <2> QED
    BY <2>1, <2>2
<1>11. Accepted' = Accepted /\ Gone' = Gone /\ (\A b : Out(b)' <=> Out(b)) /\ (Readable' <=> Readable)
  BY <1>1 DEF Accepted, Gone, Out, Readable
<1>12. IoTypes'
  <2>1. pos' \in Nat
    BY <1>3, <1>5
  <2> QED
    BY <1>1, <1>8, <1>9, <2>1 DEF IoInv, IoTypes
<1>13. ASSUME NEW v \in Workers PROVE CallMade(v)'
  <2>1. CASE v = w
    BY <1>9, <2>1, NoCallFacts DEF CallMade
  <2>2. CASE v # w
    <3>1. CallMade(v) /\ rcall'[v] = rcall[v]
      BY <1>9, <2>2 DEF IoInv
    <3> QED
      BY <1>1, <3>1 DEF CallMade, ReadOps, Socket, Handing, Readable
  <2> QED
    BY <2>1, <2>2
<1>14. CallsApart'
  BY <1>9 DEF IoInv, CallsApart
<1>15. SendMade' /\ QueueOrdered'
  BY <1>1, <1>11 DEF IoInv, SendMade, QueueOrdered
<1>16. HandsOrdered'
  <2>1. InOrder'
    BY <1>7, <1>8 DEF IoInv, HandsOrdered, InOrder, Increasing
  <2>2. ASSUME kind # "proc", NEW u \in Readers, NEW i \in DOMAIN got'[u] PROVE Out(got'[u][i])
    <3>1. CASE u = t
      BY <1>6, <1>7, <1>8, <2>2, <3>1
    <3>2. CASE u # t
      BY <1>8, <2>2, <3>2 DEF IoInv, HandsOrdered
    <3> QED
      BY <3>1, <3>2
  <2>3. ASSUME NEW v \in Workers, Busy(v)'
        PROVE  /\ rcall'[v] = rcall[v] /\ got'[rcall'[v].thread] = got[rcall[v].thread] /\ Busy(v)
    <3>1. v # w /\ rcall'[v] = rcall[v] /\ Busy(v)
      BY <1>9, <2>3
    <3>2. rcall[v].thread \in Readers /\ rcall[v].thread # t
      BY <1>3, <1>10, <3>1 DEF ReceiveCall
    <3> QED
      BY <1>8, <3>1, <3>2
  <2>4. \A v \in Workers : Busy(v)' =>
          /\ Increasing(rcall'[v].hand)
          /\ \A i \in DOMAIN got'[rcall'[v].thread], j \in DOMAIN rcall'[v].hand :
               got'[rcall'[v].thread][i] < rcall'[v].hand[j]
          /\ kind # "proc" => \A j \in DOMAIN rcall'[v].hand : Out(rcall'[v].hand[j])
    BY <2>3 DEF IoInv, HandsOrdered
  <2>5. kind' # "proc" => \A u \in Readers : \A i \in DOMAIN got'[u] : Out(got[u][i])'
    BY <1>1, <1>11, <2>2
  <2>6. \A v \in Workers : Busy(v)' /\ kind' # "proc" => \A j \in DOMAIN rcall'[v].hand : Out(rcall[v].hand[j])'
    BY <1>1, <1>11, <2>4
  <2> QED
    BY <2>1, <2>4, <2>5, <2>6 DEF HandsOrdered, Increasing
<1>17. HandsRight'
  BY <1>1, <1>9 DEF IoInv, HandsRight
<1>18. OffsetsRight'
  <2> SUFFICES ASSUME kind = "proc" PROVE OffsetsRight'
    BY <1>1, <1>5 DEF IoInv, OffsetsRight
  <2>1. \A v \in Workers : ~Busy(v)'
    BY <1>9, <1>10
  <2>2. /\ off <= Content /\ off = pos + Len(h)
        /\ (\A u \in Readers : \A i \in DOMAIN got[u] : got[u][i] <= pos) /\ \A i \in DOMAIN h : h[i] = pos + i
    BY <1>1, <1>2 DEF IoInv, OffsetsRight, c, h
  <2>3. pos' = off' /\ off' = off
    BY <1>1, <1>5, <2>2
  <2>4. ASSUME NEW u \in Readers, NEW i \in DOMAIN got'[u] PROVE got'[u][i] <= pos'
    <3>1. \A j \in DOMAIN h : h[j] <= pos + Len(h)
      BY <1>3, <2>2
    <3>2. \A j \in DOMAIN got[t] : got[t][j] \in Nat /\ got[t][j] <= pos
      BY <1>3, <2>2
    <3>3. CASE u = t
      <4>1. \A j \in DOMAIN g : g[j] <= pos + Len(h)
        <5> SUFFICES ASSUME NEW j \in DOMAIN g PROVE g[j] <= pos + Len(h)
          OBVIOUS
        <5>1. CASE \E x \in DOMAIN got[t] : g[j] = got[t][x]
          <6>1. g[j] \in Nat /\ g[j] <= pos
            BY <3>2, <5>1
          <6> QED
            BY <1>3, <6>1
        <5>2. CASE \E x \in DOMAIN h : g[j] = h[x]
          BY <3>1, <5>2
        <5> QED
          BY <1>7, <5>1, <5>2
      <4> QED
        BY <1>8, <2>2, <2>3, <3>3, <4>1
    <3>4. CASE u # t
      <4>1. got'[u][i] \in Nat /\ got'[u][i] <= pos
        BY <1>3, <1>8, <2>2, <3>4
      <4> QED
        BY <1>3, <2>2, <2>3, <4>1
    <3> QED
      BY <3>3, <3>4
  <2> QED
    BY <1>1, <2>1, <2>2, <2>3, <2>4 DEF OffsetsRight, Busy, Handing
<1>19. StreamKept'
  <2> SUFFICES ASSUME kind \in Streams PROVE StreamKept'
    BY <1>1 DEF StreamKept
  <2>1. ToSet(rcall'[w].hand) = {} /\ ToSet(h) = ToSet(rcall[w].hand)
    BY <1>9, NoCallFacts DEF ToSet, h, c
  <2>2. /\ Len(queue) <= Accepted /\ \A i \in DOMAIN queue : queue[i].data = <<Gone + i>>
    BY DEF IoInv, StreamKept
  <2>3. /\ (UNION {ToSet(got[u]) : u \in Readers}) \cup (UNION {ToSet(rcall[v].hand) : v \in Workers}) = 1 .. Gone
        /\ \A u, v \in Readers : u # v => ToSet(got[u]) \cap ToSet(got[v]) = {}
        /\ \A u \in Readers, v \in Workers : ToSet(got[u]) \cap ToSet(rcall[v].hand) = {}
        /\ \A u, v \in Workers : u # v => ToSet(rcall[u].hand) \cap ToSet(rcall[v].hand) = {}
    BY DEF IoInv, StreamKept
  <2>4. /\ ToSet(got'[t]) = ToSet(got[t]) \cup ToSet(rcall[w].hand)
        /\ \A u \in Readers : u # t => ToSet(got'[u]) = ToSet(got[u])
        /\ \A v \in Workers : v # w => ToSet(rcall'[v].hand) = ToSet(rcall[v].hand)
    BY <1>7, <1>8, <1>9, <2>1
  <2>5. (UNION {ToSet(got'[u]) : u \in Readers}) \cup (UNION {ToSet(rcall'[v].hand) : v \in Workers}) = 1 .. Gone
    <3>1. ASSUME NEW b \in UNION {ToSet(got[u]) : u \in Readers}
          PROVE  b \in UNION {ToSet(got'[u]) : u \in Readers}
      BY <1>3, <2>4
    <3>2. ASSUME NEW v \in Workers, NEW b \in ToSet(rcall[v].hand)
          PROVE  b \in (UNION {ToSet(got'[u]) : u \in Readers}) \cup (UNION {ToSet(rcall'[x].hand) : x \in Workers})
      BY <1>3, <2>4
    <3>3. ASSUME NEW u \in Readers, NEW b \in ToSet(got'[u])
          PROVE  b \in (UNION {ToSet(got[x]) : x \in Readers}) \cup (UNION {ToSet(rcall[v].hand) : v \in Workers})
      BY <1>3, <2>4
    <3>4. ASSUME NEW v \in Workers, NEW b \in ToSet(rcall'[v].hand) PROVE b \in ToSet(rcall[v].hand)
      BY <2>1, <2>4
    <3>5. (UNION {ToSet(got'[u]) : u \in Readers}) \cup (UNION {ToSet(rcall'[v].hand) : v \in Workers})
            = (UNION {ToSet(got[u]) : u \in Readers}) \cup (UNION {ToSet(rcall[v].hand) : v \in Workers})
      BY <3>1, <3>2, <3>3, <3>4
    <3> QED
      BY <2>3, <3>5
  <2>6. \A u, v \in Readers : u # v => ToSet(got'[u]) \cap ToSet(got'[v]) = {}
    BY <2>3, <2>4
  <2>7. \A u \in Readers, v \in Workers : ToSet(got'[u]) \cap ToSet(rcall'[v].hand) = {}
    BY <2>1, <2>3, <2>4
  <2>8. \A u, v \in Workers : u # v => ToSet(rcall'[u].hand) \cap ToSet(rcall'[v].hand) = {}
    BY <2>1, <2>3, <2>4
  <2>9. Len(queue') <= Accepted' /\ \A i \in DOMAIN queue' : queue'[i].data = <<Gone' + i>>
    BY <1>1, <1>11, <2>2
  <2> QED
    BY <1>11, <2>5, <2>6, <2>7, <2>8, <2>9 DEF StreamKept
<1> QED
  BY <1>12, <1>13, <1>14, <1>15, <1>16, <1>17, <1>18, <1>19 DEF IoInv

\* What the kernel hands out: the head of the queue, of which d messages are gone.
HandedOut(h, q, s, n, d) ==
  /\ h \in Seq(Nat) /\ s \in Nat /\ q \in Seq([data : Seq(Nat), size : Nat])
  /\ Len(q) = Len(queue) - d /\ \A i \in 1 .. Len(q) : i + d \in DOMAIN queue /\ q[i] = queue[i + d]
  /\ Increasing(h) /\ Len(h) <= n /\ (Len(h) = 0 => closed /\ queue = <<>>)
  /\ \A j \in DOMAIN h : \E i \in 1 .. d : \E x \in DOMAIN queue[i].data : h[j] = queue[i].data[x]
  /\ kind \in Streams => ToSet(h) = (Gone + 1) .. (Gone + d)
  /\ kind = "dgram" => Len(h) = Least(n, s) /\ s <= IO_CHUNK

LEMMA TakenFacts ==
  ASSUME IoInv, kind # "proc", Readable, NEW n \in Nat, n >= 1
  PROVE  \E d \in 0 .. Len(queue) :
           HandedOut(Taken(n), Left(n), IF queue = <<>> THEN 0 ELSE queue[1].size, n, d)
<1> DEFINE R == [data : Seq(Nat), size : Nat]
           L == Len(queue)
<1>1. queue \in Seq(R) /\ L \in Nat /\ kind \in {"pipe", "stream", "dgram", "log"} /\ DOMAIN queue = 1 .. L
  BY TransferAssumption DEF IoInv, IoTypes
<1> HIDE DEF R
<1>2. CASE queue = <<>>
  <2>1. Taken(n) = <<>> /\ Left(n) = <<>> /\ closed /\ kind # "dgram"
    BY <1>2 DEF Taken, Left, Readable, IoInv, SendMade
  <2>2. ToSet(<<>>) = (Gone + 1) .. (Gone + 0) \/ kind \notin Streams
    <3> SUFFICES ASSUME kind \in Streams PROVE ToSet(<<>>) = (Gone + 1) .. (Gone + 0)
      OBVIOUS
    <3>1. Gone \in Nat
      BY <1>1, BytesFacts
    <3>2. ToSet(<<>>) = {} /\ (Gone + 1) .. (Gone + 0) = {}
      BY <3>1 DEF ToSet
    <3> QED
      BY <3>2
  <2>3. HandedOut(<<>>, <<>>, 0, n, 0)
    BY <1>2, <2>1, <2>2 DEF HandedOut, Increasing
  <2> QED
    BY <1>1, <1>2, <2>1, <2>3
<1>3. CASE queue # <<>> /\ kind = "dgram"
  <2> DEFINE m == queue[1]
             k == Least(n, Len(m.data))
             h == SubSeq(m.data, 1, k)
             q == Tail(queue)
  <2>1. L >= 1 /\ m \in R /\ q \in Seq(R) /\ Len(q) = L - 1 /\ \A i \in 1 .. Len(q) : i + 1 \in 1 .. L /\ q[i] = queue[i + 1]
    BY <1>1, <1>3
  <2>2. m.data \in Seq(Nat) /\ m.size \in Nat /\ Len(m.data) \in Nat
    BY <2>1 DEF R
  <2>3. 1 \in DOMAIN queue /\ Increasing(m.data) /\ Len(m.data) >= 1 /\ Len(m.data) = m.size /\ m.size <= IO_CHUNK
    BY <1>1, <1>3, <2>1 DEF IoInv, QueueOrdered
  <2> HIDE DEF m, q
  <2>4. k \in 1 .. Len(m.data) /\ k <= n /\ k = Least(n, m.size)
    BY <2>2, <2>3 DEF Least
  <2> HIDE DEF k
  <2>5. h \in Seq(Nat) /\ Len(h) = k /\ DOMAIN h = 1 .. k /\ \A i \in 1 .. k : i \in DOMAIN m.data /\ h[i] = m.data[i]
    BY <2>2, <2>4
  <2> HIDE DEF h
  <2>6. Increasing(h)
    BY <2>3, <2>5 DEF Increasing
  <2>7. \A j \in DOMAIN h : \E i \in 1 .. 1 : \E x \in DOMAIN queue[i].data : h[j] = queue[i].data[x]
    BY <2>5 DEF m
  <2>8. HandedOut(h, q, m.size, n, 1)
    <3>1. Len(h) # 0
      BY <2>2, <2>4, <2>5
    <3> QED
      BY <1>1, <1>3, <2>1, <2>2, <2>3, <2>4, <2>5, <2>6, <2>7, <3>1 DEF HandedOut, Streams, R
  <2>9. Taken(n) = h /\ Left(n) = q
    BY <1>3 DEF Taken, Left, h, q, k, m
  <2>10. 1 \in 0 .. Len(queue)
    BY <1>1, <2>1
  <2> QED
    BY <1>3, <2>8, <2>9, <2>10 DEF m
<1>4. CASE queue # <<>> /\ kind # "dgram"
  <2> DEFINE k == Least(n, L)
             h == Bytes(SubSeq(queue, 1, k))
             q == SubSeq(queue, k + 1, L)
  <2>1. k \in 1 .. L /\ k <= n /\ L >= 1 /\ k \in 0 .. L /\ k \in Nat
    BY <1>1, <1>4 DEF Least
  <2>2. Taken(n) = h /\ Left(n) = q
    BY <1>4 DEF Taken, Left
  <2> HIDE DEF k
  <2>3. kind \in Streams
    BY <1>1, <1>4 DEF Streams
  <2>4. /\ Gone \in Nat /\ h \in Seq(Nat) /\ Len(h) = k /\ DOMAIN h = 1 .. k
        /\ (\A i \in 1 .. k : h[i] = Gone + i) /\ Increasing(h) /\ ToSet(h) = (Gone + 1) .. (Gone + k)
    BY <2>1, <2>3, BytesFacts
  <2> HIDE DEF h
  <2>5. q \in Seq(R) /\ Len(q) = L - k /\ \A i \in 1 .. Len(q) : i + k \in 1 .. L /\ q[i] = queue[i + k]
    <3>1. Len(q) = L - k /\ q \in Seq(R)
      <4>1. k + 1 \in Int /\ L \in Int /\ (\A i \in k + 1 .. L : queue[i] \in R) /\ k + 1 <= L + 1 /\ k \in Int
        BY <1>1, <2>1
      <4>2. q \in Seq(R) /\ Len(q) = IF k + 1 <= L THEN L - (k + 1) + 1 ELSE 0
        BY <4>1, SubSeqProperties
      <4> HIDE DEF q
      <4> QED
        BY <2>1, <4>1, <4>2
    <3>2. ASSUME NEW i \in 1 .. L - k PROVE i + k \in 1 .. L /\ q[i] = queue[i + k]
      <4>1. i + k \in 1 .. L /\ (k + 1) + i - 1 = i + k
        BY <1>1, <2>1
      <4>2. q[i] = queue[(k + 1) + i - 1]
        BY <1>1, <2>1
      <4> QED
        BY <4>1, <4>2
    <3> HIDE DEF q
    <3> QED
      BY <3>1, <3>2
  <2> HIDE DEF q
  <2>6. \A i \in 1 .. k : i \in DOMAIN queue /\ 1 \in DOMAIN queue[i].data /\ queue[i].data[1] = Gone + i
    <3>1. \A i \in 1 .. k : i \in DOMAIN queue
      BY <1>1, <2>1
    <3>2. \A i \in DOMAIN queue : queue[i].data = <<Gone + i>>
      BY <2>3 DEF IoInv, StreamKept
    <3> QED
      BY <3>1, <3>2
  <2>7. \A j \in DOMAIN h : \E i \in 1 .. k : \E x \in DOMAIN queue[i].data : h[j] = queue[i].data[x]
    BY <2>4, <2>6
  <2>8. queue[1].size \in Nat
    <3>1. queue[1] \in R
      BY <1>1, <2>1
    <3> QED
      BY <3>1 DEF R
  <2>9. HandedOut(h, q, queue[1].size, n, k)
    <3>1. Len(h) # 0
      BY <2>1, <2>4
    <3> QED
      BY <1>1, <1>4, <2>1, <2>4, <2>5, <2>7, <2>8, <3>1 DEF HandedOut, R
  <2> QED
    BY <1>4, <2>1, <2>2, <2>9
<1> QED
  BY <1>2, <1>3, <1>4

\* A worker reads from the kernel into its buffer.
LEMMA TakeStep ==
  ASSUME Reckless = {}, IoInv, NEW w \in Workers, take(w)
  PROVE  IoInv'
<1> DEFINE c == rcall[w]
           n == Want(c.op, c.iov)
           R == [data : Seq(Nat), size : Nat]
<1>1. /\ c.pc \in {"read", "recv"} /\ Readable /\ queue' = Left(n)
      /\ rcall' = [rcall EXCEPT ![w].pc = "reply", ![w].hand = Taken(n),
                               ![w].size = IF queue = <<>> THEN 0 ELSE queue[1].size]
      /\ UNCHANGED <<kind, closed, off, pos, wcall, sent, got, seeks>>
  BY DEF take
<1>2. Busy(w) /\ ~Handing(w) /\ c \in ReceiveCall /\ rcall \in [Workers -> ReceiveCall] /\ kind # "proc" /\ c.hand = <<>>
      /\ c.live /\ CallMade(w)
  BY <1>1 DEF IoInv, IoTypes, CallMade, Busy, Handing
<1>3. n \in Nat /\ n >= 1
  BY <1>2, TransferAssumption, CallFacts
<1>4. PICK h, s, d :
        /\ d \in 0 .. Len(queue) /\ HandedOut(h, queue', s, n, d)
        /\ h = Taken(n) /\ s = IF queue = <<>> THEN 0 ELSE queue[1].size
  BY <1>1, <1>2, <1>3, TakenFacts
<1> DEFINE e == [c EXCEPT !.pc = "reply", !.hand = h, !.size = s]
<1>5. rcall' = [rcall EXCEPT ![w] = e]
  BY <1>1, <1>2, <1>4
<1>6. h \in Seq(Nat) /\ s \in Nat /\ queue' \in Seq(R)
  BY <1>4 DEF HandedOut
<1>7. e \in ReceiveCall /\ e.pc = "reply" /\ e.hand = h /\ e.size = s /\ e.op = c.op /\ e.iov = c.iov /\ e.thread = c.thread
      /\ e.nb = c.nb /\ e.live = c.live
  BY <1>2, <1>6 DEF ReceiveCall
<1> HIDE DEF n, e
<1>8. /\ rcall' \in [Workers -> ReceiveCall] /\ rcall'[w] = e /\ (\A v \in Workers : v # w => rcall'[v] = rcall[v])
      /\ \A v \in Workers : (Busy(v)' <=> Busy(v)) /\ rcall'[v].op = rcall[v].op /\ rcall'[v].thread = rcall[v].thread
      /\ \A v \in Workers : v # w => (Handing(v)' <=> Handing(v))
  <2>1. rcall' \in [Workers -> ReceiveCall] /\ rcall'[w] = e /\ (\A v \in Workers : v # w => rcall'[v] = rcall[v])
    BY <1>2, <1>5, <1>7
  <2> HIDE DEF c
  <2> QED
    BY <1>2, <1>7, <2>1 DEF Busy, Handing, c
<1>9. /\ queue \in Seq(R) /\ Len(queue) \in Nat /\ Len(queue') \in Nat /\ sent \in Nat /\ wcall.n \in Nat /\ kind \in Kinds
      /\ DOMAIN queue = 1 .. Len(queue) /\ DOMAIN queue' = 1 .. Len(queue')
  BY <1>6 DEF IoInv, IoTypes, SendCall
<1> HIDE DEF R
<1>10. /\ Len(queue') = Len(queue) - d /\ d \in Nat
       /\ \A i \in DOMAIN queue' : i + d \in DOMAIN queue /\ queue'[i] = queue[i + d]
  <2>1. Len(queue') = Len(queue) - d /\ \A i \in 1 .. Len(queue') : i + d \in DOMAIN queue /\ queue'[i] = queue[i + d]
    BY <1>4 DEF HandedOut
  <2>2. d \in Nat
    BY <1>4, <1>9
  <2> QED
    BY <1>9, <2>1, <2>2
<1>11. Accepted' = Accepted /\ Accepted \in Nat
  BY <1>1, <1>9 DEF Accepted
<1>12. \A b \in Nat : Out(b) => Out(b)'
  <2> SUFFICES ASSUME NEW b \in Nat, Out(b) PROVE Out(b)'
    OBVIOUS
  <2>1. \A i \in DOMAIN queue' : \A j \in DOMAIN queue'[i].data : b < queue'[i].data[j]
    BY <1>10 DEF Out
  <2> QED
    BY <1>11, <2>1 DEF Out
<1>13. IoTypes'
  BY <1>1, <1>6, <1>8 DEF IoInv, IoTypes, R
<1>14. ASSUME NEW v \in Workers PROVE CallMade(v)'
  <2>1. CASE v = w
    <3>1. rcall'[w] = e /\ e.live /\ e.pc = "reply"
      BY <1>2, <1>7, <1>8
    <3> QED
      BY <1>1, <1>2, <1>7, <2>1, <3>1 DEF CallMade, ReadOps, Socket, Handing, Fits, Busy, Recv
  <2>2. CASE v # w
    <3>1. rcall'[v] = rcall[v] /\ CallMade(v)
      BY <1>8, <2>2 DEF IoInv
    <3>2. CASE rcall[v].pc = "idle"
      BY <3>1, <3>2 DEF CallMade
    <3>3. CASE rcall[v].pc # "idle"
      <4>1. rcall[v].live /\ Recv(rcall[v].op) /\ rcall[v].pc # "read"
        <5>1. Recv(rcall[v].op)
          BY <1>2, <2>2, <3>3 DEF IoInv, CallsApart, Busy
        <5> QED
          BY <1>1, <3>1, <3>3, <5>1 DEF CallMade
      <4> QED
        BY <1>1, <3>1, <3>3, <4>1 DEF CallMade, ReadOps, Socket, Handing
    <3> QED
      BY <3>2, <3>3
  <2> QED
    BY <2>1, <2>2
<1>15. CallsApart' /\ SendMade'
  <2>1. CallsApart'
    BY <1>8 DEF IoInv, CallsApart
  <2>2. SendMade'
    BY <1>1, <1>2 DEF IoInv, SendMade
  <2> QED
    BY <2>1, <2>2
<1>16. QueueOrdered'
  <2>1. \A i \in DOMAIN queue' :
          /\ Increasing(queue'[i].data) /\ Len(queue'[i].data) >= 1
          /\ \A j \in DOMAIN queue'[i].data : queue'[i].data[j] <= Accepted'
          /\ kind' = "dgram" => Len(queue'[i].data) = queue'[i].size /\ queue'[i].size <= IO_CHUNK
    BY <1>1, <1>10, <1>11 DEF IoInv, QueueOrdered
  <2>2. \A i, j \in DOMAIN queue' : i < j =>
          \A x \in DOMAIN queue'[i].data, y \in DOMAIN queue'[j].data : queue'[i].data[x] < queue'[j].data[y]
    <3> SUFFICES ASSUME NEW i \in DOMAIN queue', NEW j \in DOMAIN queue', i < j
                 PROVE  \A x \in DOMAIN queue'[i].data, y \in DOMAIN queue'[j].data : queue'[i].data[x] < queue'[j].data[y]
      OBVIOUS
    <3>1. i + d < j + d
      BY <1>9, <1>10
    <3> QED
      BY <1>10, <3>1 DEF IoInv, QueueOrdered
  <2> QED
    BY <2>1, <2>2 DEF QueueOrdered, Increasing
<1>17. \A j \in DOMAIN h : \E i \in DOMAIN queue : i <= d /\ \E x \in DOMAIN queue[i].data : h[j] = queue[i].data[x]
  <2>1. \A i \in 1 .. d : i \in DOMAIN queue /\ i <= d
    BY <1>4, <1>9
  <2>2. \A j \in DOMAIN h : \E i \in 1 .. d : \E x \in DOMAIN queue[i].data : h[j] = queue[i].data[x]
    BY <1>4 DEF HandedOut
  <2> QED
    BY <2>1, <2>2
<1>18. HandsOrdered'
  <2>1. InOrder' /\ kind' = kind /\ got' = got
    BY <1>1 DEF IoInv, HandsOrdered, InOrder
  <2>2. kind # "proc" => \A t \in Readers : \A i \in DOMAIN got[t] : Out(got[t][i])'
    <3>1. \A t \in Readers : \A i \in DOMAIN got[t] : got[t][i] \in Nat /\ Out(got[t][i])
      BY <1>2 DEF IoInv, HandsOrdered, IoTypes
    <3> QED
      BY <1>12, <2>1, <3>1
  <2>3. /\ Increasing(h)
        /\ \A i \in DOMAIN got[c.thread], j \in DOMAIN h : got[c.thread][i] < h[j]
        /\ \A j \in DOMAIN h : Out(h[j])'
    <3>1. ASSUME NEW j \in DOMAIN h
          PROVE  Out(h[j])' /\ \A i \in DOMAIN got[c.thread] : got[c.thread][i] < h[j]
      <4>1. PICK i \in DOMAIN queue : i <= d /\ \E x \in DOMAIN queue[i].data : h[j] = queue[i].data[x]
        BY <1>17
      <4>2. PICK x \in DOMAIN queue[i].data : h[j] = queue[i].data[x]
        BY <4>1
      <4>3. h[j] <= Accepted
        BY <4>2 DEF IoInv, QueueOrdered
      <4>4. ASSUME NEW k \in DOMAIN queue', NEW y \in DOMAIN queue'[k].data PROVE h[j] < queue'[k].data[y]
        <5>1. i < k + d /\ k + d \in DOMAIN queue /\ queue'[k] = queue[k + d]
          BY <1>9, <1>10, <4>1
        <5> QED
          BY <4>2, <5>1 DEF IoInv, QueueOrdered
      <4>5. ASSUME NEW k \in DOMAIN got[c.thread] PROVE got[c.thread][k] < h[j]
        <5>1. c.thread \in Readers
          BY <1>2 DEF ReceiveCall
        <5>2. Out(got[c.thread][k])
          BY <1>2, <5>1 DEF IoInv, HandsOrdered
        <5> QED
          BY <4>2, <5>2 DEF Out
      <4> QED
        BY <1>11, <4>3, <4>4, <4>5 DEF Out
    <3> QED
      BY <1>4, <3>1 DEF HandedOut
  <2>4. ASSUME NEW v \in Workers, Busy(v), kind # "proc"
        PROVE  /\ Increasing(rcall'[v].hand)
               /\ \A i \in DOMAIN got[rcall'[v].thread], j \in DOMAIN rcall'[v].hand :
                    got[rcall'[v].thread][i] < rcall'[v].hand[j]
               /\ (\A j \in DOMAIN rcall[v].hand : Out(rcall[v].hand[j]))'
    <3>1. CASE v = w
      BY <1>7, <1>8, <2>3, <3>1
    <3>2. CASE v # w
      <4>1. rcall'[v] = rcall[v]
        BY <1>8, <3>2
      <4>2. \A j \in DOMAIN rcall[v].hand : rcall[v].hand[j] \in Nat
        BY <1>2 DEF ReceiveCall
      <4> QED
        BY <1>12, <2>4, <4>1, <4>2 DEF IoInv, HandsOrdered
    <3> QED
      BY <3>1, <3>2
  <2>5. \A v \in Workers : Busy(v)' => Busy(v)
    BY <1>8
  <2> QED
    BY <1>2, <2>1, <2>2, <2>4, <2>5 DEF HandsOrdered, Increasing
<1>19. closed /\ queue = <<>> => closed' /\ queue' = <<>>
  <2> SUFFICES ASSUME closed, queue = <<>> PROVE closed' /\ queue' = <<>>
    OBVIOUS
  <2>1. Len(queue') = 0
    BY <1>9, <1>10
  <2> QED
    BY <1>1, <1>6, <2>1
<1>20. HandsRight'
  <2>1. ASSUME NEW v \in Workers, Handing(v)'
        PROVE  /\ Len(rcall'[v].hand) <= Want(rcall'[v].op, rcall'[v].iov)
               /\ Len(rcall'[v].hand) = 0 /\ kind # "proc" => closed' /\ queue' = <<>>
               /\ kind = "dgram" => /\ Len(rcall'[v].hand) = Least(Want(rcall'[v].op, rcall'[v].iov), rcall'[v].size)
                                    /\ rcall'[v].size <= IO_CHUNK
    <3>1. CASE v = w
      BY <1>4, <1>7, <1>8, <1>19, <3>1 DEF HandedOut, n
    <3>2. CASE v # w
      <4>1. rcall'[v] = rcall[v] /\ Handing(v)
        BY <1>8, <2>1, <3>2
      <4> QED
        BY <1>19, <4>1 DEF IoInv, HandsRight
    <3> QED
      BY <3>1, <3>2
  <2>2. kind' = kind
    BY <1>1
  <2> QED
    BY <2>1, <2>2 DEF HandsRight
<1>21. OffsetsRight'
  BY <1>1, <1>2 DEF IoInv, OffsetsRight
<1>22. StreamKept'
  <2> SUFFICES ASSUME kind \in Streams PROVE StreamKept'
    BY <1>1 DEF StreamKept
  <2>1. /\ Len(queue) <= Accepted /\ (\A i \in DOMAIN queue : queue[i].data = <<Gone + i>>) /\ Gone \in Nat
    <3>1. Len(queue) <= Accepted /\ (\A i \in DOMAIN queue : queue[i].data = <<Gone + i>>)
      BY DEF IoInv, StreamKept
    <3> QED
      BY <1>9, <1>11, <3>1 DEF Gone
  <2>2. /\ (UNION {ToSet(got[u]) : u \in Readers}) \cup (UNION {ToSet(rcall[v].hand) : v \in Workers}) = 1 .. Gone
        /\ \A u, v \in Readers : u # v => ToSet(got[u]) \cap ToSet(got[v]) = {}
        /\ \A u \in Readers, v \in Workers : ToSet(got[u]) \cap ToSet(rcall[v].hand) = {}
        /\ \A u, v \in Workers : u # v => ToSet(rcall[u].hand) \cap ToSet(rcall[v].hand) = {}
    BY DEF IoInv, StreamKept
  <2>3. Gone' = Gone + d
    BY <1>9, <1>10, <1>11 DEF Gone
  <2>4. Len(queue') <= Accepted' /\ \A i \in DOMAIN queue' : queue'[i].data = <<Gone' + i>>
    <3>1. ASSUME NEW i \in DOMAIN queue' PROVE queue'[i].data = <<Gone' + i>>
      <4>1. queue'[i].data = <<Gone + (i + d)>> /\ i \in Nat
        BY <1>9, <1>10, <2>1
      <4>2. Gone + (i + d) = Gone' + i
        BY <1>10, <2>1, <2>3, <4>1
      <4> QED
        BY <4>1, <4>2
    <3>2. Len(queue') <= Accepted'
      BY <1>9, <1>10, <1>11, <2>1
    <3> QED
      BY <3>1, <3>2
  <2> DEFINE N == (Gone + 1) .. (Gone + d)
  <2>5. ToSet(rcall'[w].hand) = N /\ ToSet(rcall[w].hand) = {} /\ \A v \in Workers : v # w => rcall'[v].hand = rcall[v].hand
    <3>1. ToSet(h) = N
      BY <1>4 DEF HandedOut
    <3>2. ToSet(rcall[w].hand) = {}
      BY <1>2 DEF ToSet
    <3> QED
      BY <1>7, <1>8, <3>1, <3>2
  <2>6. (1 .. Gone) \cup N = 1 .. Gone' /\ (1 .. Gone) \cap N = {}
    BY <1>10, <2>1, <2>3
  <2> HIDE DEF N
  <2>7. UNION {ToSet(rcall'[v].hand) : v \in Workers} = (UNION {ToSet(rcall[v].hand) : v \in Workers}) \cup N
    BY <2>5
  <2>8. (UNION {ToSet(got'[u]) : u \in Readers}) \cup (UNION {ToSet(rcall'[v].hand) : v \in Workers}) = 1 .. Gone'
    <3>1. UNION {ToSet(got'[u]) : u \in Readers} = UNION {ToSet(got[u]) : u \in Readers}
      BY <1>1
    <3> QED
      BY <2>2, <2>6, <2>7, <3>1
  <2>9. (\A u \in Readers : ToSet(got[u]) \cap N = {}) /\ \A v \in Workers : ToSet(rcall[v].hand) \cap N = {}
    BY <2>2, <2>6
  <2>10. /\ \A u, v \in Readers : u # v => ToSet(got'[u]) \cap ToSet(got'[v]) = {}
         /\ \A u \in Readers, v \in Workers : ToSet(got'[u]) \cap ToSet(rcall'[v].hand) = {}
         /\ \A u, v \in Workers : u # v => ToSet(rcall'[u].hand) \cap ToSet(rcall'[v].hand) = {}
    BY <1>1, <2>2, <2>5, <2>9
  <2> QED
    BY <2>4, <2>8, <2>10 DEF StreamKept
<1> QED
  BY <1>13, <1>14, <1>15, <1>16, <1>18, <1>20, <1>21, <1>22 DEF IoInv

\* A place of a sequence of numbers.
LEMMA PlaceFacts ==
  ASSUME NEW s \in Seq(Nat), NEW i \in DOMAIN s
  PROVE  s[i] \in Nat /\ i \in Nat /\ i >= 1 /\ i <= Len(s)
OBVIOUS

\* A file of /proc has one reader at a time.
LEMMA OneReader ==
  ASSUME IoInv, kind = "proc", NEW w \in Workers, Busy(w)
  PROVE  \A v \in Workers : v # w => ~Busy(v) /\ rcall[v] = NoCall
<1> SUFFICES ASSUME NEW v \in Workers, v # w PROVE ~Busy(v) /\ rcall[v] = NoCall
  OBVIOUS
<1>1. Busy(v) => Recv(rcall[v].op)
  BY DEF IoInv, CallsApart
<1>2. Busy(v) => ~Recv(rcall[v].op)
  BY DEF IoInv, CallMade, Busy, ReadOps, Recv, Socket
<1> QED
  BY <1>1, <1>2 DEF IoInv, CallMade, Busy

\* What a worker holds of a file of /proc.
LEMMA FileInHand ==
  ASSUME IoInv, kind = "proc", NEW w \in Workers, Busy(w), NEW c \in ReceiveCall, rcall[w].live,
         rcall' = [rcall EXCEPT ![w] = c], UNCHANGED <<kind, queue, closed, pos, wcall, sent, got>>,
         c.pc \in {"store", "reply"}, c.live, c.op = rcall[w].op, c.thread = rcall[w].thread, c.iov = rcall[w].iov,
         c.nb = rcall[w].nb, off' \in Nat, off' <= Content,
         \A i \in DOMAIN c.hand : c.hand[i] = pos + i,
         Len(c.hand) <= Want(c.op, c.iov), pos + Len(c.hand) <= Content, Len(c.hand) = 0 => pos = Content,
         c.pc = "store" => off' = pos /\ c.at = pos, c.pc = "reply" => off' = pos + Len(c.hand)
  PROVE  IoInv'
<1>1. /\ rcall' \in [Workers -> ReceiveCall] /\ rcall'[w] = c /\ Handing(w)' /\ Busy(w)'
      /\ \A v \in Workers : v # w => rcall'[v] = NoCall /\ ~Busy(v)' /\ ~Handing(v)'
  <2>1. rcall' \in [Workers -> ReceiveCall] /\ rcall'[w] = c /\ \A v \in Workers : v # w => rcall'[v] = rcall[v]
    BY DEF IoInv, IoTypes
  <2>2. \A v \in Workers : v # w => rcall[v] = NoCall
    BY OneReader
  <2> QED
    BY <2>1, <2>2, NoCallFacts DEF Busy, Handing
<1>2. c.hand \in Seq(Nat) /\ c.thread \in Readers /\ pos \in Nat /\ got \in [Readers -> Seq(Nat)] /\ Len(c.hand) \in Nat
  BY DEF IoInv, IoTypes, ReceiveCall
<1>3. IoTypes'
  BY <1>1 DEF IoInv, IoTypes
<1>4. ASSUME NEW v \in Workers PROVE CallMade(v)'
  <2>1. CASE v = w
    <3>1. CallMade(w)
      BY DEF IoInv
    <3> QED
      BY <1>1, <2>1, <3>1 DEF CallMade, Busy, ReadOps, Socket, Fits, Handing
  <2>2. CASE v # w
    BY <1>1, <2>2, NoCallFacts DEF CallMade
  <2> QED
    BY <2>1, <2>2
<1>5. CallsApart'
  BY <1>1 DEF CallsApart
<1>6. SendMade' /\ QueueOrdered' /\ Accepted' = Accepted
  BY DEF IoInv, SendMade, QueueOrdered, Accepted
<1>7. HandsOrdered'
  <2>1. InOrder'
    BY DEF IoInv, HandsOrdered, InOrder
  <2>2. Increasing(c.hand)
    BY <1>2 DEF Increasing
  <2>3. ASSUME NEW i \in DOMAIN got[c.thread], NEW j \in DOMAIN c.hand PROVE got[c.thread][i] < c.hand[j]
    <3>1. got[c.thread][i] <= pos /\ got[c.thread][i] \in Nat /\ j \in Nat /\ j >= 1 /\ c.hand[j] = pos + j
      <4> DEFINE g == got[c.thread]
                 h == c.hand
      <4>0. g \in Seq(Nat) /\ h \in Seq(Nat) /\ h[j] = pos + j /\ i \in DOMAIN g /\ j \in DOMAIN h
        BY <1>2
      <4> HIDE DEF g, h
      <4>1. g[i] \in Nat /\ j \in Nat /\ j >= 1
        BY <4>0, PlaceFacts
      <4>2. got[c.thread][i] <= pos
        BY <1>2 DEF IoInv, OffsetsRight
      <4> QED
        BY <4>0, <4>1, <4>2 DEF g, h
    <3> QED
      BY <1>2, <3>1
  <2>4. kind' = "proc" /\ got' = got /\ \A v \in Workers : Busy(v)' => v = w
    BY <1>1
  <2> QED
    BY <1>1, <2>1, <2>2, <2>3, <2>4 DEF HandsOrdered, Increasing
<1>8. HandsRight'
  BY <1>1 DEF HandsRight
<1>9. OffsetsRight'
  <2>1. (\A t \in Readers : \A i \in DOMAIN got[t] : got[t][i] <= pos)'
    BY DEF IoInv, OffsetsRight
  <2>2. c.pc # "load" /\ NoCall.pc = "idle"
    BY NoCallFacts
  <2> QED
    BY <1>1, <2>1, <2>2 DEF OffsetsRight
<1>10. StreamKept'
  BY DEF StreamKept, Streams
<1> QED
  BY <1>3, <1>4, <1>5, <1>6, <1>7, <1>8, <1>9, <1>10 DEF IoInv

\* A worker copies a part of the file, and stores the offset after it.
LEMMA FileSteps ==
  ASSUME Reckless = {}, IoInv, NEW w \in Workers, proc_load(w) \/ proc_store(w)
  PROVE  IoInv'
<1> DEFINE c == rcall[w]
<1>1. UNCHANGED <<kind, queue, closed, pos, wcall, sent, got>>
  BY DEF proc_load, proc_store
<1>2. Busy(w) /\ kind = "proc" /\ c.live /\ c \in ReceiveCall /\ rcall \in [Workers -> ReceiveCall] /\ off \in Nat /\ pos \in Nat
      /\ off <= Content
  BY DEF proc_load, proc_store, IoInv, IoTypes, CallMade, Busy, OffsetsRight
<1>3. CASE proc_load(w)
  <2> DEFINE at == Least(off, Content)
             n == Least(Content - at, Want(c.op, c.iov))
             h == [i \in 1 .. n |-> at + i]
             e == [c EXCEPT !.pc = "store", !.at = at, !.hand = h]
  <2>1. c.pc = "load" /\ rcall' = [rcall EXCEPT ![w].pc = "store", ![w].at = at, ![w].hand = h] /\ off' = off
    BY <1>3 DEF proc_load
  <2>2. at = pos /\ off = pos
    BY <1>2, <2>1, TransferAssumption DEF IoInv, OffsetsRight, Least
  <2>3. Want(c.op, c.iov) \in Nat /\ Want(c.op, c.iov) >= 1
    BY <1>2, TransferAssumption, CallFacts
  <2>4. n \in Nat /\ n <= Want(c.op, c.iov) /\ pos + n <= Content /\ (n = 0 => pos = Content)
    <3>1. Content \in Nat
      BY TransferAssumption
    <3> HIDE DEF at
    <3> QED
      BY <1>2, <2>2, <2>3, <3>1 DEF Least
  <2>5. rcall' = [rcall EXCEPT ![w] = e]
    BY <1>2, <2>1
  <2> HIDE DEF n, at
  <2>6. h \in Seq(Nat) /\ Len(h) = n /\ \A i \in DOMAIN h : h[i] = pos + i
    BY <1>2, <2>2, <2>4
  <2> HIDE DEF h
  <2>7. e \in ReceiveCall /\ e.pc = "store" /\ e.hand = h /\ e.at = pos /\ e.op = c.op /\ e.iov = c.iov /\ e.thread = c.thread
        /\ e.nb = c.nb /\ e.live
    BY <1>2, <2>2, <2>6 DEF ReceiveCall
  <2> HIDE DEF e
  <2>8. off' \in Nat /\ off' <= Content /\ off' = pos
    BY <1>2, <2>1, <2>2
  <2> QED
    BY <1>1, <1>2, <2>4, <2>5, <2>6, <2>7, <2>8, FileInHand
<1>4. CASE proc_store(w)
  <2> DEFINE h == c.hand
             e == [c EXCEPT !.pc = "reply"]
  <2>1. c.pc = "store" /\ rcall' = [rcall EXCEPT ![w] = e] /\ off' = c.at + Len(h)
    BY <1>2, <1>4 DEF proc_store
  <2>2. h \in Seq(Nat) /\ Len(h) \in Nat /\ Handing(w)
    BY <1>2, <2>1 DEF ReceiveCall, Handing
  <2>3. /\ c.at = pos /\ pos + Len(h) <= Content /\ (Len(h) = 0 => pos = Content)
        /\ \A i \in DOMAIN h : h[i] = pos + i
    BY <1>2, <2>1, <2>2 DEF IoInv, OffsetsRight
  <2>4. Len(h) <= Want(c.op, c.iov)
    BY <2>2 DEF IoInv, HandsRight
  <2>5. e \in ReceiveCall /\ e.pc = "reply" /\ e.hand = h /\ e.op = c.op /\ e.iov = c.iov /\ e.thread = c.thread
        /\ e.nb = c.nb /\ e.live
    BY <1>2 DEF ReceiveCall
  <2>6. off' = pos + Len(h) /\ off' \in Nat /\ off' <= Content
    BY <1>2, <2>1, <2>2, <2>3
  <2> HIDE DEF h, e
  <2> QED
    BY <1>1, <1>2, <2>1, <2>3, <2>4, <2>5, <2>6, FileInHand
<1> QED
  BY <1>3, <1>4

\* The guest moves the offset.
LEMMA LseekStep ==
  ASSUME Reckless = {}, IoInv, lseek
  PROVE  IoInv'
<1>1. PICK base \in {0, off, Content}, by \in {-1, 0, 1} :
        /\ kind = "proc" /\ \A w \in Workers : rcall[w].pc = "idle"
        /\ off' = IF base + by < 0 THEN 0 ELSE base + by
        /\ off' <= Content /\ pos' = off' /\ got' = [t \in Readers |-> <<>>]
        /\ UNCHANGED <<kind, queue, closed, rcall, wcall, sent>>
  BY DEF lseek
<1>2. \A w \in Workers : rcall[w] = NoCall /\ ~Busy(w)' /\ ~Handing(w)'
  BY <1>1 DEF IoInv, CallMade, Busy, Handing
<1>3. off' \in Nat /\ pos' \in Nat
  BY <1>1, TransferAssumption DEF IoInv, IoTypes
<1>4. \A t \in Readers : got'[t] = <<>> /\ DOMAIN got'[t] = {}
  BY <1>1
<1>5. IoTypes'
  BY <1>1, <1>3 DEF IoInv, IoTypes
<1>6. \A w \in Workers : CallMade(w)'
  BY <1>1, <1>2, NoCallFacts DEF CallMade
<1>7. CallsApart' /\ HandsRight'
  BY <1>2 DEF CallsApart, HandsRight
<1>8. SendMade' /\ QueueOrdered'
  BY <1>1 DEF IoInv, SendMade, QueueOrdered, Accepted
<1>9. HandsOrdered'
  BY <1>1, <1>2, <1>4 DEF HandsOrdered, InOrder
<1>10. OffsetsRight'
  BY <1>1, <1>2, <1>4, NoCallFacts DEF OffsetsRight
<1>11. StreamKept'
  BY <1>1 DEF StreamKept, Streams
<1> QED
  BY <1>5, <1>6, <1>7, <1>8, <1>9, <1>10, <1>11 DEF IoInv

LEMMA IoInvInit == IoInit => IoInv
<1> SUFFICES ASSUME IoInit PROVE IoInv
  OBVIOUS
<1>1. /\ kind \in Kinds /\ queue = <<>> /\ closed = FALSE /\ off = 0 /\ pos = 0 /\ seeks = 0 /\ sent = 0
      /\ rcall = [w \in Workers |-> NoCall] /\ wcall = NoSend /\ got = [t \in Readers |-> <<>>]
  BY DEF IoInit
<1>2. \A w \in Workers : rcall[w] = NoCall /\ ~Busy(w) /\ ~Handing(w) /\ rcall[w].hand = <<>>
  BY <1>1, NoCallFacts DEF Busy, Handing
<1>3. NoSend \in SendCall /\ wcall.pc = "idle" /\ wcall.n = 0
  BY <1>1 DEF NoSend, SendCall
<1>4. \A t \in Readers : got[t] = <<>> /\ DOMAIN got[t] = {} /\ ToSet(got[t]) = {}
  BY <1>1 DEF ToSet
<1>5. IoTypes
  <2>1. rcall \in [Workers -> ReceiveCall]
    BY <1>1, NoCallFacts
  <2>2. got \in [Readers -> Seq(Nat)] /\ wcall \in SendCall
    BY <1>1, <1>3
  <2>3. queue \in Seq([data : Seq(Nat), size : Nat])
    BY <1>1
  <2> QED
    BY <1>1, <2>1, <2>2, <2>3 DEF IoTypes
<1>6. (\A w \in Workers : CallMade(w)) /\ CallsApart /\ HandsRight
  BY <1>2, NoCallFacts DEF CallMade, CallsApart, HandsRight
<1>7. SendMade /\ QueueOrdered
  BY <1>1, <1>3 DEF SendMade, QueueOrdered
<1>8. HandsOrdered
  BY <1>2, <1>4 DEF HandsOrdered, InOrder
<1>9. OffsetsRight
  BY <1>1, <1>2, <1>4, NoCallFacts, TransferAssumption DEF OffsetsRight
<1>10. StreamKept
  <2>1. Accepted = 0 /\ Gone = 0 /\ DOMAIN queue = {} /\ Len(queue) = 0
    <3>1. sent = 0 /\ wcall.n = 0 /\ DOMAIN queue = {} /\ Len(queue) = 0
      BY <1>1, <1>3
    <3>2. Accepted = 0
      BY <3>1 DEF Accepted
    <3> QED
      BY <3>1, <3>2 DEF Gone
  <2>2. \A w \in Workers : ToSet(rcall[w].hand) = {}
    BY <1>2 DEF ToSet
  <2>3. 1 .. 0 = {}
    OBVIOUS
  <2>4. (UNION {ToSet(got[t]) : t \in Readers}) \cup (UNION {ToSet(rcall[w].hand) : w \in Workers}) = 1 .. Gone
    BY <1>4, <2>1, <2>2, <2>3
  <2>5. Len(queue) <= Accepted /\ \A i \in DOMAIN queue : queue[i].data = <<Gone + i>>
    BY <2>1
  <2>6. /\ \A t, u \in Readers : t # u => ToSet(got[t]) \cap ToSet(got[u]) = {}
        /\ \A t \in Readers, w \in Workers : ToSet(got[t]) \cap ToSet(rcall[w].hand) = {}
        /\ \A v, w \in Workers : v # w => ToSet(rcall[v].hand) \cap ToSet(rcall[w].hand) = {}
    BY <1>4, <2>2
  <2> QED
    BY <2>4, <2>5, <2>6 DEF StreamKept
<1> QED
  BY <1>5, <1>6, <1>7, <1>8, <1>9, <1>10 DEF IoInv

LEMMA IoInvStep ==
  ASSUME Reckless = {}
  PROVE  IoInv /\ [IoNext]_ioVars => IoInv'
<1> SUFFICES ASSUME IoInv, [IoNext]_ioVars PROVE IoInv'
  OBVIOUS
<1>1. CASE IoNext
  BY <1>1, SendSteps, WriteStep, DrainStep, LseekStep, ReceiveStep, WaitSteps, TakeStep, FileSteps, ReplyStep DEF IoNext
<1>2. CASE UNCHANGED ioVars
  <2>1. UNCHANGED <<kind, queue, closed, off, pos, rcall, wcall, sent, got>>
    BY <1>2 DEF ioVars
  <2>2. IoTypes' /\ (\A w \in Workers : CallMade(w)')
    BY <2>1 DEF IoInv, IoTypes, CallMade, ReadOps, Socket, Handing, Readable
  <2>3. CallsApart' /\ SendMade' /\ QueueOrdered'
    BY <2>1 DEF IoInv, CallsApart, Busy, SendMade, QueueOrdered, Accepted
  <2>4. HandsOrdered' /\ HandsRight' /\ OffsetsRight'
    BY <2>1 DEF IoInv, HandsOrdered, InOrder, HandsRight, OffsetsRight, Busy, Handing, Out, Accepted
  <2>5. StreamKept'
    BY <2>1 DEF IoInv, StreamKept, Gone, Accepted
  <2> QED
    BY <2>2, <2>3, <2>4, <2>5 DEF IoInv
<1> QED
  BY <1>1, <1>2

\* The buffers of a guest take all that its worker holds.
LEMMA HandsFit ==
  ASSUME Reckless = {}, IoInv, NEW w \in Workers
  PROVE  /\ rcall[w].live => scatter(rcall[w].hand, rcall[w].iov) = rcall[w].hand /\ Busy(w)
         /\ InHand(w) = rcall[w].hand
         /\ rcall[w].hand \in Seq(Nat) /\ Increasing(rcall[w].hand)
<1> DEFINE c == rcall[w]
           h == c.hand
<1>1. c \in ReceiveCall /\ CallMade(w)
  BY DEF IoInv, IoTypes
<1>2. h \in Seq(Nat) /\ Len(h) \in Nat
  BY <1>1 DEF ReceiveCall
<1>3. ~c.live => h = <<>>
  BY <1>1, NoCallFacts DEF CallMade, Handing
<1>4. ASSUME c.live PROVE scatter(h, c.iov) = h /\ Busy(w)
  <2>1. Busy(w)
    BY <1>1, <1>4, NoCallFacts DEF CallMade, Busy
  <2>2. Want(c.op, c.iov) \in Nat /\ Cap(c.iov) \in Nat /\ Want(c.op, c.iov) <= Cap(c.iov)
    BY <2>1, CallFacts
  <2>3. Len(h) <= Want(c.op, c.iov)
    <3>1. CASE Handing(w)
      BY <3>1 DEF IoInv, HandsRight
    <3>2. CASE ~Handing(w)
      <4>1. h = <<>>
        BY <1>1, <2>1, <3>2 DEF CallMade, Busy
      <4> QED
        BY <2>2, <4>1
    <3> QED
      BY <3>1, <3>2
  <2>4. Least(Len(h), Cap(c.iov)) = Len(h)
    BY <1>2, <2>2, <2>3 DEF Least
  <2>5. SubSeq(h, 1, Len(h)) = h
    BY <1>2
  <2> QED
    BY <2>1, <2>4, <2>5 DEF scatter
<1>5. Increasing(h)
  <2>1. CASE Busy(w)
    BY <2>1 DEF IoInv, HandsOrdered
  <2>2. CASE ~Busy(w)
    BY <1>1, <2>2, NoCallFacts DEF CallMade, Busy, Increasing
  <2> QED
    BY <2>1, <2>2
<1> QED
  BY <1>2, <1>3, <1>4, <1>5 DEF InHand

LEMMA FreeByInv == IoInv => WorkersFree
<1> SUFFICES ASSUME IoInv, NEW w \in Workers
             PROVE  /\ rcall[w].pc = "read" /\ ~Readable => rcall[w].live
                    /\ rcall[w].nb => rcall[w].pc # "poll"
  BY DEF WorkersFree, NoStrayWorker, NeverWaits
<1>1. CallMade(w)
  BY DEF IoInv
<1> QED
  BY <1>1, NoCallFacts DEF CallMade

LEMMA RightByInv ==
  ASSUME Reckless = {}
  PROVE  IoInv => DeliveredRight
<1> SUFFICES ASSUME IoInv PROVE DeliveredRight
  OBVIOUS
<1>1. InOrder /\ OffsetTrue
  BY DEF IoInv, HandsOrdered, OffsetTrue, OffsetsRight, Busy, IoTypes
<1>2. ASSUME NEW w \in Workers, rcall[w].pc = "reply", rcall[w].live
      PROVE  /\ Reply(rcall[w]) = Len(scatter(rcall[w].hand, rcall[w].iov))
             /\ Reply(rcall[w]) = 0 => IF kind = "proc" THEN off >= Content ELSE closed /\ queue = <<>>
             /\ kind = "dgram" => Reply(rcall[w]) = Least(rcall[w].size, Total(rcall[w].iov))
  <2> DEFINE c == rcall[w]
             n == Len(c.hand)
  <2>1. Reply(c) = n /\ Len(scatter(c.hand, c.iov)) = n /\ n \in Nat /\ Busy(w) /\ Handing(w)
    BY <1>2, HandsFit DEF Reply, Handing
  <2>2. /\ n = 0 /\ kind # "proc" => closed /\ queue = <<>>
        /\ kind = "dgram" => n = Least(Want(c.op, c.iov), c.size) /\ c.size <= IO_CHUNK
    BY <2>1 DEF IoInv, HandsRight
  <2>3. n = 0 /\ kind = "proc" => off >= Content
    <3>1. kind = "proc" => off = pos + n /\ (n = 0 => pos = Content)
      BY <1>2, <2>1 DEF IoInv, OffsetsRight
    <3>2. Content \in Nat
      BY TransferAssumption
    <3> HIDE DEF n, c
    <3> QED
      BY <3>1, <3>2
  <2>4. ASSUME kind = "dgram" PROVE n = Least(c.size, Total(c.iov))
    <3>1. n # 0
      BY <2>2, <2>4 DEF IoInv, SendMade
    <3>2. c.size \in Nat /\ Want(c.op, c.iov) \in Nat
      <4>1. c \in ReceiveCall
        BY DEF IoInv, IoTypes
      <4>2. Want(c.op, c.iov) \in Nat
        BY <2>1, CallFacts
      <4> QED
        BY <4>1, <4>2 DEF ReceiveCall
    <3>3. c.size \in 1 .. IO_CHUNK
      <4>1. c.size # 0
        BY <2>1, <2>2, <2>4, <3>1, <3>2 DEF Least
      <4>2. c.size <= IO_CHUNK /\ IO_CHUNK \in Nat
        BY <2>2, <2>4, TransferAssumption
      <4> HIDE DEF c
      <4> QED
        BY <3>2, <4>1, <4>2
    <3>4. Least(Want(c.op, c.iov), c.size) = Least(c.size, Total(c.iov))
      <4>1. \A m \in 1 .. IO_CHUNK : Least(Want(c.op, c.iov), m) = Least(m, Total(c.iov))
        BY <2>1, CallFacts
      <4> QED
        BY <3>3, <4>1
    <3> QED
      BY <2>2, <2>4, <3>4
  <2> QED
    BY <2>1, <2>2, <2>3, <2>4
<1> QED
  BY <1>1, <1>2 DEF DeliveredRight, CountTrue, MessagesWhole

\* A byte is at one place of a sequence in order.
LEMMA OncePlaced ==
  ASSUME NEW s \in Seq(Nat), Increasing(s), NEW b, NEW i \in DOMAIN s, NEW j \in DOMAIN s, s[i] = b, s[j] = b
  PROVE  i = j
<1>1. i \in Nat /\ j \in Nat /\ s[i] \in Nat
  OBVIOUS
<1>2. ~(i < j) /\ ~(j < i)
  BY <1>1 DEF Increasing
<1> QED
  BY <1>1, <1>2

LEMMA NoneLostByInv ==
  ASSUME Reckless = {}
  PROVE  IoInv => NothingLost
<1> SUFFICES ASSUME IoInv, kind \in Streams PROVE
      /\ ToSet(Bytes(queue)) \cup (UNION {ToSet(got[t]) : t \in Readers})
           \cup (UNION {ToSet(InHand(w)) : w \in Workers}) = 1 .. Accepted
      /\ \A b \in 1 .. Accepted : \E place \in Where(b) : Where(b) = {place}
  BY DEF NothingLost, Streams
<1> DEFINE q == Bytes(queue)
           L == Len(queue)
<1>1. /\ Gone \in Nat /\ L \in Nat /\ Accepted \in Nat /\ Accepted = Gone + L
      /\ q \in Seq(Nat) /\ Increasing(q) /\ ToSet(q) = (Gone + 1) .. (Gone + L)
  <2>1. L \in 0 .. L
    BY DEF IoInv, IoTypes
  <2> QED
    BY <2>1, BytesFacts
<1>2. \A w \in Workers : InHand(w) = rcall[w].hand /\ rcall[w].hand \in Seq(Nat) /\ Increasing(rcall[w].hand)
  BY HandsFit
<1>3. \A t \in Readers : got[t] \in Seq(Nat) /\ Increasing(got[t])
  BY DEF IoInv, IoTypes, HandsOrdered, InOrder, Increasing
<1>4. /\ (UNION {ToSet(got[t]) : t \in Readers}) \cup (UNION {ToSet(rcall[w].hand) : w \in Workers}) = 1 .. Gone
      /\ \A t, u \in Readers : t # u => ToSet(got[t]) \cap ToSet(got[u]) = {}
      /\ \A t \in Readers, w \in Workers : ToSet(got[t]) \cap ToSet(rcall[w].hand) = {}
      /\ \A v, w \in Workers : v # w => ToSet(rcall[v].hand) \cap ToSet(rcall[w].hand) = {}
  BY DEF IoInv, StreamKept
<1> HIDE DEF q, L, Gone, Accepted
<1>5. 1 .. Accepted = (1 .. Gone) \cup ToSet(q) /\ (1 .. Gone) \cap ToSet(q) = {}
  BY <1>1
<1>6. ToSet(q) \cup (UNION {ToSet(got[t]) : t \in Readers}) \cup (UNION {ToSet(InHand(w)) : w \in Workers}) = 1 .. Accepted
  <2>1. UNION {ToSet(InHand(w)) : w \in Workers} = UNION {ToSet(rcall[w].hand) : w \in Workers}
    BY <1>2
  <2> QED
    BY <1>4, <1>5, <2>1
<1>7. ASSUME NEW b \in 1 .. Accepted PROVE \E place \in Where(b) : Where(b) = {place}
  <2> DEFINE Q == {<<"kernel", "queue", i>> : i \in {j \in DOMAIN q : q[j] = b}}
             G(t) == {<<"guest", t, i>> : i \in {j \in DOMAIN got[t] : got[t][j] = b}}
             H(w) == {<<"worker", w, i>> : i \in {j \in DOMAIN rcall[w].hand : rcall[w].hand[j] = b}}
  <2>1. Where(b) = Q \cup (UNION {G(t) : t \in Readers}) \cup (UNION {H(w) : w \in Workers})
    <3>1. /\ \A i \in DOMAIN q : Bytes(queue)[i] = q[i]
          /\ \A w \in Workers : {<<"worker", w, i>> : i \in {j \in DOMAIN InHand(w) : InHand(w)[j] = b}} = H(w)
      BY <1>2 DEF q
    <3>2. {<<"kernel", "queue", i>> : i \in {j \in DOMAIN queue : Bytes(queue)[j] = b}} = Q
      <4>1. DOMAIN queue = DOMAIN q
        BY DEF q, Bytes
      <4> QED
        BY <4>1 DEF q
    <3>3. UNION {{<<"worker", w, i>> : i \in {j \in DOMAIN InHand(w) : InHand(w)[j] = b}} : w \in Workers}
            = UNION {H(w) : w \in Workers}
      <4> HIDE DEF H
      <4> QED
        BY <3>1
    <3> QED
      BY <3>2, <3>3 DEF Where
  <2>2. /\ b \notin ToSet(q) => Q = {}
        /\ \A t \in Readers : b \notin ToSet(got[t]) => G(t) = {}
        /\ \A w \in Workers : b \notin ToSet(rcall[w].hand) => H(w) = {}
    BY DEF ToSet
  <2>3. ASSUME b \in ToSet(q) PROVE \E place \in Q : Q = {place}
    <3>1. PICK i \in DOMAIN q : q[i] = b
      BY <2>3 DEF ToSet
    <3>2. \A j \in DOMAIN q : q[j] = b => j = i
      BY <1>1, <3>1, OncePlaced
    <3>3. Q = {<<"kernel", "queue", i>>}
      BY <3>1, <3>2
    <3> QED
      BY <3>3
  <2>4. ASSUME NEW t \in Readers, b \in ToSet(got[t]) PROVE \E place \in G(t) : G(t) = {place}
    <3>1. PICK i \in DOMAIN got[t] : got[t][i] = b
      BY <2>4 DEF ToSet
    <3>2. \A j \in DOMAIN got[t] : got[t][j] = b => j = i
      BY <1>3, <3>1, OncePlaced
    <3>3. G(t) = {<<"guest", t, i>>}
      BY <3>1, <3>2
    <3> QED
      BY <3>3
  <2>5. ASSUME NEW w \in Workers, b \in ToSet(rcall[w].hand) PROVE \E place \in H(w) : H(w) = {place}
    <3>1. PICK i \in DOMAIN rcall[w].hand : rcall[w].hand[i] = b
      BY <2>5 DEF ToSet
    <3>2. \A j \in DOMAIN rcall[w].hand : rcall[w].hand[j] = b => j = i
      <4> DEFINE h == rcall[w].hand
      <4>1. h \in Seq(Nat) /\ Increasing(h) /\ i \in DOMAIN h /\ h[i] = b
        BY <1>2, <3>1
      <4> HIDE DEF h
      <4>2. \A j \in DOMAIN h : h[j] = b => j = i
        BY <4>1, OncePlaced
      <4> QED
        BY <4>2 DEF h
    <3>3. H(w) = {<<"worker", w, i>>}
      BY <3>1, <3>2
    <3> QED
      BY <3>3
  <2> HIDE DEF Q, G, H
  <2>6. CASE b \in ToSet(q)
    <3>1. /\ \A t \in Readers : b \notin ToSet(got[t])
          /\ \A w \in Workers : b \notin ToSet(rcall[w].hand)
      BY <1>4, <1>5, <2>6
    <3>2. (\A t \in Readers : G(t) = {}) /\ \A w \in Workers : H(w) = {}
      BY <2>2, <3>1
    <3>3. Where(b) = Q
      BY <2>1, <3>2
    <3> QED
      BY <2>3, <2>6, <3>3
  <2>7. ASSUME NEW t \in Readers, b \in ToSet(got[t]) PROVE \E place \in Where(b) : Where(b) = {place}
    <3>1. /\ b \notin ToSet(q)
          /\ \A u \in Readers : u # t => b \notin ToSet(got[u])
          /\ \A w \in Workers : b \notin ToSet(rcall[w].hand)
      BY <1>4, <1>5, <2>7
    <3>2. Q = {} /\ (\A u \in Readers : u # t => G(u) = {}) /\ \A w \in Workers : H(w) = {}
      BY <2>2, <3>1
    <3>3. Where(b) = G(t)
      BY <2>1, <3>2
    <3> QED
      BY <2>4, <2>7, <3>3
  <2>8. ASSUME NEW w \in Workers, b \in ToSet(rcall[w].hand) PROVE \E place \in Where(b) : Where(b) = {place}
    <3>1. /\ b \notin ToSet(q)
          /\ \A u \in Readers : b \notin ToSet(got[u])
          /\ \A v \in Workers : v # w => b \notin ToSet(rcall[v].hand)
      BY <1>4, <1>5, <2>8
    <3>2. Q = {} /\ (\A u \in Readers : G(u) = {}) /\ \A v \in Workers : v # w => H(v) = {}
      BY <2>2, <3>1
    <3>3. Where(b) = H(w)
      BY <2>1, <3>2
    <3> QED
      BY <2>5, <2>8, <3>3
  <2>9. b \in ToSet(q) \/ (\E t \in Readers : b \in ToSet(got[t])) \/ \E w \in Workers : b \in ToSet(rcall[w].hand)
    BY <1>4, <1>5, <1>7
  <2> QED
    BY <2>6, <2>7, <2>8, <2>9
<1> QED
  BY <1>6, <1>7 DEF q

-----------------------------------------------------------------------------
(* Transfer: the theorems.                                                 *)

\* No byte a guest was told is gone is lost, and none is there twice: it is in
\* the kernel, in the hands of a worker whose guest waits, or with a receiver,
\* however small the buffer of the copy, the queue and the guest's vectors.  It
\* holds of guests that keep to the restrictions (read_blocking, recv_blocking,
\* sys_readv, sys_writev, write_to_sink).
THEOREM NothingEverLost == ASSUME Reckless = {} PROVE Spec => []NothingLost
<1>1. IoInv => NothingLost
  BY NoneLostByInv
<1> QED
  BY <1>1, IoInvInit, IoInvStep, GroupSteps, PTL DEF Spec, Init

\* What a receiver is given is in the order in which it was sent, it is told the
\* number of bytes that reached its buffers and zero at the end only, a message
\* is cut by the receiver's own buffers only, and the offset of a file of /proc
\* moves by what the reader was told (sys_readv, sys_recvmsg, proc backends).
THEOREM AlwaysDeliveredRight == ASSUME Reckless = {} PROVE Spec => []DeliveredRight
<1>1. IoInv => DeliveredRight
  BY RightByInv
<1> QED
  BY <1>1, IoInvInit, IoInvStep, GroupSteps, PTL DEF Spec, Init

\* No worker blocks in the kernel for a guest that has left its call, and a call
\* that must not wait never gets to the poll (read_blocking, recv_blocking).
THEOREM WorkersAlwaysFree == ASSUME Reckless = {} PROVE Spec => []WorkersFree
<1> QED
  BY FreeByInv, IoInvInit, IoInvStep, GroupSteps, PTL DEF Spec, Init
=============================================================================
