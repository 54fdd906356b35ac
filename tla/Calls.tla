------------------------------- MODULE Calls -------------------------------
(* The handlers that share no state with each other, put together as the    *)
(* supervisor has them: the guest is of one kind, and its calls go to one   *)
(* group of handlers.  TLC explores the sum of the groups this way, not     *)
(* their product; their only common state is the registry's lock, which no  *)
(* handler of one group holds while it waits for one of another.            *)
EXTENDS Network, Transfer, ExecLinks, ProcView

CONSTANT Guestkinds        \* of net, bytes, exec, proc

VARIABLE guest
vars == <<guest, netVars, ioVars, execVars, procVars>>

\* What the guest does not use starts in one way only.
Init ==
  /\ guest \in Guestkinds /\ NetInit /\ IoInit /\ ExecInit /\ ProcInit
  /\ guest = "net" \/ (~allow_network /\ ~allow_listen)
  /\ guest = "bytes" \/ kind = "pipe"

Next ==
  \/ guest = "net" /\ NetNext /\ UNCHANGED <<guest, ioVars, execVars, procVars>>
  \/ guest = "bytes" /\ IoNext /\ UNCHANGED <<guest, netVars, execVars, procVars>>
  \/ guest = "exec" /\ ExecNext /\ UNCHANGED <<guest, netVars, ioVars, procVars>>
  \/ guest = "proc" /\ ProcNext /\ UNCHANGED <<guest, netVars, ioVars, execVars>>

Spec == Init /\ [][Next]_vars
=============================================================================
