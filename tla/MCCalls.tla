------------------------------ MODULE MCCalls ------------------------------
(* The instance of Calls that is checked.                                   *)
EXTENDS Calls, TLC

\* One guest thread in each sandbox, named as the sandbox is; the sandboxes are
\* interchangeable, and so are the workers.
MCGuests == [x \in Boxes |-> x]
Symmetric == Permutations(Boxes) \cup Permutations(Workers)
=============================================================================
