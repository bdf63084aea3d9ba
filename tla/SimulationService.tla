-------------------------- MODULE SimulationService --------------------------
(***************************************************************************)
(* What the Flower server's thread relies on when it calls sendRequest      *)
(* (geom/network/network.py): a call with a set of nodes either returns      *)
(* statistics of exactly these nodes, made for this very call, or raises.    *)
(* Every call is in its turn, and after the first that raises there is none. *)
(***************************************************************************)
EXTENDS Naturals

CONSTANT Nodes

VARIABLES
    phase,    \* "idle", "called", "returned" or "over"
    call,     \* the number of calls so far
    request,  \* the nodes of the call
    made      \* what the last call returned: nodes, each with its call's number

vars == <<phase, call, request, made>>

Init == phase = "idle" /\ call = 0 /\ request = {} /\ made = {}

Call(S) ==
    /\ phase = "idle"
    /\ phase' = "called"
    /\ call' = call + 1
    /\ request' = S
    /\ made' = {}

Return ==
    /\ phase = "called"
    /\ phase' = "idle"
    /\ made' = request \X {call}
    /\ UNCHANGED <<call, request>>

\* The call raises, or there is no other: the thread or its process ends.
End ==
    /\ phase # "over"
    /\ phase' = "over"
    /\ made' = {}
    /\ UNCHANGED <<call, request>>

Next == (\E S \in SUBSET Nodes : Call(S)) \/ Return \/ End

Spec == Init /\ [][Next]_vars
=============================================================================
