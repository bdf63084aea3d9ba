------------------------- MODULE FederatedRoundLoop -------------------------
(***************************************************************************)
(* The loop of configure_fit (geom/server/strategy.py) as it is written,     *)
(*    for i, (client_proxy, _) in enumerate(fit_clients): ... pop(i)         *)
(* to compare with Pops and Left, which say what it does to the list.        *)
(***************************************************************************)
EXTENDS FederatedRound, SequencesExt

\* One turn: the iteration ends behind the list's end; otherwise it looks at
\* position i of the list as it is now, and then goes to i + 1.
Turn(l, i) ==
    IF i > Len(l) THEN [list |-> l, i |-> i]
    ELSE [list |-> IF response[cid_to_index[l[i]]] THEN l ELSE RemoveAt(l, i),
          i |-> i + 1]

\* The list and the position after n turns.
PopLoop[n \in 0..Len(fit_clients)] ==
    IF n = 0 THEN [list |-> fit_clients, i |-> 1]
    ELSE Turn(PopLoop[n - 1].list, PopLoop[n - 1].i)

\* The clients that configure_fit is said to leave in the list are those that
\* the loop leaves there, for every list and all dropouts.
LeftIsWhatTheLoopLeaves ==
    (pc = "simulating" /\ ns3 = "answered") =>
        Left = ToSet(PopLoop[Len(fit_clients)].list)
=============================================================================
