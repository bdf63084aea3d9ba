----------------------------- MODULE FDABarrier -----------------------------
(***************************************************************************)
(* What the metric server promises the training clients, without threads,  *)
(* locks or counters.  For every batch of a round each member submits one   *)
(* norm; nobody is told a verdict before everybody has submitted; and if a  *)
(* submitted norm was too large everybody is told to stop.  A member that   *)
(* has been told may submit its next norm before the others have been told: *)
(* this norm counts in the verdict they are still to be told, it is dropped *)
(* with their batch, and no batch is completed after that.                  *)
(***************************************************************************)
CONSTANT Clients

VARIABLES
    members,    \* the participants of the round; {} between rounds
    submitted,  \* the members whose norm of this batch is in
    exceeding,  \* the members with a norm in that is over the threshold
    released,   \* the members told the verdict of this batch
    early,      \* the members that submitted before the others were told
    told        \* the last verdict each client was told in its round

vars == <<members, submitted, exceeding, released, early, told>>

Init ==
    /\ members = {}
    /\ submitted = {}
    /\ exceeding = {}
    /\ released = {}
    /\ early = {}
    /\ told = [c \in Clients |-> "none"]

BeginRound(P) ==
    /\ members = {}
    /\ P # {}
    /\ members' = P
    /\ told' = [c \in Clients |-> IF c \in P THEN "none" ELSE told[c]]
    /\ UNCHANGED <<submitted, exceeding, released, early>>

\* c is told the verdict on the norms S, of which E exceed the threshold; the
\* last member to be told leaves an empty batch behind.
Tell(c, S, E) ==
    /\ told' = [told EXCEPT ![c] = IF E # {} THEN "stop" ELSE "continue"]
    /\ IF released \cup {c} = members
       THEN submitted' = {} /\ exceeding' = {} /\ released' = {}
       ELSE submitted' = S /\ exceeding' = E /\ released' = released \cup {c}

\* The norm of c is in; whoever submits last is told at once.
Submit(c) ==
    /\ released = {}
    /\ c \in members \ (submitted \cup early)
    /\ told[c] # "stop"
    /\ \E E \in {exceeding, exceeding \cup {c}} :
         IF submitted \cup {c} = members
         THEN Tell(c, members, E)
         ELSE /\ submitted' = submitted \cup {c}
              /\ exceeding' = E
              /\ UNCHANGED <<released, told>>
    /\ UNCHANGED <<members, early>>

\* The next norm of c is in while others wait to be told about this batch.
SubmitEarly(c) ==
    /\ c \in released \ early
    /\ told[c] # "stop"
    /\ exceeding' \in {exceeding, exceeding \cup {c}}
    /\ early' = early \cup {c}
    /\ UNCHANGED <<members, submitted, released, told>>

Release(c) ==
    /\ submitted = members
    /\ released # {}
    /\ c \in members \ released
    /\ Tell(c, submitted, exceeding)
    /\ UNCHANGED <<members, early>>

\* A round ends when every member was told to stop.
EndRound ==
    /\ members # {}
    /\ \A c \in members : told[c] = "stop"
    /\ submitted = {}
    /\ members' = {}
    /\ UNCHANGED <<submitted, exceeding, released, early, told>>

Next ==
    \/ \E P \in SUBSET Clients : BeginRound(P)
    \/ \E c \in Clients : Submit(c) \/ SubmitEarly(c) \/ Release(c)
    \/ EndRound

Spec == Init /\ [][Next]_vars
=============================================================================
