--------------------------- MODULE FederatedRound ---------------------------
(***************************************************************************)
(* The rounds of federated learning, as the Flower server's thread drives    *)
(* them: the registration of clients (geom/server/custom_client_manger.py,   *)
(* geom/utils/monitor.py), the strategy (geom/server/strategy.py), the ns-3   *)
(* simulation of a round (geom/network/ns3_round.py) and the end of the       *)
(* experiment (geom/server/flower_server.py).  Flower's own server loop, its  *)
(* FedAvg and its SimpleClientManager are external.                          *)
(*                                                                         *)
(* The training of a round is what MetricBarrier shows of it: the clients     *)
(* return from fit if as many train as the metric server has been told.      *)
(***************************************************************************)
EXTENDS Integers, Sequences, FiniteSets

CONSTANTS
    Clients,     \* the cids; a client that comes back has a new one
    Total,       \* cfg.clients.total, and the number of nodes in ns-3
    ForFit,      \* cfg.clients.for_fit
    NumRounds,   \* cfg.num_rounds
    MaxLeaves    \* bound on the number of clients that leave

ASSUME ClientsFinite == IsFiniteSet(Clients)
ASSUME SizesPositive == /\ Total \in Nat \ {0}
                        /\ ForFit \in 1..Total
                        /\ NumRounds \in Nat \ {0}
                        /\ MaxLeaves \in Nat

VARIABLES
    \* SimpleClientManager
    clients,           \* the registered cids
    pending,           \* registered there, and not yet in the id mappings
    \* Monitor
    cid_to_index,
    index_to_cid,
    last_id,
    num_fit_clients,
    \* the Flower server's thread: where it is, or the exception that ended it
    pc,
    round,
    fit_clients,       \* the list FedAvg.configure_fit returns
    ns3_res,           \* by index: did all three parts of the round take time?
    participants,      \* the clients left in the list
    results, failures, \* those whose fit returned, and those whose fit raised
    merged,            \* the nodes whose statistics each result was given
    \* ns-3
    ns3,               \* what the simulator's process is doing
    in_round,          \* the nodes of the request
    response

managerVars == <<clients, pending>>
mapVars     == <<cid_to_index, index_to_cid, last_id>>
fitVars     == <<participants, results, failures, merged>>
ns3Vars     == <<ns3, in_round, response>>
vars == <<managerVars, mapVars, num_fit_clients, pc, round, fit_clients, ns3_res,
          fitVars, ns3Vars>>

\* LinkError: a struct.error or an OSError, from a read or a write of sendRequest.
Exceptions == {"TypeError", "IndexError", "LinkError", "ValueError", "KeyError"}

Indices == 0..Cardinality(Clients)

\* Is f a partial function from S to T?
Partial(f, S, T) == DOMAIN f \subseteq S /\ f \in [DOMAIN f -> T]

TypeOK ==
    /\ clients \subseteq Clients
    /\ pending \subseteq Clients
    /\ Partial(cid_to_index, Clients, Indices)
    /\ Partial(index_to_cid, Indices, Clients)
    /\ last_id \in Indices
    /\ num_fit_clients \in Nat
    /\ pc \in {"waiting", "sampling", "parsing", "simulating", "training",
               "evaluating", "over"} \cup Exceptions
    /\ round \in 1..NumRounds
    /\ fit_clients \in Seq(Clients)
    /\ Partial(ns3_res, Indices, BOOLEAN)
    /\ participants \subseteq Clients
    /\ results \subseteq participants
    /\ failures \subseteq participants
    /\ Partial(merged, Clients, SUBSET Indices)
    /\ ns3 \in {"idle", "simulating", "answered", "exited"}
    /\ in_round \subseteq Indices
    /\ Partial(response, Indices, BOOLEAN)

Init ==
    /\ clients = {}
    /\ pending = {}
    /\ cid_to_index = <<>>
    /\ index_to_cid = <<>>
    /\ last_id = 0
    /\ num_fit_clients = 0
    /\ pc = "waiting"
    /\ round = 1
    /\ fit_clients = <<>>
    /\ ns3_res = <<>>
    /\ participants = {}
    /\ results = {}
    /\ failures = {}
    /\ merged = <<>>
    /\ ns3 = "idle"
    /\ in_round = {}
    /\ response = <<>>

-----------------------------------------------------------------------------
(***************************************************************************)
(* Registration.  Every client has a thread of its own in the server.        *)
(***************************************************************************)

Serving == pc # "over" /\ pc \notin Exceptions

\* super().register: the client can be sampled from here on.
Register(c) ==
    /\ Serving
    /\ c \notin clients \cup pending \cup DOMAIN cid_to_index
    /\ clients' = clients \cup {c}
    /\ pending' = pending \cup {c}
    /\ UNCHANGED <<mapVars, num_fit_clients, pc, round, fit_clients, ns3_res,
                   fitVars, ns3Vars>>

\* (mutant) The new index is the number of the other registered clients.
MapToCount(c) ==
    LET index == Cardinality(clients \ {c}) IN
    /\ c \in pending
    /\ pending' = pending \ {c}
    /\ cid_to_index' = [d \in DOMAIN cid_to_index \cup {c} |->
                          IF d = c THEN index ELSE cid_to_index[d]]
    /\ index_to_cid' = [i \in DOMAIN index_to_cid \cup {index} |->
                          IF i = index THEN c ELSE index_to_cid[i]]
    /\ last_id' = last_id + 1
    /\ UNCHANGED <<clients, num_fit_clients, pc, round, fit_clients, ns3_res,
                   fitVars, ns3Vars>>

\* (mutant) last_id is incremented between the two assignments.
MapOffByOne(c) ==
    /\ c \in pending
    /\ pending' = pending \ {c}
    /\ cid_to_index' = [d \in DOMAIN cid_to_index \cup {c} |->
                          IF d = c THEN last_id ELSE cid_to_index[d]]
    /\ index_to_cid' = [i \in DOMAIN index_to_cid \cup {last_id + 1} |->
                          IF i = last_id + 1 THEN c ELSE index_to_cid[i]]
    /\ last_id' = last_id + 1
    /\ UNCHANGED <<clients, num_fit_clients, pc, round, fit_clients, ns3_res,
                   fitVars, ns3Vars>>

\* update_id_mappings: no call, so no switch of threads, within its three lines.
UpdateIdMappings(c) ==
    /\ c \in pending
    /\ pending' = pending \ {c}
    /\ cid_to_index' = [d \in DOMAIN cid_to_index \cup {c} |->
                          IF d = c THEN last_id ELSE cid_to_index[d]]
    /\ index_to_cid' = [i \in DOMAIN index_to_cid \cup {last_id} |->
                          IF i = last_id THEN c ELSE index_to_cid[i]]
    /\ last_id' = last_id + 1
    /\ UNCHANGED <<clients, num_fit_clients, pc, round, fit_clients, ns3_res,
                   fitVars, ns3Vars>>

\* A client's stream breaks: unregister.  The id mappings keep its cid.
Leave(c) ==
    /\ Serving
    /\ c \in clients
    /\ Cardinality((pending \cup DOMAIN cid_to_index) \ clients) < MaxLeaves
    /\ clients' = clients \ {c}
    /\ UNCHANGED <<pending, mapVars, num_fit_clients, pc, round, fit_clients,
                   ns3_res, fitVars, ns3Vars>>

-----------------------------------------------------------------------------
(***************************************************************************)
(* configure_fit                                                            *)
(***************************************************************************)

\* The sample waits for min_available_clients ...
WaitFor ==
    /\ pc = "waiting"
    /\ Cardinality(clients) >= Total
    /\ pc' = "sampling"
    /\ UNCHANGED <<managerVars, mapVars, num_fit_clients, round, fit_clients,
                   ns3_res, fitVars, ns3Vars>>

Orderings(S, n) ==
    {s \in [1..n -> S] : \A i, j \in 1..n : i # j => s[i] # s[j]}

\* ... and then takes ForFit of those registered now, or none if they are less.
Sample ==
    /\ pc = "sampling"
    /\ fit_clients' \in IF Cardinality(clients) < ForFit THEN {<<>>}
                        ELSE Orderings(clients, ForFit)
    /\ pc' = "parsing"
    /\ UNCHANGED <<managerVars, mapVars, num_fit_clients, round, ns3_res,
                   fitVars, ns3Vars>>

Mapped(c) == c \in DOMAIN cid_to_index

\* parse_clients writes a one at the index of every client: is there a place?
Placed(c) == Mapped(c) /\ cid_to_index[c] < Total

ParseClientsRaises ==
    /\ pc = "parsing"
    /\ \E i \in 1..Len(fit_clients) :
         /\ ~Placed(fit_clients[i])
         /\ \A j \in 1..(i - 1) : Placed(fit_clients[j])
         /\ pc' = IF Mapped(fit_clients[i]) THEN "IndexError" ELSE "TypeError"
    /\ UNCHANGED <<managerVars, mapVars, num_fit_clients, round, fit_clients,
                   ns3_res, fitVars, ns3Vars>>

SendRequest ==
    /\ pc = "parsing"
    /\ \A i \in 1..Len(fit_clients) : Placed(fit_clients[i])
    /\ in_round' = {cid_to_index[fit_clients[i]] : i \in 1..Len(fit_clients)}
    /\ ns3' = "simulating"
    /\ pc' = "simulating"
    /\ UNCHANGED <<managerVars, mapVars, num_fit_clients, round, fit_clients,
                   ns3_res, fitVars, response>>

\* (mutant) The round is tried again with another sample.
SendRequestRetries ==
    /\ pc = "simulating"
    /\ ns3 = "simulating"
    /\ ns3' \in {"idle", "exited"}
    /\ pc' = "sampling"
    /\ UNCHANGED <<managerVars, mapVars, num_fit_clients, round, fit_clients,
                   ns3_res, fitVars, in_round, response>>

\* sendRequest cannot write or gets less than it asks for.  ns-3 has left, or is
\* done with the request and waits for another that nobody sends.
SendRequestRaises ==
    /\ pc = "simulating"
    /\ ns3 = "simulating"
    /\ ns3' \in {"idle", "exited"}
    /\ pc' = "LinkError"
    /\ UNCHANGED <<managerVars, mapVars, num_fit_clients, round, fit_clients,
                   ns3_res, fitVars, in_round, response>>

\* round_exec when nobody got through the round: max of an empty list.
RoundExecRaises ==
    /\ pc = "simulating"
    /\ ns3 = "answered"
    /\ \A id \in DOMAIN response : ~response[id]
    /\ ns3' = "idle"
    /\ pc' = "ValueError"
    /\ UNCHANGED <<managerVars, mapVars, num_fit_clients, round, fit_clients,
                   ns3_res, fitVars, in_round, response>>

DropsOut(i) == ~response[cid_to_index[fit_clients[i]]]

\* (mutant) What the loop would do had it a list of its own to enumerate.
PopsDropouts(i) == DropsOut(i)

\* Which positions does the loop of configure_fit pop?  It enumerates the list
\* it pops from, and so never looks at the client that moves up into a popped
\* position: of dropouts next to each other it pops the first, the third, ...
Pops(i) ==
    \E k \in 1..i :
        /\ \A j \in k..i : DropsOut(j)
        /\ k = 1 \/ ~DropsOut(k - 1)
        /\ (i - k) % 2 = 0

\* The rest of configure_fit, with the clients in the list and their number.
Configure(left, number) ==
    /\ pc = "simulating"
    /\ ns3 = "answered"
    /\ \E id \in DOMAIN response : response[id]
    /\ ns3_res' = response
    /\ participants' = left
    /\ num_fit_clients' = number
    /\ ns3' = "idle"
    /\ pc' = "training"
    /\ UNCHANGED <<managerVars, mapVars, round, fit_clients, results, failures,
                   merged, in_round, response>>

Left == {fit_clients[i] : i \in {j \in 1..Len(fit_clients) : ~Pops(j)}}


\* (mutant) The loop pops the client after the one it looks at.
ConfigureFitPopsNext ==
    LET left == {fit_clients[i] : i \in {j \in 1..Len(fit_clients) :
                                           j = 1 \/ ~Pops(j - 1)}}
    IN  Configure(left, Cardinality(left))

ConfigureFit == Configure(Left, Cardinality(Left))

-----------------------------------------------------------------------------
(***************************************************************************)
(* Training and aggregation                                                 *)
(***************************************************************************)

Unanswered == participants \ (results \cup failures)

\* fit returns.  The metric server's list fills when num_fit_clients train.
FitReturns(c) ==
    /\ pc = "training"
    /\ c \in Unanswered \cap clients
    /\ num_fit_clients = Cardinality(participants)
    /\ results' = results \cup {c}
    /\ UNCHANGED <<managerVars, mapVars, num_fit_clients, pc, round, fit_clients,
                   ns3_res, participants, failures, merged, ns3Vars>>

FitFails(c) ==
    /\ pc = "training"
    /\ c \in Unanswered \ clients
    /\ failures' = failures \cup {c}
    /\ UNCHANGED <<managerVars, mapVars, num_fit_clients, pc, round, fit_clients,
                   ns3_res, participants, results, merged, ns3Vars>>

\* The nodes whose statistics aggregate_fit adds to the result of c.
NodesOf(c) == {id \in DOMAIN ns3_res : id \in DOMAIN index_to_cid /\ index_to_cid[id] = c}

\* metric_handlig reads the statistics of every result.
MetricHandligRaises == \E c \in results : NodesOf(c) = {}

\* Every participant has answered.
AggregateFit ==
    /\ pc = "training"
    /\ Unanswered = {}
    /\ num_fit_clients' = 0
    /\ merged' = [c \in results |-> NodesOf(c)]
    /\ pc' = IF MetricHandligRaises THEN "KeyError" ELSE "evaluating"
    /\ UNCHANGED <<managerVars, mapVars, round, fit_clients, ns3_res,
                   participants, results, failures, ns3Vars>>

\* The part of EvaluateRound that follows its wait.
EndRound(last) ==
    /\ IF round = last
       THEN pc' = "over" /\ UNCHANGED round
       ELSE pc' = "waiting" /\ round' = round + 1
    /\ participants' = {}
    /\ results' = {}
    /\ failures' = {}
    /\ merged' = <<>>
    /\ UNCHANGED <<managerVars, mapVars, num_fit_clients, fit_clients, ns3_res,
                   ns3Vars>>

\* (mutant) Rounds are counted from zero.
EvaluateRoundFromZero ==
    /\ pc = "evaluating"
    /\ Cardinality(clients) >= Total
    /\ EndRound(NumRounds + 1)

\* evaluate_round samples clients too; then the next round, or the end.
EvaluateRound ==
    /\ pc = "evaluating"
    /\ Cardinality(clients) >= Total
    /\ EndRound(NumRounds)

-----------------------------------------------------------------------------
(***************************************************************************)
(* ns-3                                                                     *)
(***************************************************************************)

\* The round is simulated; any of its nodes may fail to finish its transfers.
Simulate ==
    /\ ns3 = "simulating"
    /\ response' \in [in_round -> BOOLEAN]
    /\ ns3' = "answered"
    /\ UNCHANGED <<managerVars, mapVars, num_fit_clients, pc, round, fit_clients,
                   ns3_res, fitVars, in_round>>

\* Flower's server has returned: disconnect, and ns-3 reads the end of its link.
Disconnect ==
    /\ pc = "over"
    /\ ns3 = "idle"
    /\ ns3' = "exited"
    /\ UNCHANGED <<managerVars, mapVars, num_fit_clients, pc, round, fit_clients,
                   ns3_res, fitVars, in_round, response>>

-----------------------------------------------------------------------------
Ended ==
    /\ pc \in Exceptions \/ ns3 = "exited"
    /\ UNCHANGED vars

Server ==
    \/ WaitFor \/ Sample \/ ParseClientsRaises \/ SendRequest
    \/ RoundExecRaises \/ ConfigureFit
    \/ AggregateFit \/ EvaluateRound \/ Disconnect

Next ==
    \/ Server
    \/ Simulate
    \/ SendRequestRaises
    \/ \E c \in Clients :
         \/ Register(c) \/ UpdateIdMappings(c) \/ Leave(c)
         \/ FitReturns(c) \/ FitFails(c)
    \/ Ended

Spec == Init /\ [][Next]_vars

\* The server's threads and the simulator go on when they can, and run.sh
\* starts every client.  A fit is sure to return only while all those that still
\* train are alive: otherwise they may wait for each other at the metric server.
Fairness ==
    /\ WF_vars(Server)
    /\ WF_vars(Simulate)
    /\ \A c \in Clients :
         /\ WF_vars(Register(c))
         /\ WF_vars(UpdateIdMappings(c))
         /\ WF_vars(Unanswered \subseteq clients /\ FitReturns(c))
         /\ WF_vars(FitFails(c))

FairSpec == Spec /\ Fairness

-----------------------------------------------------------------------------
(***************************************************************************)
(* Properties                                                               *)
(***************************************************************************)

Dropped(c) == ~ns3_res[cid_to_index[c]]

\* A client that got through the simulated round is never left out of the
\* training, whatever the others in the list did.
SurvivorsTrain ==
    pc = "training" =>
        \A i \in 1..Len(fit_clients) :
            fit_clients[i] \in participants \/ Dropped(fit_clients[i])

\* The result of a client is given the statistics of its own node and no other,
\* and always finds them, though clients come and go between the request and the
\* aggregation.
StatsAreOwn ==
    /\ pc # "KeyError"
    /\ pc = "evaluating" =>
         \A c \in results : merged[c] = {cid_to_index[c]}

\* A node of ns-3 stands for one client for the whole experiment, and the two
\* mappings agree on it, though clients leave and others come.
MappingsAgree ==
    \A c \in DOMAIN cid_to_index :
        /\ cid_to_index[c] \in DOMAIN index_to_cid
        /\ index_to_cid[cid_to_index[c]] = c


\* "in case of a client failing to communicate due to network related issued,
\* the client is dropped and is not participating in the next training round"
\* (configure_fit).
DropoutsDontTrain == pc = "training" => \A c \in participants : ~Dropped(c)

\* What the loop of configure_fit makes of that sentence: a dropout trains only
\* behind another dropout in the list, which the loop popped.
DropoutsTrainBehindDropouts ==
    pc = "training" =>
        \A c \in participants :
            Dropped(c) => \E i \in 2..Len(fit_clients) :
                             fit_clients[i] = c /\ Dropped(fit_clients[i - 1])

\* The same sentence when it is true of all the clients of a round: they are
\* dropped, and that is all.
DropoutsAreNotFatal == pc # "ValueError"

\* A registered client is in the mapping of cids to arithmetic ids
\* (CustomClientManager), so parse_clients never meets a client without one.
SampledAreMapped == pc # "TypeError"

\* Where the caller of sendRequest is, how many calls it has made, and the nodes
\* that the last one returned statistics of.
Phase == IF pc = "simulating" /\ ns3 = "simulating" THEN "called"
         ELSE IF pc \in Exceptions \cup {"over"} THEN "over" ELSE "idle"

Calls == IF pc \in {"waiting", "sampling", "parsing", "TypeError", "IndexError"}
         THEN round - 1 ELSE round

Made == IF Phase = "idle" THEN (DOMAIN response) \X {Calls} ELSE {}

Service == INSTANCE SimulationService WITH
    Nodes <- 0..(Total - 1),
    phase <- Phase, call <- Calls, request <- in_round, made <- Made

\* The rounds use the simulation as Ns3Link provides it: one call a round and
\* never two at a time, for nodes that ns-3 has; the strategy gets the statistics of
\* the nodes of its call, and after a call that raised it makes no other.
CallsTheService == Service!Spec
=============================================================================
