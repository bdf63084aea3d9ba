------------------------ MODULE FederatedRoundProofs ------------------------
(***************************************************************************)
(* Proofs about FederatedRound for every finite set of clients, any sizes,   *)
(* and any number of rounds and of clients that leave and come.              *)
(***************************************************************************)
EXTENDS FederatedRound, FiniteSetTheorems, TLAPS

\* The two mappings are each other's inverse on 0..last_id-1, and a client is
\* given an index once.
MapInv ==
    /\ last_id \in Nat
    /\ clients \subseteq Clients
    /\ pending \cap DOMAIN cid_to_index = {}
    /\ DOMAIN index_to_cid = 0..(last_id - 1)
    /\ \A c \in DOMAIN cid_to_index :
         /\ cid_to_index[c] \in 0..(last_id - 1)
         /\ index_to_cid[cid_to_index[c]] = c
    /\ \A i \in 0..(last_id - 1) :
         /\ index_to_cid[i] \in DOMAIN cid_to_index
         /\ cid_to_index[index_to_cid[i]] = i

Listed == {fit_clients[i] : i \in 1..Len(fit_clients)}

\* From the request on the round's clients are mapped, and the simulated nodes
\* are theirs; whoever trains was in the list, and no dropout popped a survivor.
RoundInv ==
    /\ fit_clients \in Seq(Clients)
    /\ ns3 \in {"simulating", "answered"} => pc = "simulating"
    /\ pc \in {"simulating", "training", "evaluating"} =>
         /\ Listed \subseteq DOMAIN cid_to_index
         /\ in_round = {cid_to_index[c] : c \in Listed}
    /\ ns3 = "answered" => response \in [in_round -> BOOLEAN]
    /\ pc \in {"training", "evaluating"} => ns3_res \in [in_round -> BOOLEAN]
    /\ pc = "training" => participants \subseteq Listed
    /\ pc \in {"training", "evaluating"} => results \subseteq Listed
    /\ pc \in {"waiting", "sampling", "parsing", "simulating"} => results = {}

Inv == MapInv /\ RoundInv /\ SurvivorsTrain /\ StatsAreOwn

-----------------------------------------------------------------------------
\* A sample is a list.
LEMMA OrderingIsSequence ==
    ASSUME NEW S, NEW n \in Nat, NEW s \in Orderings(S, n)
    PROVE  s \in Seq(S)
<1>1. s \in [1..n -> S]
  BY DEF Orderings
<1> QED BY <1>1

\* The loop of configure_fit pops dropouts only.
LEMMA PopsOnlyDropouts ==
    ASSUME NEW i \in Nat, Pops(i)
    PROVE  DropsOut(i)
<1>1. PICK k \in 1..i : \A j \in k..i : DropsOut(j)
  BY DEF Pops
<1>2. i \in k..i
  OBVIOUS
<1> QED BY <1>1, <1>2

\* update_id_mappings keeps the mappings inverse to each other: last_id is new
\* to the one, and the cid to the other.
LEMMA MappingExtends ==
    ASSUME MapInv, NEW c \in Clients, UpdateIdMappings(c)
    PROVE  /\ MapInv'
           /\ DOMAIN cid_to_index' = DOMAIN cid_to_index \cup {c}
           /\ \A d \in DOMAIN cid_to_index : cid_to_index'[d] = cid_to_index[d]
<1> USE DEF MapInv
<1>1. /\ c \in pending
      /\ pending' = pending \ {c}
      /\ cid_to_index' = [d \in DOMAIN cid_to_index \cup {c} |->
                            IF d = c THEN last_id ELSE cid_to_index[d]]
      /\ index_to_cid' = [i \in DOMAIN index_to_cid \cup {last_id} |->
                            IF i = last_id THEN c ELSE index_to_cid[i]]
      /\ last_id' = last_id + 1
      /\ clients' = clients
  BY DEF UpdateIdMappings
<1>2. c \notin DOMAIN cid_to_index
  BY <1>1
<1>3. /\ DOMAIN cid_to_index' = DOMAIN cid_to_index \cup {c}
      /\ cid_to_index'[c] = last_id
      /\ \A d \in DOMAIN cid_to_index : cid_to_index'[d] = cid_to_index[d]
  BY <1>1, <1>2
<1>4. /\ DOMAIN index_to_cid' = 0..(last_id' - 1)
      /\ index_to_cid'[last_id] = c
      /\ \A i \in 0..(last_id - 1) : index_to_cid'[i] = index_to_cid[i]
  BY <1>1
<1>5. \A d \in DOMAIN cid_to_index' :
        /\ cid_to_index'[d] \in 0..(last_id' - 1)
        /\ index_to_cid'[cid_to_index'[d]] = d
  <2> SUFFICES ASSUME NEW d \in DOMAIN cid_to_index'
               PROVE  /\ cid_to_index'[d] \in 0..(last_id' - 1)
                      /\ index_to_cid'[cid_to_index'[d]] = d
    OBVIOUS
  <2>1. CASE d = c
    BY <2>1, <1>1, <1>3, <1>4
  <2>2. CASE d # c
    BY <2>2, <1>1, <1>3, <1>4
  <2> QED BY <2>1, <2>2
<1>6. \A i \in 0..(last_id' - 1) :
        /\ index_to_cid'[i] \in DOMAIN cid_to_index'
        /\ cid_to_index'[index_to_cid'[i]] = i
  <2> SUFFICES ASSUME NEW i \in 0..(last_id' - 1)
               PROVE  /\ index_to_cid'[i] \in DOMAIN cid_to_index'
                      /\ cid_to_index'[index_to_cid'[i]] = i
    OBVIOUS
  <2>1. CASE i = last_id
    BY <2>1, <1>3, <1>4
  <2>2. CASE i # last_id
    <3>1. i \in 0..(last_id - 1)
      BY <2>2, <1>1
    <3> QED BY <3>1, <1>3, <1>4
  <2> QED BY <2>1, <2>2
<1> QED BY <1>1, <1>3, <1>4, <1>5, <1>6

\* The node that aggregate_fit finds for a client of the round is its own.
LEMMA NodesAreOwn ==
    ASSUME MapInv, RoundInv, pc \in {"training", "evaluating"}, NEW c \in Listed
    PROVE  NodesOf(c) = {cid_to_index[c]}
<1>1. /\ DOMAIN ns3_res = {cid_to_index[d] : d \in Listed}
      /\ c \in DOMAIN cid_to_index
  BY DEF RoundInv
<1>2. /\ cid_to_index[c] \in DOMAIN index_to_cid
      /\ index_to_cid[cid_to_index[c]] = c
  BY <1>1 DEF MapInv
<1>3. \A id \in DOMAIN index_to_cid : index_to_cid[id] = c => id = cid_to_index[c]
  BY DEF MapInv
<1> QED BY <1>1, <1>2, <1>3 DEF NodesOf

-----------------------------------------------------------------------------
LEMMA InvInitially ==
    ASSUME Init
    PROVE  Inv
BY DEF Init, Inv, MapInv, RoundInv, SurvivorsTrain, StatsAreOwn, Listed

\* Everything but a new mapping leaves the mappings alone.
LEMMA MapInvPreserved ==
    ASSUME Inv, [Next]_vars
    PROVE  MapInv'
<1> USE DEF Inv, MapInv
<1>1. CASE UNCHANGED mapVars /\ clients' \subseteq clients /\ pending' = pending
  BY <1>1 DEF mapVars
<1>2. ASSUME NEW c \in Clients, Register(c)
      PROVE  MapInv'
  BY <1>2 DEF Register, mapVars
<1>3. ASSUME NEW c \in Clients, UpdateIdMappings(c)
      PROVE  MapInv'
  BY <1>3, MappingExtends
<1>4. ASSUME NEW c \in Clients, Leave(c)
      PROVE  UNCHANGED mapVars /\ clients' \subseteq clients /\ pending' = pending
  BY <1>4 DEF Leave
<1>5. ASSUME NEW c \in Clients, FitReturns(c) \/ FitFails(c)
      PROVE  UNCHANGED mapVars /\ clients' \subseteq clients /\ pending' = pending
  BY <1>5 DEF FitReturns, FitFails, managerVars
<1>6. ASSUME Server \/ Simulate \/ SendRequestRaises
      PROVE  UNCHANGED mapVars /\ clients' \subseteq clients /\ pending' = pending
  BY <1>6 DEF Server, WaitFor, Sample, ParseClientsRaises, SendRequest,
              SendRequestRaises, RoundExecRaises, ConfigureFit, Configure, AggregateFit,
              EvaluateRound, EndRound, Disconnect, Simulate, managerVars
<1>7. ASSUME Ended \/ UNCHANGED vars
      PROVE  UNCHANGED mapVars /\ clients' \subseteq clients /\ pending' = pending
  BY <1>7 DEF Ended, vars, managerVars
<1> QED BY <1>1, <1>2, <1>3, <1>4, <1>5, <1>6, <1>7 DEF Next

RoundVars == <<pc, fit_clients, ns3_res, participants, results, merged, ns3Vars>>

\* A step that leaves the round and the mapped cids alone.
LEMMA RoundUntouched ==
    ASSUME Inv, UNCHANGED RoundVars,
           DOMAIN cid_to_index \subseteq DOMAIN cid_to_index',
           \A d \in DOMAIN cid_to_index : cid_to_index'[d] = cid_to_index[d]
    PROVE  RoundInv' /\ SurvivorsTrain' /\ StatsAreOwn'
<1> USE DEF Inv, RoundVars, ns3Vars
<1>1. Listed' = Listed
  BY DEF Listed
<1>2. RoundInv'
  BY <1>1 DEF RoundInv
<1>3. SurvivorsTrain'
  <2> SUFFICES ASSUME pc = "training", NEW i \in 1..Len(fit_clients),
                      fit_clients[i] \notin participants
               PROVE  Dropped(fit_clients[i])'
    BY DEF SurvivorsTrain
  <2>1. fit_clients[i] \in DOMAIN cid_to_index
    BY DEF RoundInv, Listed
  <2>2. Dropped(fit_clients[i])
    BY DEF SurvivorsTrain
  <2> QED BY <2>1, <2>2 DEF Dropped
<1>4. StatsAreOwn'
  <2>1. pc = "evaluating" => results \subseteq DOMAIN cid_to_index
    BY DEF RoundInv
  <2> QED BY <2>1 DEF StatsAreOwn
<1> QED BY <1>2, <1>3, <1>4

\* configure_fit, from the answer of ns-3 to the list it returns.
LEMMA ConfigureKeepsInv ==
    ASSUME Inv, ConfigureFit
    PROVE  RoundInv' /\ SurvivorsTrain' /\ StatsAreOwn'
<1> USE DEF Inv
<1>1. /\ pc = "simulating" /\ ns3 = "answered" /\ pc' = "training" /\ ns3' = "idle"
      /\ ns3_res' = response
      /\ participants' = Left
      /\ UNCHANGED <<mapVars, fit_clients, results, merged, in_round, response>>
  BY DEF ConfigureFit, Configure
<1>2. Listed' = Listed /\ Left \subseteq Listed
  BY <1>1 DEF Listed, Left
<1>3. RoundInv'
  BY <1>1, <1>2 DEF RoundInv, mapVars
<1>4. SurvivorsTrain'
  <2> SUFFICES ASSUME NEW i \in 1..Len(fit_clients), fit_clients[i] \notin Left
               PROVE  ~response[cid_to_index[fit_clients[i]]]
    BY <1>1 DEF SurvivorsTrain, Dropped, mapVars
  <2>1. Len(fit_clients) \in Nat
    BY DEF RoundInv
  <2>2. Pops(i)
    BY DEF Left
  <2>3. DropsOut(i)
    BY <2>1, <2>2, PopsOnlyDropouts
  <2> QED BY <2>3 DEF DropsOut
<1>5. StatsAreOwn'
  BY <1>1 DEF StatsAreOwn
<1> QED BY <1>3, <1>4, <1>5

\* aggregate_fit finds for every result the statistics of its node.
LEMMA AggregateKeepsInv ==
    ASSUME Inv, AggregateFit
    PROVE  RoundInv' /\ SurvivorsTrain' /\ StatsAreOwn'
<1> USE DEF Inv
<1>1. /\ pc = "training"
      /\ merged' = [c \in results |-> NodesOf(c)]
      /\ pc' = IF \E c \in results : NodesOf(c) = {} THEN "KeyError" ELSE "evaluating"
      /\ UNCHANGED <<mapVars, fit_clients, ns3_res, participants, results, ns3Vars>>
  BY DEF AggregateFit, MetricHandligRaises
<1>2. \A c \in results : c \in Listed /\ NodesOf(c) = {cid_to_index[c]}
  BY <1>1, NodesAreOwn DEF RoundInv
<1>3. pc' = "evaluating"
  BY <1>1, <1>2
<1>4. Listed' = Listed
  BY <1>1 DEF Listed
<1>5. RoundInv'
  BY <1>1, <1>3, <1>4 DEF RoundInv, mapVars, ns3Vars
<1>6. SurvivorsTrain'
  BY <1>3 DEF SurvivorsTrain
<1>7. StatsAreOwn'
  BY <1>1, <1>2, <1>3 DEF StatsAreOwn, mapVars
<1> QED BY <1>5, <1>6, <1>7

LEMMA RoundInvPreserved ==
    ASSUME Inv, [Next]_vars
    PROVE  RoundInv' /\ SurvivorsTrain' /\ StatsAreOwn'
<1> USE DEF Inv
<1>1. ASSUME NEW c \in Clients, UpdateIdMappings(c)
      PROVE  RoundInv' /\ SurvivorsTrain' /\ StatsAreOwn'
  <2>1. UNCHANGED RoundVars
    BY <1>1 DEF UpdateIdMappings, RoundVars, fitVars
  <2> QED BY <2>1, <1>1, MappingExtends, RoundUntouched
<1>2. ASSUME NEW c \in Clients, Register(c) \/ Leave(c) \/ FitFails(c)
      PROVE  RoundInv' /\ SurvivorsTrain' /\ StatsAreOwn'
  <2>1. UNCHANGED <<RoundVars, mapVars>>
    BY <1>2 DEF Register, Leave, FitFails, RoundVars, fitVars
  <2> QED BY <2>1, RoundUntouched DEF mapVars
<1>3. ASSUME Ended \/ UNCHANGED vars
      PROVE  RoundInv' /\ SurvivorsTrain' /\ StatsAreOwn'
  <2>1. UNCHANGED <<RoundVars, mapVars>>
    BY <1>3 DEF Ended, vars, RoundVars, fitVars
  <2> QED BY <2>1, RoundUntouched DEF mapVars
<1>4. ASSUME NEW c \in Clients, FitReturns(c)
      PROVE  RoundInv' /\ SurvivorsTrain' /\ StatsAreOwn'
  <2>1. /\ pc = "training" /\ c \in participants
        /\ results' = results \cup {c}
        /\ UNCHANGED <<mapVars, pc, fit_clients, ns3_res, participants, ns3Vars>>
    BY <1>4 DEF FitReturns, Unanswered
  <2>2. Listed' = Listed
    BY <2>1 DEF Listed
  <2>3. RoundInv'
    BY <2>1, <2>2 DEF RoundInv, mapVars, ns3Vars
  <2>4. SurvivorsTrain'
    BY <2>1 DEF SurvivorsTrain, Dropped, mapVars
  <2>5. StatsAreOwn'
    BY <2>1 DEF StatsAreOwn
  <2> QED BY <2>3, <2>4, <2>5
<1>5. ASSUME \/ WaitFor \/ ParseClientsRaises \/ SendRequestRaises
             \/ RoundExecRaises \/ EvaluateRound \/ Disconnect
      PROVE  RoundInv' /\ SurvivorsTrain' /\ StatsAreOwn'
  <2>1. UNCHANGED fit_clients /\ UNCHANGED <<mapVars, ns3_res, in_round, response>>
    BY <1>5 DEF WaitFor, ParseClientsRaises, SendRequestRaises, RoundExecRaises,
                EvaluateRound, EndRound, Disconnect, ns3Vars
  <2>2. Listed' = Listed
    BY <2>1 DEF Listed
  <2>3. /\ pc' \notin {"simulating", "training", "evaluating", "KeyError"}
        /\ ns3' \in {"simulating", "answered"} => ns3 \in {"simulating", "answered"} /\ ns3' = ns3
        /\ pc' \in {"waiting", "sampling", "parsing"} => results' = {}
    BY <1>5 DEF WaitFor, ParseClientsRaises, SendRequestRaises, RoundExecRaises,
                EvaluateRound, EndRound, Disconnect, ns3Vars, fitVars, RoundInv
  <2>4. ns3' \notin {"simulating", "answered"}
    BY <1>5, <2>3 DEF WaitFor, ParseClientsRaises, SendRequestRaises, RoundExecRaises,
                EvaluateRound, EndRound, Disconnect, ns3Vars, RoundInv
  <2>5. RoundInv'
    BY <2>1, <2>2, <2>3, <2>4 DEF RoundInv
  <2> QED BY <2>3, <2>5 DEF SurvivorsTrain, StatsAreOwn
<1>6. ASSUME Sample
      PROVE  RoundInv' /\ SurvivorsTrain' /\ StatsAreOwn'
  <2>1. fit_clients' \in Seq(Clients)
    <3>1. clients \subseteq Clients /\ ForFit \in Nat
      BY SizesPositive DEF MapInv
    <3>2. CASE fit_clients' \in Orderings(clients, ForFit)
      <4>1. fit_clients' \in Seq(clients)
        BY <3>1, <3>2, OrderingIsSequence
      <4> QED BY <3>1, <4>1
    <3>3. CASE fit_clients' = <<>>
      BY <3>3
    <3> QED BY <1>6, <3>2, <3>3 DEF Sample
  <2>2. /\ pc = "sampling" /\ pc' = "parsing"
        /\ UNCHANGED <<results, ns3Vars>>
    BY <1>6 DEF Sample, fitVars
  <2> QED BY <2>1, <2>2 DEF RoundInv, SurvivorsTrain, StatsAreOwn, ns3Vars
<1>7. ASSUME SendRequest
      PROVE  RoundInv' /\ SurvivorsTrain' /\ StatsAreOwn'
  <2>1. /\ pc = "parsing" /\ pc' = "simulating" /\ ns3' = "simulating"
        /\ \A i \in 1..Len(fit_clients) : fit_clients[i] \in DOMAIN cid_to_index
        /\ in_round' = {cid_to_index[fit_clients[i]] : i \in 1..Len(fit_clients)}
        /\ UNCHANGED <<mapVars, fit_clients, results>>
    BY <1>7 DEF SendRequest, Placed, Mapped, fitVars
  <2>2. Listed' = Listed /\ Listed \subseteq DOMAIN cid_to_index
    BY <2>1 DEF Listed
  <2>3. in_round' = {cid_to_index[c] : c \in Listed}
    BY <2>1 DEF Listed
  <2> QED BY <2>1, <2>2, <2>3 DEF RoundInv, SurvivorsTrain, StatsAreOwn, mapVars
<1>8. ASSUME Simulate
      PROVE  RoundInv' /\ SurvivorsTrain' /\ StatsAreOwn'
  <2>1. /\ pc = "simulating" /\ ns3' = "answered"
        /\ response' \in [in_round -> BOOLEAN]
        /\ UNCHANGED <<mapVars, pc, fit_clients, results, in_round>>
    BY <1>8 DEF Simulate, RoundInv, fitVars
  <2>2. Listed' = Listed
    BY <2>1 DEF Listed
  <2> QED BY <2>1, <2>2 DEF RoundInv, SurvivorsTrain, StatsAreOwn, mapVars
<1> QED BY <1>1, <1>2, <1>3, <1>4, <1>5, <1>6, <1>7, <1>8, ConfigureKeepsInv,
           AggregateKeepsInv DEF Next, Server

THEOREM InvHolds == Spec => []Inv
<1>1. Init => Inv
  BY InvInitially
<1>2. Inv /\ [Next]_vars => Inv'
  BY MapInvPreserved, RoundInvPreserved DEF Inv
<1> QED BY <1>1, <1>2, PTL DEF Spec

-----------------------------------------------------------------------------
\* The two mappings of Monitor agree at every time, for any number of clients
\* that leave and come while others register: a node stands for one client.
THEOREM NodesHaveOneClient == Spec => []MappingsAgree
<1>1. Inv => MappingsAgree
  BY DEF Inv, MapInv, MappingsAgree
<1> QED BY <1>1, InvHolds, PTL

\* However many clients drop out of a round, in whatever places of the list,
\* configure_fit never leaves out one that got through the simulation.
THEOREM SurvivorsAlwaysTrain == Spec => []SurvivorsTrain
<1>1. Inv => SurvivorsTrain
  BY DEF Inv
<1> QED BY <1>1, InvHolds, PTL

\* aggregate_fit gives every result the statistics of its own node, in every
\* round, and metric_handlig never misses them.
THEOREM ResultsGetTheirStats == Spec => []StatsAreOwn
<1>1. Inv => StatsAreOwn
  BY DEF Inv
<1> QED BY <1>1, InvHolds, PTL

-----------------------------------------------------------------------------
(***************************************************************************)
(* Types                                                                    *)
(***************************************************************************)

\* Clients are counted once: there are no more indices than clients.
LEMMA IndicesSuffice ==
    ASSUME NEW f, NEW n \in Nat, DOMAIN f \subseteq Clients,
           f \in [DOMAIN f -> 0..(n - 1)],
           \A i \in 0..(n - 1) : \E c \in DOMAIN f : f[c] = i
    PROVE  n \in Indices /\ 0..(n - 1) \subseteq Indices
<1>1. IsFiniteSet(DOMAIN f) /\ Cardinality(DOMAIN f) <= Cardinality(Clients)
  BY ClientsFinite, FS_Subset
<1>2. f \in Surjection(DOMAIN f, 0..(n - 1))
  BY Zenon DEF Surjection
<1>3. Cardinality(0..(n - 1)) <= Cardinality(DOMAIN f)
  BY <1>1, <1>2, FS_Surjection
<1>4. Cardinality(0..(n - 1)) = n
  BY FS_Interval
<1>5. Cardinality(DOMAIN f) \in Nat /\ Cardinality(Clients) \in Nat
  BY <1>1, ClientsFinite, FS_CardinalityType
<1> QED BY <1>1, <1>3, <1>4, <1>5 DEF Indices

MapTypes ==
    /\ clients \subseteq Clients
    /\ pending \subseteq Clients
    /\ Partial(cid_to_index, Clients, Indices)
    /\ Partial(index_to_cid, Indices, Clients)
    /\ last_id \in Indices

CycleTypes ==
    /\ num_fit_clients \in Nat
    /\ pc \in {"waiting", "sampling", "parsing", "simulating", "training",
               "evaluating", "over"} \cup Exceptions
    /\ round \in 1..NumRounds
    /\ fit_clients \in Seq(Clients)
    /\ participants \subseteq Clients
    /\ results \subseteq participants
    /\ failures \subseteq participants
    /\ ns3 \in {"idle", "simulating", "answered", "exited"}

DataTypes ==
    /\ Partial(ns3_res, Indices, BOOLEAN)
    /\ Partial(merged, Clients, SUBSET Indices)
    /\ in_round \subseteq Indices
    /\ Partial(response, Indices, BOOLEAN)

\* Before the training of a round nobody is in it.
NobodyTrains ==
    pc \in {"waiting", "sampling", "parsing", "simulating"} => participants = {}

LEMMA TypesTogether == TypeOK <=> MapTypes /\ CycleTypes /\ DataTypes
BY DEF TypeOK, MapTypes, CycleTypes, DataTypes

LEMMA TypesInitially == Init => TypeOK
<1> SUFFICES ASSUME Init PROVE TypeOK
  OBVIOUS
<1>1. \A S, T : Partial(<<>>, S, T)
  BY DEF Partial
<1>2. 0 \in Indices
  BY ClientsFinite, FS_CardinalityType DEF Indices
<1> QED BY <1>1, <1>2, SizesPositive DEF Init, TypeOK

LEMMA MapTypesKept ==
    ASSUME TypeOK, Inv, MapInv', [Next]_vars
    PROVE  MapTypes'
<1> USE DEF MapTypes, TypeOK
<1>1. ASSUME NEW c \in Clients, UpdateIdMappings(c)
      PROVE  MapTypes'
  <2>1. /\ cid_to_index' = [d \in DOMAIN cid_to_index \cup {c} |->
                            IF d = c THEN last_id ELSE cid_to_index[d]]
        /\ index_to_cid' = [i \in DOMAIN index_to_cid \cup {last_id} |->
                            IF i = last_id THEN c ELSE index_to_cid[i]]
        /\ last_id' \in Nat /\ clients' = clients /\ pending' \subseteq pending
    BY <1>1 DEF UpdateIdMappings, MapInv
  <2>2. DOMAIN cid_to_index' \subseteq Clients
    BY <2>1 DEF Partial
  <2>3. cid_to_index' \in [DOMAIN cid_to_index' -> 0..(last_id' - 1)]
    BY <2>1 DEF MapInv
  <2>4. \A i \in 0..(last_id' - 1) : \E d \in DOMAIN cid_to_index' : cid_to_index'[d] = i
    BY DEF MapInv
  <2>5. last_id' \in Indices /\ 0..(last_id' - 1) \subseteq Indices
    <3> DEFINE f == cid_to_index'
               n == last_id'
    <3>1. /\ n \in Nat /\ DOMAIN f \subseteq Clients
          /\ f \in [DOMAIN f -> 0..(n - 1)]
          /\ \A i \in 0..(n - 1) : \E d \in DOMAIN f : f[d] = i
      BY <2>1, <2>2, <2>3, <2>4
    <3> HIDE DEF f, n
    <3>2. n \in Indices /\ 0..(n - 1) \subseteq Indices
      BY <3>1, IndicesSuffice
    <3> QED BY <3>2 DEF n
  <2>6. Partial(cid_to_index', Clients, Indices)
    <3>1. cid_to_index' \in [DOMAIN cid_to_index' -> Indices]
      BY <2>3, <2>5
    <3> QED BY <2>2, <3>1 DEF Partial
  <2>7. Partial(index_to_cid', Indices, Clients)
    <3>1. DOMAIN index_to_cid' \subseteq Indices
      BY <2>5 DEF MapInv
    <3>2. index_to_cid' \in [DOMAIN index_to_cid' -> Clients]
      BY <2>1 DEF Partial
    <3> QED BY <3>1, <3>2 DEF Partial
  <2>8. Indices' = Indices
    BY DEF Indices
  <2> QED BY <2>1, <2>5, <2>6, <2>7, <2>8 DEF Partial
<1>2. CASE UNCHANGED mapVars /\ clients' \subseteq Clients /\ pending' \subseteq Clients
  BY <1>2 DEF mapVars, Partial, Indices
<1>3. ASSUME NEW c \in Clients,
             Register(c) \/ Leave(c) \/ FitReturns(c) \/ FitFails(c)
      PROVE  UNCHANGED mapVars /\ clients' \subseteq Clients /\ pending' \subseteq Clients
  BY <1>3 DEF Register, Leave, FitReturns, FitFails, managerVars
<1>4. ASSUME Server \/ Simulate \/ SendRequestRaises \/ Ended \/ UNCHANGED vars
      PROVE  UNCHANGED mapVars /\ clients' \subseteq Clients /\ pending' \subseteq Clients
  BY <1>4 DEF Server, WaitFor, Sample, ParseClientsRaises, SendRequest,
              SendRequestRaises, RoundExecRaises, ConfigureFit, Configure, AggregateFit,
              EvaluateRound, EndRound, Disconnect, Simulate, Ended, vars, managerVars
<1> QED BY <1>1, <1>2, <1>3, <1>4 DEF Next

LEMMA CycleTypesKept ==
    ASSUME TypeOK, NobodyTrains, RoundInv', [Next]_vars
    PROVE  CycleTypes' /\ NobodyTrains'
<1>1. fit_clients' \in Seq(Clients)
  BY DEF RoundInv
<1> USE DEF CycleTypes, TypeOK, NobodyTrains
<1>2. ASSUME NEW c \in Clients, Register(c) \/ UpdateIdMappings(c) \/ Leave(c)
      PROVE  CycleTypes' /\ NobodyTrains'
  BY <1>2 DEF Register, UpdateIdMappings, Leave, fitVars, ns3Vars
<1>3. ASSUME NEW c \in Clients, FitReturns(c) \/ FitFails(c)
      PROVE  CycleTypes' /\ NobodyTrains'
  BY <1>3 DEF FitReturns, FitFails, Unanswered, ns3Vars
<1>4. CASE ConfigureFit
  <2>1. Left \subseteq Clients
    <3>1. \A i \in 1..Len(fit_clients) : fit_clients[i] \in Clients
      OBVIOUS
    <3> QED BY <3>1 DEF Left
  <2>2. Cardinality(Left) \in Nat
    BY <2>1, ClientsFinite, FS_Subset, FS_CardinalityType
  <2>3. results = {} /\ failures = {}
    <3>1. pc = "simulating"
      BY <1>4 DEF ConfigureFit, Configure
    <3> QED BY <3>1
  <2> QED BY <1>4, <2>1, <2>2, <2>3 DEF ConfigureFit, Configure
<1>5. CASE WaitFor \/ Sample \/ ParseClientsRaises \/ SendRequest \/ SendRequestRaises
           \/ RoundExecRaises \/ AggregateFit \/ Disconnect \/ Simulate
  BY <1>1, <1>5 DEF WaitFor, Sample, ParseClientsRaises, SendRequest, SendRequestRaises,
     RoundExecRaises, AggregateFit, Disconnect, Simulate, Exceptions, fitVars, ns3Vars
<1>6. CASE EvaluateRound
  BY <1>6, SizesPositive DEF EvaluateRound, EndRound, ns3Vars
<1>7. CASE Ended \/ UNCHANGED vars
  BY <1>7 DEF Ended, vars, fitVars, ns3Vars
<1> QED BY <1>2, <1>3, <1>4, <1>5, <1>6, <1>7 DEF Next, Server

LEMMA DataTypesKept ==
    ASSUME TypeOK, Inv, [Next]_vars
    PROVE  DataTypes'
<1> USE DEF DataTypes, TypeOK
<1>1. Indices' = Indices
  BY DEF Indices
<1>2. CASE UNCHANGED <<ns3_res, merged, in_round, response>>
  BY <1>1, <1>2 DEF Partial
<1>3. ASSUME NEW c \in Clients,
             Register(c) \/ UpdateIdMappings(c) \/ Leave(c) \/ FitReturns(c) \/ FitFails(c)
      PROVE  UNCHANGED <<ns3_res, merged, in_round, response>>
  BY <1>3 DEF Register, UpdateIdMappings, Leave, FitReturns, FitFails, fitVars, ns3Vars
<1>4. CASE WaitFor \/ Sample \/ ParseClientsRaises \/ SendRequestRaises
           \/ RoundExecRaises \/ Disconnect \/ Ended \/ UNCHANGED vars
  <2>1. UNCHANGED <<ns3_res, merged, in_round, response>>
    BY <1>4 DEF WaitFor, Sample, ParseClientsRaises, SendRequestRaises, RoundExecRaises,
                Disconnect, Ended, vars, fitVars, ns3Vars
  <2> QED BY <2>1, <1>2
<1>5. CASE SendRequest
  <2>1. /\ in_round' = {cid_to_index[fit_clients[i]] : i \in 1..Len(fit_clients)}
        /\ \A i \in 1..Len(fit_clients) : fit_clients[i] \in DOMAIN cid_to_index
        /\ UNCHANGED <<ns3_res, merged, response>>
    BY <1>5 DEF SendRequest, Placed, Mapped, fitVars
  <2>2. in_round' \subseteq Indices
    BY <2>1 DEF Partial
  <2> QED BY <1>1, <2>1, <2>2 DEF Partial
<1>6. CASE ConfigureFit
  <2>1. ns3_res' = response /\ UNCHANGED <<merged, in_round, response>>
    BY <1>6 DEF ConfigureFit, Configure
  <2> QED BY <1>1, <2>1 DEF Partial
<1>7. CASE AggregateFit
  <2>1. /\ merged' = [c \in results |-> NodesOf(c)]
        /\ UNCHANGED <<ns3_res, in_round, response>>
    BY <1>7 DEF AggregateFit, ns3Vars
  <2>2. \A c \in results : NodesOf(c) \in SUBSET Indices
    BY DEF NodesOf, Partial
  <2>3. Partial(merged', Clients, SUBSET Indices)
    BY <2>1, <2>2 DEF Partial
  <2> QED BY <1>1, <2>1, <2>3 DEF Partial
<1>8. CASE EvaluateRound
  <2>1. merged' = <<>> /\ UNCHANGED <<ns3_res, in_round, response>>
    BY <1>8 DEF EvaluateRound, EndRound, ns3Vars
  <2> QED BY <1>1, <2>1 DEF Partial
<1>9. CASE Simulate
  <2>1. response' \in [in_round -> BOOLEAN] /\ UNCHANGED <<ns3_res, merged, in_round>>
    BY <1>9 DEF Simulate, fitVars
  <2> QED BY <1>1, <2>1 DEF Partial
<1> QED BY <1>2, <1>3, <1>4, <1>5, <1>6, <1>7, <1>8, <1>9 DEF Next, Server

\* The state of Monitor, SimpleClientManager, the server's thread and ns-3 keeps its
\* types: no index is above the number of clients there have been, nobody has a
\* result or a failure that is not in the round.
THEOREM TypeCorrect == Spec => []TypeOK
<1>1. Init => TypeOK /\ NobodyTrains
  BY TypesInitially DEF Init, NobodyTrains
<1>2. TypeOK /\ NobodyTrains /\ Inv /\ Inv' /\ [Next]_vars => TypeOK' /\ NobodyTrains'
  <2>1. TypeOK' <=> MapTypes' /\ CycleTypes' /\ DataTypes'
    BY DEF TypeOK, MapTypes, CycleTypes, DataTypes
  <2> QED BY <2>1, MapTypesKept, CycleTypesKept, DataTypesKept DEF Inv
<1> QED BY <1>1, <1>2, InvHolds, PTL DEF Spec

-----------------------------------------------------------------------------
(***************************************************************************)
(* The rounds as a caller of the simulation service                         *)
(***************************************************************************)

\* What the service knows of a round.
ServiceVars == <<pc, ns3, round, in_round, response>>

\* A step that is none of the service's.
LEMMA ServiceUntouched ==
    ASSUME Phase' = Phase, Calls' = Calls, in_round' = in_round, response' = response
    PROVE  UNCHANGED Service!vars
<1>1. Made' = Made
  BY DEF Made
<1> QED BY <1>1 DEF Service!vars

\* parse_clients has found a place for every client: the nodes of a request are
\* nodes of ns-3.
LEMMA RequestedNodesExist ==
    ASSUME Inv, SendRequest
    PROVE  in_round' \subseteq 0..(Total - 1)
<1> SUFFICES ASSUME NEW i \in 1..Len(fit_clients)
             PROVE  cid_to_index[fit_clients[i]] \in 0..(Total - 1)
  BY DEF SendRequest
<1>1. /\ fit_clients[i] \in DOMAIN cid_to_index
      /\ cid_to_index[fit_clients[i]] < Total
  BY DEF SendRequest, Placed, Mapped
<1>2. last_id \in Nat /\ cid_to_index[fit_clients[i]] \in 0..(last_id - 1)
  BY <1>1 DEF Inv, MapInv
<1> QED BY <1>1, <1>2, SizesPositive

\* The request of a round is a call, and it is the first of its round.
LEMMA SendRequestCalls ==
    ASSUME Inv, TypeOK, SendRequest
    PROVE  Service!Call(in_round')
<1>1. /\ pc = "parsing" /\ pc' = "simulating" /\ ns3' = "simulating"
      /\ round' = round /\ round \in Nat
  BY SizesPositive DEF SendRequest, TypeOK
<1>2. Phase = "idle" /\ Phase' = "called"
  BY <1>1 DEF Phase, Exceptions
<1>3. Calls' = Calls + 1
  BY <1>1 DEF Calls
<1>4. Made' = {}
  BY <1>2 DEF Made
<1> QED BY <1>2, <1>3, <1>4 DEF Service!Call

\* The answer of ns-3 is its return.
LEMMA SimulateReturns ==
    ASSUME Inv, Simulate
    PROVE  Service!Return
<1>1. /\ pc = "simulating" /\ pc' = pc /\ round' = round
      /\ ns3 = "simulating" /\ ns3' = "answered"
      /\ in_round' = in_round /\ response' \in [in_round -> BOOLEAN]
  BY DEF Simulate, Inv, RoundInv
<1>2. Phase = "called" /\ Phase' = "idle"
  BY <1>1 DEF Phase, Exceptions
<1>3. Calls' = Calls
  BY <1>1 DEF Calls
<1>4. Made' = in_round \X {Calls}
  <2>1. DOMAIN response' = in_round
    BY <1>1
  <2> QED BY <1>2, <1>3, <2>1 DEF Made
<1> QED BY <1>1, <1>2, <1>3, <1>4 DEF Service!Return

\* Whatever ends the server's thread ends the calls.
LEMMA ThreadEnds ==
    ASSUME Phase # "over", Phase' = "over", Calls' = Calls, in_round' = in_round
    PROVE  Service!End
<1>1. Made' = {}
  BY DEF Made
<1> QED BY <1>1 DEF Service!End

LEMMA ServiceStep ==
    ASSUME Inv, TypeOK, [Next]_vars
    PROVE  [Service!Next]_Service!vars
<1>0. /\ round \in Int
      /\ ns3 \in {"simulating", "answered"} => pc = "simulating"
  BY SizesPositive DEF TypeOK, Inv, RoundInv
<1>1. CASE SendRequest
  BY <1>1, RequestedNodesExist, SendRequestCalls DEF Service!Next
<1>2. CASE Simulate
  BY <1>2, SimulateReturns DEF Service!Next
<1>3. CASE ParseClientsRaises \/ SendRequestRaises \/ RoundExecRaises
  <2>1. /\ Phase # "over" /\ Phase' = "over" /\ Calls' = Calls
        /\ in_round' = in_round
    BY <1>3 DEF ParseClientsRaises, SendRequestRaises, RoundExecRaises, Phase, Calls,
                Exceptions, ns3Vars
  <2> QED BY <2>1, ThreadEnds DEF Service!Next
<1>4. CASE AggregateFit
  <2>1. /\ pc = "training" /\ pc' \in {"KeyError", "evaluating"}
        /\ UNCHANGED <<round, ns3, in_round, response>>
    BY <1>4 DEF AggregateFit, ns3Vars
  <2>2. Calls' = Calls
    BY <2>1 DEF Calls
  <2>3. CASE pc' = "KeyError"
    <3>1. Phase # "over" /\ Phase' = "over"
      BY <2>1, <2>3 DEF Phase, Exceptions
    <3> QED BY <2>1, <2>2, <3>1, ThreadEnds DEF Service!Next
  <2>4. CASE pc' = "evaluating"
    <3>1. Phase' = Phase
      BY <2>1, <2>4 DEF Phase, Exceptions
    <3> QED BY <2>1, <2>2, <3>1, ServiceUntouched
  <2> QED BY <2>1, <2>3, <2>4
<1>5. CASE EvaluateRound
  <2>1. /\ pc = "evaluating"
        /\ \/ pc' = "over" /\ round' = round
           \/ pc' = "waiting" /\ round' = round + 1
        /\ UNCHANGED <<ns3, in_round, response>>
    BY <1>5 DEF EvaluateRound, EndRound, ns3Vars
  <2>2. Calls' = Calls
    BY <1>0, <2>1 DEF Calls
  <2>3. CASE pc' = "over"
    <3>1. Phase # "over" /\ Phase' = "over"
      BY <2>1, <2>3 DEF Phase, Exceptions
    <3> QED BY <2>1, <2>2, <3>1, ThreadEnds DEF Service!Next
  <2>4. CASE pc' = "waiting"
    <3>1. Phase' = Phase
      BY <2>1, <2>4 DEF Phase, Exceptions
    <3> QED BY <2>1, <2>2, <3>1, ServiceUntouched
  <2> QED BY <2>1, <2>3, <2>4
<1>6. CASE WaitFor \/ Sample \/ ConfigureFit \/ Disconnect
  <2>1. Phase' = Phase /\ Calls' = Calls /\ UNCHANGED <<in_round, response>>
    BY <1>6 DEF WaitFor, Sample, ConfigureFit, Configure, Disconnect, Phase, Calls,
                Exceptions, ns3Vars
  <2> QED BY <2>1, ServiceUntouched
<1>7. ASSUME UNCHANGED ServiceVars
      PROVE  UNCHANGED Service!vars
  <2>1. Phase' = Phase /\ Calls' = Calls
    BY <1>7 DEF ServiceVars, Phase, Calls
  <2> QED BY <1>7, <2>1, ServiceUntouched DEF ServiceVars
<1>8. ASSUME NEW c \in Clients,
             \/ Register(c) \/ UpdateIdMappings(c) \/ Leave(c)
             \/ FitReturns(c) \/ FitFails(c)
      PROVE  UNCHANGED ServiceVars
  BY <1>8 DEF Register, UpdateIdMappings, Leave, FitReturns, FitFails, ServiceVars,
              ns3Vars
<1>9. ASSUME Ended \/ UNCHANGED vars
      PROVE  UNCHANGED ServiceVars
  BY <1>9 DEF Ended, vars, ServiceVars, ns3Vars
<1> QED BY <1>1, <1>2, <1>3, <1>4, <1>5, <1>6, <1>7, <1>8, <1>9 DEF Next, Server

\* With ServiceImplemented of Ns3LinkProofs, the two sides of the interface: the
\* rounds call sendRequest as the service has it, for nodes that ns-3 has, and use
\* the statistics of their own call, for any number of clients and rounds.
THEOREM ServiceIsUsed == Spec => CallsTheService
<1>1. Init => Service!Init
  BY DEF Init, Service!Init, Phase, Calls, Made, Exceptions
<1>2. Inv /\ TypeOK /\ [Next]_vars => [Service!Next]_Service!vars
  BY ServiceStep
<1> QED BY <1>1, <1>2, InvHolds, TypeCorrect, PTL DEF Spec, CallsTheService, Service!Spec
=============================================================================
