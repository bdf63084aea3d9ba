------------------------- MODULE MetricBarrierProofs ------------------------
(***************************************************************************)
(* Proofs about MetricBarrier for every finite set of clients and every     *)
(* value of the other constants.                                            *)
(***************************************************************************)
EXTENDS MetricBarrier, FiniteSetTheorems, SequenceTheorems, TLAPS

\* A client that is not calling has no handler, so its handler's metric exists:
\* what TypeOK needs to be inductive.
CallInv ==
    \A c \in Clients :
        /\ handler[c] # "none" => sent[c] # <<>>
        /\ client[c] \in {"idle", "training", "fitted"} => handler[c] = "none"

TypeInv == TypeOK /\ CallInv

LEMMA ParticipantsFinite ==
    ASSUME NEW P \in SUBSET Clients
    PROVE  IsFiniteSet(P) /\ Cardinality(P) \in Nat
BY ClientsFinite, FS_Subset, FS_CardinalityType

LEMMA MetricTyped ==
    ASSUME TypeInv, NEW c \in Clients, handler[c] # "none"
    PROVE  Metric(c) \in Entries
<1>1. sent[c] \in Seq(Norms) /\ sent[c] # <<>>
  BY DEF TypeInv, TypeOK, CallInv
<1>2. Len(sent[c]) \in Nat \ {0} /\ sent[c][Len(sent[c])] \in Norms
  BY <1>1
<1> QED BY <1>2 DEF Metric, Entries

LEMMA FinishTyped ==
    ASSUME TypeInv,
           NEW c \in Clients,
           NEW metrics \in SUBSET Entries,
           NEW others \in [Clients -> {"none", "queued", "entered", "waiting", "woken"}],
           \A d \in Clients : others[d] = "none" <=> handler[d] = "none",
           Finish(c, metrics, others)
    PROVE  TypeInv'
<1> USE DEF TypeInv, TypeOK, CallInv
<1>1. client_metrics' \subseteq Entries /\ processed_clients' \in Nat
  <2>1. CASE processed_clients + 1 = num_clients[c]
    BY <2>1 DEF Finish, Answer
  <2>2. CASE processed_clients + 1 # num_clients[c]
    BY <2>2 DEF Finish, Answer
  <2> QED BY <2>1, <2>2
<1>2. replies' \in [Clients -> Seq(BOOLEAN)]
  <2> DEFINE stop == \E m \in metrics : Over(m.norm)
  <2>1. stop \in BOOLEAN
    OBVIOUS
  <2>2. replies' = [replies EXCEPT ![c] = Append(replies[c], stop)]
    BY DEF Finish, Answer
  <2> HIDE DEF stop
  <2>3. Append(replies[c], stop) \in Seq(BOOLEAN)
    BY <2>1
  <2> QED BY <2>2, <2>3
<1>3. /\ handler' = [others EXCEPT ![c] = "none"]
      /\ client' = [client EXCEPT ![c] = IF @ = "dead" THEN "dead" ELSE "training"]
      /\ UNCHANGED <<discounts, num_clients, roundVars, sent>>
  BY DEF Finish, Answer
<1>4. TypeOK'
  BY <1>1, <1>2, <1>3 DEF roundVars
<1>5. CallInv'
  BY <1>3
<1> QED BY <1>4, <1>5

LEMMA TypeInvariant == Spec => []TypeInv
<1>1. Init => TypeInv
  BY BoundsNat DEF Init, TypeInv, TypeOK, CallInv
<1>2. TypeInv /\ [Next]_vars => TypeInv'
  <2> SUFFICES ASSUME TypeInv, [Next]_vars PROVE TypeInv'
    OBVIOUS
  <2> USE DEF serverVars, roundVars
  <2>1. ASSUME NEW P \in SUBSET Clients, ConfigureFit(P) PROVE TypeInv'
    <3>1. Cardinality(P) \in Nat
      BY ParticipantsFinite
    <3>2. /\ client' = [c \in Clients |-> IF c \in P THEN "training" ELSE client[c]]
          /\ sent' = [c \in Clients |-> IF c \in P THEN <<>> ELSE sent[c]]
          /\ replies' = [c \in Clients |-> IF c \in P THEN <<>> ELSE replies[c]]
          /\ handler' = handler
          /\ \A c \in P : client[c] = "idle"
      BY <2>1 DEF ConfigureFit
    <3>3. /\ client' \in [Clients -> {"idle", "training", "calling", "fitted", "dead"}]
          /\ sent' \in [Clients -> Seq(Norms)]
          /\ replies' \in [Clients -> Seq(BOOLEAN)]
      <4>1. <<>> \in Seq(Norms) /\ <<>> \in Seq(BOOLEAN)
        OBVIOUS
      <4>2. client' \in [Clients -> {"idle", "training", "calling", "fitted", "dead"}]
        BY <3>2 DEF TypeInv, TypeOK
      <4>3. sent' \in [Clients -> Seq(Norms)]
        BY <3>2, <4>1 DEF TypeInv, TypeOK
      <4>4. replies' \in [Clients -> Seq(BOOLEAN)]
        BY <3>2, <4>1 DEF TypeInv, TypeOK
      <4> QED BY <4>2, <4>3, <4>4
    <3>4. TypeOK'
      BY <2>1, <3>1, <3>3 DEF ConfigureFit, TypeInv, TypeOK
    <3>5. CallInv'
      BY <3>2 DEF TypeInv, CallInv
    <3> QED BY <3>4, <3>5 DEF TypeInv
  <2>2. CASE ResetRoundState
    BY <2>2 DEF ResetRoundState, TypeInv, TypeOK, CallInv
  <2>3. CASE UpdateThreshold
    BY <2>3 DEF UpdateThreshold, TypeInv, TypeOK, CallInv
  <2>4. CASE AggregateFit
    BY <2>4 DEF AggregateFit, TypeInv, TypeOK, CallInv
  <2>5. ASSUME NEW c \in Clients, TrainBatch(c) PROVE TypeInv'
    <3>1. PICK norm \in Norms : sent' = [sent EXCEPT ![c] = Append(@, norm)]
      BY <2>5 DEF TrainBatch
    <3>2. Append(sent[c], norm) \in Seq(Norms) /\ Append(sent[c], norm) # <<>>
      <4>1. sent[c] \in Seq(Norms)
        BY DEF TypeInv, TypeOK
      <4> QED BY <4>1, AppendProperties
    <3> QED BY <2>5, <3>1, <3>2 DEF TrainBatch, TypeInv, TypeOK, CallInv
  <2>6. ASSUME NEW c \in Clients, ReturnFromFit(c) PROVE TypeInv'
    BY <2>6 DEF ReturnFromFit, TypeInv, TypeOK, CallInv
  <2>7. ASSUME NEW c \in Clients, Crash(c) PROVE TypeInv'
    BY <2>7 DEF Crash, TypeInv, TypeOK, CallInv
  <2>8. ASSUME NEW c \in Clients, Dispatch(c) PROVE TypeInv'
    BY <2>8 DEF Dispatch, TypeInv, TypeOK, CallInv
  <2>9. ASSUME NEW c \in Clients, Wait(c) PROVE TypeInv'
    <3>1. Metric(c) \in Entries
      BY <2>9, MetricTyped DEF Wait
    <3> QED BY <2>9, <3>1 DEF Wait, TypeInv, TypeOK, CallInv
  <2>10. ASSUME NEW c \in Clients, NotifyAll(c) PROVE TypeInv'
    <3> DEFINE others == [d \in Clients |->
                            IF handler[d] = "waiting" THEN "woken" ELSE handler[d]]
    <3>1. client_metrics \cup {Metric(c)} \in SUBSET Entries
      BY <2>10, MetricTyped DEF NotifyAll, TypeInv, TypeOK
    <3>2. others \in [Clients -> {"none", "queued", "entered", "waiting", "woken"}]
      BY DEF TypeInv, TypeOK
    <3>3. \A d \in Clients : others[d] = "none" <=> handler[d] = "none"
      BY DEF TypeInv, TypeOK
    <3>4. Finish(c, client_metrics \cup {Metric(c)}, others)
      BY <2>10 DEF NotifyAll
    <3> QED BY <3>1, <3>2, <3>3, <3>4, FinishTyped
  <2>11. ASSUME NEW c \in Clients, Resume(c) PROVE TypeInv'
    <3>1. Finish(c, client_metrics, handler)
      BY <2>11 DEF Resume
    <3>2. client_metrics \in SUBSET Entries
          /\ handler \in [Clients -> {"none", "queued", "entered", "waiting", "woken"}]
      BY DEF TypeInv, TypeOK
    <3> QED BY <3>1, <3>2, FinishTyped
  <2>12. CASE UNCHANGED vars
    BY <2>12 DEF vars, TypeInv, TypeOK, CallInv
  <2> QED
    BY <2>1, <2>2, <2>3, <2>4, <2>5, <2>6, <2>7, <2>8, <2>9, <2>10, <2>11, <2>12
       DEF Next, Server, Train, Handle, Finished
<1> QED BY <1>1, <1>2, PTL DEF Spec

\* Type correctness: every handler that runs has a metric to hand in, and every
\* variable keeps its type, with any number of crashes and in any order of calls.
THEOREM TypeCorrect == Spec => []TypeOK
<1>1. TypeInv => TypeOK
  BY DEF TypeInv
<1> QED BY <1>1, TypeInvariant, PTL

-----------------------------------------------------------------------------
(***************************************************************************)
(* The barrier.  Any call may take the lock in front of a woken handler, and *)
(* any participant may die in its round: nobody tells the metric server, so  *)
(* its call is carried out all the same.  What the invariant does not        *)
(* survive is the end of a round in which somebody died: the dead client's   *)
(* handler may still be there in the next one (NoOldDeaths).  The inductive  *)
(* invariant gives the round a current batch k.  It is being collected       *)
(* (everybody has been answered k - 1 times and only handlers that wait have *)
(* their norm in the list) or released (the list holds everybody's norm of   *)
(* batch k, the handlers still woken are those not yet answered, and         *)
(* processed_clients counts the others).  A call that overtakes a release    *)
(* makes the list longer than num_fit_clients, so it can only wait; the list *)
(* is cleared under it, and without its metric no later batch is complete.   *)
(***************************************************************************)

Answered(k) == {c \in participants : Len(replies[c]) = k}

BatchOf(k) == {[client |-> c, batch |-> k, norm |-> sent[c][k]] : c \in participants}

\* Whoever has died has died in the round that is going on.
NoOldDeaths ==
    \A c \in Clients : client[c] = "dead" => phase = "fit" /\ c \in participants

CallOf(c) ==
    /\ client[c] \in {"training", "calling", "fitted", "dead"}
    /\ client[c] # "dead" => (client[c] = "calling" <=> handler[c] # "none")
    /\ handler[c] = "none" => Len(sent[c]) = Len(replies[c])
    /\ handler[c] # "none" => Len(sent[c]) = Len(replies[c]) + 1
    /\ handler[c] \in {"entered", "waiting", "woken"} =>
         num_clients[c] = num_fit_clients

EntryOf(m) ==
    /\ m.client \in participants
    /\ m.batch <= Len(sent[m.client])
    /\ m.norm = sent[m.client][m.batch]

FitInv ==
    /\ participants # {}
    /\ num_fit_clients = Cardinality(participants)
    /\ discounts = round - 1
    /\ \A c \in participants : CallOf(c)
    /\ \A c \in Clients \ participants : client[c] = "idle" /\ handler[c] = "none"
    /\ IsFiniteSet(client_metrics)
    /\ \A m \in client_metrics : EntryOf(m)

Collecting(k) ==
    /\ processed_clients = 0
    /\ \A c \in participants : Len(replies[c]) = k - 1 /\ handler[c] # "woken"
    /\ \A m \in client_metrics : m.batch = k /\ handler[m.client] = "waiting"

Releasing(k) ==
    /\ processed_clients = Cardinality(Answered(k))
    /\ processed_clients < num_fit_clients
    /\ \A c \in participants :
         /\ Len(replies[c]) = IF handler[c] = "woken" THEN k - 1 ELSE k
         /\ k <= Len(sent[c])
    /\ BatchOf(k) \subseteq client_metrics
    /\ Cardinality(BatchOf(k)) = num_fit_clients
    /\ \A m \in client_metrics \ BatchOf(k) :
         m.batch = k + 1 /\ handler[m.client] = "waiting"
    /\ WaitingIsCounted

InBatch == \E k \in Nat \ {0} : Collecting(k) \/ Releasing(k)

QuietInv ==
    /\ client_metrics = {}
    /\ processed_clients = 0
    /\ discounts = IF phase = "resetting" THEN round - 1 ELSE round
    /\ \A c \in Clients :
         /\ handler[c] = "none"
         /\ client[c] \in {"idle", "fitted"}
         /\ phase = "idle" => client[c] = "idle"

BarrierInv ==
    /\ phase = "fit" => FitInv /\ InBatch /\ DecisionSound
    /\ phase # "fit" => QuietInv

LEMMA LenSent ==
    ASSUME TypeOK, NEW c \in Clients
    PROVE  /\ sent[c] \in Seq(Norms) /\ Len(sent[c]) \in Nat
           /\ replies[c] \in Seq(BOOLEAN) /\ Len(replies[c]) \in Nat
BY DEF TypeOK

\* A death is never forgotten, and a dead client takes part in no later round.
LEMMA NoOldDeathsBefore ==
    ASSUME TypeOK, [Next]_vars, NoOldDeaths'
    PROVE  NoOldDeaths
<1> SUFFICES ASSUME NEW d \in Clients, client[d] = "dead"
             PROVE  phase = "fit" /\ d \in participants
  BY DEF NoOldDeaths
<1> USE DEF roundVars
<1>1. ASSUME client'[d] = "dead", UNCHANGED <<phase, participants>>
      PROVE  phase = "fit" /\ d \in participants
  BY <1>1 DEF NoOldDeaths
<1>2. ASSUME NEW P \in SUBSET Clients, ConfigureFit(P) PROVE FALSE
  BY <1>2 DEF ConfigureFit, NoOldDeaths
<1>3. CASE Server
  BY <1>3 DEF Server, ResetRoundState, UpdateThreshold, AggregateFit, NoOldDeaths
<1>4. ASSUME NEW c \in Clients, Train(c) \/ Crash(c)
      PROVE  client'[d] = "dead" /\ UNCHANGED <<phase, participants>>
  BY <1>4 DEF Train, TrainBatch, ReturnFromFit, Crash, TypeOK
<1>5. ASSUME NEW c \in Clients, Handle(c)
      PROVE  client'[d] = "dead" /\ UNCHANGED <<phase, participants>>
  BY <1>5 DEF Handle, Dispatch, Wait, NotifyAll, Resume, Finish, Answer, TypeOK
<1>6. CASE UNCHANGED vars
  BY <1>6, <1>1 DEF vars
<1> QED BY <1>1, <1>2, <1>3, <1>4, <1>5, <1>6 DEF Next, Finished

LEMMA AnswersBehindNorms ==
    ASSUME TypeOK, BarrierInv
    PROVE  NoEarlyAnswer
<1> SUFFICES ASSUME phase = "fit", NEW c \in participants, NEW d \in participants
             PROVE  Len(replies[c]) <= Len(sent[d])
  BY DEF NoEarlyAnswer
<1>1. PICK k \in Nat \ {0} : Collecting(k) \/ Releasing(k)
  BY DEF BarrierInv, InBatch
<1>2. c \in Clients /\ d \in Clients /\ CallOf(c) /\ CallOf(d)
  BY DEF BarrierInv, FitInv, TypeOK
<1>3. /\ Len(sent[c]) \in Nat /\ Len(replies[c]) \in Nat
      /\ Len(sent[d]) \in Nat /\ Len(replies[d]) \in Nat
  BY <1>2, LenSent
<1>4. CASE Collecting(k)
  <2>1. Len(replies[c]) = k - 1 /\ Len(replies[d]) = k - 1
    BY <1>4 DEF Collecting
  <2>2. Len(replies[d]) <= Len(sent[d])
    BY <1>2, <1>3 DEF CallOf
  <2> QED BY <2>1, <2>2
<1>5. CASE Releasing(k)
  <2>1. Len(replies[c]) <= k /\ k <= Len(sent[d])
    BY <1>5 DEF Releasing
  <2> QED BY <2>1, <1>3
<1> QED BY <1>1, <1>4, <1>5

\* Longer histories keep the decisions that have been made, as long as overtakers
\* stay where they are.
LEMMA DecisionsKept ==
    ASSUME TypeOK, NoEarlyAnswer, DecisionSound, phase = "fit",
           UNCHANGED <<participants, replies, discounts>>,
           \A d \in participants :
             /\ Len(sent'[d]) \in Nat /\ Len(sent[d]) <= Len(sent'[d])
             /\ \A i \in 1..Len(sent[d]) : sent'[d][i] = sent[d][i]
             /\ Overtaker(d) => Overtaker(d)' /\ sent'[d] = sent[d]
    PROVE  DecisionSound'
<1> SUFFICES ASSUME NEW c \in participants, NEW k \in 1..Len(replies[c])
             PROVE  /\ ExceedsIn(k)' => replies[c][k]
                    /\ replies[c][k] => ExceedsIn(k)' \/ OvertakenIn(k)'
  BY DEF DecisionSound
<1>1. \A d \in participants : k \in 1..Len(sent[d])
  BY LenSent DEF NoEarlyAnswer, TypeOK
<1>2. \A d \in participants : k <= Len(sent'[d]) /\ sent'[d][k] = sent[d][k]
  BY <1>1, LenSent DEF TypeOK
<1>3. ExceedsIn(k)' <=> ExceedsIn(k)
  BY <1>1, <1>2 DEF ExceedsIn, Over
<1>4. OvertakenIn(k) => OvertakenIn(k)'
  BY DEF OvertakenIn, Over
<1>5. (ExceedsIn(k) => replies[c][k]) /\ (replies[c][k] => ExceedsIn(k) \/ OvertakenIn(k))
  BY DEF DecisionSound
<1> QED BY <1>3, <1>4, <1>5

LEMMA DecisionsStay ==
    ASSUME DecisionSound,
           UNCHANGED <<participants, sent, replies, discounts, handler, client_metrics, phase>>
    PROVE  DecisionSound'
<1>1. \A c : Overtaker(c) <=> Overtaker(c)'
  BY DEF Overtaker, Metric
<1>2. \A k : (ExceedsIn(k)' <=> ExceedsIn(k)) /\ (OvertakenIn(k) => OvertakenIn(k)')
  BY <1>1 DEF ExceedsIn, OvertakenIn, Over
<1> QED BY <1>2 DEF DecisionSound

\* A handler that goes on waiting stays an overtaker as long as those woken are
\* not all gone, and as long as nobody puts its metric back.
LEMMA OvertakerKept ==
    ASSUME NEW d \in Clients, Overtaker(d), handler'[d] = "waiting", sent'[d] = sent[d],
           \A e \in Clients : handler[e] = "woken" => handler'[e] = "woken",
           Metric(d) \in client_metrics' => Metric(d) \in client_metrics
    PROVE  Overtaker(d)'
<1>1. Metric(d)' = Metric(d)
  BY DEF Metric
<1> QED BY <1>1 DEF Overtaker

\* In a round with members left to answer somebody is still woken.
LEMMA SomebodyWoken ==
    ASSUME TypeOK, FitInv, NEW k \in Nat \ {0}, Releasing(k)
    PROVE  \E c \in participants : handler[c] = "woken"
<1> SUFFICES ASSUME \A c \in participants : handler[c] # "woken" PROVE FALSE
  OBVIOUS
<1>1. Answered(k) = participants
  BY DEF Releasing, Answered
<1>2. processed_clients = num_fit_clients
  BY <1>1 DEF Releasing, FitInv
<1> QED BY <1>2 DEF Releasing, TypeOK

LEMMA ConfigureKeeps ==
    ASSUME TypeInv, BarrierInv, NEW P \in SUBSET Clients, ConfigureFit(P)
    PROVE  BarrierInv'
<1> USE DEF serverVars
<1>1. QuietInv /\ phase = "idle" /\ phase' = "fit"
  BY DEF ConfigureFit, BarrierInv
<1>2. /\ participants' = P /\ P # {}
      /\ num_fit_clients' = Cardinality(P)
      /\ round' = round + 1 /\ round \in Nat
      /\ client' = [c \in Clients |-> IF c \in P THEN "training" ELSE client[c]]
      /\ sent' = [c \in Clients |-> IF c \in P THEN <<>> ELSE sent[c]]
      /\ replies' = [c \in Clients |-> IF c \in P THEN <<>> ELSE replies[c]]
      /\ UNCHANGED <<client_metrics, processed_clients, discounts, handler, num_clients>>
  BY DEF ConfigureFit, TypeInv, TypeOK
<1>3. \A c \in participants' : /\ c \in Clients /\ client'[c] = "training"
                              /\ sent'[c] = <<>> /\ replies'[c] = <<>>
                              /\ handler'[c] = "none"
  BY <1>1, <1>2 DEF QuietInv
<1>4. \A c \in participants' : Len(sent'[c]) = 0 /\ Len(replies'[c]) = 0
  BY <1>3
<1>5. FitInv'
  <2>1. \A c \in participants' : CallOf(c)'
    BY <1>3, <1>4 DEF CallOf
  <2>2. \A c \in Clients \ participants' : client'[c] = "idle" /\ handler'[c] = "none"
    BY <1>1, <1>2 DEF QuietInv
  <2>3. discounts' = round' - 1 /\ client_metrics' = {} /\ IsFiniteSet({})
    BY <1>1, <1>2, FS_EmptySet DEF QuietInv
  <2> QED BY <1>2, <2>1, <2>2, <2>3 DEF FitInv
<1>6. Collecting(1)'
  BY <1>1, <1>2, <1>3, <1>4 DEF Collecting, QuietInv
<1>7. DecisionSound'
  BY <1>4 DEF DecisionSound
<1> QED BY <1>1, <1>5, <1>6, <1>7 DEF BarrierInv, InBatch

LEMMA ResetKeeps ==
    ASSUME TypeInv, BarrierInv, NoOldDeaths', ResetRoundState
    PROVE  BarrierInv'
<1>1. FitInv /\ InBatch /\ phase = "fit" /\ phase' = "resetting"
  BY DEF ResetRoundState, BarrierInv
<1>2. \A c \in participants : client[c] = "fitted" /\ handler[c] = "none"
  <2>1. \A c \in Clients : client[c] # "dead"
    BY <1>1 DEF ResetRoundState, NoOldDeaths
  <2> QED BY <1>1, <2>1 DEF ResetRoundState, FitInv, CallOf, TypeInv, TypeOK
<1>3. \A c \in Clients : client[c] \in {"idle", "fitted"} /\ handler[c] = "none"
  BY <1>1, <1>2 DEF FitInv
<1>4. processed_clients = 0
  <2>1. PICK k \in Nat \ {0} : Collecting(k) \/ Releasing(k)
    BY <1>1 DEF InBatch
  <2>2. ~Releasing(k)
    BY <1>1, <1>2, SomebodyWoken DEF TypeInv
  <2> QED BY <2>1, <2>2 DEF Collecting
<1> QED BY <1>1, <1>3, <1>4 DEF ResetRoundState, BarrierInv, QuietInv, FitInv

LEMMA UpdateKeeps ==
    ASSUME TypeInv, BarrierInv, UpdateThreshold
    PROVE  BarrierInv'
BY DEF UpdateThreshold, BarrierInv, QuietInv, TypeInv, TypeOK

LEMMA AggregateKeeps ==
    ASSUME TypeInv, BarrierInv, AggregateFit
    PROVE  BarrierInv'
BY DEF AggregateFit, BarrierInv, QuietInv, TypeInv, TypeOK, serverVars

LEMMA ReturnKeeps ==
    ASSUME TypeInv, BarrierInv, NEW c \in Clients, ReturnFromFit(c)
    PROVE  BarrierInv'
<1>1. phase = "fit" /\ FitInv
  BY DEF ReturnFromFit, BarrierInv, QuietInv
<1>2. /\ client' = [client EXCEPT ![c] = "fitted"] /\ client[c] = "training"
      /\ UNCHANGED <<client_metrics, processed_clients, discounts, handler, num_clients,
                     num_fit_clients, phase, round, participants, sent, replies>>
  BY DEF ReturnFromFit, serverVars, roundVars
<1>3. c \in participants
  BY <1>1, <1>2 DEF FitInv
<1>4. \A d \in Clients : client'[d] = IF d = c THEN "fitted" ELSE client[d]
  BY <1>2 DEF TypeInv, TypeOK
<1>5. \A d \in participants : CallOf(d) => CallOf(d)'
  BY <1>2, <1>4 DEF CallOf, TypeInv, TypeOK
<1>6. \A m : EntryOf(m) => EntryOf(m)'
  BY <1>2 DEF EntryOf
<1>7. FitInv'
  BY <1>1, <1>2, <1>3, <1>4, <1>5, <1>6 DEF FitInv
<1>8. InBatch'
  <2>1. PICK k \in Nat \ {0} : Collecting(k) \/ Releasing(k)
    BY <1>1 DEF BarrierInv, InBatch
  <2>2. Collecting(k) => Collecting(k)'
    BY <1>2 DEF Collecting
  <2>3. Releasing(k) => Releasing(k)'
    BY <1>2 DEF Releasing, Answered, BatchOf, WaitingIsCounted, Metric
  <2> QED BY <2>1, <2>2, <2>3 DEF InBatch
<1>9. DecisionSound => DecisionSound'
  BY <1>2, DecisionsStay
<1> QED BY <1>1, <1>2, <1>7, <1>8, <1>9 DEF BarrierInv

\* The handler of a client that dies stays where it is.
LEMMA CrashKeeps ==
    ASSUME TypeInv, BarrierInv, NEW c \in Clients, Crash(c)
    PROVE  BarrierInv'
<1>1. phase = "fit" /\ FitInv
  BY DEF Crash, BarrierInv, QuietInv
<1>2. /\ c \in participants /\ client' = [client EXCEPT ![c] = "dead"]
      /\ UNCHANGED <<client_metrics, processed_clients, discounts, handler, num_clients,
                     num_fit_clients, phase, round, participants, sent, replies>>
  BY DEF Crash, serverVars, roundVars
<1>3. \A d \in Clients : client'[d] = IF d = c THEN "dead" ELSE client[d]
  BY <1>2 DEF TypeInv, TypeOK
<1>4. \A d \in participants : CallOf(d) => CallOf(d)'
  BY <1>2, <1>3 DEF CallOf, TypeInv, TypeOK
<1>5. \A m : EntryOf(m) => EntryOf(m)'
  BY <1>2 DEF EntryOf
<1>6. FitInv'
  BY <1>1, <1>2, <1>3, <1>4, <1>5 DEF FitInv
<1>7. InBatch'
  <2>1. PICK k \in Nat \ {0} : Collecting(k) \/ Releasing(k)
    BY <1>1 DEF BarrierInv, InBatch
  <2>2. Collecting(k) => Collecting(k)'
    BY <1>2 DEF Collecting
  <2>3. Releasing(k) => Releasing(k)'
    BY <1>2 DEF Releasing, Answered, BatchOf, WaitingIsCounted, Metric
  <2> QED BY <2>1, <2>2, <2>3 DEF InBatch
<1>8. DecisionSound => DecisionSound'
  BY <1>2, DecisionsStay
<1> QED BY <1>1, <1>2, <1>6, <1>7, <1>8 DEF BarrierInv

LEMMA StutterKeeps ==
    ASSUME TypeInv, BarrierInv, UNCHANGED vars
    PROVE  BarrierInv'
<1> USE DEF vars, serverVars, roundVars
<1>1. FitInv => FitInv'
  BY DEF FitInv, CallOf, EntryOf
<1>2. \A k : Collecting(k) => Collecting(k)'
  BY DEF Collecting
<1>3. \A k : Releasing(k) => Releasing(k)'
  BY DEF Releasing, Answered, BatchOf, WaitingIsCounted, Metric
<1>4. DecisionSound => DecisionSound'
  BY DecisionsStay
<1>5. QuietInv => QuietInv'
  BY DEF QuietInv
<1> QED BY <1>1, <1>2, <1>3, <1>4, <1>5 DEF BarrierInv, InBatch

LEMMA DispatchKeeps ==
    ASSUME TypeInv, BarrierInv, NEW c \in Clients, Dispatch(c)
    PROVE  BarrierInv'
<1>1. phase = "fit" /\ FitInv
  BY DEF Dispatch, BarrierInv, QuietInv
<1>2. /\ handler[c] = "queued" /\ handler' = [handler EXCEPT ![c] = "entered"]
      /\ num_clients' = [num_clients EXCEPT ![c] = num_fit_clients]
      /\ UNCHANGED <<client_metrics, processed_clients, discounts,
                     num_fit_clients, phase, round, participants, client, sent, replies>>
  BY DEF Dispatch, serverVars, roundVars
<1>3. c \in participants
  BY <1>1, <1>2 DEF FitInv
<1>4. \A d \in Clients :
        /\ handler'[d] = IF d = c THEN "entered" ELSE handler[d]
        /\ num_clients'[d] = IF d = c THEN num_fit_clients ELSE num_clients[d]
  BY <1>2 DEF TypeInv, TypeOK
<1>5. \A d \in participants : CallOf(d) => CallOf(d)'
  BY <1>2, <1>4 DEF CallOf, TypeInv, TypeOK
<1>6. \A m : EntryOf(m) => EntryOf(m)'
  BY <1>2 DEF EntryOf
<1>7. FitInv'
  BY <1>1, <1>2, <1>3, <1>4, <1>5, <1>6 DEF FitInv
<1>8. InBatch'
  <2>1. PICK k \in Nat \ {0} : Collecting(k) \/ Releasing(k)
    BY <1>1 DEF BarrierInv, InBatch
  <2>2. ASSUME Collecting(k) PROVE Collecting(k)'
    <3>1. \A d \in participants : Len(replies'[d]) = k - 1 /\ handler'[d] # "woken"
      BY <2>2, <1>2, <1>4 DEF Collecting, TypeInv, TypeOK
    <3>2. \A m \in client_metrics : m.batch = k /\ handler'[m.client] = "waiting"
      BY <2>2, <1>2, <1>4 DEF Collecting, TypeInv, TypeOK, Entries
    <3> QED BY <2>2, <1>2, <3>1, <3>2 DEF Collecting
  <2>3. ASSUME Releasing(k) PROVE Releasing(k)'
    <3>1. Answered(k)' = Answered(k) /\ BatchOf(k)' = BatchOf(k)
      BY <1>2 DEF Answered, BatchOf
    <3>2. \A d \in participants :
            /\ Len(replies'[d]) = IF handler'[d] = "woken" THEN k - 1 ELSE k
            /\ k <= Len(sent'[d])
      BY <2>3, <1>2, <1>4 DEF Releasing, TypeInv, TypeOK
    <3>3. WaitingIsCounted'
      BY <2>3, <1>2, <1>4 DEF Releasing, WaitingIsCounted, Metric
    <3>4. \A m \in client_metrics \ BatchOf(k) :
            m.batch = k + 1 /\ handler'[m.client] = "waiting"
      BY <2>3, <1>2, <1>4 DEF Releasing, TypeInv, TypeOK, Entries
    <3> QED BY <2>3, <1>2, <3>1, <3>2, <3>3, <3>4 DEF Releasing
  <2> QED BY <2>1, <2>2, <2>3 DEF InBatch
<1>9. DecisionSound'
  <2>1. \A d \in participants : Overtaker(d) => Overtaker(d)'
    BY <1>2, <1>4, OvertakerKept DEF Overtaker, TypeInv, TypeOK
  <2>2. \A d \in participants : Len(sent[d]) \in Nat
    BY LenSent DEF TypeInv, TypeOK
  <2> QED BY <2>1, <2>2, <1>1, <1>2, DecisionsKept, AnswersBehindNorms
         DEF TypeInv, BarrierInv
<1> QED BY <1>1, <1>2, <1>7, <1>8, <1>9 DEF BarrierInv

LEMMA TrainKeeps ==
    ASSUME TypeInv, BarrierInv, NEW c \in Clients, TrainBatch(c)
    PROVE  BarrierInv'
<1>1. phase = "fit" /\ FitInv
  BY DEF TrainBatch, BarrierInv, QuietInv
<1>2. PICK norm \in Norms : sent' = [sent EXCEPT ![c] = Append(@, norm)]
  BY DEF TrainBatch
<1>3. /\ client[c] = "training" /\ client' = [client EXCEPT ![c] = "calling"]
      /\ handler' = [handler EXCEPT ![c] = "queued"]
      /\ UNCHANGED <<client_metrics, processed_clients, discounts, num_clients,
                     num_fit_clients, phase, round, participants, replies>>
  BY DEF TrainBatch, serverVars, roundVars
<1>4. c \in participants /\ handler[c] = "none"
  BY <1>1, <1>3 DEF FitInv, CallOf
<1>5. \A d \in Clients :
        /\ handler'[d] = IF d = c THEN "queued" ELSE handler[d]
        /\ client'[d] = IF d = c THEN "calling" ELSE client[d]
        /\ sent'[d] = IF d = c THEN Append(sent[c], norm) ELSE sent[d]
  BY <1>2, <1>3 DEF TypeInv, TypeOK
<1>6. \A d \in Clients :
        /\ Len(sent[d]) \in Nat /\ Len(sent'[d]) \in Nat
        /\ Len(sent'[d]) = IF d = c THEN Len(sent[d]) + 1 ELSE Len(sent[d])
        /\ \A i \in 1..Len(sent[d]) : sent'[d][i] = sent[d][i]
  <2>1. sent[c] \in Seq(Norms)
    BY DEF TypeInv, TypeOK
  <2>2. /\ Len(Append(sent[c], norm)) = Len(sent[c]) + 1
        /\ \A i \in 1..Len(sent[c]) : Append(sent[c], norm)[i] = sent[c][i]
    BY <2>1, AppendProperties
  <2>3. \A d \in Clients : Len(sent[d]) \in Nat
    BY LenSent DEF TypeInv
  <2>4. ASSUME NEW d \in Clients
        PROVE  /\ Len(sent'[d]) \in Nat
               /\ Len(sent'[d]) = IF d = c THEN Len(sent[d]) + 1 ELSE Len(sent[d])
               /\ \A i \in 1..Len(sent[d]) : sent'[d][i] = sent[d][i]
    <3>1. CASE d = c
      <4>1. sent'[d] = Append(sent[c], norm)
        BY <3>1, <1>5
      <4> QED BY <3>1, <4>1, <2>2, <2>3
    <3>2. CASE d # c
      <4>1. sent'[d] = sent[d]
        BY <3>2, <1>5
      <4> QED BY <3>2, <4>1, <2>3
    <3> QED BY <3>1, <3>2
  <2> QED BY <2>3, <2>4
<1>7. \A d \in participants : d \in Clients /\ Len(replies[d]) \in Nat
  BY LenSent DEF TypeInv, TypeOK
<1>8. FitInv'
  <2>1. \A d \in participants : CallOf(d) => CallOf(d)'
    BY <1>3, <1>4, <1>5, <1>6, <1>7 DEF CallOf
  <2>2. \A m \in client_metrics : EntryOf(m) => EntryOf(m)'
    <3> SUFFICES ASSUME NEW m \in client_metrics, EntryOf(m) PROVE EntryOf(m)'
      OBVIOUS
    <3>1. m.client \in Clients /\ m.batch \in Nat \ {0}
      BY DEF TypeInv, TypeOK, Entries
    <3>2. m.batch \in 1..Len(sent[m.client])
      BY <3>1, <1>6 DEF EntryOf
    <3> QED BY <3>1, <3>2, <1>3, <1>6 DEF EntryOf
  <2> QED BY <1>1, <1>3, <1>4, <1>5, <2>1, <2>2 DEF FitInv
<1>9. InBatch'
  <2>1. PICK k \in Nat \ {0} : Collecting(k) \/ Releasing(k)
    BY <1>1 DEF BarrierInv, InBatch
  <2>2. ASSUME Collecting(k) PROVE Collecting(k)'
    <3>1. \A d \in participants : Len(replies'[d]) = k - 1 /\ handler'[d] # "woken"
      BY <2>2, <1>3, <1>5, <1>7 DEF Collecting
    <3>2. \A m \in client_metrics : m.batch = k /\ handler'[m.client] = "waiting"
      BY <2>2, <1>4, <1>5 DEF Collecting, TypeInv, TypeOK, Entries
    <3> QED BY <2>2, <1>3, <3>1, <3>2 DEF Collecting
  <2>3. ASSUME Releasing(k) PROVE Releasing(k)'
    <3>1. Answered(k)' = Answered(k)
      BY <1>3 DEF Answered
    <3>2. \A d \in participants : d \in Clients /\ k \in 1..Len(sent[d])
      BY <2>3, <1>6, <1>7 DEF Releasing
    <3>3. \A d \in participants : sent'[d][k] = sent[d][k] /\ k <= Len(sent'[d])
      BY <3>2, <1>6
    <3>4. BatchOf(k)' = BatchOf(k)
      BY <3>3, <1>3 DEF BatchOf
    <3>5. \A d \in participants :
            Len(replies'[d]) = IF handler'[d] = "woken" THEN k - 1 ELSE k
      BY <2>3, <1>3, <1>4, <1>5, <1>7 DEF Releasing
    <3>6. WaitingIsCounted'
      BY <2>3, <1>3, <1>5 DEF Releasing, WaitingIsCounted, Metric
    <3>7. \A m \in client_metrics \ BatchOf(k) :
            m.batch = k + 1 /\ handler'[m.client] = "waiting"
      BY <2>3, <1>4, <1>5 DEF Releasing, TypeInv, TypeOK, Entries
    <3> QED BY <2>3, <1>3, <3>1, <3>3, <3>4, <3>5, <3>6, <3>7 DEF Releasing
  <2> QED BY <2>1, <2>2, <2>3 DEF InBatch
<1>10. DecisionSound'
  <2>1. ASSUME NEW d \in participants, Overtaker(d)
        PROVE  Overtaker(d)' /\ sent'[d] = sent[d]
    <3>1. d \in Clients /\ d # c
      BY <2>1, <1>4, <1>7 DEF Overtaker
    <3> QED BY <2>1, <3>1, <1>3, <1>4, <1>5, OvertakerKept DEF Overtaker
  <2>2. \A d \in participants :
          /\ Len(sent'[d]) \in Nat /\ Len(sent[d]) <= Len(sent'[d])
          /\ \A i \in 1..Len(sent[d]) : sent'[d][i] = sent[d][i]
          /\ Overtaker(d) => Overtaker(d)' /\ sent'[d] = sent[d]
    BY <2>1, <1>6, <1>7
  <2> QED BY <2>2, <1>1, <1>3, DecisionsKept, AnswersBehindNorms DEF TypeInv, BarrierInv
<1> QED BY <1>1, <1>3, <1>8, <1>9, <1>10 DEF BarrierInv

LEMMA OvertakersStayAtWait ==
    ASSUME TypeOK, NEW c \in Clients, Wait(c), NEW d \in Clients, Overtaker(d)
    PROVE  Overtaker(d)'
<1>1. d # c /\ Metric(d) # Metric(c)
  BY DEF Wait, Overtaker, Metric
<1>2. /\ handler' = [handler EXCEPT ![c] = "waiting"] /\ handler[c] = "entered"
      /\ client_metrics' = client_metrics \cup {Metric(c)} /\ sent' = sent
  BY DEF Wait
<1> QED BY <1>1, <1>2, OvertakerKept DEF Overtaker, TypeOK

LEMMA WaitKeeps ==
    ASSUME TypeInv, BarrierInv, NEW c \in Clients, Wait(c)
    PROVE  BarrierInv'
<1>1. phase = "fit" /\ FitInv
  BY DEF Wait, BarrierInv, QuietInv
<1>2. /\ handler[c] = "entered"
      /\ client_metrics' = client_metrics \cup {Metric(c)}
      /\ handler' = [handler EXCEPT ![c] = "waiting"]
      /\ UNCHANGED <<processed_clients, discounts, num_clients, num_fit_clients,
                     phase, round, participants, client, sent, replies>>
  BY DEF Wait, roundVars
<1>3. c \in participants /\ CallOf(c)
  BY <1>1, <1>2 DEF FitInv
<1>4. \A d \in Clients : handler'[d] = IF d = c THEN "waiting" ELSE handler[d]
  BY <1>2 DEF TypeInv, TypeOK
<1>5. /\ Len(sent[c]) \in Nat /\ Len(replies[c]) \in Nat
      /\ Len(sent[c]) = Len(replies[c]) + 1
  BY <1>2, <1>3, LenSent DEF CallOf, TypeInv
<1>6. Metric(c).client = c /\ Metric(c).batch = Len(sent[c]) /\ EntryOf(Metric(c))
  BY <1>3, <1>5 DEF Metric, EntryOf
<1>7. FitInv'
  <2>1. \A d \in participants : CallOf(d) => CallOf(d)'
    BY <1>2, <1>4 DEF CallOf, TypeInv, TypeOK
  <2>2. \A m : EntryOf(m) => EntryOf(m)'
    BY <1>2 DEF EntryOf
  <2>3. IsFiniteSet(client_metrics')
    BY <1>1, <1>2, FS_AddElement DEF FitInv
  <2> QED BY <1>1, <1>2, <1>3, <1>4, <1>6, <2>1, <2>2, <2>3 DEF FitInv
<1>8. InBatch'
  <2>1. PICK k \in Nat \ {0} : Collecting(k) \/ Releasing(k)
    BY <1>1 DEF BarrierInv, InBatch
  <2>2. ASSUME Collecting(k) PROVE Collecting(k)'
    <3>1. \A d \in participants : Len(replies'[d]) = k - 1 /\ handler'[d] # "woken"
      BY <2>2, <1>2, <1>4 DEF Collecting, TypeInv, TypeOK
    <3>2. Metric(c).batch = k
      BY <2>2, <1>3, <1>5, <1>6 DEF Collecting
    <3>3. \A m \in client_metrics' : m.batch = k /\ handler'[m.client] = "waiting"
      BY <2>2, <3>2, <1>2, <1>4, <1>6 DEF Collecting, TypeInv, TypeOK, Entries
    <3> QED BY <2>2, <1>2, <3>1, <3>3 DEF Collecting
  <2>3. ASSUME Releasing(k) PROVE Releasing(k)'
    <3>1. Answered(k)' = Answered(k) /\ BatchOf(k)' = BatchOf(k)
      BY <1>2 DEF Answered, BatchOf
    <3>2. \A d \in participants :
            /\ Len(replies'[d]) = IF handler'[d] = "woken" THEN k - 1 ELSE k
            /\ k <= Len(sent'[d])
      BY <2>3, <1>2, <1>4 DEF Releasing, TypeInv, TypeOK
    <3>3. WaitingIsCounted'
      BY <2>3, <1>2, <1>4 DEF Releasing, WaitingIsCounted, Metric
    <3>4. Metric(c).batch = k + 1
      BY <2>3, <1>2, <1>3, <1>5, <1>6 DEF Releasing
    <3>5. \A m \in client_metrics' \ BatchOf(k) :
            m.batch = k + 1 /\ handler'[m.client] = "waiting"
      BY <2>3, <3>4, <1>2, <1>4, <1>6 DEF Releasing, TypeInv, TypeOK, Entries
    <3> QED BY <2>3, <1>2, <3>1, <3>2, <3>3, <3>5 DEF Releasing
  <2> QED BY <2>1, <2>2, <2>3 DEF InBatch
<1>9. DecisionSound'
  <2>1. \A d \in participants : Overtaker(d) => Overtaker(d)'
    BY OvertakersStayAtWait DEF TypeInv, TypeOK
  <2>2. \A d \in participants : Len(sent[d]) \in Nat
    BY LenSent DEF TypeInv, TypeOK
  <2> QED BY <2>1, <2>2, <1>1, <1>2, DecisionsKept, AnswersBehindNorms
         DEF TypeInv, BarrierInv
<1> QED BY <1>1, <1>2, <1>7, <1>8, <1>9 DEF BarrierInv

\* As many metrics of batch k as participants are the whole batch.
LEMMA CompleteBatch ==
    ASSUME TypeOK, NEW k, NEW X \in SUBSET BatchOf(k),
           Cardinality(X) = Cardinality(participants)
    PROVE  X = BatchOf(k)
<1> DEFINE f == [c \in participants |->
                   [client |-> c, batch |-> k, norm |-> sent[c][k]]]
<1>1. f \in Surjection(participants, BatchOf(k))
  BY DEF Surjection, BatchOf
<1>2. IsFiniteSet(participants)
  BY ParticipantsFinite DEF TypeOK
<1>3. IsFiniteSet(BatchOf(k)) /\ Cardinality(BatchOf(k)) <= Cardinality(participants)
  BY <1>1, <1>2, FS_Surjection
<1>4. /\ Cardinality(X) <= Cardinality(BatchOf(k))
      /\ Cardinality(BatchOf(k)) = Cardinality(X) => BatchOf(k) = X
  BY <1>3, FS_Subset
<1>5. Cardinality(BatchOf(k)) \in Nat /\ Cardinality(X) \in Nat
  BY <1>3, FS_CardinalityType, FS_Subset
<1> QED BY <1>3, <1>4, <1>5

\* What the end of a handler does to the calls of a round.
LEMMA FinishCalls ==
    ASSUME TypeInv, FitInv, phase = "fit",
           NEW c \in participants, handler[c] # "none",
           NEW metrics, IsFiniteSet(metrics), \A m \in metrics : EntryOf(m),
           NEW others \in [Clients -> {"none", "queued", "entered", "waiting", "woken"}],
           \A d \in Clients : /\ others[d] = "none" <=> handler[d] = "none"
                              /\ others[d] = "queued" <=> handler[d] = "queued",
           Finish(c, metrics, others)
    PROVE  /\ FitInv'
           /\ \A d \in Clients : handler'[d] = IF d = c THEN "none" ELSE others[d]
           /\ \A d \in participants : d # c => replies'[d] = replies[d]
           /\ replies'[c] = Append(replies[c], \E m \in metrics : Over(m.norm))
           /\ Len(replies'[c]) = Len(replies[c]) + 1
           /\ \A i \in 1..Len(replies[c]) : replies'[c][i] = replies[c][i]
           /\ replies'[c][Len(replies[c]) + 1] = \E m \in metrics : Over(m.norm)
<1> DEFINE stop == \E m \in metrics : Over(m.norm)
<1>1. /\ replies' = [replies EXCEPT ![c] = Append(replies[c], stop)]
      /\ handler' = [others EXCEPT ![c] = "none"]
      /\ client' = [client EXCEPT ![c] = IF @ = "dead" THEN "dead" ELSE "training"]
      /\ UNCHANGED <<discounts, num_clients, num_fit_clients, phase, round,
                     participants, sent>>
      /\ client_metrics' \in {{}, metrics}
  BY DEF Finish, Answer, roundVars
<1>2. c \in Clients /\ CallOf(c) /\ client[c] \in {"calling", "dead"}
  BY DEF FitInv, CallOf, TypeInv, TypeOK
<1>3. \A d \in Clients :
        /\ handler'[d] = IF d = c THEN "none" ELSE others[d]
        /\ d = c => client'[d] \in {"training", "dead"}
        /\ d # c => client'[d] = client[d]
        /\ d # c => replies'[d] = replies[d]
  BY <1>1, <1>2 DEF TypeInv, TypeOK
<1>4. replies'[c] = Append(replies[c], stop)
  BY <1>1, <1>2 DEF TypeInv, TypeOK
<1>5. stop \in BOOLEAN /\ replies[c] \in Seq(BOOLEAN)
  BY <1>2 DEF TypeInv, TypeOK
<1>6. /\ Len(replies'[c]) = Len(replies[c]) + 1
      /\ \A i \in 1..Len(replies[c]) : replies'[c][i] = replies[c][i]
      /\ replies'[c][Len(replies[c]) + 1] = stop
  <2> HIDE DEF stop
  <2> QED BY <1>4, <1>5, AppendProperties
<1>7. FitInv'
  <2>1. ASSUME NEW d \in participants PROVE CallOf(d)'
    <3>1. d \in Clients /\ CallOf(d)
      BY DEF FitInv, TypeInv, TypeOK
    <3>2. CASE d = c
      <4>1. Len(sent[c]) = Len(replies[c]) + 1
        BY <1>2 DEF CallOf
      <4>2. /\ handler'[c] = "none" /\ client'[c] \in {"training", "dead"}
            /\ sent'[c] = sent[c]
            /\ Len(replies'[c]) = Len(replies[c]) + 1
        BY <1>1, <1>2, <1>3, <1>6
      <4> QED BY <3>2, <4>1, <4>2 DEF CallOf
    <3>3. CASE d # c
      <4>1. /\ handler'[d] = others[d] /\ client'[d] = client[d]
            /\ replies'[d] = replies[d]
        BY <3>1, <3>3, <1>3
      <4>2. handler[d] \in {"none", "queued", "entered", "waiting", "woken"}
        BY <3>1 DEF TypeInv, TypeOK
      <4>3. /\ others[d] = "none" <=> handler[d] = "none"
            /\ others[d] \in {"entered", "waiting", "woken"} =>
                 handler[d] \in {"entered", "waiting", "woken"}
        BY <3>1, <4>2
      <4>4. /\ num_clients'[d] = num_clients[d] /\ num_fit_clients' = num_fit_clients
            /\ sent'[d] = sent[d]
        BY <1>1
      <4> QED BY <3>1, <4>1, <4>3, <4>4 DEF CallOf
    <3> QED BY <3>2, <3>3
  <2>2. \A m : EntryOf(m) => EntryOf(m)'
    BY <1>1 DEF EntryOf
  <2>3. IsFiniteSet(client_metrics') /\ \A m \in client_metrics' : EntryOf(m)'
    BY <1>1, <2>2, FS_EmptySet
  <2>4. \A d \in Clients \ participants : client'[d] = "idle" /\ handler'[d] = "none"
    BY <1>3 DEF FitInv
  <2> QED BY <1>1, <2>1, <2>3, <2>4 DEF FitInv
<1> QED BY <1>3, <1>4, <1>6, <1>7 DEF TypeInv, TypeOK

\* One more answer, a verdict such as DecisionSound asks for, keeps it.
LEMMA DecisionMade ==
    ASSUME TypeOK, DecisionSound, phase = "fit", NEW c \in participants,
           UNCHANGED <<participants, sent, discounts>>,
           \A d \in participants : d # c => replies'[d] = replies[d],
           \A d \in participants : Overtaker(d) => Overtaker(d)',
           NEW k, k = Len(replies[c]) + 1,
           Len(replies'[c]) = k,
           \A i \in 1..Len(replies[c]) : replies'[c][i] = replies[c][i],
           ExceedsIn(k) => replies'[c][k],
           replies'[c][k] => ExceedsIn(k) \/ OvertakenIn(k)
    PROVE  DecisionSound'
<1>1. \A i : (ExceedsIn(i)' <=> ExceedsIn(i)) /\ (OvertakenIn(i) => OvertakenIn(i)')
  BY DEF ExceedsIn, OvertakenIn, Over
<1> SUFFICES ASSUME NEW e \in participants, NEW i \in 1..Len(replies'[e])
             PROVE  /\ ExceedsIn(i) => replies'[e][i]
                    /\ replies'[e][i] => ExceedsIn(i) \/ OvertakenIn(i)
  BY <1>1 DEF DecisionSound
<1>2. Len(replies[c]) \in Nat
  BY LenSent DEF TypeOK
<1>3. CASE e = c /\ i = k
  BY <1>3
<1>4. CASE e = c /\ i # k
  <2>1. i \in 1..Len(replies[c])
    BY <1>2, <1>4
  <2> QED BY <2>1, <1>4 DEF DecisionSound
<1>5. CASE e # c
  BY <1>5 DEF DecisionSound
<1> QED BY <1>3, <1>4, <1>5

\* notify_all is called by the handler that completes a batch being collected,
\* never by one that has overtaken a release.
LEMMA NotifierCompletes ==
    ASSUME TypeInv, FitInv, NEW c \in participants, NEW k \in Nat \ {0},
           Collecting(k) \/ Releasing(k), NotifyAll(c)
    PROVE  /\ Collecting(k)
           /\ client_metrics \cup {Metric(c)} = BatchOf(k)
           /\ \A d \in participants : d # c => handler[d] = "waiting"
<1> DEFINE X == client_metrics \cup {Metric(c)}
<1>1. c \in Clients /\ handler[c] = "entered" /\ CallOf(c)
  BY DEF NotifyAll, FitInv, TypeInv, TypeOK
<1>2. Cardinality(X) = num_fit_clients /\ num_fit_clients = Cardinality(participants)
  BY <1>1 DEF NotifyAll, CallOf, FitInv
<1>3. IsFiniteSet(X)
  BY FS_AddElement DEF FitInv
<1>4. /\ Len(sent[c]) \in Nat /\ Len(replies[c]) \in Nat
      /\ Len(sent[c]) = Len(replies[c]) + 1
  BY <1>1, LenSent DEF CallOf, TypeInv
<1>5. Metric(c) = [client |-> c, batch |-> Len(sent[c]), norm |-> sent[c][Len(sent[c])]]
  BY DEF Metric
<1>6. ~Releasing(k)
  <2> SUFFICES ASSUME Releasing(k) PROVE FALSE
    OBVIOUS
  <2>1. Metric(c).batch = k + 1
    BY <1>1, <1>4, <1>5 DEF Releasing
  <2>2. Metric(c) \notin BatchOf(k)
    BY <2>1 DEF BatchOf
  <2>3. BatchOf(k) \in SUBSET X /\ BatchOf(k) \cup {Metric(c)} \in SUBSET X
    BY DEF Releasing
  <2>4. IsFiniteSet(BatchOf(k)) /\ Cardinality(BatchOf(k)) = num_fit_clients
    BY <1>3, <2>3, FS_Subset DEF Releasing
  <2>5. Cardinality(BatchOf(k) \cup {Metric(c)}) = num_fit_clients + 1
    BY <2>2, <2>4, FS_AddElement
  <2>6. Cardinality(BatchOf(k) \cup {Metric(c)}) <= num_fit_clients
    BY <1>2, <1>3, <2>3, FS_Subset
  <2> QED BY <2>5, <2>6 DEF TypeInv, TypeOK
<1>7. Collecting(k)
  BY <1>6
<1>8. X \in SUBSET BatchOf(k)
  <2> SUFFICES ASSUME NEW m \in X PROVE m \in BatchOf(k)
    OBVIOUS
  <2>1. CASE m = Metric(c)
    <3>1. Len(sent[c]) = k
      BY <1>4, <1>7 DEF Collecting
    <3> QED BY <2>1, <3>1, <1>5 DEF BatchOf
  <2>2. CASE m \in client_metrics
    <3>1. m \in Entries /\ m.batch = k /\ EntryOf(m)
      BY <2>2, <1>7 DEF Collecting, FitInv, TypeInv, TypeOK
    <3>2. m = [client |-> m.client, batch |-> k, norm |-> sent[m.client][k]]
      BY <3>1 DEF Entries, EntryOf
    <3> QED BY <3>1, <3>2 DEF BatchOf, EntryOf
  <2> QED BY <2>1, <2>2
<1>9. X = BatchOf(k)
  BY <1>2, <1>8, CompleteBatch DEF TypeInv
<1>10. ASSUME NEW d \in participants, d # c PROVE handler[d] = "waiting"
  <2> DEFINE m == [client |-> d, batch |-> k, norm |-> sent[d][k]]
  <2>1. m \in X /\ m # Metric(c)
    BY <1>5, <1>9, <1>10 DEF BatchOf
  <2> QED BY <2>1, <1>7 DEF Collecting
<1> QED BY <1>7, <1>9, <1>10

\* Where a batch is completed nobody has overtaken the one before it: the metric
\* of an overtaker is not in the list.
LEMMA NoOvertakerAtNotify ==
    ASSUME TypeInv, FitInv, NEW c \in participants, NEW k \in Nat \ {0},
           Collecting(k) \/ Releasing(k), NotifyAll(c), NEW d \in Clients
    PROVE  ~Overtaker(d)
<1> SUFFICES ASSUME Overtaker(d) PROVE FALSE
  OBVIOUS
<1>1. /\ Collecting(k)
      /\ client_metrics \cup {Metric(c)} = BatchOf(k)
  BY NotifierCompletes
<1>2. \A e \in Clients : handler[e] # "woken"
  BY <1>1 DEF Collecting, FitInv
<1>3. /\ handler[d] = "waiting" /\ Metric(d) \notin client_metrics
      /\ d \in participants
  BY <1>2 DEF Overtaker, FitInv
<1>4. d # c
  BY <1>3 DEF NotifyAll
<1>5. Len(sent[d]) = k
  BY <1>1, <1>3, LenSent DEF Collecting, FitInv, CallOf, TypeInv
<1>6. Metric(d) \in BatchOf(k)
  BY <1>3, <1>5 DEF Metric, BatchOf
<1>7. Metric(d) # Metric(c)
  BY <1>4 DEF Metric
<1> QED BY <1>1, <1>3, <1>6, <1>7

\* When a woken handler finishes, either another one is still woken or the list
\* is cleared: overtakers stay what they are.
LEMMA OvertakersStayAtResume ==
    ASSUME TypeInv, FitInv, NEW c \in participants, NEW k \in Nat \ {0},
           Releasing(k), Resume(c), NEW d \in Clients, Overtaker(d)
    PROVE  Overtaker(d)'
<1>1. /\ c \in Clients /\ handler[c] = "woken" /\ d # c
      /\ num_clients[c] = num_fit_clients
  BY DEF Resume, Overtaker, FitInv, CallOf, TypeInv, TypeOK
<1>2. /\ handler' = [handler EXCEPT ![c] = "none"] /\ sent' = sent
      /\ processed_clients + 1 = num_fit_clients => client_metrics' = {}
  BY <1>1 DEF Resume, Finish, Answer
<1>3. handler'[d] = "waiting" /\ Metric(d)' = Metric(d)
  BY <1>1, <1>2 DEF Overtaker, Metric, TypeInv, TypeOK
<1>4. CASE processed_clients + 1 = num_fit_clients
  BY <1>2, <1>3, <1>4 DEF Overtaker
<1>5. CASE processed_clients + 1 # num_fit_clients
  <2>1. Answered(k) \subseteq participants /\ IsFiniteSet(Answered(k))
        /\ c \notin Answered(k)
    <3>1. Answered(k) \in SUBSET Clients /\ Answered(k) \subseteq participants
      BY DEF Answered, TypeInv, TypeOK
    <3> QED BY <3>1, <1>1, ParticipantsFinite DEF Releasing, Answered
  <2>2. Cardinality(Answered(k) \cup {c}) = processed_clients + 1
    BY <2>1, FS_AddElement DEF Releasing
  <2>3. PICK e \in participants : e \notin Answered(k) \cup {c}
    BY <2>1, <2>2, <1>5 DEF FitInv
  <2>4. handler'[e] = "woken" /\ e \in Clients
    BY <2>3, <1>2 DEF Answered, Releasing, TypeInv, TypeOK
  <2> QED BY <2>4, <1>3 DEF Overtaker
<1> QED BY <1>4, <1>5

\* The verdict on a whole batch is "stop" if and only if a norm of it exceeds.
LEMMA BatchVerdict ==
    ASSUME NEW k, \A d \in participants : k <= Len(sent[d])
    PROVE  (\E m \in BatchOf(k) : Over(m.norm)) <=> ExceedsIn(k)
<1>1. ASSUME NEW m \in BatchOf(k), Over(m.norm)
      PROVE  ExceedsIn(k)
  <2>1. PICK d \in participants : m = [client |-> d, batch |-> k, norm |-> sent[d][k]]
    BY DEF BatchOf
  <2>2. m.norm = sent[d][k]
    BY <2>1
  <2> QED BY <2>2, <1>1 DEF ExceedsIn
<1>2. ASSUME NEW d \in participants, Over(sent[d][k])
      PROVE  \E m \in BatchOf(k) : Over(m.norm)
  <2> DEFINE m == [client |-> d, batch |-> k, norm |-> sent[d][k]]
  <2>1. m \in BatchOf(k) /\ m.norm = sent[d][k]
    BY DEF BatchOf
  <2> HIDE DEF m
  <2> QED BY <2>1, <1>2
<1> QED BY <1>1, <1>2 DEF ExceedsIn

LEMMA NotifyKeeps ==
    ASSUME TypeInv, BarrierInv, NEW c \in Clients, NotifyAll(c)
    PROVE  BarrierInv'
<1> DEFINE X == client_metrics \cup {Metric(c)}
           others == [d \in Clients |->
                        IF handler[d] = "waiting" THEN "woken" ELSE handler[d]]
<1>1. phase = "fit" /\ FitInv
  BY DEF NotifyAll, BarrierInv, QuietInv
<1>2. c \in participants /\ CallOf(c) /\ handler[c] = "entered"
  BY <1>1 DEF NotifyAll, FitInv
<1>3. PICK k \in Nat \ {0} : Collecting(k) \/ Releasing(k)
  BY <1>1 DEF BarrierInv, InBatch
<1>4. /\ Collecting(k) /\ X = BatchOf(k)
      /\ \A d \in participants : d # c => handler[d] = "waiting"
  BY <1>1, <1>2, <1>3, NotifierCompletes
<1>5. /\ Finish(c, X, others)
      /\ Cardinality(X) = num_fit_clients /\ num_clients[c] = num_fit_clients
  BY <1>2 DEF NotifyAll, CallOf
<1>6. /\ UNCHANGED <<discounts, num_fit_clients, phase, round, participants, sent>>
      /\ IF num_fit_clients = 1
         THEN client_metrics' = {} /\ processed_clients' = 0
         ELSE client_metrics' = X /\ processed_clients' = 1
  BY <1>4, <1>5 DEF Finish, Answer, Collecting, roundVars
<1>7. /\ Len(replies[c]) \in Nat /\ Len(replies[c]) = k - 1
      /\ \A d \in participants : d \in Clients /\ Len(replies[d]) = k - 1
  BY <1>2, <1>4, LenSent DEF Collecting, TypeInv, TypeOK
<1>8. \A d \in participants : Len(sent[d]) = k
  <2>1. \A d \in participants : CallOf(d) /\ handler[d] # "none"
    BY <1>1, <1>2, <1>4 DEF FitInv
  <2> QED BY <1>7, <2>1 DEF CallOf
<1>9. /\ FitInv'
      /\ \A d \in Clients : handler'[d] = IF d = c THEN "none" ELSE others[d]
      /\ \A d \in participants : d # c => replies'[d] = replies[d]
      /\ Len(replies'[c]) = k
      /\ \A i \in 1..Len(replies[c]) : replies'[c][i] = replies[c][i]
      /\ replies'[c][Len(replies[c]) + 1] = \E m \in X : Over(m.norm)
  <2>1. \A m \in X : EntryOf(m)
    <3>1. EntryOf(Metric(c))
      BY <1>2, <1>7, <1>8 DEF Metric, EntryOf
    <3> QED BY <3>1, <1>1 DEF FitInv
  <2>2. IsFiniteSet(X)
    BY <1>1, FS_AddElement DEF FitInv
  <2>3. others \in [Clients -> {"none", "queued", "entered", "waiting", "woken"}]
    BY DEF TypeInv, TypeOK
  <2>4. \A d \in Clients : /\ others[d] = "none" <=> handler[d] = "none"
                           /\ others[d] = "queued" <=> handler[d] = "queued"
    OBVIOUS
  <2> HIDE DEF X, others
  <2>5. handler[c] # "none"
    BY <1>2
  <2>6. Finish(c, X, others)
    BY <1>5
  <2>7. /\ FitInv'
        /\ \A d \in Clients : handler'[d] = IF d = c THEN "none" ELSE others[d]
        /\ \A d \in participants : d # c => replies'[d] = replies[d]
        /\ Len(replies'[c]) = Len(replies[c]) + 1
        /\ \A i \in 1..Len(replies[c]) : replies'[c][i] = replies[c][i]
        /\ replies'[c][Len(replies[c]) + 1] = \E m \in X : Over(m.norm)
    BY <1>1, <1>2, <2>1, <2>2, <2>3, <2>4, <2>5, <2>6, FinishCalls
  <2> QED BY <2>7, <1>7
<1>10. \A d \in Clients : handler'[d] # "waiting"
  BY <1>9
<1>11. InBatch'
  <2>1. CASE num_fit_clients = 1
    <3>1. participants = {c}
      <4>1. IsFiniteSet(participants) /\ Cardinality(participants) = 1
        BY <2>1, <1>1, ParticipantsFinite DEF FitInv, TypeInv, TypeOK
      <4> QED BY <4>1, <1>2, FS_Singleton
    <3>2. Collecting(k + 1)'
      BY <2>1, <3>1, <1>6, <1>9 DEF Collecting
    <3> QED BY <3>2 DEF InBatch
  <2>2. CASE num_fit_clients # 1
    <3>1. Answered(k)' = {c}
      BY <1>2, <1>6, <1>7, <1>9 DEF Answered
    <3>2. processed_clients' = Cardinality(Answered(k)')
      BY <2>2, <3>1, <1>6, FS_Singleton
    <3>3. processed_clients' < num_fit_clients'
      <4>1. IsFiniteSet(participants) /\ Cardinality(participants) \in Nat
        BY ParticipantsFinite DEF TypeInv, TypeOK
      <4>2. num_fit_clients \in Nat /\ num_fit_clients # 0
        BY <4>1, <1>1, FS_EmptySet DEF FitInv
      <4> QED BY <2>2, <4>2, <1>6
    <3>4. \A d \in participants :
            /\ Len(replies'[d]) = IF handler'[d] = "woken" THEN k - 1 ELSE k
            /\ k <= Len(sent'[d])
      BY <1>4, <1>6, <1>7, <1>8, <1>9
    <3>5. BatchOf(k)' = BatchOf(k)
      BY <1>6 DEF BatchOf
    <3>6. client_metrics' = BatchOf(k)' /\ Cardinality(BatchOf(k)') = num_fit_clients'
      BY <2>2, <3>5, <1>4, <1>5, <1>6
    <3>7. WaitingIsCounted'
      BY <1>10 DEF WaitingIsCounted
    <3>8. Releasing(k)'
      BY <3>2, <3>3, <3>4, <3>6, <3>7, <1>6 DEF Releasing
    <3> QED BY <3>8 DEF InBatch
  <2> QED BY <2>1, <2>2
<1>12. DecisionSound'
  <2>1. (\E m \in X : Over(m.norm)) <=> ExceedsIn(k)
    BY <1>4, <1>8, BatchVerdict
  <2>2. \A d \in participants : ~Overtaker(d)
    BY <1>1, <1>2, <1>3, NoOvertakerAtNotify DEF TypeInv, TypeOK
  <2> HIDE DEF X
  <2>3. k = Len(replies[c]) + 1
    BY <1>7
  <2>4. replies'[c][k] <=> ExceedsIn(k)
    BY <2>1, <2>3, <1>9
  <2> QED BY <2>2, <2>3, <2>4, <1>1, <1>2, <1>6, <1>9, DecisionMade
         DEF TypeInv, BarrierInv
<1> QED BY <1>1, <1>6, <1>9, <1>11, <1>12 DEF BarrierInv

LEMMA ResumeKeeps ==
    ASSUME TypeInv, BarrierInv, NEW c \in Clients, Resume(c)
    PROVE  BarrierInv'
<1>1. phase = "fit" /\ FitInv /\ DecisionSound
  BY DEF Resume, BarrierInv, QuietInv
<1>2. c \in participants /\ CallOf(c) /\ handler[c] = "woken"
  BY <1>1 DEF Resume, FitInv
<1>3. PICK k \in Nat \ {0} : Collecting(k) \/ Releasing(k)
  BY <1>1 DEF BarrierInv, InBatch
<1>4. Releasing(k)
  BY <1>2, <1>3 DEF Collecting
<1>5. /\ Finish(c, client_metrics, handler)
      /\ num_clients[c] = num_fit_clients
  BY <1>2 DEF Resume, CallOf
<1>6. /\ UNCHANGED <<discounts, num_fit_clients, phase, round, participants, sent>>
      /\ IF processed_clients + 1 = num_fit_clients
         THEN client_metrics' = {} /\ processed_clients' = 0
         ELSE /\ client_metrics' = client_metrics
              /\ processed_clients' = processed_clients + 1
  BY <1>5 DEF Finish, Answer, roundVars
<1>7. Len(replies[c]) = k - 1
  BY <1>2, <1>4 DEF Releasing
<1>8. /\ FitInv'
      /\ \A d \in Clients : handler'[d] = IF d = c THEN "none" ELSE handler[d]
      /\ \A d \in participants : d # c => replies'[d] = replies[d]
      /\ Len(replies'[c]) = k
      /\ \A i \in 1..Len(replies[c]) : replies'[c][i] = replies[c][i]
      /\ replies'[c][Len(replies[c]) + 1] = \E m \in client_metrics : Over(m.norm)
  <2>1. /\ IsFiniteSet(client_metrics) /\ \A m \in client_metrics : EntryOf(m)
        /\ handler[c] # "none"
        /\ handler \in [Clients -> {"none", "queued", "entered", "waiting", "woken"}]
    BY <1>1, <1>2 DEF FitInv, TypeInv, TypeOK
  <2>2. /\ FitInv'
        /\ \A d \in Clients : handler'[d] = IF d = c THEN "none" ELSE handler[d]
        /\ \A d \in participants : d # c => replies'[d] = replies[d]
        /\ Len(replies'[c]) = Len(replies[c]) + 1
        /\ \A i \in 1..Len(replies[c]) : replies'[c][i] = replies[c][i]
        /\ replies'[c][Len(replies[c]) + 1] = \E m \in client_metrics : Over(m.norm)
    BY <1>1, <1>2, <1>5, <2>1, FinishCalls
  <2> QED BY <2>2, <1>7
<1>9. /\ Answered(k)' = Answered(k) \cup {c} /\ c \notin Answered(k)
      /\ IsFiniteSet(Answered(k))
      /\ Cardinality(Answered(k)') = processed_clients + 1
  <2>1. Answered(k)' = Answered(k) \cup {c} /\ c \notin Answered(k)
    BY <1>2, <1>6, <1>7, <1>8 DEF Answered
  <2>2. IsFiniteSet(Answered(k))
    <3>1. Answered(k) \in SUBSET Clients
      BY DEF Answered, TypeInv, TypeOK
    <3> QED BY <3>1, ParticipantsFinite
  <2> QED BY <2>1, <2>2, <1>4, FS_AddElement DEF Releasing
<1>10. \A d \in participants :
         /\ Len(replies'[d]) = IF handler'[d] = "woken" THEN k - 1 ELSE k
         /\ k <= Len(sent[d])
  <2>1. \A d \in participants : d \in Clients
    BY DEF TypeInv, TypeOK
  <2> QED BY <2>1, <1>4, <1>8 DEF Releasing
<1>11. \A d \in Clients : handler'[d] = "waiting" => handler[d] = "waiting"
  BY <1>8
<1>12. InBatch'
  <2>1. CASE processed_clients + 1 = num_fit_clients
    <3>1. Answered(k)' = participants
      <4>1. Answered(k)' \in SUBSET participants
        BY <1>6 DEF Answered
      <4>2. IsFiniteSet(participants) /\ Cardinality(participants) = num_fit_clients
        BY <1>1, ParticipantsFinite DEF FitInv, TypeInv, TypeOK
      <4> QED BY <4>1, <4>2, <2>1, <1>9, FS_Subset
    <3>2. \A d \in participants : Len(replies'[d]) = k /\ handler'[d] # "woken"
      BY <3>1, <1>6, <1>10 DEF Answered
    <3>3. Collecting(k + 1)'
      BY <2>1, <3>2, <1>6 DEF Collecting
    <3> QED BY <3>3 DEF InBatch
  <2>2. CASE processed_clients + 1 # num_fit_clients
    <3>1. BatchOf(k)' = BatchOf(k) /\ client_metrics' = client_metrics
      BY <2>2, <1>6 DEF BatchOf
    <3>2. processed_clients' = Cardinality(Answered(k)')
          /\ processed_clients' < num_fit_clients'
      BY <2>2, <1>4, <1>6, <1>9 DEF Releasing, TypeInv, TypeOK
    <3>3. WaitingIsCounted'
      BY <3>1, <1>4, <1>6, <1>11 DEF Releasing, WaitingIsCounted, Metric
    <3>4. \A m \in client_metrics \ BatchOf(k) :
            m.batch = k + 1 /\ handler'[m.client] = "waiting"
      BY <1>2, <1>4, <1>8 DEF Releasing, TypeInv, TypeOK, Entries
    <3>5. Releasing(k)'
      BY <3>1, <3>2, <3>3, <3>4, <1>4, <1>6, <1>10 DEF Releasing
    <3> QED BY <3>5 DEF InBatch
  <2> QED BY <2>1, <2>2
<1>13. DecisionSound'
  <2>1. (\E m \in BatchOf(k) : Over(m.norm)) <=> ExceedsIn(k)
    BY <1>10, BatchVerdict
  <2>2. ASSUME NEW m \in client_metrics \ BatchOf(k), Over(m.norm)
        PROVE  OvertakenIn(k)
    <3> DEFINE d == m.client
    <3>1. /\ m.batch = k + 1 /\ handler[d] = "waiting" /\ d \in participants
          /\ d \in Clients /\ m.norm = sent[d][m.batch]
      BY <1>1, <1>4 DEF Releasing, FitInv, EntryOf, TypeInv, TypeOK
    <3>2. Len(sent[d]) = k + 1
      BY <3>1, <1>1, <1>4 DEF Releasing, FitInv, CallOf
    <3>3. Overtaker(d)
      BY <3>1, <1>2 DEF Overtaker
    <3> QED BY <3>1, <3>2, <3>3, <2>2 DEF OvertakenIn
  <2>3. k = Len(replies[c]) + 1
    BY <1>7
  <2>4. /\ ExceedsIn(k) => replies'[c][k]
        /\ replies'[c][k] => ExceedsIn(k) \/ OvertakenIn(k)
    <3>1. BatchOf(k) \subseteq client_metrics
      BY <1>4 DEF Releasing
    <3>2. replies'[c][k] = \E m \in client_metrics : Over(m.norm)
      BY <2>3, <1>8
    <3> QED BY <3>1, <3>2, <2>1, <2>2
  <2>5. \A d \in participants : Overtaker(d) => Overtaker(d)'
    BY <1>1, <1>2, <1>4, OvertakersStayAtResume DEF TypeInv, TypeOK
  <2> QED BY <2>3, <2>4, <2>5, <1>1, <1>2, <1>6, <1>8, DecisionMade DEF TypeInv
<1> QED BY <1>1, <1>6, <1>8, <1>12, <1>13 DEF BarrierInv

LEMMA StepKeeps ==
    ASSUME TypeInv, BarrierInv, NoOldDeaths', [Next]_vars
    PROVE  BarrierInv'
<1>1. CASE Next
  BY <1>1, ConfigureKeeps, ResetKeeps, UpdateKeeps, AggregateKeeps, TrainKeeps,
     ReturnKeeps, CrashKeeps, DispatchKeeps, WaitKeeps, NotifyKeeps, ResumeKeeps,
     StutterKeeps
     DEF Next, Server, Train, Handle, Finished
<1>2. CASE UNCHANGED vars
  BY <1>2, StutterKeeps
<1> QED BY <1>1, <1>2

LEMMA BarrierInvariant == Spec => [](TypeInv /\ (NoOldDeaths => BarrierInv))
<1>1. Init => BarrierInv
  BY DEF Init, BarrierInv, QuietInv
<1>2. TypeInv /\ (NoOldDeaths => BarrierInv) /\ [Next]_vars
        => (NoOldDeaths => BarrierInv)'
  BY StepKeeps, NoOldDeathsBefore DEF TypeInv
<1> QED BY <1>1, <1>2, TypeInvariant, PTL DEF Spec

\* The hypothesis of the theorems below in two common cases: nobody dies at all,
\* or the experiment has one round (while it lasts).
FirstRound ==
    /\ round \in {0, 1}
    /\ round = 0 => phase = "idle" /\ participants = {}
    /\ \A c \in Clients : client[c] = "dead" => round = 1
    /\ phase = "fit" => NoOldDeaths

LEMMA NobodyDies ==
    ASSUME MaxCrashes = 0
    PROVE  Spec => []NoOldDeaths
<1> DEFINE Alive == \A c \in Clients : client[c] # "dead"
<1>1. Init => Alive
  BY DEF Init
<1>2. TypeOK /\ Alive /\ [Next]_vars => Alive'
  <2> SUFFICES ASSUME TypeOK, Alive, [Next]_vars PROVE Alive'
    OBVIOUS
  <2>1. {d \in Clients : client[d] = "dead"} = {}
    OBVIOUS
  <2>2. \A c \in Clients : ~Crash(c)
    BY <2>1, FS_EmptySet DEF Crash
  <2>3. ASSUME NEW P \in SUBSET Clients, ConfigureFit(P) PROVE Alive'
    BY <2>3 DEF ConfigureFit, TypeOK
  <2>4. CASE Server
    BY <2>4 DEF Server, ResetRoundState, UpdateThreshold, AggregateFit, TypeOK
  <2>5. ASSUME NEW c \in Clients, Train(c) PROVE Alive'
    BY <2>5 DEF Train, TrainBatch, ReturnFromFit, TypeOK
  <2>6. ASSUME NEW c \in Clients, Handle(c) PROVE Alive'
    BY <2>6 DEF Handle, Dispatch, Wait, NotifyAll, Resume, Finish, Answer, TypeOK
  <2>7. CASE UNCHANGED vars
    BY <2>7 DEF vars
  <2> QED BY <2>2, <2>3, <2>4, <2>5, <2>6, <2>7 DEF Next, Finished
<1>3. Alive => NoOldDeaths
  BY DEF NoOldDeaths
<1> HIDE DEF Alive
<1> QED BY <1>1, <1>2, <1>3, TypeCorrect, PTL DEF Spec

LEMMA OneRound ==
    ASSUME MaxRounds <= 1
    PROVE  Spec => [](phase = "fit" => NoOldDeaths)
<1>1. Init => FirstRound
  BY DEF Init, FirstRound
<1>2. TypeOK /\ FirstRound /\ [Next]_vars => FirstRound'
  <2> SUFFICES ASSUME TypeOK, FirstRound, [Next]_vars PROVE FirstRound'
    OBVIOUS
  <2> USE DEF FirstRound, NoOldDeaths, TypeOK, roundVars
  <2>1. ASSUME NEW P \in SUBSET Clients, ConfigureFit(P) PROVE FirstRound'
    BY <2>1, BoundsNat DEF ConfigureFit
  <2>2. CASE Server
    BY <2>2 DEF Server, ResetRoundState, UpdateThreshold, AggregateFit
  <2>3. ASSUME NEW c \in Clients, Train(c) \/ Handle(c) PROVE FirstRound'
    <3>1. /\ UNCHANGED <<phase, participants, round>>
          /\ \A d \in Clients : client'[d] = "dead" => client[d] = "dead"
      BY <2>3 DEF Train, TrainBatch, ReturnFromFit, Handle, Dispatch, Wait, NotifyAll,
                  Resume, Finish, Answer
    <3> QED BY <3>1
  <2>4. ASSUME NEW c \in Clients, Crash(c) PROVE FirstRound'
    BY <2>4 DEF Crash
  <2>5. CASE UNCHANGED vars
    BY <2>5 DEF vars
  <2> QED BY <2>1, <2>2, <2>3, <2>4, <2>5 DEF Next, Finished
<1>3. FirstRound => (phase = "fit" => NoOldDeaths)
  BY DEF FirstRound
<1> QED BY <1>1, <1>2, <1>3, TypeCorrect, PTL DEF Spec

\* However late the woken handlers are and whoever dies in the round, no client
\* is answered for a batch that some participant has not finished.
THEOREM BarrierHolds == Spec => [](NoOldDeaths => NoEarlyAnswer)
<1>1. TypeInv /\ BarrierInv => NoEarlyAnswer
  BY AnswersBehindNorms DEF TypeInv
<1> QED BY <1>1, BarrierInvariant, PTL

\* In whatever order handlers get the lock, no client is told to go on with a
\* batch in which a participant's norm is over the threshold, and one that is told
\* to stop without such a norm was overtaken by a call with one.
THEOREM DecisionCorrect == Spec => [](NoOldDeaths => DecisionSound)
<1>1. BarrierInv => DecisionSound
  BY DEF BarrierInv, DecisionSound
<1> QED BY <1>1, BarrierInvariant, PTL

\* The same without a hypothesis on the states: in an experiment in which nobody
\* dies, and in one of a single round in which anybody may.
LEMMA FitWithoutOldDeaths ==
    ASSUME MaxCrashes = 0 \/ MaxRounds <= 1
    PROVE  Spec => [](phase = "fit" => NoOldDeaths)
<1>1. CASE MaxCrashes = 0
  <2>1. Spec => []NoOldDeaths
    BY <1>1, NobodyDies
  <2> QED BY <2>1, PTL
<1>2. CASE MaxRounds <= 1
  BY <1>2, OneRound
<1> QED BY <1>1, <1>2

COROLLARY BarrierHoldsInOneRound ==
    ASSUME MaxCrashes = 0 \/ MaxRounds <= 1
    PROVE  Spec => []NoEarlyAnswer
<1>1. ~(phase = "fit") => NoEarlyAnswer
  BY DEF NoEarlyAnswer
<1>2. Spec => [](phase = "fit" => NoOldDeaths)
  BY FitWithoutOldDeaths
<1> QED BY <1>1, <1>2, BarrierHolds, PTL

COROLLARY DecisionCorrectInOneRound ==
    ASSUME MaxCrashes = 0 \/ MaxRounds <= 1
    PROVE  Spec => []DecisionSound
<1>1. ~(phase = "fit") => DecisionSound
  BY DEF DecisionSound
<1>2. Spec => [](NoOldDeaths => DecisionSound)
  BY DecisionCorrect
<1>3. Spec => [](phase = "fit" => NoOldDeaths)
  BY FitWithoutOldDeaths
<1> QED BY <1>1, <1>2, <1>3, PTL

\* A call that overtakes a woken handler is lost for good, for any number of
\* clients: whatever the others do, and whoever of them dies, its handler waits on.
LEMMA OvertakersStay ==
    ASSUME TypeInv, BarrierInv, NoOldDeaths', [Next]_vars,
           NEW d \in Clients, Overtaker(d)
    PROVE  Overtaker(d)'
<1>1. phase = "fit" /\ FitInv /\ InBatch /\ d \in participants
  BY DEF BarrierInv, QuietInv, Overtaker, FitInv
<1>2. ~ResetRoundState
  BY <1>1 DEF ResetRoundState, FitInv, CallOf, NoOldDeaths, Overtaker, TypeInv, TypeOK
<1>3. ASSUME NEW c \in Clients, TrainBatch(c) PROVE Overtaker(d)'
  <2>1. handler[c] = "none"
    BY <1>1, <1>3 DEF TrainBatch, TypeInv, CallInv
  <2>2. /\ handler' = [handler EXCEPT ![c] = "queued"] /\ client_metrics' = client_metrics
        /\ sent'[d] = sent[d]
    BY <2>1, <1>3 DEF TrainBatch, Overtaker, serverVars, TypeInv, TypeOK
  <2> QED BY <2>1, <2>2, OvertakerKept DEF Overtaker, TypeInv, TypeOK
<1>4. ASSUME NEW c \in Clients, ReturnFromFit(c) \/ Crash(c) PROVE Overtaker(d)'
  BY <1>4, OvertakerKept DEF ReturnFromFit, Crash, serverVars, Overtaker
<1>5. ASSUME NEW c \in Clients, Dispatch(c) PROVE Overtaker(d)'
  BY <1>5, OvertakerKept DEF Dispatch, serverVars, Overtaker, TypeInv, TypeOK
<1>6. ASSUME NEW c \in Clients, Wait(c) PROVE Overtaker(d)'
  BY <1>6, OvertakersStayAtWait DEF TypeInv
<1>7. ASSUME NEW c \in Clients, NotifyAll(c) PROVE FALSE
  <2>1. c \in participants
    BY <1>1, <1>7 DEF NotifyAll, FitInv
  <2> QED BY <2>1, <1>1, <1>7, NoOvertakerAtNotify DEF InBatch
<1>8. ASSUME NEW c \in Clients, Resume(c) PROVE Overtaker(d)'
  <2>1. c \in participants /\ handler[c] = "woken"
    BY <1>1, <1>8 DEF Resume, FitInv
  <2>2. PICK k \in Nat \ {0} : Releasing(k)
    BY <2>1, <1>1 DEF InBatch, Collecting
  <2> QED BY <2>1, <2>2, <1>1, <1>8, OvertakersStayAtResume
<1>9. CASE UNCHANGED vars
  BY <1>9, OvertakerKept DEF vars, serverVars, Overtaker
<1> QED BY <1>1, <1>2, <1>3, <1>4, <1>5, <1>6, <1>7, <1>8, <1>9
       DEF Next, Server, Train, Handle, Finished, ConfigureFit, UpdateThreshold, AggregateFit

THEOREM OvertakersNeverAnswered == Spec /\ []NoOldDeaths => OvertakersHang
<1>1. TypeInv /\ BarrierInv /\ NoOldDeaths' /\ [Next]_vars
        => [\A c \in Clients : Overtaker(c) => Overtaker(c)']_vars
  BY OvertakersStay
<1> QED BY <1>1, BarrierInvariant, PTL DEF Spec, OvertakersHang

\* The same without the hypothesis, if nobody dies.
COROLLARY OvertakersNeverAnsweredIfAlive ==
    ASSUME MaxCrashes = 0
    PROVE  Spec => OvertakersHang
<1>1. Spec => []NoOldDeaths
  BY NobodyDies
<1> QED BY <1>1, OvertakersNeverAnswered, PTL

\* Without old deaths every round starts with an empty list, a zero counter, no
\* handler left over and one discount per completed round.
THEOREM RoundsAreIndependent == Spec => [](NoOldDeaths => RoundStartsClean)
<1>1. TypeInv /\ BarrierInv => RoundStartsClean
  <2> SUFFICES ASSUME TypeInv, BarrierInv, phase = "fit",
                      \A c \in participants : sent[c] = <<>>
               PROVE  /\ client_metrics = {} /\ processed_clients = 0
                      /\ Busy = {} /\ discounts = round - 1
    BY DEF RoundStartsClean
  <2>1. FitInv /\ participants # {}
    BY DEF BarrierInv, FitInv
  <2>2. PICK k \in Nat \ {0} : Collecting(k) \/ Releasing(k)
    BY DEF BarrierInv, InBatch
  <2>3. \A c \in participants : c \in Clients /\ Len(sent[c]) = 0
    BY DEF TypeInv, TypeOK
  <2>4. Collecting(k)
    BY <2>1, <2>2, <2>3 DEF Releasing
  <2>5. client_metrics = {}
    BY <2>1, <2>3, <2>4 DEF FitInv, EntryOf, Collecting
  <2>6. \A c \in Clients : handler[c] = "none"
    BY <2>1 DEF FitInv, TypeInv, CallInv
  <2> QED BY <2>1, <2>4, <2>5, <2>6 DEF Busy, FitInv, Collecting
<1> QED BY <1>1, BarrierInvariant, PTL
=============================================================================
