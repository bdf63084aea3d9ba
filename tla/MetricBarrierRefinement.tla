----------------------- MODULE MetricBarrierRefinement -----------------------
(***************************************************************************)
(* MetricBarrier implements FDABarrier, for every finite set of clients, if  *)
(* whoever dies does so in the round that is going on; and, if the executor   *)
(* has a thread for each of them and no metric has been lost to a call that   *)
(* overtook a woken handler, those who are left of a round wait only for a    *)
(* client that has died without its norm.                                     *)
(***************************************************************************)
EXTENDS MetricBarrierProofs

\* What the abstract actions' guards need of a round: the handler that completed
\* the batch has gone on before those it woke; a client that has returned was
\* told to stop, and one whose norm is being handled was not.  The handler that
\* would be the last to wait completes the batch instead, if none is lost.
RefInv ==
    phase = "fit" =>
        /\ \E c \in participants : handler[c] # "woken"
        /\ WaitingIsCounted => \E c \in participants : handler[c] # "waiting"
        /\ \A c \in participants :
             /\ client[c] = "fitted" => StopTraining(c)
             /\ handler[c] # "none" => ~StopTraining(c)

LEMMA LastReply ==
    ASSUME TypeOK, NEW c \in Clients, NEW b \in BOOLEAN,
           replies' = [replies EXCEPT ![c] = Append(@, b)]
    PROVE  /\ StopTraining(c)' = b /\ replies'[c] # <<>>
           /\ \A d \in Clients : d # c => StopTraining(d)' = StopTraining(d)
<1>1. replies[c] \in Seq(BOOLEAN) /\ replies'[c] = Append(replies[c], b)
  BY DEF TypeOK
<1>2. /\ replies'[c] # <<>> /\ Len(replies'[c]) = Len(replies[c]) + 1
      /\ replies'[c][Len(replies[c]) + 1] = b
  BY <1>1, AppendProperties
<1>3. StopTraining(c)' = b
  BY <1>2 DEF StopTraining
<1>4. \A d \in Clients : d # c => replies'[d] = replies[d]
  BY DEF TypeOK
<1> QED BY <1>2, <1>3, <1>4 DEF StopTraining

\* The answer of a handler, as the abstract verdict on the same norms.
LEMMA ToldByFinish ==
    ASSUME TypeOK, NEW c \in Clients, NEW metrics, NEW others, Finish(c, metrics, others)
    PROVE  /\ Told' = [Told EXCEPT ![c] = IF Exceeding(metrics) # {}
                                         THEN "stop" ELSE "continue"]
           /\ \A d \in Clients : d # c => StopTraining(d)' = StopTraining(d)
<1> DEFINE stop == \E m \in metrics : Over(m.norm)
<1>1. replies' = [replies EXCEPT ![c] = Append(@, stop)] /\ stop \in BOOLEAN
  BY DEF Finish, Answer
<1>2. stop <=> Exceeding(metrics) # {}
  BY DEF Exceeding
<1> HIDE DEF stop
<1>3. /\ StopTraining(c)' = stop /\ replies'[c] # <<>>
      /\ \A d \in Clients : d # c => StopTraining(d)' = StopTraining(d)
  BY <1>1, LastReply
<1>4. \A d \in Clients : d # c => replies'[d] = replies[d]
  BY <1>1 DEF TypeOK
<1>5. \A d \in Clients :
        Told'[d] = IF d # c THEN Told[d]
                   ELSE IF Exceeding(metrics) # {} THEN "stop" ELSE "continue"
  BY <1>2, <1>3, <1>4 DEF Told
<1>6. /\ Told' = [d \in Clients |-> Told'[d]]
      /\ Told = [d \in Clients |-> Told[d]]
  BY DEF Told
<1> QED BY <1>3, <1>5, <1>6

LEMMA FinishKeepsRef ==
    ASSUME TypeOK, RefInv, phase = "fit", NEW c \in participants, NEW metrics,
           NEW others \in [Clients -> {"none", "queued", "entered", "waiting", "woken"}],
           \A d \in Clients : others[d] = "none" <=> handler[d] = "none",
           Finish(c, metrics, others)
    PROVE  RefInv'
<1>1. c \in Clients /\ participants \subseteq Clients
  BY DEF TypeOK
<1>2. /\ handler' = [others EXCEPT ![c] = "none"]
      /\ client' = [client EXCEPT ![c] = IF @ = "dead" THEN "dead" ELSE "training"]
      /\ participants' = participants
  BY DEF Finish, Answer, roundVars
<1>3. \A d \in Clients : d # c => /\ client'[d] = client[d]
                                  /\ handler'[d] = "none" <=> handler[d] = "none"
                                  /\ StopTraining(d)' = StopTraining(d)
  BY <1>1, <1>2, ToldByFinish DEF TypeOK
<1>4. client'[c] \in {"dead", "training"}
  BY <1>1, <1>2 DEF TypeOK
<1>5. handler'[c] = "none"
  BY <1>1, <1>2
<1> QED BY <1>1, <1>2, <1>3, <1>4, <1>5 DEF RefInv

\* The norm of the last participant makes the list as long as its handler expects.
LEMMA LastCompletes ==
    ASSUME TypeInv, FitInv, NEW k \in Nat \ {0}, Collecting(k),
           NEW c \in participants, handler[c] = "entered",
           \A d \in participants \ {c} : d \in Submitted
    PROVE  Cardinality(client_metrics \cup {Metric(c)}) = num_clients[c]
<1> DEFINE X == client_metrics \cup {Metric(c)}
<1>1. c \in Clients /\ CallOf(c)
  BY DEF FitInv, TypeInv, TypeOK
<1>2. Len(sent[c]) = k
  BY <1>1, LenSent DEF Collecting, CallOf, TypeInv
<1>3. \A m \in X : m \in BatchOf(k)
  <2>1. Metric(c) \in BatchOf(k)
    BY <1>2 DEF Metric, BatchOf
  <2>2. ASSUME NEW m \in client_metrics PROVE m \in BatchOf(k)
    <3>1. m \in Entries /\ m.batch = k /\ EntryOf(m)
      BY DEF Collecting, FitInv, TypeInv, TypeOK
    <3>2. m = [client |-> m.client, batch |-> k, norm |-> sent[m.client][k]]
      BY <3>1 DEF Entries, EntryOf
    <3> QED BY <3>1, <3>2 DEF BatchOf, EntryOf
  <2> QED BY <2>1, <2>2
<1>4. \A m \in BatchOf(k) : m \in X
  <2> SUFFICES ASSUME NEW d \in participants
               PROVE  [client |-> d, batch |-> k, norm |-> sent[d][k]] \in X
    BY DEF BatchOf
  <2>1. CASE d = c
    BY <2>1, <1>2 DEF Metric
  <2>2. CASE d # c
    <3>1. PICK m \in client_metrics : m.client = d
      BY <2>2 DEF Submitted
    <3>2. PICK e \in participants : m = [client |-> e, batch |-> k, norm |-> sent[e][k]]
      BY <3>1, <1>3 DEF BatchOf
    <3> QED BY <3>1, <3>2
  <2> QED BY <2>1, <2>2
<1>5. X = BatchOf(k)
  BY <1>3, <1>4
<1>6. Cardinality(X) = Cardinality(participants)
  <2> DEFINE f == [d \in participants |->
                     [client |-> d, batch |-> k, norm |-> sent[d][k]]]
  <2>1. f \in Bijection(participants, BatchOf(k))
    BY DEF Bijection, Injection, Surjection, IsInjective, BatchOf
  <2>2. IsFiniteSet(participants)
    BY ParticipantsFinite DEF TypeInv, TypeOK
  <2> HIDE DEF f
  <2>3. ExistsBijection(participants, BatchOf(k))
    BY <2>1 DEF ExistsBijection
  <2> QED BY <2>2, <2>3, <1>5, FS_Bijection
<1> QED BY <1>1, <1>6 DEF FitInv, CallOf

\* A step that leaves the list and the handlers that wait alone loses no metric.
LEMMA CountedBefore ==
    ASSUME client_metrics' = client_metrics,
           \A c \in Clients : handler[c] = "waiting" =>
                                handler'[c] = "waiting" /\ sent'[c] = sent[c],
           WaitingIsCounted'
    PROVE  WaitingIsCounted
BY DEF WaitingIsCounted, Metric

\* Whatever happens in a round keeps what the abstraction needs.
LEMMA RefKeeps ==
    ASSUME TypeInv, BarrierInv, RefInv, [Next]_vars
    PROVE  RefInv'
<1> USE DEF TypeInv
<1>1. ASSUME NEW P \in SUBSET Clients, ConfigureFit(P) PROVE RefInv'
  <2>1. \A c \in P : handler'[c] = "none" /\ client'[c] = "training"
    BY <1>1 DEF ConfigureFit, BarrierInv, QuietInv
  <2> QED BY <2>1, <1>1 DEF ConfigureFit, RefInv
<1>2. CASE Server
  BY <1>2 DEF Server, ResetRoundState, UpdateThreshold, AggregateFit, RefInv
<1>3. ASSUME NEW c \in Clients, TrainBatch(c) PROVE RefInv'
  <2>1. /\ \A d \in Clients : d # c => client'[d] = client[d] /\ handler'[d] = handler[d]
        /\ handler'[c] = "queued" /\ client'[c] = "calling"
        /\ replies' = replies /\ ~StopTraining(c) /\ phase' = phase
        /\ participants' = participants
    BY <1>3 DEF TrainBatch, TypeOK, roundVars
  <2>2. \A d \in Clients : StopTraining(d)' = StopTraining(d)
    BY <2>1 DEF StopTraining
  <2>3. WaitingIsCounted' => WaitingIsCounted
    BY <1>3, CountedBefore DEF TrainBatch, CallInv, TypeOK, serverVars
  <2> QED BY <2>1, <2>2, <2>3 DEF RefInv, TypeOK
<1>4. ASSUME NEW c \in Clients, ReturnFromFit(c) PROVE RefInv'
  <2>1. /\ \A d \in Clients : d # c => client'[d] = client[d]
        /\ client'[c] = "fitted" /\ handler' = handler
        /\ replies' = replies /\ StopTraining(c) /\ phase' = phase
        /\ participants' = participants
    BY <1>4 DEF ReturnFromFit, TypeOK, roundVars
  <2>2. \A d \in Clients : StopTraining(d)' = StopTraining(d)
    BY <2>1 DEF StopTraining
  <2>3. WaitingIsCounted' => WaitingIsCounted
    BY <1>4, CountedBefore DEF ReturnFromFit, serverVars
  <2> QED BY <2>1, <2>2, <2>3 DEF RefInv, TypeOK
<1>5. ASSUME NEW c \in Clients, Dispatch(c) \/ Wait(c) PROVE RefInv'
  <2>1. /\ \A d \in Clients : /\ handler[d] # "woken" => handler'[d] # "woken"
                              /\ handler'[d] = "none" <=> handler[d] = "none"
        /\ UNCHANGED <<replies, client, phase, participants>>
    BY <1>5 DEF Dispatch, Wait, TypeOK, roundVars
  <2>2. \A d \in Clients : StopTraining(d)' = StopTraining(d)
    BY <2>1 DEF StopTraining
  <2>3. ASSUME phase = "fit", WaitingIsCounted'
        PROVE  \E d \in participants : handler'[d] # "waiting"
    <3>1. CASE Dispatch(c)
      <4>1. handler'[c] = "entered" /\ c \in participants
        BY <2>3, <3>1 DEF Dispatch, BarrierInv, FitInv, TypeOK
      <4> QED BY <4>1
    <3>2. CASE Wait(c)
      <4> SUFFICES ASSUME \A d \in participants : handler'[d] = "waiting" PROVE FALSE
        OBVIOUS
      <4>1. FitInv /\ c \in participants /\ handler[c] = "entered"
        BY <2>3, <3>2 DEF Wait, BarrierInv, FitInv
      <4>2. \A d \in participants : d # c => handler[d] = "waiting"
        BY <3>2 DEF Wait, TypeOK
      <4>3. PICK k \in Nat \ {0} : Collecting(k)
        BY <2>3, <4>1, <4>2, SomebodyWoken DEF BarrierInv, InBatch
      <4>4. \A d \in participants \ {c} : d \in Submitted
        <5>1. \A d \in participants \ {c} : Metric(d) \in client_metrics
          <6> SUFFICES ASSUME NEW d \in participants, d # c
                       PROVE  Metric(d) \in client_metrics
            OBVIOUS
          <6>1. d \in Clients /\ handler'[d] = "waiting" /\ Metric(d)' = Metric(d)
            BY <3>2 DEF Wait, Metric, TypeOK
          <6>2. Metric(d) # Metric(c) /\ client_metrics' = client_metrics \cup {Metric(c)}
            BY <3>2 DEF Wait, Metric
          <6> QED BY <2>3, <6>1, <6>2 DEF WaitingIsCounted
        <5>2. \A d \in participants : Metric(d).client = d
          BY DEF Metric
        <5> QED BY <5>1, <5>2 DEF Submitted
      <4> QED BY <3>2, <4>1, <4>3, <4>4, LastCompletes DEF Wait
    <3> QED BY <1>5, <3>1, <3>2
  <2> QED BY <2>1, <2>2, <2>3 DEF RefInv, TypeOK
<1>6. ASSUME NEW c \in Clients, NotifyAll(c) PROVE RefInv'
  <2> DEFINE others == [d \in Clients |->
                          IF handler[d] = "waiting" THEN "woken" ELSE handler[d]]
  <2>1. phase = "fit" /\ c \in participants
    BY <1>6 DEF NotifyAll, BarrierInv, QuietInv, FitInv
  <2>2. others \in [Clients -> {"none", "queued", "entered", "waiting", "woken"}]
    BY DEF TypeOK
  <2>3. Finish(c, client_metrics \cup {Metric(c)}, others)
    BY <1>6 DEF NotifyAll
  <2>4. \A d \in Clients : others[d] = "none" <=> handler[d] = "none"
    OBVIOUS
  <2> HIDE DEF others
  <2> QED BY <2>1, <2>2, <2>3, <2>4, FinishKeepsRef
<1>7. ASSUME NEW c \in Clients, Resume(c) PROVE RefInv'
  <2>1. phase = "fit" /\ c \in participants
    BY <1>7 DEF Resume, BarrierInv, QuietInv, FitInv
  <2>2. /\ Finish(c, client_metrics, handler)
        /\ handler \in [Clients -> {"none", "queued", "entered", "waiting", "woken"}]
    BY <1>7 DEF Resume, TypeOK
  <2> QED BY <2>1, <2>2, FinishKeepsRef
<1>8. CASE UNCHANGED vars
  <2>1. WaitingIsCounted' => WaitingIsCounted
    BY <1>8, CountedBefore DEF vars, serverVars
  <2> QED BY <2>1, <1>8 DEF vars, roundVars, RefInv, StopTraining
<1>9. ASSUME NEW c \in Clients, Crash(c) PROVE RefInv'
  <2>1. /\ \A d \in Clients : client'[d] = "fitted" => client[d] = "fitted"
        /\ UNCHANGED <<handler, replies, phase, participants>>
    BY <1>9 DEF Crash, TypeOK, roundVars
  <2>2. \A d \in Clients : StopTraining(d)' = StopTraining(d)
    BY <2>1 DEF StopTraining
  <2>3. WaitingIsCounted' => WaitingIsCounted
    BY <1>9, CountedBefore DEF Crash, serverVars
  <2> QED BY <2>1, <2>2, <2>3 DEF RefInv, TypeOK
<1> QED BY <1>1, <1>2, <1>3, <1>4, <1>5, <1>6, <1>7, <1>8, <1>9
       DEF Next, Train, Handle, Finished

-----------------------------------------------------------------------------
(***************************************************************************)
(* The abstract state of a batch that is collected, and of one released     *)
(***************************************************************************)

LEMMA CollectingView ==
    ASSUME TypeOK, FitInv, NEW k \in Nat \ {0}, Collecting(k)
    PROVE  /\ \A c \in Submitted : c \in participants /\ handler[c] = "waiting"
           /\ \A c \in Clients : handler[c] # "woken"
           /\ Released = {}
<1>1. ASSUME NEW c \in Submitted PROVE c \in participants /\ handler[c] = "waiting"
  <2>1. PICK m \in client_metrics : m.client = c
    BY DEF Submitted
  <2> QED BY <2>1 DEF Collecting, FitInv, EntryOf
<1>2. \A c \in Clients : handler[c] # "woken"
  BY DEF Collecting, FitInv
<1> QED BY <1>1, <1>2 DEF Released

LEMMA BatchClients == \A k : {m.client : m \in BatchOf(k)} = participants
<1> SUFFICES ASSUME NEW k PROVE {m.client : m \in BatchOf(k)} = participants
  OBVIOUS
<1>1. ASSUME NEW m \in BatchOf(k) PROVE m.client \in participants
  BY DEF BatchOf
<1>2. ASSUME NEW c \in participants PROVE \E m \in BatchOf(k) : m.client = c
  <2>1. [client |-> c, batch |-> k, norm |-> sent[c][k]] \in BatchOf(k)
    BY DEF BatchOf
  <2> QED BY <2>1
<1> QED BY <1>1, <1>2

LEMMA ReleasingView ==
    ASSUME TypeInv, FitInv, phase = "fit", NEW k \in Nat \ {0}, Releasing(k)
    PROVE  /\ Submitted = participants /\ Members = participants
           /\ Released = {c \in participants : handler[c] # "woken"}
           /\ Released = Answered(k)
           /\ Early = {c \in participants : handler[c] = "waiting"}
<1>1. PICK w \in participants : handler[w] = "woken"
  BY SomebodyWoken DEF TypeInv
<1>2. w \in Clients /\ Members = participants
  BY DEF Members, TypeInv, TypeOK
<1>3. Submitted = participants
  <2>1. \A c \in participants : c \in Submitted
    BY BatchClients DEF Releasing, Submitted
  <2>2. \A c \in Submitted : c \in participants
    BY DEF Submitted, FitInv, EntryOf
  <2> QED BY <2>1, <2>2
<1>4. Released = {c \in participants : handler[c] # "woken"}
  BY <1>1, <1>2 DEF Released
<1>5. \A c \in participants : Len(replies[c]) = k <=> handler[c] # "woken"
  BY DEF Releasing
<1>6. Early = {c \in participants : handler[c] = "waiting"}
  BY <1>1, <1>2 DEF Early, Overtaker
<1> QED BY <1>2, <1>3, <1>4, <1>5, <1>6 DEF Answered

\* A step that moves neither list, answers nor membership is a stutter.
LEMMA SameView ==
    ASSUME UNCHANGED <<client_metrics, discounts, replies, phase, participants>>,
           TypeOK,
           \A c \in Clients : /\ handler'[c] = "woken" <=> handler[c] = "woken"
                              /\ handler'[c] = "waiting" <=> handler[c] = "waiting"
                              /\ handler[c] = "waiting" => sent'[c] = sent[c]
    PROVE  UNCHANGED Barrier!vars
<1>1. Submitted' = Submitted
  BY DEF Submitted
<1>2. Exceeding(client_metrics)' = Exceeding(client_metrics)
  BY DEF Exceeding, Over
<1>3. Told' = Told
  BY DEF Told, StopTraining
<1>4. Members' = Members /\ Members \subseteq Clients
  BY DEF Members, TypeOK
<1>5. Released' = Released
  BY <1>4 DEF Released
<1>6. \A c \in Clients : Overtaker(c)' <=> Overtaker(c)
  BY DEF Overtaker, Metric
<1>7. Early' = Early
  BY <1>4, <1>6 DEF Early
<1> QED BY <1>1, <1>2, <1>3, <1>4, <1>5, <1>7 DEF Barrier!vars

-----------------------------------------------------------------------------
(***************************************************************************)
(* Every step is a step of the abstract barrier, or a stutter               *)
(***************************************************************************)

LEMMA ConfigureRefines ==
    ASSUME TypeInv, BarrierInv, NEW P \in SUBSET Clients, ConfigureFit(P)
    PROVE  Barrier!BeginRound(P)
<1>1. /\ phase = "idle" /\ phase' = "fit" /\ P # {} /\ participants' = P
      /\ replies' = [c \in Clients |-> IF c \in P THEN <<>> ELSE replies[c]]
      /\ UNCHANGED <<client_metrics, discounts, handler>>
      /\ QuietInv
  BY DEF ConfigureFit, BarrierInv, serverVars
<1>2. Members = {} /\ Members' = P
  BY <1>1 DEF Members
<1>3. /\ Submitted' = Submitted /\ Released' = Released /\ Early' = Early
      /\ Exceeding(client_metrics)' = Exceeding(client_metrics)
  <2>1. \A c \in Clients : handler[c] = "none"
    BY <1>1 DEF QuietInv
  <2>2. Early = {} /\ Early' = {}
    BY <2>1, <1>1, <1>2 DEF Early, Overtaker
  <2>3. Released = {} /\ Released' = {}
    BY <2>1, <1>1 DEF Released
  <2> QED BY <2>2, <2>3, <1>1 DEF Submitted, Exceeding, Over
<1>4. Told' = [c \in Clients |-> IF c \in P THEN "none" ELSE Told[c]]
  <2>1. \A c \in Clients : replies'[c] = IF c \in P THEN <<>> ELSE replies[c]
    BY <1>1
  <2> QED BY <2>1 DEF Told, StopTraining
<1> QED BY <1>1, <1>2, <1>3, <1>4 DEF Barrier!BeginRound

LEMMA ResetRefines ==
    ASSUME TypeInv, BarrierInv, NoOldDeaths', RefInv, ResetRoundState
    PROVE  Barrier!EndRound
<1>1. /\ phase = "fit" /\ phase' = "resetting" /\ client_metrics' = {}
      /\ \A c \in participants : client[c] \in {"fitted", "dead"}
      /\ UNCHANGED <<participants, replies, handler>>
      /\ FitInv /\ participants \subseteq Clients
  BY DEF ResetRoundState, BarrierInv, TypeInv, TypeOK
<1>2. \A c \in participants : client[c] = "fitted" /\ handler[c] = "none"
  <2>1. \A c \in Clients : client[c] # "dead"
    BY <1>1 DEF ResetRoundState, NoOldDeaths
  <2> QED BY <1>1, <2>1 DEF FitInv, CallOf, TypeInv, TypeOK
<1>3. Members # {} /\ Members = participants /\ Members' = {}
  BY <1>1 DEF Members, FitInv
<1>4. \A c \in Members : Told[c] = "stop"
  BY <1>1, <1>2, <1>3 DEF RefInv, StopTraining, Told
<1>5. Submitted = {}
  <2>1. PICK k \in Nat \ {0} : Collecting(k) \/ Releasing(k)
    BY <1>1 DEF BarrierInv, InBatch
  <2>2. ~Releasing(k)
    BY <1>1, <1>2, SomebodyWoken DEF TypeInv
  <2> QED BY <2>1, <2>2, <1>1, <1>2, CollectingView DEF TypeInv
<1>6. client_metrics = {} /\ \A c \in Clients : handler[c] = "none"
  BY <1>1, <1>2, <1>5 DEF Submitted, FitInv
<1>7. /\ Submitted' = Submitted /\ Released' = Released /\ Early' = Early
      /\ Exceeding(client_metrics)' = Exceeding(client_metrics)
  BY <1>1, <1>3, <1>6 DEF Submitted, Released, Exceeding, Early, Overtaker
<1>8. Told' = Told
  BY <1>1 DEF Told, StopTraining
<1> QED BY <1>3, <1>4, <1>5, <1>7, <1>8 DEF Barrier!EndRound

LEMMA QuietRefines ==
    ASSUME TypeInv, BarrierInv, UpdateThreshold \/ AggregateFit
    PROVE  UNCHANGED Barrier!vars
<1>1. /\ phase # "fit" /\ phase' # "fit" /\ QuietInv
      /\ UNCHANGED <<client_metrics, replies, handler>>
  BY DEF UpdateThreshold, AggregateFit, BarrierInv, serverVars
<1>2. client_metrics = {} /\ client_metrics' = {}
  BY <1>1 DEF QuietInv
<1>3. /\ Submitted = {} /\ Submitted' = {} /\ Released = {} /\ Released' = {}
      /\ Exceeding(client_metrics) = {} /\ Exceeding(client_metrics)' = {}
      /\ Early = {} /\ Early' = {}
  BY <1>1, <1>2 DEF Submitted, Exceeding, Released, Early, Members
<1>4. Members' = Members /\ Told' = Told
  BY <1>1 DEF Members, Told, StopTraining
<1> QED BY <1>3, <1>4 DEF Barrier!vars

LEMMA MetricExceeds ==
    ASSUME NEW c, NEW metrics
    PROVE  Exceeding(metrics \cup {Metric(c)}) \in
             {Exceeding(metrics), Exceeding(metrics) \cup {c}}
<1>1. Metric(c).client = c
  BY DEF Metric
<1>2. CASE Over(Metric(c).norm)
  BY <1>1, <1>2 DEF Exceeding
<1>3. CASE ~Over(Metric(c).norm)
  BY <1>1, <1>3 DEF Exceeding
<1> QED BY <1>2, <1>3

\* The client of a handler that has just got the lock has not been told to stop,
\* and has not submitted anything that the others wait to be told about.
LEMMA MaySubmit ==
    ASSUME TypeInv, FitInv, phase = "fit", RefInv, NEW c \in participants,
           handler[c] = "entered"
    PROVE  /\ c \in Members \ Early /\ Told[c] # "stop"
           /\ c \in Clients /\ CallOf(c)
<1>1. c \in Clients /\ CallOf(c) /\ ~StopTraining(c)
  BY DEF FitInv, CallOf, RefInv, TypeInv, TypeOK
<1>2. c \in Members \ Early
  BY DEF Members, Early, Overtaker
<1> QED BY <1>1, <1>2 DEF Told

LEMMA WaitRefines ==
    ASSUME TypeInv, BarrierInv, RefInv, NEW c \in Clients, Wait(c)
    PROVE  Barrier!Submit(c) \/ Barrier!SubmitEarly(c)
<1> DEFINE X == client_metrics \cup {Metric(c)}
<1>1. phase = "fit" /\ FitInv /\ c \in participants
  BY DEF Wait, BarrierInv, QuietInv, FitInv
<1>2. /\ handler[c] = "entered"
      /\ Cardinality(X) # num_clients[c] /\ client_metrics' = X
      /\ handler' = [handler EXCEPT ![c] = "waiting"]
      /\ UNCHANGED <<discounts, phase, participants, replies, sent>>
  BY DEF Wait, roundVars
<1>3. \A d \in Clients : handler'[d] = IF d = c THEN "waiting" ELSE handler[d]
  BY <1>2 DEF TypeInv, TypeOK
<1>4. c \in Members \ Early /\ Told[c] # "stop" /\ CallOf(c)
  BY <1>1, <1>2, MaySubmit
<1>5. Submitted' = Submitted \cup {c}
  <2>1. Metric(c).client = c
    BY DEF Metric
  <2>2. Submitted' = {m.client : m \in client_metrics \cup {Metric(c)}}
    BY <1>2 DEF Submitted
  <2> QED BY <2>1, <2>2 DEF Submitted
<1>6. /\ Exceeding(client_metrics)' = Exceeding(X)
      /\ Exceeding(X) \in {Exceeding(client_metrics), Exceeding(client_metrics) \cup {c}}
  <2>1. Exceeding(client_metrics)' = Exceeding(X)
    BY <1>2 DEF Exceeding, Over
  <2> QED BY <2>1, MetricExceeds
<1>7. Told' = Told /\ Members' = Members /\ Members = participants
  BY <1>1, <1>2 DEF Told, StopTraining, Members
<1>8. Released' = Released
  BY <1>2, <1>3, <1>7 DEF Released
<1>9. \A d \in Clients : /\ Metric(d)' = Metric(d)
                         /\ d # c => (Metric(d) \in X <=> Metric(d) \in client_metrics)
  BY <1>2 DEF Metric
<1>10. PICK k \in Nat \ {0} : Collecting(k) \/ Releasing(k)
  BY <1>1 DEF BarrierInv, InBatch
<1>11. CASE Collecting(k)
  <2>1. /\ c \notin Submitted /\ Released = {}
        /\ \A d \in Clients : handler[d] # "woken"
    BY <1>1, <1>2, <1>11, CollectingView DEF TypeInv
  <2>2. \A d \in Clients : Overtaker(d)' <=> Overtaker(d)
    <3>1. ~Overtaker(c) /\ ~Overtaker(c)'
      BY <1>2, <1>3, <1>9, <2>1 DEF Overtaker
    <3>2. ASSUME NEW d \in Clients, d # c PROVE Overtaker(d)' <=> Overtaker(d)
      BY <3>2, <1>2, <1>3, <1>9, <2>1 DEF Overtaker
    <3> QED BY <3>1, <3>2
  <2>3. Early' = Early
    BY <2>2, <1>7 DEF Early, TypeInv, TypeOK
  <2>4. Submitted \cup {c} # Members
    <3> SUFFICES ASSUME Submitted \cup {c} = participants PROVE FALSE
      BY <1>7
    <3> QED BY <1>1, <1>2, <1>11, LastCompletes
  <2> QED BY <2>1, <2>3, <2>4, <1>4, <1>5, <1>6, <1>7, <1>8 DEF Barrier!Submit
<1>12. CASE Releasing(k)
  <2>1. /\ Submitted = participants
        /\ Released = {d \in participants : handler[d] # "woken"}
        /\ Early = {d \in participants : handler[d] = "waiting"}
    BY <1>1, <1>12, ReleasingView
  <2>2. PICK w \in participants : handler[w] = "woken"
    BY <1>1, <1>12, SomebodyWoken DEF TypeInv
  <2>3. w \in Clients /\ handler'[w] = "woken"
    BY <2>2, <1>2, <1>3 DEF TypeInv, TypeOK
  <2>4. Early' = {d \in participants : handler'[d] = "waiting"}
    BY <2>3, <1>7 DEF Early, Overtaker
  <2>5. Early' = Early \cup {c}
    BY <2>1, <2>4, <1>1, <1>3 DEF TypeInv, TypeOK
  <2>6. c \in Released \ Early /\ Submitted' = Submitted
    BY <2>1, <1>1, <1>2, <1>4, <1>5
  <2> QED BY <2>5, <2>6, <1>4, <1>6, <1>7, <1>8 DEF Barrier!SubmitEarly
<1> QED BY <1>10, <1>11, <1>12

LEMMA NotifyRefines ==
    ASSUME TypeInv, BarrierInv, RefInv, NEW c \in Clients, NotifyAll(c)
    PROVE  Barrier!Submit(c)
<1> DEFINE X == client_metrics \cup {Metric(c)}
           others == [d \in Clients |->
                        IF handler[d] = "waiting" THEN "woken" ELSE handler[d]]
<1>1. phase = "fit" /\ FitInv /\ c \in participants /\ handler[c] = "entered"
  BY DEF NotifyAll, BarrierInv, QuietInv, FitInv
<1>2. PICK k \in Nat \ {0} :
        /\ Collecting(k) /\ X = BatchOf(k)
        /\ \A d \in participants : d # c => handler[d] = "waiting"
  <2>1. PICK k \in Nat \ {0} : Collecting(k) \/ Releasing(k)
    BY <1>1 DEF BarrierInv, InBatch
  <2> QED BY <1>1, <2>1, NotifierCompletes
<1>3. /\ c \in Members \ (Submitted \cup Early) /\ Told[c] # "stop" /\ CallOf(c)
      /\ Released = {}
  BY <1>1, <1>2, MaySubmit, CollectingView DEF TypeInv
<1>4. Submitted \cup {c} = Members /\ Members = participants
  <2>1. {m.client : m \in X} = participants
    BY <1>2, BatchClients
  <2>2. Metric(c).client = c
    BY DEF Metric
  <2>3. {m.client : m \in X} = Submitted \cup {c}
    BY <2>2 DEF Submitted
  <2> QED BY <2>1, <2>3, <1>1 DEF Members
<1>5. /\ Finish(c, X, others)
      /\ num_clients[c] = Cardinality(participants) /\ processed_clients = 0
  BY <1>1, <1>2, <1>3 DEF NotifyAll, CallOf, Collecting, FitInv
<1>6. /\ handler' = [others EXCEPT ![c] = "none"]
      /\ UNCHANGED <<discounts, phase, participants>>
      /\ IF Cardinality(participants) = 1
         THEN client_metrics' = {} ELSE client_metrics' = X
  BY <1>5 DEF Finish, Answer, roundVars
<1>7. Members' = Members
  BY <1>6 DEF Members
<1>8. Exceeding(X) \in {Exceeding(client_metrics), Exceeding(client_metrics) \cup {c}}
  BY MetricExceeds
<1>9. Told' = [Told EXCEPT ![c] = IF Exceeding(X) # {} THEN "stop" ELSE "continue"]
  <2> HIDE DEF X, others
  <2> QED BY <1>5, ToldByFinish DEF TypeInv
<1>10. IsFiniteSet(participants) /\ Cardinality(participants) \in Nat
  BY ParticipantsFinite DEF TypeInv, TypeOK
<1>11. \A d \in Clients : handler'[d] # "waiting"
  BY <1>6 DEF TypeInv, TypeOK
<1>12. Early = {} /\ Early' = {}
  <2>1. \A d \in participants : ~Overtaker(d)
    BY <1>1, <1>2, NoOvertakerAtNotify DEF TypeInv, TypeOK
  <2>2. \A d \in participants : d \in Clients
    BY DEF TypeInv, TypeOK
  <2>3. Early = {}
    BY <2>1, <1>4 DEF Early
  <2>4. Early' = {}
    BY <2>2, <1>4, <1>7, <1>11 DEF Early, Overtaker
  <2> QED BY <2>3, <2>4
<1>13. CASE Cardinality(participants) = 1
  <2>1. participants = {c}
    BY <1>1, <1>10, <1>13, FS_Singleton
  <2>2. Submitted' = {} /\ Exceeding(client_metrics)' = {}
    BY <1>6, <1>13 DEF Submitted, Exceeding
  <2>3. Released' = {}
    <3>1. \A d \in Clients : d # c => handler[d] = "none"
      BY <2>1, <1>1 DEF FitInv
    <3>2. \A d \in Clients : handler'[d] = "none"
      BY <3>1, <1>6 DEF TypeInv, TypeOK
    <3> QED BY <3>2 DEF Released
  <2>4. Barrier!Tell(c, Members, Exceeding(X))
    BY <2>1, <2>2, <2>3, <1>3, <1>4, <1>9 DEF Barrier!Tell
  <2> QED BY <2>4, <1>3, <1>4, <1>7, <1>8, <1>12 DEF Barrier!Submit
<1>14. CASE Cardinality(participants) # 1
  <2>1. participants # {c}
    BY <1>14, FS_Singleton
  <2>2. Submitted' = participants
    BY <1>2, <1>6, <1>14, BatchClients DEF Submitted
  <2>3. Exceeding(client_metrics)' = Exceeding(X)
    BY <1>6, <1>14 DEF Exceeding, Over
  <2>4. Released' = {c}
    <3>1. \A d \in participants : handler'[d] = IF d = c THEN "none" ELSE "woken"
      BY <1>2, <1>6 DEF TypeInv, TypeOK
    <3>2. PICK w \in participants : w # c
      BY <2>1, <1>1
    <3>3. handler'[w] = "woken" /\ w \in Clients /\ Members' = participants
      BY <3>1, <3>2, <1>4, <1>7 DEF TypeInv, TypeOK
    <3> QED BY <3>1, <3>3, <1>1 DEF Released
  <2>5. Barrier!Tell(c, Members, Exceeding(X))
    BY <2>1, <2>2, <2>3, <2>4, <1>3, <1>4, <1>9 DEF Barrier!Tell
  <2> QED BY <2>5, <1>3, <1>4, <1>7, <1>8, <1>12 DEF Barrier!Submit
<1> QED BY <1>13, <1>14

LEMMA ResumeRefines ==
    ASSUME TypeInv, BarrierInv, RefInv, NEW c \in Clients, Resume(c)
    PROVE  Barrier!Release(c)
<1>1. phase = "fit" /\ FitInv /\ c \in participants /\ CallOf(c) /\ handler[c] = "woken"
  BY DEF Resume, BarrierInv, QuietInv, FitInv
<1>2. PICK k \in Nat \ {0} : Releasing(k)
  BY <1>1 DEF BarrierInv, InBatch, Collecting
<1>3. /\ Members = participants /\ Submitted = participants
      /\ Released = {d \in participants : handler[d] # "woken"}
      /\ Released = Answered(k)
      /\ Early = {d \in participants : handler[d] = "waiting"}
  BY <1>1, <1>2, ReleasingView
<1>4. Released # {} /\ c \in Members \ Released
  BY <1>1, <1>3 DEF RefInv
<1>5. /\ Finish(c, client_metrics, handler)
      /\ num_clients[c] = Cardinality(participants)
      /\ processed_clients = Cardinality(Released)
  BY <1>1, <1>2, <1>3 DEF Resume, CallOf, FitInv, Releasing
<1>6. /\ handler' = [handler EXCEPT ![c] = "none"]
      /\ UNCHANGED <<discounts, phase, participants, sent>>
      /\ IF Cardinality(Released) + 1 = Cardinality(participants)
         THEN client_metrics' = {} ELSE client_metrics' = client_metrics
  BY <1>5 DEF Finish, Answer, roundVars
<1>7. Members' = Members
  BY <1>6 DEF Members
<1>8. Told' = [Told EXCEPT ![c] = IF Exceeding(client_metrics) # {}
                                 THEN "stop" ELSE "continue"]
  BY <1>5, ToldByFinish DEF TypeInv
<1>9. Cardinality(Released) + 1 = Cardinality(participants)
        <=> Released \cup {c} = participants
  <2>1. /\ IsFiniteSet(participants) /\ IsFiniteSet(Released \cup {c})
        /\ Released \cup {c} \subseteq participants
    BY <1>1, <1>3, ParticipantsFinite, FS_Subset DEF TypeInv, TypeOK
  <2>2. Cardinality(Released \cup {c}) = Cardinality(Released) + 1
    BY <1>4, <2>1, FS_Subset, FS_AddElement
  <2> QED BY <2>1, <2>2, FS_Subset
<1>10. \A d \in Clients : handler'[d] = IF d = c THEN "none" ELSE handler[d]
  BY <1>6 DEF TypeInv, TypeOK
<1>11. Early' = Early
  <2>1. \A d \in participants : d \in Clients
    BY DEF TypeInv, TypeOK
  <2>2. \A d \in participants : Overtaker(d) => Overtaker(d)'
    BY <2>1, <1>1, <1>2, OvertakersStayAtResume
  <2>3. \A d \in participants : handler'[d] = "waiting" => d \in Early
    BY <2>1, <1>3, <1>10
  <2>4. \A d \in participants : Overtaker(d)' => d \in Early
    BY <2>3 DEF Overtaker
  <2> QED BY <2>2, <2>4, <1>3, <1>7 DEF Early
<1>12. CASE Released \cup {c} = participants
  <2>1. Submitted' = {} /\ Exceeding(client_metrics)' = {}
    BY <1>6, <1>9, <1>12 DEF Submitted, Exceeding
  <2>2. Released' = {}
    <3>1. \A d \in Clients : d # c => handler[d] # "woken"
      BY <1>1, <1>3, <1>12 DEF FitInv
    <3>2. \A d \in Clients : handler'[d] # "woken"
      BY <3>1, <1>10
    <3> QED BY <3>2 DEF Released
  <2>3. Barrier!Tell(c, Submitted, Exceeding(client_metrics))
    BY <2>1, <2>2, <1>3, <1>8, <1>12 DEF Barrier!Tell
  <2> QED BY <2>3, <1>3, <1>4, <1>7, <1>11 DEF Barrier!Release
<1>13. CASE Released \cup {c} # participants
  <2>1. client_metrics' = client_metrics
    BY <1>6, <1>9, <1>13
  <2>2. /\ Submitted' = Submitted
        /\ Exceeding(client_metrics)' = Exceeding(client_metrics)
    BY <2>1, <1>6 DEF Submitted, Exceeding, Over
  <2>3. Released' = Released \cup {c}
    <3>1. \A d \in participants : d \in Clients
      BY DEF TypeInv, TypeOK
    <3>2. PICK w \in participants : w # c /\ handler[w] = "woken"
      BY <1>1, <1>3, <1>13
    <3>3. handler'[w] = "woken" /\ w \in Clients
      BY <3>1, <3>2, <1>10
    <3>4. Released' = {d \in participants : handler'[d] # "woken"}
      BY <3>3, <1>3, <1>7 DEF Released
    <3> QED BY <3>1, <3>4, <1>1, <1>3, <1>10
  <2>4. Barrier!Tell(c, Submitted, Exceeding(client_metrics))
    BY <2>2, <2>3, <1>3, <1>8, <1>13 DEF Barrier!Tell
  <2> QED BY <2>4, <1>3, <1>4, <1>7, <1>11 DEF Barrier!Release
<1> QED BY <1>12, <1>13

LEMMA StepRefines ==
    ASSUME TypeInv, BarrierInv, NoOldDeaths', RefInv, [Next]_vars
    PROVE  [Barrier!Next]_Barrier!vars
<1>1. ASSUME NEW P \in SUBSET Clients, ConfigureFit(P) PROVE Barrier!Next
  BY <1>1, ConfigureRefines DEF Barrier!Next
<1>2. CASE ResetRoundState
  BY <1>2, ResetRefines DEF Barrier!Next
<1>3. CASE UpdateThreshold \/ AggregateFit
  BY <1>3, QuietRefines
<1>4. ASSUME NEW c \in Clients, Train(c) \/ Dispatch(c) PROVE UNCHANGED Barrier!vars
  <2>1. /\ UNCHANGED <<client_metrics, discounts, replies, phase, participants>>
        /\ handler[c] \in {"none", "queued"} \/ UNCHANGED <<handler, sent>>
        /\ handler'[c] \in {"queued", "entered"} \/ UNCHANGED <<handler, sent>>
        /\ \A d \in Clients : d # c => handler'[d] = handler[d] /\ sent'[d] = sent[d]
    BY <1>4 DEF Train, TrainBatch, ReturnFromFit, Dispatch, serverVars, roundVars,
                TypeInv, TypeOK, CallInv
  <2> QED BY <2>1, SameView DEF TypeInv
<1>5. ASSUME NEW c \in Clients, Wait(c) \/ NotifyAll(c) \/ Resume(c) PROVE Barrier!Next
  BY <1>5, WaitRefines, NotifyRefines, ResumeRefines DEF Barrier!Next
<1>6. CASE UNCHANGED vars
  BY <1>6, SameView DEF vars, serverVars, roundVars, TypeInv
<1>7. ASSUME NEW c \in Clients, Crash(c) PROVE UNCHANGED Barrier!vars
  BY <1>7, SameView DEF Crash, serverVars, roundVars, TypeInv
<1> QED BY <1>1, <1>2, <1>3, <1>4, <1>5, <1>6, <1>7
       DEF Next, Server, Train, Handle, Finished

LEMMA RefInvariant == Spec => [](NoOldDeaths => RefInv)
<1>1. Init => RefInv
  BY DEF Init, RefInv
<1>2. /\ TypeInv /\ (NoOldDeaths => BarrierInv) /\ (NoOldDeaths => RefInv) /\ [Next]_vars
      => (NoOldDeaths => RefInv)'
  BY RefKeeps, NoOldDeathsBefore DEF TypeInv
<1> QED BY <1>1, <1>2, BarrierInvariant, PTL DEF Spec

\* The metric server, with its threads, its lock that anybody may take, counters
\* and one list for all batches, keeps the promise of the abstract barrier, as
\* long as nobody who has died is left over from an earlier round.
THEOREM BarrierImplementedWithDeaths == Spec /\ []NoOldDeaths => ImplementsBarrier
<1>1. Init => Barrier!Init
  BY DEF Init, Barrier!Init, Members, Submitted, Exceeding, Released, Early, Told
<1>2. TypeInv /\ BarrierInv /\ RefInv /\ NoOldDeaths' /\ [Next]_vars
        => [Barrier!Next]_Barrier!vars
  BY StepRefines
<1> QED BY <1>1, <1>2, BarrierInvariant, RefInvariant, PTL
       DEF Spec, ImplementsBarrier, Barrier!Spec

\* If nobody dies, it is one throughout the experiment.
COROLLARY BarrierImplemented ==
    ASSUME MaxCrashes = 0
    PROVE  Spec => ImplementsBarrier
<1>1. Spec => []NoOldDeaths
  BY NobodyDies
<1>2. Spec /\ []NoOldDeaths => ImplementsBarrier
  BY BarrierImplementedWithDeaths
<1> QED BY <1>1, <1>2, PTL

-----------------------------------------------------------------------------
(***************************************************************************)
(* Nobody is left waiting for somebody who waits                            *)
(***************************************************************************)

\* With a thread for every participant, a call in the queue finds one.
LEMMA ThreadForEverybody ==
    ASSUME TypeInv, FitInv, Cardinality(participants) <= Workers,
           NEW c \in participants, handler[c] = "queued"
    PROVE  WorkerFree
<1>1. Busy \subseteq participants \ {c}
  BY DEF Busy, FitInv
<1>2. IsFiniteSet(participants) /\ Cardinality(participants) \in Nat
  BY ParticipantsFinite DEF TypeInv, TypeOK
<1>3. /\ IsFiniteSet(participants \ {c})
      /\ Cardinality(participants \ {c}) = Cardinality(participants) - 1
  BY <1>2, FS_RemoveElement
<1>4. Cardinality(Busy) <= Cardinality(participants) - 1 /\ Cardinality(Busy) \in Nat
  BY <1>1, <1>3, FS_Subset, FS_CardinalityType
<1> QED BY <1>2, <1>4, WorkersPositive DEF WorkerFree

\* In a batch that is collected, if no metric has been lost, all participants have
\* been told the same: those told to stop have nobody still calling beside them.
LEMMA NobodyReturnsAlone ==
    ASSUME TypeInv, FitInv, RefInv, phase = "fit", DecisionSound, WaitingIsCounted,
           NEW k \in Nat \ {0}, Collecting(k),
           NEW c \in participants, StopTraining(c), NEW d \in participants
    PROVE  handler[d] = "none"
<1> SUFFICES ASSUME handler[d] # "none" PROVE FALSE
  OBVIOUS
<1>1. ~StopTraining(d)
  BY DEF RefInv
<1>2. c \in Clients /\ d \in Clients
  BY DEF TypeInv, TypeOK
<1>3. /\ Len(replies[c]) = k - 1 /\ Len(replies[d]) = k - 1
      /\ Len(replies[c]) \in Nat /\ replies[d] \in Seq(BOOLEAN)
  BY <1>2, LenSent DEF Collecting, TypeInv
<1>4. k - 1 \in 1..Len(replies[c]) /\ replies[c][k - 1]
  <2>1. replies[c] # <<>> /\ replies[c] \in Seq(BOOLEAN)
    BY <1>2 DEF StopTraining, TypeInv, TypeOK
  <2>2. Len(replies[c]) # 0
    BY <2>1, EmptySeq
  <2> QED BY <2>2, <1>3 DEF StopTraining
<1>5. replies[d][k - 1]
  <2>1. k - 1 \in 1..Len(replies[d])
    BY <1>3, <1>4
  <2>2. \A e \in participants : ~Overtaker(e)
    BY CollectingView DEF Overtaker, WaitingIsCounted, TypeInv, TypeOK
  <2>3. ExceedsIn(k - 1)
    BY <2>2, <1>4 DEF DecisionSound, OvertakenIn
  <2> QED BY <2>1, <2>3 DEF DecisionSound
<1>6. replies[d] # <<>>
  <2>1. Len(replies[d]) # 0
    BY <1>3, <1>4
  <2> QED BY <2>1
<1> QED BY <1>1, <1>3, <1>5, <1>6 DEF StopTraining

\* For any number of clients, whoever has died in the round and in whatever order
\* handlers get the lock: as long as the executor has a thread for every
\* participant and no metric has been lost, those that are left hang only for a
\* client that has died without its norm.
THEOREM NeverAllWait == Spec => [](NoOldDeaths => SomebodyCanGoOn)
<1>1. TypeInv /\ BarrierInv /\ RefInv => SomebodyCanGoOn
  <2> SUFFICES ASSUME TypeInv, BarrierInv, RefInv, phase = "fit",
                      Cardinality(participants) <= Workers, WaitingIsCounted,
                      \A c \in participants : ~DiedOwing(c),
                      \A c \in participants : ~CanGoOn(c)
               PROVE  \A c \in participants : HasLeft(c)
    BY DEF SomebodyCanGoOn
  <2>1. FitInv /\ DecisionSound /\ participants \subseteq Clients
    BY DEF BarrierInv, TypeInv, TypeOK
  <2>2. \A c \in participants : handler[c] \in {"none", "waiting"}
    <3> SUFFICES ASSUME NEW c \in participants PROVE handler[c] \in {"none", "waiting"}
      OBVIOUS
    <3>1. handler[c] # "queued"
      BY <2>1, ThreadForEverybody DEF CanGoOn
    <3> QED BY <2>1, <3>1 DEF CanGoOn, TypeInv, TypeOK
  <2>3. ASSUME NEW c \in participants, handler[c] = "none"
        PROVE  HasLeft(c) /\ StopTraining(c)
    <3>1. client[c] \in {"fitted", "dead"}
      BY <2>1, <2>3 DEF FitInv, CallOf, CanGoOn
    <3>2. StopTraining(c)
      BY <2>3, <3>1 DEF RefInv, DiedOwing
    <3> QED BY <2>3, <3>1, <3>2 DEF HasLeft
  <2>4. PICK k \in Nat \ {0} : Collecting(k)
    BY <2>1, <2>2, SomebodyWoken DEF BarrierInv, InBatch, TypeInv
  <2>5. PICK c \in participants : handler[c] # "waiting"
    BY DEF RefInv
  <2>6. StopTraining(c)
    BY <2>2, <2>3, <2>5
  <2>7. \A d \in participants : handler[d] = "none"
    BY <2>1, <2>4, <2>6, NobodyReturnsAlone
  <2> QED BY <2>3, <2>7
<1> QED BY <1>1, BarrierInvariant, RefInvariant, PTL

\* The hypothesis discharged: nobody dies, or the experiment has one round.
COROLLARY NeverAllWaitInOneRound ==
    ASSUME MaxCrashes = 0 \/ MaxRounds <= 1
    PROVE  Spec => []SomebodyCanGoOn
<1>1. ~(phase = "fit") => SomebodyCanGoOn
  BY DEF SomebodyCanGoOn
<1>2. Spec => [](phase = "fit" => NoOldDeaths)
  BY FitWithoutOldDeaths
<1> QED BY <1>1, <1>2, NeverAllWait, PTL
=============================================================================
