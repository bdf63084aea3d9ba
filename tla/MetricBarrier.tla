--------------------------- MODULE MetricBarrier ----------------------------
(***************************************************************************)
(* The metric server (geom/server/metric_server.py), the clients' training  *)
(* loop as far as it talks to it (geom/client/callback.py,                  *)
(* geom/utils/model.py), and the part of a federated round that starts and  *)
(* ends their training (geom/server/strategy.py).                           *)
(*                                                                         *)
(* A call of SendMetricAndWait is one handler thread of the gRPC executor.  *)
(* Its critical sections are atomic: metrics_lock is held from `with` to    *)
(* condition.wait(), and from the wake-up to the end.  Between the two the   *)
(* handler holds nothing, and a woken handler competes for the lock with    *)
(* the calls that have just arrived: whoever is next may be any of them.    *)
(***************************************************************************)
EXTENDS Integers, Sequences, FiniteSets

CONSTANTS
    Clients,     \* the Flower clients of the experiment
    Workers,     \* cfg.thread_max_workers of the metric server
    Norms,       \* classes of norm: a norm of class r is over the threshold
                 \* from the r-th discount of the threshold on
    MaxBatch,    \* bound: the norms of batch number MaxBatch are all over
    MaxRounds,   \* cfg.num_rounds
    MaxCrashes   \* bound on the number of clients that die

ASSUME ClientsFinite == IsFiniteSet(Clients)
ASSUME WorkersPositive == Workers \in Nat \ {0}
ASSUME NormsFromZero == Norms \subseteq Nat /\ 0 \in Norms
ASSUME BoundsNat == MaxBatch \in Nat \ {0} /\ MaxRounds \in Nat /\ MaxCrashes \in Nat

VARIABLES
    \* MetricServer
    client_metrics,    \* the list, as the set of its entries
    processed_clients,
    discounts,         \* how often the threshold has been discounted
    handler,           \* the handler thread of each client's call
    num_clients,       \* the local of each handler, read before the lock
    \* Monitor
    num_fit_clients,
    \* the Flower server's round
    phase, round, participants,
    \* the clients
    client,            \* what each client is doing
    sent,              \* the norms each client has sent in its round
    replies            \* the stop_round answers to them

serverVars == <<client_metrics, processed_clients, discounts>>
roundVars  == <<num_fit_clients, phase, round, participants>>
vars == <<serverVars, handler, num_clients, roundVars, client, sent, replies>>

Entries == [client : Clients, batch : Nat \ {0}, norm : Norms]

TypeOK ==
    /\ client_metrics \subseteq Entries
    /\ processed_clients \in Nat
    /\ discounts \in Nat
    /\ handler \in [Clients -> {"none", "queued", "entered", "waiting", "woken"}]
    /\ num_clients \in [Clients -> Nat]
    /\ num_fit_clients \in Nat
    /\ phase \in {"idle", "fit", "resetting", "reset"}
    /\ round \in Nat
    /\ participants \subseteq Clients
    /\ client \in [Clients -> {"idle", "training", "calling", "fitted", "dead"}]
    /\ sent \in [Clients -> Seq(Norms)]
    /\ replies \in [Clients -> Seq(BOOLEAN)]

Init ==
    /\ client_metrics = {}
    /\ processed_clients = 0
    /\ discounts = 0
    /\ handler = [c \in Clients |-> "none"]
    /\ num_clients = [c \in Clients |-> 0]
    /\ num_fit_clients = 0
    /\ phase = "idle"
    /\ round = 0
    /\ participants = {}
    /\ client = [c \in Clients |-> "idle"]
    /\ sent = [c \in Clients |-> <<>>]
    /\ replies = [c \in Clients |-> <<>>]

-----------------------------------------------------------------------------
(***************************************************************************)
(* The Flower server's round                                                *)
(***************************************************************************)

\* configure_fit publishes the number of clients left after the dropouts and
\* the clients start to fit, each with stop_training reset (resume_train).
ConfigureFit(P) ==
    /\ phase = "idle"
    /\ round < MaxRounds
    /\ P # {}
    /\ \A c \in P : client[c] = "idle"
    /\ participants' = P
    /\ num_fit_clients' = Cardinality(P)
    /\ round' = round + 1
    /\ phase' = "fit"
    /\ client' = [c \in Clients |-> IF c \in P THEN "training" ELSE client[c]]
    /\ sent' = [c \in Clients |-> IF c \in P THEN <<>> ELSE sent[c]]
    /\ replies' = [c \in Clients |-> IF c \in P THEN <<>> ELSE replies[c]]
    /\ UNCHANGED <<serverVars, handler, num_clients>>

\* The threads of the executor that are running a handler.
Busy == {c \in Clients : handler[c] \in {"entered", "waiting", "woken"}}

\* (mutant) One thread is kept back.
WorkerFreeMinusOne == Cardinality(Busy) + 1 < Workers

WorkerFree == Cardinality(Busy) < Workers

\* Every client has returned from fit or died: aggregate_fit calls
\* ResetRoundState, which needs a worker but takes no lock.
ResetRoundState ==
    /\ phase = "fit"
    /\ \A c \in participants : client[c] \in {"fitted", "dead"}
    /\ WorkerFree
    /\ client_metrics' = {}
    /\ phase' = "resetting"
    /\ UNCHANGED <<processed_clients, discounts, handler, num_clients,
                   num_fit_clients, round, participants, client, sent, replies>>

\* The second half of ResetRoundState: threshold * threshold_discount_factor.
UpdateThreshold ==
    /\ phase = "resetting"
    /\ discounts' = discounts + 1
    /\ phase' = "reset"
    /\ UNCHANGED <<client_metrics, processed_clients, handler, num_clients,
                   num_fit_clients, round, participants, client, sent, replies>>

\* Back in aggregate_fit: set_fit_clients(0).
AggregateFit ==
    /\ phase = "reset"
    /\ num_fit_clients' = 0
    /\ participants' = {}
    /\ phase' = "idle"
    /\ client' = [c \in Clients |->
                    IF client[c] = "fitted" THEN "idle" ELSE client[c]]
    /\ UNCHANGED <<serverVars, handler, num_clients, round, sent, replies>>

-----------------------------------------------------------------------------
(***************************************************************************)
(* The training clients                                                     *)
(***************************************************************************)

Over(norm) == discounts >= norm

\* stop_training: set by the callback, reset at the start of fit.
StopTraining(c) == replies[c] # <<>> /\ replies[c][Len(replies[c])]

\* One turn of the training loop: train_step, then the callback's call.  The
\* threshold only falls and the model only moves on: MaxBatch batches away
\* from the round's start every norm is over it.
TrainBatch(c) ==
    /\ client[c] = "training"
    /\ ~StopTraining(c)
    /\ \E norm \in Norms :
         /\ Len(sent[c]) + 1 >= MaxBatch => Over(norm)
         /\ sent' = [sent EXCEPT ![c] = Append(@, norm)]
    /\ client' = [client EXCEPT ![c] = "calling"]
    /\ handler' = [handler EXCEPT ![c] = "queued"]
    /\ UNCHANGED <<serverVars, num_clients, roundVars, replies>>

\* The check at the top of the loop finds stop_training set: fit returns.
ReturnFromFit(c) ==
    /\ client[c] = "training"
    /\ StopTraining(c)
    /\ client' = [client EXCEPT ![c] = "fitted"]
    /\ UNCHANGED <<serverVars, handler, num_clients, roundVars, sent, replies>>

\* A participant dies.  Its handler, if any, knows nothing of it.
Crash(c) ==
    /\ c \in participants
    /\ client[c] \in {"training", "calling"}
    /\ Cardinality({d \in Clients : client[d] = "dead"}) < MaxCrashes
    /\ client' = [client EXCEPT ![c] = "dead"]
    /\ UNCHANGED <<serverVars, handler, num_clients, roundVars, sent, replies>>

-----------------------------------------------------------------------------
(***************************************************************************)
(* SendMetricAndWait                                                        *)
(***************************************************************************)

\* (mutant) The number of clients read is that of the clients still alive.
DispatchCountsLiving(c) ==
    /\ handler[c] = "queued"
    /\ WorkerFree
    /\ handler' = [handler EXCEPT ![c] = "entered"]
    /\ num_clients' = [num_clients EXCEPT ![c] =
                         Cardinality({d \in participants : client[d] # "dead"})]
    /\ UNCHANGED <<serverVars, roundVars, client, sent, replies>>

\* A worker takes the call up and reads the number of clients, without lock.
Dispatch(c) ==
    /\ handler[c] = "queued"
    /\ WorkerFree
    /\ handler' = [handler EXCEPT ![c] = "entered"]
    /\ num_clients' = [num_clients EXCEPT ![c] = num_fit_clients]
    /\ UNCHANGED <<serverVars, roundVars, client, sent, replies>>

\* The parts of Finish that its mutants share with it.
Answer(c, metrics, others) ==
    /\ replies' = [replies EXCEPT ![c] =
                     Append(@, \E m \in metrics : Over(m.norm))]
    /\ handler' = [others EXCEPT ![c] = "none"]
    /\ client' = [client EXCEPT ![c] = IF @ = "dead" THEN "dead" ELSE "training"]
    /\ UNCHANGED <<discounts, num_clients, roundVars, sent>>

\* (mutant) The list is cleared by the first handler to finish.
FinishClearsEarly(c, metrics, others) ==
    /\ Answer(c, metrics, others)
    /\ client_metrics' = {}
    /\ processed_clients' =
         IF processed_clients + 1 = num_clients[c] THEN 0 ELSE processed_clients + 1

\* (mutant) The batch reset forgets the counter.
FinishKeepsCount(c, metrics, others) ==
    /\ Answer(c, metrics, others)
    /\ client_metrics' = IF processed_clients + 1 = num_clients[c] THEN {} ELSE metrics
    /\ processed_clients' = processed_clients + 1

\* The last lines of the handler of c, with the list equal to `metrics`; the
\* others' handlers go on as in `others`.
Finish(c, metrics, others) ==
    /\ Answer(c, metrics, others)
    /\ IF processed_clients + 1 = num_clients[c]
       THEN client_metrics' = {} /\ processed_clients' = 0
       ELSE /\ client_metrics' = metrics
            /\ processed_clients' = processed_clients + 1

\* The entry that the handler of c appends.
Metric(c) == [client |-> c, batch |-> Len(sent[c]), norm |-> sent[c][Len(sent[c])]]

\* The list is not complete: condition.wait() releases the lock.  Handlers of
\* the batch before may still be woken: nothing keeps the call from overtaking
\* them.
Wait(c) ==
    /\ handler[c] = "entered"
    /\ Cardinality(client_metrics \cup {Metric(c)}) # num_clients[c]
    /\ client_metrics' = client_metrics \cup {Metric(c)}
    /\ handler' = [handler EXCEPT ![c] = "waiting"]
    /\ UNCHANGED <<processed_clients, discounts, num_clients, roundVars,
                   client, sent, replies>>

\* (mutant) The last norm but one completes the list.
NotifyEarly(c) ==
    /\ handler[c] = "entered"
    /\ Cardinality(client_metrics \cup {Metric(c)}) >= num_clients[c] - 1
    /\ Finish(c, client_metrics \cup {Metric(c)},
              [d \in Clients |-> IF handler[d] = "waiting" THEN "woken" ELSE handler[d]])

\* (mutant) notify() for notify_all(): one waiting handler is woken.
NotifyOne(c) ==
    /\ handler[c] = "entered"
    /\ Cardinality(client_metrics \cup {Metric(c)}) = num_clients[c]
    /\ \/ \E d \in Clients :
            /\ handler[d] = "waiting"
            /\ Finish(c, client_metrics \cup {Metric(c)}, [handler EXCEPT ![d] = "woken"])
       \/ /\ \A d \in Clients : handler[d] # "waiting"
          /\ Finish(c, client_metrics \cup {Metric(c)}, handler)

\* The list is complete: notify_all, and this handler goes on.
NotifyAll(c) ==
    /\ handler[c] = "entered"
    /\ Cardinality(client_metrics \cup {Metric(c)}) = num_clients[c]
    /\ Finish(c, client_metrics \cup {Metric(c)},
              [d \in Clients |-> IF handler[d] = "waiting" THEN "woken" ELSE handler[d]])

\* A notified handler has the lock again.
Resume(c) ==
    /\ handler[c] = "woken"
    /\ Finish(c, client_metrics, handler)

-----------------------------------------------------------------------------
\* num_rounds are over: the Flower server returns, the clients disconnect.
Finished ==
    /\ phase = "idle"
    /\ round = MaxRounds
    /\ UNCHANGED vars

Server == ResetRoundState \/ UpdateThreshold \/ AggregateFit

Handle(c) == Dispatch(c) \/ Wait(c) \/ NotifyAll(c) \/ Resume(c)

Train(c) == TrainBatch(c) \/ ReturnFromFit(c)

Next ==
    \/ \E P \in SUBSET Clients : ConfigureFit(P)
    \/ Server
    \/ \E c \in Clients : Train(c) \/ Handle(c) \/ Crash(c)
    \/ Finished

Spec == Init /\ [][Next]_vars

\* Threads and clients that can go on do: the executor serves its queue, the
\* lock is always released, and train_step returns.  Clients need not die.
Fairness ==
    /\ WF_vars(Server)
    /\ \A c \in Clients : WF_vars(Train(c)) /\ WF_vars(Handle(c))

FairSpec == Spec /\ Fairness

-----------------------------------------------------------------------------
(***************************************************************************)
(* Properties                                                               *)
(***************************************************************************)

\* No client is answered for a batch before every participant of the round has
\* sent its norm of that batch: SendMetricAndWait waits.
NoEarlyAnswer ==
    phase = "fit" =>
        \A c, d \in participants : Len(replies[c]) <= Len(sent[d])

\* A call has overtaken the batch before if its handler waits while others are
\* still woken, or if its metric has been discarded since, with their batch.
Overtaker(c) ==
    /\ handler[c] = "waiting"
    /\ \/ \E d \in Clients : handler[d] = "woken"
       \/ Metric(c) \notin client_metrics

\* A norm of batch k is over the threshold of the round; so is one of an overtaker
\* of batch k.
ExceedsIn(k) == \E c \in participants : k <= Len(sent[c]) /\ Over(sent[c][k])

OvertakenIn(k) ==
    \E c \in participants :
        Overtaker(c) /\ Len(sent[c]) = k + 1 /\ Over(sent[c][k + 1])

\* The answer to batch k is "stop" if a participant's norm of batch k is over the
\* threshold of the round.  A "stop" for any other reason is due to the norm of a
\* call for the next batch that has overtaken this one.
DecisionSound ==
    phase = "fit" =>
        \A c \in participants : \A k \in 1..Len(replies[c]) :
            /\ ExceedsIn(k) => replies[c][k]
            /\ replies[c][k] => ExceedsIn(k) \/ OvertakenIn(k)

\* Every handler that waits has its metric in the list, so the batch reset has
\* discarded only metrics that were answered.
WaitingIsCounted ==
    \A c \in Clients : handler[c] = "waiting" => Metric(c) \in client_metrics

\* A call that has overtaken the batch before is never answered: the others'
\* norms do not complete the list without the one that was discarded.
OvertakersHang ==
    [][\A c \in Clients : Overtaker(c) => Overtaker(c)']_vars

\* When a round has been configured and nobody has sent a norm yet, the server
\* carries nothing over from earlier rounds, in its counters or its threads.
RoundStartsClean ==
    (phase = "fit" /\ \A c \in participants : sent[c] = <<>>) =>
        /\ client_metrics = {}
        /\ processed_clients = 0
        /\ Busy = {}
        /\ discounts = round - 1

\* While the executor has a thread for every participant and no metric has been
\* discarded unanswered, those left of a round hang only for a client that has
\* died owing a norm: a death after the call, or after the last answer, is not
\* waited for.  Unless the round is over, some client or handler can go on.
CanGoOn(c) ==
    \/ client[c] = "training"
    \/ handler[c] = "queued" /\ WorkerFree
    \/ handler[c] \in {"entered", "woken"}

DiedOwing(c) == client[c] = "dead" /\ handler[c] = "none" /\ ~StopTraining(c)

HasLeft(c) == client[c] \in {"fitted", "dead"} /\ handler[c] = "none"

SomebodyCanGoOn ==
    /\ phase = "fit"
    /\ Cardinality(participants) <= Workers
    /\ WaitingIsCounted
    /\ \A c \in participants : ~DiedOwing(c)
    => \/ \A c \in participants : HasLeft(c)
       \/ \E c \in participants : CanGoOn(c)

\* Every round that starts is completed, unless a metric is discarded unanswered:
\* nobody waits for ever at the barrier for any other reason.
RoundCompletes == (phase = "fit") ~> (phase = "idle" \/ ~WaitingIsCounted)

\* The promise of FDABarrier: the list is the batch's submissions, and once it is
\* complete the members not woken are those told, or ahead of the others.
Members == IF phase = "fit" THEN participants ELSE {}
Submitted == {m.client : m \in client_metrics}
Exceeding(metrics) == {m.client : m \in {x \in metrics : Over(x.norm)}}
Released == IF \E c \in Clients : handler[c] = "woken"
            THEN {c \in Members : handler[c] # "woken"} ELSE {}
Early == {c \in Members : Overtaker(c)}
Told == [c \in Clients |-> IF replies[c] = <<>> THEN "none"
                           ELSE IF StopTraining(c) THEN "stop" ELSE "continue"]

Barrier == INSTANCE FDABarrier WITH
    members <- Members, submitted <- Submitted, exceeding <- Exceeding(client_metrics),
    released <- Released, early <- Early, told <- Told

ImplementsBarrier == Barrier!Spec
=============================================================================
