---------------------------- MODULE ModelTransfer ----------------------------
(***************************************************************************)
(* One simulated round of ns-3: the server application sends the model to   *)
(* every client of the round, a client that has all of it waits 20 seconds  *)
(* for its training and sends as much back (fl-server.cc,                   *)
(* fl-client-application.cc, fl-client-session.cc, fl-experiment.cc).       *)
(*                                                                         *)
(* An action is an event of the simulator.  The unit of data is the packet  *)
(* the applications send.  TCP delivers what it is given, in order, while   *)
(* the link is up; the delivery of a packet and the acknowledgement that    *)
(* frees its place in the sender's buffer are one event.                    *)
(***************************************************************************)
EXTENDS Integers, FiniteSets

CONSTANTS
    Clients,   \* the clients in the round
    NoEvent,   \* m_sendEvent when it has been run, or never set
    Model,     \* m_bytesModel, in packets
    Buffer     \* what a socket's transmission buffer takes, in packets

ASSUME ClientsInRound == IsFiniteSet(Clients) /\ NoEvent \notin Clients
\* SndBufSize and RcvBufSize are 128 KB, the models 1.4 MB and more.
ASSUME ModelExceedsBuffer == Model \in Nat /\ Buffer \in Nat /\ 0 < Buffer /\ Buffer < Model

\* After so many cycles of one client an asynchronous round is over.
LastCycle == 3

VARIABLES
    async,       \* m_bAsync
    up,          \* does the client's link carry packets?
    accepted,    \* the clients in m_socketList
    session,     \* ClientSessionData of each client, and its socket
    app,         \* ClientApplication of each client, and its socket
    sendEvent,   \* Server::m_sendEvent: the socket of the event set last
    others,      \* the events set before it that have not run yet, per socket
    cycle,       \* ClientSession::m_cycle
    firstDone,   \* ClientSessionManager::m_nInRoundFirstCycleDone
    stopped      \* Simulator::Run has returned

vars == <<async, up, accepted, session, app, sendEvent, others, cycle,
          firstDone, stopped>>

Stamps == 0..(2 + 2 * Model * LastCycle)

TypeOK ==
    /\ async \in BOOLEAN
    /\ up \in [Clients -> BOOLEAN]
    /\ accepted \subseteq Clients
    /\ session \in [Clients ->
         [toSend : 0..Model, toReceive : 0..Model, received : Nat,
          tx : 0..Buffer, onSend : BOOLEAN, begin : Stamps, end : Stamps]]
    /\ app \in [Clients ->
         [toReceive : 0..Model, received : Nat, toSend : 0..Model,
          tx : 0..Buffer, next : {"training", "event", "callback", "none"},
          begin : Stamps, end : Stamps]]
    /\ sendEvent \in Clients \cup {NoEvent}
    /\ others \in [Clients -> Nat]
    /\ cycle \in [Clients -> 0..LastCycle]
    /\ firstDone \in 0..Cardinality(Clients)
    /\ stopped \in BOOLEAN

\* The client's link counts the time: 0 is a stamp that was never set, 1 the
\* start of the client's application, and every packet takes some time.
Now(c) == 2 + app[c].received + session[c].received

Init ==
    /\ async \in BOOLEAN
    /\ up = [c \in Clients |-> TRUE]
    /\ accepted = {}
    /\ session = [c \in Clients |->
         [toSend |-> 0, toReceive |-> 0, received |-> 0, tx |-> 0,
          onSend |-> FALSE, begin |-> 0, end |-> 0]]
    /\ app = [c \in Clients |->
         [toReceive |-> 0, received |-> 0, toSend |-> 0, tx |-> 0,
          next |-> "none", begin |-> 1, end |-> 0]]
    /\ sendEvent = NoEvent
    /\ others = [c \in Clients |-> 0]
    /\ cycle = [c \in Clients |-> 0]
    /\ firstDone = 0
    /\ stopped = FALSE

-----------------------------------------------------------------------------
(***************************************************************************)
(* The server                                                               *)
(***************************************************************************)

\* Simulator::Schedule sets m_sendEvent; the event it held goes on pending.
Schedule(c, event, older) ==
    /\ sendEvent' = c
    /\ others' = IF event = NoEvent THEN older ELSE [older EXCEPT ![event] = @ + 1]

Unscheduled(event, older) == sendEvent' = event /\ others' = older

\* (mutant) A send that finds no room in the buffer is taken for done.
SendModelDrops(c, s, event, older) ==
    LET sent == [s EXCEPT !.toSend = @ - 1, !.tx = IF @ = Buffer THEN @ ELSE @ + 1]
    IN  IF s.toSend = 0
        THEN /\ session' = [session EXCEPT ![c] = s]
             /\ Unscheduled(event, older)
        ELSE /\ session' = [session EXCEPT ![c] = sent]
             /\ IF sent.toSend > 0 THEN Schedule(c, event, older)
                ELSE Unscheduled(event, older)

\* (mutant) Once the buffer has been full, nobody asks to hear of room in it.
SendModelForgets(c, s, event, older) ==
    LET sent == [s EXCEPT !.toSend = @ - 1, !.tx = @ + 1]
    IN  IF s.tx = Buffer \/ s.toSend = 0
        THEN /\ session' = [session EXCEPT ![c] = s]
             /\ Unscheduled(event, older)
        ELSE /\ session' = [session EXCEPT ![c] = sent]
             /\ IF sent.toSend > 0 THEN Schedule(c, event, older)
                ELSE Unscheduled(event, older)

\* SendModel on the socket of c, whose session is s, with the events `event`
\* and `older` pending: one packet if there is room, and an event for the next.
SendModel(c, s, event, older) ==
    LET sent == [s EXCEPT !.toSend = @ - 1, !.tx = @ + 1]
    IN  IF s.tx = Buffer
        THEN /\ session' = [session EXCEPT ![c] = [s EXCEPT !.onSend = TRUE]]
             /\ Unscheduled(event, older)
        ELSE IF s.toSend = 0
        THEN /\ session' = [session EXCEPT ![c] = s]
             /\ Unscheduled(event, older)
        ELSE /\ session' = [session EXCEPT ![c] = sent]
             /\ IF sent.toSend > 0 THEN Schedule(c, event, older)
                ELSE Unscheduled(event, older)

\* (mutant) Only what the server has to send is set, and not what it gets back.
StartSendingOneWay(c, s) ==
    SendModel(c, [s EXCEPT !.toSend = Model], sendEvent, others)

StartSendingModel(c, s) ==
    SendModel(c, [s EXCEPT !.toSend = Model, !.toReceive = Model], sendEvent, others)

\* The connection is made: ConnectionSucceeded at the client, then
\* NewConnectionCreatedCallback at the server.
Connect(c) ==
    /\ ~stopped /\ up[c]
    /\ c \notin accepted
    /\ accepted' = accepted \cup {c}
    /\ app' = [app EXCEPT ![c].toReceive = Model, ![c].toSend = 0]
    /\ StartSendingModel(c, session[c])
    /\ UNCHANGED <<async, up, cycle, firstDone, stopped>>

\* A pending event runs: SendModel, or nothing if the socket has been closed
\* because its link is down.
RunSendEvent(c) ==
    /\ ~stopped
    /\ \E latest \in BOOLEAN :
         LET event == IF latest THEN NoEvent ELSE sendEvent
             older == IF latest THEN others ELSE [others EXCEPT ![c] = @ - 1]
         IN  /\ IF latest THEN sendEvent = c ELSE others[c] > 0
             /\ \/ SendModel(c, session[c], event, older)
                \/ ~up[c] /\ Unscheduled(event, older) /\ UNCHANGED session
    /\ UNCHANGED <<async, up, accepted, app, cycle, firstDone, stopped>>

\* The acknowledgement makes room: is SendModel called?  The callback that
\* HandleReadytoSend takes away is the one of the listening socket, so that of
\* the client's socket stays.
Ready(s) == s.onSend /\ sendEvent = NoEvent

\* What the client makes of a packet of the model: HandleRead.
HandleRead(c) ==
    LET a    == app[c]
        last == a.toReceive = 1
    IN  [a EXCEPT !.begin = IF a.received # 0 /\ a.received % Model = 0
                            THEN Now(c) ELSE @,
                  !.received = @ + 1,
                  !.toReceive = @ - 1,
                  !.end = IF last THEN Now(c) ELSE @,
                  !.next = IF last THEN "training" ELSE @]

\* A packet of the model arrives at the client, and its acknowledgement back.
DeliverDown(c) ==
    LET s == [session[c] EXCEPT !.tx = @ - 1]
    IN  /\ ~stopped /\ up[c]
        /\ session[c].tx > 0
        /\ app' = [app EXCEPT ![c] = HandleRead(c)]
        /\ IF Ready(s) THEN SendModel(c, s, sendEvent, others)
           ELSE /\ session' = [session EXCEPT ![c] = s]
                /\ UNCHANGED <<sendEvent, others>>
        /\ UNCHANGED <<async, up, accepted, cycle, firstDone, stopped>>

-----------------------------------------------------------------------------
(***************************************************************************)
(* The client                                                               *)
(***************************************************************************)

\* (mutant) The client does not ask to hear of room in its buffer.
SendForgets(a) ==
    IF a.toSend = 0 \/ a.tx = Buffer THEN [a EXCEPT !.next = "none"]
    ELSE [a EXCEPT !.toSend = @ - 1, !.tx = @ + 1,
                   !.next = IF a.toSend > 1 THEN "event" ELSE "none",
                   !.toReceive = IF a.toSend > 1 THEN @ ELSE Model]

\* Send: a packet if there is room, and an event or a callback for the next.
\* With the last one the client gets ready for the next model.
Send(a) ==
    IF a.toSend = 0 THEN [a EXCEPT !.next = "none"]
    ELSE IF a.tx = Buffer THEN [a EXCEPT !.next = "callback"]
    ELSE [a EXCEPT !.toSend = @ - 1, !.tx = @ + 1,
                   !.next = IF a.toSend > 1 THEN "event" ELSE "none",
                   !.toReceive = IF a.toSend > 1 THEN @ ELSE Model]

\* The 20 seconds are over: StartWriting.
StartWriting(c) ==
    /\ ~stopped
    /\ app[c].next = "training"
    /\ app' = [app EXCEPT ![c] = Send([@ EXCEPT !.toSend = Model])]
    /\ UNCHANGED <<async, up, accepted, session, sendEvent, others, cycle,
                   firstDone, stopped>>

\* The client's m_sendEvent runs.  Its Send gives up on a socket that has been
\* closed because the link is down.
ClientSend(c) ==
    /\ ~stopped
    /\ app[c].next = "event"
    /\ \/ app' = [app EXCEPT ![c] = Send(@)]
       \/ ~up[c] /\ app' = [app EXCEPT ![c].next = "none"]
    /\ UNCHANGED <<async, up, accepted, session, sendEvent, others, cycle,
                   firstDone, stopped>>

\* What the server makes of a packet of the model coming back.
Received(c) ==
    LET s == session[c] IN
    [s EXCEPT !.begin = IF s.received % Model = 0 THEN Now(c) ELSE @,
              !.received = @ + 1,
              !.toReceive = @ - 1,
              !.end = IF s.toReceive = 1 THEN Now(c) ELSE @]

\* A model is back.  In an asynchronous round: IncrementCycleCountFromServer,
\* and either everybody has been through a cycle and the simulation stops, or
\* the server sends the model again.
ModelIsBack(c, s) ==
    IF ~async
    THEN /\ session' = [session EXCEPT ![c] = s]
         /\ UNCHANGED <<sendEvent, others, cycle, firstDone, stopped>>
    ELSE /\ cycle' = [cycle EXCEPT ![c] = @ + 1]
         /\ firstDone' = IF cycle[c] = 0 THEN firstDone + 1 ELSE firstDone
         /\ stopped' = (firstDone' = Cardinality(Clients) \/ cycle'[c] = LastCycle)
         /\ IF stopped'
            THEN /\ session' = [session EXCEPT ![c] = s]
                 /\ UNCHANGED <<sendEvent, others>>
            ELSE StartSendingModel(c, s)

\* A packet arrives at the server (ReceivedDataCallback), and its
\* acknowledgement at the client (HandleReadyToSend).
DeliverUp(c) ==
    LET s == Received(c)
        a == [app[c] EXCEPT !.tx = @ - 1]
    IN  /\ ~stopped /\ up[c]
        /\ app[c].tx > 0
        /\ app' = [app EXCEPT ![c] = IF a.next = "callback" THEN Send(a) ELSE a]
        /\ IF s.toReceive = 0 THEN ModelIsBack(c, s)
           ELSE /\ session' = [session EXCEPT ![c] = s]
                /\ UNCHANGED <<sendEvent, others, cycle, firstDone, stopped>>
        /\ UNCHANGED <<async, up, accepted>>

-----------------------------------------------------------------------------
(***************************************************************************)
(* The simulation                                                           *)
(***************************************************************************)

\* From here on the link loses every packet, however often it is sent again.
Break(c) ==
    /\ ~stopped /\ up[c]
    /\ up' = [up EXCEPT ![c] = FALSE]
    /\ UNCHANGED <<async, accepted, session, app, sendEvent, others, cycle,
                   firstDone, stopped>>

\* Nothing is left to happen but Simulator::Stop at 1000000 seconds.
Quiet ==
    /\ sendEvent = NoEvent
    /\ \A c \in Clients :
         /\ others[c] = 0
         /\ app[c].next \notin {"training", "event"}
         /\ up[c] => c \in accepted /\ session[c].tx = 0 /\ app[c].tx = 0

StopAtLimit ==
    /\ ~stopped /\ Quiet
    /\ stopped' = TRUE
    /\ UNCHANGED <<async, up, accepted, session, app, sendEvent, others, cycle,
                   firstDone>>

Stopped == stopped /\ UNCHANGED vars

\* The statistics that WeakNetwork makes of a client of a synchronous round.
\* A socket that was never accepted adds nothing to the client's own stamps.
Downlink(c) == app[c].end - app[c].begin
Uplink(c) == IF c \in accepted THEN session[c].end - session[c].begin ELSE 0
Computation(c) ==
    IF c \in accepted THEN session[c].begin - app[c].end ELSE app[c].end

\* (mutant) A dropout is told from the time of the uplink alone.
DropsOutByUplink(c) == Uplink(c) < 0

\* Does round_exec count the client as a dropout?
DropsOut(c) == Downlink(c) <= 0 \/ Uplink(c) <= 0 \/ Computation(c) <= 0

Work(c) ==
    \/ Connect(c) \/ RunSendEvent(c) \/ DeliverDown(c)
    \/ StartWriting(c) \/ ClientSend(c) \/ DeliverUp(c)

Next ==
    \/ \E c \in Clients : Work(c) \/ Break(c)
    \/ StopAtLimit
    \/ Stopped

Spec == Init /\ [][Next]_vars

\* Every event that is due is run, and a link that is up carries packets.
FairSpec ==
    /\ Spec
    /\ \A c \in Clients :
         /\ WF_vars(Connect(c))
         /\ WF_vars(RunSendEvent(c))
         /\ WF_vars(DeliverDown(c))
         /\ WF_vars(StartWriting(c) \/ ClientSend(c))
         /\ WF_vars(DeliverUp(c))
    /\ WF_vars(StopAtLimit)

-----------------------------------------------------------------------------
(***************************************************************************)
(* Properties                                                               *)
(***************************************************************************)

\* Whatever events and callbacks serve a socket, one or several at a time, no
\* packet is sent twice or left out: what is left to send, what is on its way
\* and what has arrived make up the models begun so far, in both directions.
NothingLostOrDoubled ==
    \A c \in accepted :
        LET s == session[c]
            a == app[c]
            writing == IF a.next = "training" THEN 0 ELSE 1
        IN  /\ ~(async /\ stopped) =>
                 s.toSend + s.tx + a.received = Model * (cycle[c] + 1)
            /\ a.received > Model * cycle[c] /\ a.received % Model = 0 =>
                 a.toSend + a.tx + s.received = Model * (cycle[c] + writing)

\* A client is counted as a dropout exactly when its model has not come back,
\* wherever in the round its link broke: no mixture of stamps that were set and
\* stamps that were not looks like a transfer.
StatsTellTheTruth ==
    stopped /\ ~async =>
        \A c \in Clients : DropsOut(c) <=> session[c].received < Model

\* When nothing is left to happen, a client whose link held has given back every
\* model it had got in full: its pacing and its callback never both lapse.
UplinkNeverStalls ==
    Quiet => \A c \in accepted :
                up[c] => session[c].received = Model * (app[c].received \div Model)

\* A simulation in which all links hold never ends with nobody through the round:
\* sockets can take the one m_sendEvent from each other, but not all lose it.
NotAllStarve ==
    (stopped /\ Clients # {} /\ \A c \in Clients : up[c]) =>
        \E c \in Clients : session[c].received >= Model

\* The server sends and sends again until at least one client, of those whose
\* links all hold, has been through the round; then the simulation ends.
SomebodyServed ==
    (\A c \in Clients : []up[c]) =>
        <>(stopped /\ \E c \in Clients : session[c].received >= Model)

\* SendModel, says fl-server.h, "continues to send packets until there are no
\* remaining bytes to be sent".
AllSent ==
    (~async /\ \A c \in Clients : []up[c]) =>
        \A c \in Clients : <>(c \in accepted /\ session[c].toSend = 0)
=============================================================================
