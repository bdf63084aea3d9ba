------------------------- MODULE ModelTransferProofs -------------------------
(***************************************************************************)
(* Proofs about ModelTransfer for every number of clients, every size of the *)
(* model and of the buffers, and every order of the simulator's events.      *)
(***************************************************************************)
EXTENDS ModelTransfer, FiniteSetTheorems, TLAPS

-----------------------------------------------------------------------------
(***************************************************************************)
(* Whole models                                                             *)
(***************************************************************************)

LEMMA Sizes ==
    Model \in Nat /\ Buffer \in Nat /\ 0 < Buffer /\ Buffer < Model /\ LastCycle = 3
BY ModelExceedsBuffer DEF LastCycle

LEMMA NextMultiple ==
    ASSUME NEW m \in Nat, NEW k \in Nat
    PROVE  m * k \in Nat /\ m * (k + 1) = m * k + m
OBVIOUS

\* Between two multiples of m there is no other.
LEMMA Between ==
    ASSUME NEW m \in Nat \ {0}, NEW k \in Nat, NEW x \in Nat,
           m * k <= x, x < m * k + m
    PROVE  x \div m = k /\ (x % m = 0 <=> x = m * k)
<1>1. x \div m = k
  OBVIOUS
<1>2. x - (x \div m) * m = x % m
  OBVIOUS
<1>3. m * k \in Nat /\ k * m = m * k
  OBVIOUS
<1> QED BY <1>1, <1>2, <1>3

-----------------------------------------------------------------------------
(***************************************************************************)
(* The inductive invariant                                                  *)
(***************************************************************************)

Sessions == [toSend : 0..Model, toReceive : 0..Model, received : Nat,
             tx : 0..Buffer, onSend : BOOLEAN, begin : Stamps, end : Stamps]

Apps == [toReceive : 0..Model, received : Nat, toSend : 0..Model,
         tx : 0..Buffer, next : {"training", "event", "callback", "none"},
         begin : Stamps, end : Stamps]

\* The client has the models before this one, b packets of them, and some of this.
Receiving(s, a, b, running) ==
    /\ a.toReceive = b + Model - a.received
    /\ a.next = "none" /\ a.toSend = 0 /\ a.tx = 0
    /\ s.received = b
    /\ running => s.toReceive = Model

\* It has all of this one, and sends it back unless its link is down.
Returning(s, a, b, isUp) ==
    /\ a.next = "training" =>
         a.toSend = 0 /\ a.tx = 0 /\ s.received = b /\ a.toReceive = 0
    /\ a.next # "training" => a.toSend + a.tx + s.received = b + Model
    /\ s.toReceive = b + Model - s.received
    /\ a.next \in {"event", "callback"} => a.toSend > 0
    /\ a.next = "callback" => a.tx = Buffer
    /\ a.next = "none" /\ isUp => a.toSend = 0
    /\ a.toSend > 0 => a.toReceive = 0
    /\ a.next = "none" /\ a.toSend = 0 => a.toReceive = Model

Flow(s, a, b, isUp, running) ==
    /\ a.received \in b..(b + Model)
    /\ running => s.toSend + s.tx + a.received = b + Model
    /\ a.received < b + Model => Receiving(s, a, b, running)
    /\ a.received = b + Model => Returning(s, a, b, isUp)

Unconnected(s, a) ==
    /\ s.toSend = 0 /\ s.tx = 0 /\ s.received = 0
    /\ a.received = 0 /\ a.next = "none" /\ a.toSend = 0 /\ a.tx = 0

\* The stamps of a synchronous round.
Stamped(s, a) ==
    /\ a.begin = 1
    /\ a.end = IF a.received < Model THEN 0 ELSE Model + 1
    /\ s.begin = IF s.received = 0 THEN 0 ELSE Model + 2
    /\ s.end = IF s.received < Model THEN 0 ELSE 2 * Model + 1

\* Events are pending for sockets of S only.
Pending(event, older, S) ==
    /\ event \in S \cup {NoEvent}
    /\ older \in [Clients -> Nat]
    /\ \A d \in Clients : older[d] > 0 => d \in S

ClientInv(c) ==
    /\ IF c \in accepted
       THEN Flow(session[c], app[c], Model * cycle[c], up[c], ~(async /\ stopped))
       ELSE Unconnected(session[c], app[c]) /\ cycle[c] = 0
    /\ ~async => cycle[c] = 0 /\ Stamped(session[c], app[c])
    /\ ~stopped => cycle[c] < LastCycle

Inv ==
    /\ TypeOK
    /\ Pending(sendEvent, others, accepted)
    /\ \A c \in Clients : ClientInv(c)
    /\ firstDone = Cardinality({c \in Clients : cycle[c] # 0})

LEMMA InvInitially == Init => Inv
<1> SUFFICES ASSUME Init PROVE Inv
  OBVIOUS
<1>1. 0 \in Stamps /\ 1 \in Stamps
  BY Sizes DEF Stamps
<1>2. {c \in Clients : cycle[c] # 0} = {}
  BY DEF Init
<1>3. firstDone = Cardinality({c \in Clients : cycle[c] # 0})
  BY <1>2, FS_EmptySet DEF Init
<1>4. Cardinality(Clients) \in Nat
  BY ClientsInRound, FS_CardinalityType
<1>5. session \in [Clients -> Sessions] /\ app \in [Clients -> Apps]
  BY <1>1, Sizes DEF Init, Sessions, Apps
<1>6. TypeOK
  <2>1. firstDone \in 0..Cardinality(Clients)
    BY <1>4 DEF Init
  <2>2. cycle \in [Clients -> 0..LastCycle] /\ others \in [Clients -> Nat]
    BY DEF Init, LastCycle
  <2>3. /\ async \in BOOLEAN /\ up \in [Clients -> BOOLEAN] /\ stopped \in BOOLEAN
        /\ accepted \subseteq Clients /\ sendEvent \in Clients \cup {NoEvent}
    BY DEF Init
  <2> QED BY <1>5, <2>1, <2>2, <2>3 DEF TypeOK, Sessions, Apps
<1>7. ASSUME NEW c \in Clients PROVE ClientInv(c)
  BY Sizes DEF ClientInv, Init, Unconnected, Stamped
<1> QED BY <1>3, <1>6, <1>7 DEF Inv, Pending, Init

\* A step that changes one client's end points, and no cycle.
LEMMA OneClient ==
    ASSUME Inv, ~stopped, NEW c \in Clients, NEW s \in Sessions, NEW a \in Apps,
           session' = [session EXCEPT ![c] = s], app' = [app EXCEPT ![c] = a],
           accepted' = accepted \cup {c},
           UNCHANGED <<async, up, cycle, firstDone, stopped>>,
           Pending(sendEvent', others', accepted'),
           Flow(s, a, Model * cycle[c], up[c], TRUE),
           ~async => Stamped(s, a)
    PROVE  Inv'
<1>1. session \in [Clients -> Sessions] /\ app \in [Clients -> Apps]
  BY DEF Inv, TypeOK, Sessions, Apps
<1>2. session' \in [Clients -> Sessions] /\ app' \in [Clients -> Apps]
  BY <1>1
<1>3. TypeOK'
  <2>1. sendEvent' \in Clients \cup {NoEvent} /\ others' \in [Clients -> Nat]
    BY DEF Inv, TypeOK, Pending
  <2> QED BY <1>2, <2>1 DEF Inv, TypeOK, Sessions, Apps, Stamps
<1>4. ASSUME NEW d \in Clients PROVE ClientInv(d)'
  <2>1. CASE d = c
    <3>1. session'[c] = s /\ app'[c] = a /\ c \in accepted'
      BY <1>1
    <3>2. ~async => cycle[c] = 0
      BY DEF Inv, ClientInv
    <3>3. cycle[c] < LastCycle
      BY DEF Inv, ClientInv
    <3> QED BY <2>1, <3>1, <3>2, <3>3 DEF ClientInv, LastCycle
  <2>2. CASE d # c
    <3>1. session'[d] = session[d] /\ app'[d] = app[d] /\ (d \in accepted' <=> d \in accepted)
      BY <1>1, <2>2
    <3>2. ClientInv(d)
      BY DEF Inv
    <3> QED BY <3>1, <3>2 DEF ClientInv, LastCycle
  <2> QED BY <2>1, <2>2
<1> QED BY <1>3, <1>4 DEF Inv, Pending

-----------------------------------------------------------------------------
(***************************************************************************)
(* The events of the simulator                                              *)
(***************************************************************************)

\* What SendModel leaves as it was.
SentFrom(r, s) ==
    /\ r.toSend + r.tx = s.toSend + s.tx
    /\ r.toReceive = s.toReceive /\ r.received = s.received
    /\ r.begin = s.begin /\ r.end = s.end

LEMMA SendModelEffect ==
    ASSUME NEW c \in Clients, NEW s \in Sessions, NEW event, NEW older,
           SendModel(c, s, event, older)
    PROVE  /\ \E r \in Sessions :
                session' = [session EXCEPT ![c] = r] /\ SentFrom(r, s)
           /\ Schedule(c, event, older) \/ Unscheduled(event, older)
<1>1. CASE s.tx = Buffer
  <2> DEFINE r == [s EXCEPT !.onSend = TRUE]
  <2>1. r \in Sessions /\ SentFrom(r, s)
    BY DEF Sessions, SentFrom
  <2>2. session' = [session EXCEPT ![c] = r] /\ Unscheduled(event, older)
    BY <1>1 DEF SendModel
  <2> QED BY <2>1, <2>2
<1>2. CASE s.tx # Buffer /\ s.toSend = 0
  <2>1. SentFrom(s, s)
    BY DEF SentFrom
  <2>2. session' = [session EXCEPT ![c] = s] /\ Unscheduled(event, older)
    BY <1>2 DEF SendModel
  <2> QED BY <2>1, <2>2
<1>3. CASE s.tx # Buffer /\ s.toSend # 0
  <2> DEFINE r == [s EXCEPT !.toSend = @ - 1, !.tx = @ + 1]
  <2>1. s.toSend - 1 \in 0..Model /\ s.tx + 1 \in 0..Buffer
    BY <1>3, Sizes DEF Sessions
  <2>2. r \in Sessions
    BY <2>1 DEF Sessions
  <2>4. SentFrom(r, s)
    BY <2>1, Sizes DEF Sessions, SentFrom
  <2>3. /\ session' = [session EXCEPT ![c] = r]
        /\ Schedule(c, event, older) \/ Unscheduled(event, older)
    BY <1>3 DEF SendModel
  <2> QED BY <2>2, <2>3, <2>4
<1> QED BY <1>1, <1>2, <1>3

\* The socket of a connected client gets an event, or none.
LEMMA StillPending ==
    ASSUME NEW event, NEW older, NEW S \in SUBSET Clients, NEW c \in S,
           Pending(event, older, S),
           Schedule(c, event, older) \/ Unscheduled(event, older)
    PROVE  Pending(sendEvent', others', S)
<1>1. CASE Unscheduled(event, older)
  BY <1>1 DEF Unscheduled, Pending
<1>2. CASE Schedule(c, event, older) /\ event = NoEvent
  BY <1>2 DEF Schedule, Pending
<1>3. CASE Schedule(c, event, older) /\ event # NoEvent
  <2>1. event \in S /\ others' = [older EXCEPT ![event] = @ + 1] /\ sendEvent' = c
    BY <1>3 DEF Schedule, Pending
  <2> QED BY <2>1 DEF Pending
<1> QED BY <1>1, <1>2, <1>3

\* Typed end points of a client, and its part of the invariant.
LEMMA EndPoints ==
    ASSUME Inv, NEW c \in Clients
    PROVE  /\ session[c] \in Sessions /\ app[c] \in Apps
           /\ cycle[c] \in Nat /\ Model * cycle[c] \in Nat
           /\ ClientInv(c)
<1>1. session[c] \in Sessions /\ app[c] \in Apps /\ cycle[c] \in Nat
  BY DEF Inv, TypeOK, Sessions, Apps, LastCycle
<1> QED BY <1>1, Sizes, NextMultiple DEF Inv

\* While the simulation runs the clock is within the stamps.
LEMMA Clock ==
    ASSUME Inv, ~stopped, NEW c \in accepted
    PROVE  Now(c) \in Stamps
<1>1. c \in Clients
  BY DEF Inv, TypeOK
<1>2. /\ app[c].received \in Nat /\ session[c].received \in Nat
      /\ app[c].received <= Model * cycle[c] + Model
      /\ session[c].received <= Model * cycle[c] + Model
      /\ cycle[c] \in {0, 1, 2}
  <2>1. /\ session[c] \in Sessions /\ app[c] \in Apps /\ Model * cycle[c] \in Nat
        /\ cycle[c] \in Nat /\ cycle[c] < LastCycle
        /\ Flow(session[c], app[c], Model * cycle[c], up[c], TRUE)
    BY <1>1, EndPoints DEF ClientInv
  <2>2. session[c].received <= Model * cycle[c] + Model
    BY <2>1, Sizes DEF Flow, Receiving, Returning, Sessions, Apps
  <2>3. app[c].received <= Model * cycle[c] + Model
    BY <2>1, Sizes DEF Flow
  <2> QED BY <2>1, <2>2, <2>3 DEF Sessions, Apps, LastCycle
<1>3. Model * cycle[c] <= Model * 2
  BY <1>2, Sizes
<1> QED BY <1>2, <1>3, Sizes DEF Now, Stamps

LEMMA BreakKeeps ==
    ASSUME Inv, NEW c \in Clients, Break(c)
    PROVE  Inv'
<1>1. /\ up' = [up EXCEPT ![c] = FALSE]
      /\ UNCHANGED <<async, accepted, session, app, sendEvent, others, cycle, firstDone,
                     stopped>>
  BY DEF Break
<1>2. TypeOK'
  BY <1>1 DEF Inv, TypeOK, Stamps
<1>3. ASSUME NEW d \in Clients PROVE ClientInv(d)'
  <2>1. up'[d] \in BOOLEAN /\ (up'[d] => up[d])
    BY <1>1 DEF Inv, TypeOK
  <2>2. ClientInv(d)
    BY DEF Inv
  <2> QED BY <1>1, <2>1, <2>2 DEF ClientInv, Flow, Returning, Receiving, Stamped, LastCycle
<1> QED BY <1>1, <1>2, <1>3 DEF Inv, Pending

LEMMA ConnectKeeps ==
    ASSUME Inv, NEW c \in Clients, Connect(c)
    PROVE  Inv'
<1>1. /\ ~stopped /\ c \notin accepted /\ accepted' = accepted \cup {c}
      /\ app' = [app EXCEPT ![c].toReceive = Model, ![c].toSend = 0]
      /\ StartSendingModel(c, session[c])
      /\ UNCHANGED <<async, up, cycle, firstDone, stopped>>
  BY DEF Connect
<1>2. /\ session[c] \in Sessions /\ app[c] \in Apps /\ app \in [Clients -> Apps]
      /\ Unconnected(session[c], app[c]) /\ cycle[c] = 0
      /\ ~async => Stamped(session[c], app[c])
  BY <1>1, EndPoints DEF ClientInv, Inv, TypeOK, Apps
<1> DEFINE s == [session[c] EXCEPT !.toSend = Model, !.toReceive = Model]
           a == [app[c] EXCEPT !.toReceive = Model, !.toSend = 0]
<1>3. s \in Sessions /\ a \in Apps
  <2>1. Model \in 0..Model /\ 0 \in 0..Model
    BY Sizes
  <2>2. s \in Sessions
    BY <1>2, <2>1 DEF Sessions
  <2>3. a \in Apps
    BY <1>2, <2>1 DEF Apps
  <2> QED BY <2>2, <2>3
<1>4. app' = [app EXCEPT ![c] = a]
  BY <1>1, <1>2
<1>5. SendModel(c, s, sendEvent, others)
  BY <1>1 DEF StartSendingModel
<1>6. PICK r \in Sessions : session' = [session EXCEPT ![c] = r] /\ SentFrom(r, s)
  <2> HIDE DEF s
  <2> QED BY <1>3, <1>5, SendModelEffect
<1>7. Pending(sendEvent', others', accepted')
  <2>1. accepted' \in SUBSET Clients /\ Pending(sendEvent, others, accepted')
    BY <1>1 DEF Inv, TypeOK, Pending
  <2>2. Schedule(c, sendEvent, others) \/ Unscheduled(sendEvent, others)
    <3> HIDE DEF s
    <3> QED BY <1>3, <1>5, SendModelEffect
  <2> QED BY <2>1, <2>2, <1>1, StillPending
<1>8. Flow(r, a, Model * cycle[c], up[c], TRUE)
  <2>1. Model * cycle[c] = 0
    BY <1>2, Sizes
  <2>2. r.received = 0 /\ r.toReceive = Model /\ r.toSend + r.tx = Model
    BY <1>2, <1>6, Sizes DEF SentFrom, Unconnected, Sessions
  <2>3. /\ a.received = 0 /\ a.toReceive = Model /\ a.next = "none"
        /\ a.toSend = 0 /\ a.tx = 0
    BY <1>2 DEF Unconnected, Apps
  <2> HIDE DEF s, a
  <2> QED BY <2>1, <2>2, <2>3, Sizes DEF Flow, Receiving
<1>9. ~async => Stamped(r, a)
  <2>1. a.received = app[c].received /\ a.begin = app[c].begin /\ a.end = app[c].end
    BY <1>2 DEF Apps
  <2>2. /\ r.received = session[c].received
        /\ r.begin = session[c].begin /\ r.end = session[c].end
    BY <1>2, <1>6 DEF SentFrom, Sessions
  <2> HIDE DEF s, a
  <2> QED BY <2>1, <2>2, <1>2 DEF Stamped
<1> HIDE DEF s, a
<1> QED BY <1>1, <1>3, <1>4, <1>6, <1>7, <1>8, <1>9, OneClient

\* The invariant of a connected client while the simulation runs.
LEMMA Connected ==
    ASSUME Inv, ~stopped, NEW c \in accepted
    PROVE  /\ c \in Clients /\ session[c] \in Sessions /\ app[c] \in Apps
           /\ session \in [Clients -> Sessions] /\ app \in [Clients -> Apps]
           /\ Model * cycle[c] \in Nat /\ accepted \cup {c} = accepted
           /\ Flow(session[c], app[c], Model * cycle[c], up[c], TRUE)
           /\ ~async => Model * cycle[c] = 0 /\ Stamped(session[c], app[c])
<1>1. c \in Clients
  BY DEF Inv, TypeOK
<1>2. session \in [Clients -> Sessions] /\ app \in [Clients -> Apps]
  BY DEF Inv, TypeOK, Sessions, Apps
<1>3. ~async => Model * cycle[c] = 0
  BY <1>1, EndPoints, Sizes DEF ClientInv
<1> QED BY <1>1, <1>2, <1>3, EndPoints DEF ClientInv

\* Only SendModel has touched the session.
LEMMA SentKeepsFlow ==
    ASSUME NEW s \in Sessions, NEW r \in Sessions, SentFrom(r, s),
           NEW a \in Apps, NEW b \in Nat, NEW isUp
    PROVE  /\ Flow(s, a, b, isUp, TRUE) => Flow(r, a, b, isUp, TRUE)
           /\ Stamped(s, a) => Stamped(r, a)
<1>1. Stamped(s, a) => Stamped(r, a)
  BY DEF SentFrom, Stamped
<1>2. Receiving(s, a, b, TRUE) => Receiving(r, a, b, TRUE)
  BY DEF SentFrom, Receiving
<1>3. Returning(s, a, b, isUp) => Returning(r, a, b, isUp)
  BY DEF SentFrom, Returning
<1> QED BY <1>1, <1>2, <1>3 DEF SentFrom, Flow

LEMMA RunSendEventKeeps ==
    ASSUME Inv, NEW c \in Clients, RunSendEvent(c)
    PROVE  Inv'
<1>1. ~stopped /\ UNCHANGED <<async, up, accepted, app, cycle, firstDone, stopped>>
  BY DEF RunSendEvent
<1>2. PICK event, older :
        /\ Pending(event, older, accepted) /\ c \in accepted
        /\ \/ SendModel(c, session[c], event, older)
           \/ ~up[c] /\ Unscheduled(event, older) /\ UNCHANGED session
  <2>1. Pending(sendEvent, others, accepted) /\ NoEvent \notin Clients
    BY ClientsInRound DEF Inv
  <2>2. PICK latest \in BOOLEAN :
          LET event == IF latest THEN NoEvent ELSE sendEvent
              older == IF latest THEN others ELSE [others EXCEPT ![c] = @ - 1]
          IN  /\ IF latest THEN sendEvent = c ELSE others[c] > 0
              /\ \/ SendModel(c, session[c], event, older)
                 \/ ~up[c] /\ Unscheduled(event, older) /\ UNCHANGED session
    BY DEF RunSendEvent
  <2>3. CASE latest
    <3>1. Pending(NoEvent, others, accepted) /\ c \in accepted
      BY <2>1, <2>2, <2>3 DEF Pending
    <3> QED BY <2>2, <2>3, <3>1
  <2>4. CASE ~latest
    <3> DEFINE older == [others EXCEPT ![c] = @ - 1]
    <3>1. others[c] > 0 /\ others[c] \in Nat /\ c \in accepted
      BY <2>1, <2>2, <2>4 DEF Pending
    <3>2. older \in [Clients -> Nat] /\ \A d \in Clients : older[d] > 0 => others[d] > 0
      BY <2>1, <3>1 DEF Pending
    <3>3. Pending(sendEvent, older, accepted)
      BY <2>1, <3>2 DEF Pending
    <3> QED BY <2>2, <2>4, <3>1, <3>3
  <2> QED BY <2>3, <2>4
<1>3. PICK r \in Sessions : session' = [session EXCEPT ![c] = r] /\ SentFrom(r, session[c])
  <2>1. session[c] \in Sessions
    BY <1>1, <1>2, Connected
  <2>2. UNCHANGED session => /\ session' = [session EXCEPT ![c] = session[c]]
                             /\ SentFrom(session[c], session[c])
    BY <1>1, <1>2, Connected DEF SentFrom
  <2> QED BY <1>2, <2>1, <2>2, SendModelEffect
<1>4. Pending(sendEvent', others', accepted')
  <2>1. accepted \in SUBSET Clients /\ session[c] \in Sessions
    BY <1>1, <1>2, Connected DEF Inv, TypeOK
  <2>2. Schedule(c, event, older) \/ Unscheduled(event, older)
    BY <1>2, <2>1, SendModelEffect
  <2> QED BY <1>1, <1>2, <2>1, <2>2, StillPending
<1>5. /\ app[c] \in Apps /\ app' = [app EXCEPT ![c] = app[c]]
      /\ accepted' = accepted \cup {c}
  BY <1>1, <1>2, Connected
<1>6. /\ Flow(r, app[c], Model * cycle[c], up[c], TRUE)
      /\ ~async => Stamped(r, app[c])
  BY <1>1, <1>2, <1>3, Connected, SentKeepsFlow
<1> QED BY <1>1, <1>3, <1>4, <1>5, <1>6, OneClient

LEMMA DeliverDownKeeps ==
    ASSUME Inv, NEW c \in Clients, DeliverDown(c)
    PROVE  Inv'
<1> DEFINE s == [session[c] EXCEPT !.tx = @ - 1]
           b == Model * cycle[c]
<1>1. /\ ~stopped /\ up[c] /\ session[c].tx > 0
      /\ app' = [app EXCEPT ![c] = HandleRead(c)]
      /\ UNCHANGED <<async, up, accepted, cycle, firstDone, stopped>>
      /\ \/ SendModel(c, s, sendEvent, others)
         \/ session' = [session EXCEPT ![c] = s] /\ UNCHANGED <<sendEvent, others>>
  BY DEF DeliverDown
<1>2. c \in accepted
  BY <1>1, EndPoints DEF ClientInv, Unconnected
<1>3. /\ session[c] \in Sessions /\ app[c] \in Apps
      /\ session \in [Clients -> Sessions]
      /\ b \in Nat /\ accepted' = accepted \cup {c}
      /\ Flow(session[c], app[c], b, up[c], TRUE)
      /\ ~async => b = 0 /\ Stamped(session[c], app[c])
  BY <1>1, <1>2, Connected
<1> HIDE DEF b
<1>4. session[c].tx - 1 \in 0..Buffer
  BY <1>1, <1>3, Sizes DEF Sessions
<1>5. s \in Sessions
  BY <1>3, <1>4 DEF Sessions
<1>6. app[c].received < b + Model /\ Receiving(session[c], app[c], b, TRUE)
  <2>1. app[c].received < b + Model
    BY <1>1, <1>3, Sizes DEF Flow, Sessions, Apps
  <2> QED BY <1>3, <2>1 DEF Flow
<1> DEFINE a == HandleRead(c)
<1>7. /\ a.received = app[c].received + 1 /\ a.toReceive = app[c].toReceive - 1
      /\ a.toSend = 0 /\ a.tx = 0
      /\ a.next = IF app[c].toReceive = 1 THEN "training" ELSE "none"
      /\ a.end = IF app[c].toReceive = 1 THEN Now(c) ELSE app[c].end
      /\ a.begin = IF app[c].received # 0 /\ app[c].received % Model = 0
                   THEN Now(c) ELSE app[c].begin
  BY <1>3, <1>6 DEF HandleRead, Apps, Receiving
<1>8. a \in Apps
  <2>1. Now(c) \in Stamps
    BY <1>1, <1>2, Clock
  <2>2. a.received \in Nat /\ app[c].toReceive - 1 \in 0..Model
    BY <1>3, <1>6, <1>7, Sizes DEF Apps, Receiving
  <2>3. /\ (IF app[c].received # 0 /\ app[c].received % Model = 0
            THEN Now(c) ELSE app[c].begin) \in Stamps
        /\ (IF app[c].toReceive = 1 THEN Now(c) ELSE app[c].end) \in Stamps
        /\ (IF app[c].toReceive = 1 THEN "training" ELSE app[c].next)
              \in {"training", "event", "callback", "none"}
        /\ app[c].received + 1 \in Nat
    BY <2>1, <1>3 DEF Apps
  <2> QED BY <2>2, <2>3, <1>3 DEF HandleRead, Apps
<1>9. /\ s.received = session[c].received /\ s.toReceive = session[c].toReceive
      /\ s.toSend + s.tx = (session[c].toSend + session[c].tx) - 1
      /\ s.begin = session[c].begin /\ s.end = session[c].end
  BY <1>3 DEF Sessions
<1>10. Flow(s, a, b, up[c], TRUE)
  <2>1. a.received \in b..(b + Model) /\ s.toSend + s.tx + a.received = b + Model
    <3> HIDE DEF s, a
    <3> QED BY <1>3, <1>6, <1>7, <1>9, Sizes DEF Flow, Sessions, Apps
  <2>2. a.received < b + Model => Receiving(s, a, b, TRUE)
    <3> HIDE DEF s, a
    <3> QED BY <1>3, <1>6, <1>7, <1>9, Sizes DEF Receiving, Sessions, Apps
  <2>3. a.received = b + Model => Returning(s, a, b, up[c])
    <3> HIDE DEF s, a
    <3> QED BY <1>3, <1>6, <1>7, <1>9, Sizes DEF Receiving, Returning, Sessions, Apps
  <2> HIDE DEF s, a
  <2> QED BY <2>1, <2>2, <2>3 DEF Flow
<1>11. ~async => Stamped(s, a)
  <2> SUFFICES ASSUME ~async PROVE Stamped(s, a)
    OBVIOUS
  <2>1. /\ b = 0 /\ Stamped(session[c], app[c])
        /\ app[c].received \in 0..(Model - 1) /\ session[c].received = 0
    BY <1>3, <1>6, Sizes DEF Receiving, Apps
  <2>2. app[c].received = 0 \/ app[c].received % Model # 0
    <3>1. Model * 0 = 0 /\ 0 \in Nat /\ Model \in Nat \ {0}
      BY Sizes
    <3>2. /\ app[c].received \in Nat
          /\ Model * 0 <= app[c].received /\ app[c].received < Model * 0 + Model
      BY <2>1, <3>1, Sizes
    <3>3. app[c].received % Model = 0 <=> app[c].received = Model * 0
      BY <3>1, <3>2, Between
    <3> QED BY <3>1, <3>3
  <2>3. a.begin = 1
    <3> HIDE DEF a
    <3> QED BY <2>1, <2>2, <1>7 DEF Stamped
  <2>4. app[c].toReceive = Model - app[c].received
    BY <2>1, <1>6, Sizes DEF Receiving
  <2>5. a.end = IF a.received < Model THEN 0 ELSE Model + 1
    <3> HIDE DEF a
    <3>1. app[c].toReceive = 1 <=> ~(a.received < Model)
      BY <2>1, <2>4, <1>7, Sizes
    <3>2. app[c].toReceive = 1 => Now(c) = Model + 1
      BY <2>1, <2>4, Sizes DEF Now
    <3> QED BY <2>1, <3>1, <3>2, <1>7, Sizes DEF Stamped
  <2> HIDE DEF s, a
  <2> QED BY <2>1, <2>3, <2>5, <1>9, Sizes DEF Stamped
<1> HIDE DEF s, a
<1>12. PICK r \in Sessions : session' = [session EXCEPT ![c] = r] /\ SentFrom(r, s)
  <2>1. SentFrom(s, s)
    BY DEF SentFrom
  <2> QED BY <1>1, <1>5, <2>1, SendModelEffect
<1>13. Pending(sendEvent', others', accepted')
  <2>1. accepted \in SUBSET Clients /\ Pending(sendEvent, others, accepted)
    BY DEF Inv, TypeOK
  <2>2. \/ Schedule(c, sendEvent, others) \/ Unscheduled(sendEvent, others)
    BY <1>1, <1>5, SendModelEffect DEF Unscheduled
  <2> QED BY <1>1, <1>2, <2>1, <2>2, StillPending
<1>14. Flow(r, a, b, up[c], TRUE) /\ (~async => Stamped(r, a))
  BY <1>3, <1>5, <1>8, <1>10, <1>11, <1>12, SentKeepsFlow
<1>15. app' = [app EXCEPT ![c] = a]
  BY <1>1 DEF a
<1> QED BY <1>1, <1>3, <1>8, <1>12, <1>13, <1>14, <1>15, OneClient DEF b

\* What the client's Send makes of its socket: a packet, or the wish for room.
LEMMA SendEffect ==
    ASSUME NEW a \in Apps, a.toSend > 0, a.toReceive = 0
    PROVE  /\ Send(a) \in Apps
           /\ Send(a).received = a.received
           /\ Send(a).begin = a.begin /\ Send(a).end = a.end
           /\ Send(a).toSend + Send(a).tx = a.toSend + a.tx
           /\ Send(a).next \in {"event", "callback", "none"}
           /\ Send(a).next \in {"event", "callback"} => Send(a).toSend > 0
           /\ Send(a).next = "callback" => Send(a).tx = Buffer
           /\ Send(a).next = "none" => Send(a).toSend = 0
           /\ Send(a).toReceive = IF Send(a).toSend > 0 THEN 0 ELSE Model
<1>1. CASE a.tx = Buffer
  <2>1. Send(a) = [a EXCEPT !.next = "callback"]
    BY <1>1 DEF Send
  <2> QED BY <2>1, <1>1 DEF Apps
<1>2. CASE a.tx # Buffer
  <2>1. Send(a) = [a EXCEPT !.toSend = @ - 1, !.tx = @ + 1,
                            !.next = IF a.toSend > 1 THEN "event" ELSE "none",
                            !.toReceive = IF a.toSend > 1 THEN @ ELSE Model]
    BY <1>2 DEF Send
  <2>2. /\ a.toSend - 1 \in 0..Model /\ a.tx + 1 \in 0..Buffer
        /\ (IF a.toSend > 1 THEN a.toReceive ELSE Model) \in 0..Model
        /\ (IF a.toSend > 1 THEN "event" ELSE "none")
             \in {"training", "event", "callback", "none"}
    BY <1>2, Sizes DEF Apps
  <2>3. Send(a) \in Apps
    BY <2>1, <2>2 DEF Apps
  <2>4. /\ Send(a).received = a.received
        /\ Send(a).begin = a.begin /\ Send(a).end = a.end
        /\ Send(a).toSend = a.toSend - 1 /\ Send(a).tx = a.tx + 1
        /\ Send(a).next = IF a.toSend > 1 THEN "event" ELSE "none"
        /\ Send(a).toReceive = IF a.toSend > 1 THEN a.toReceive ELSE Model
    BY <2>1 DEF Apps
  <2> QED BY <2>3, <2>4, Sizes DEF Apps
<1> QED BY <1>1, <1>2

\* The client's turn: it has the model, and only its socket changes.
LEMMA ClientSends ==
    ASSUME Inv, ~stopped, NEW c \in accepted, NEW a \in Apps,
           app' = [app EXCEPT ![c] = a],
           UNCHANGED <<async, up, accepted, session, sendEvent, others, cycle,
                       firstDone, stopped>>,
           app[c].received = Model * cycle[c] + Model,
           Returning(session[c], a, Model * cycle[c], up[c]),
           a.received = app[c].received, a.begin = app[c].begin, a.end = app[c].end
    PROVE  Inv'
<1>1. /\ session[c] \in Sessions /\ session' = [session EXCEPT ![c] = session[c]]
      /\ c \in Clients /\ accepted' = accepted \cup {c}
  BY Connected
<1>2. Flow(session[c], a, Model * cycle[c], up[c], TRUE)
  <2>1. /\ Model * cycle[c] \in Nat
        /\ Flow(session[c], app[c], Model * cycle[c], up[c], TRUE)
    BY Connected
  <2> DEFINE b == Model * cycle[c]
  <2>2. /\ b \in Nat /\ app[c].received = b + Model
        /\ Flow(session[c], app[c], b, up[c], TRUE)
        /\ Returning(session[c], a, b, up[c])
    BY <2>1
  <2> HIDE DEF b
  <2>3. /\ a.received = b + Model
        /\ session[c].toSend + session[c].tx + a.received = b + Model
    BY <2>2 DEF Flow
  <2>4. a.received \in b..(b + Model) /\ ~(a.received < b + Model)
    BY <2>2, <2>3, Sizes
  <2>5. Flow(session[c], a, b, up[c], TRUE)
    BY <2>2, <2>3, <2>4 DEF Flow
  <2> QED BY <2>5 DEF b
<1>3. ~async => Stamped(session[c], a)
  BY Connected DEF Stamped
<1>4. Pending(sendEvent', others', accepted')
  BY DEF Inv, Pending
<1> QED BY <1>1, <1>2, <1>3, <1>4, OneClient

\* A client that is writing, or about to, has the model.
LEMMA Writing ==
    ASSUME Inv, ~stopped, NEW c \in Clients, app[c].next # "none" \/ app[c].tx > 0
    PROVE  /\ c \in accepted /\ app[c].received = Model * cycle[c] + Model
           /\ Returning(session[c], app[c], Model * cycle[c], up[c])
<1>1. c \in accepted
  BY EndPoints DEF ClientInv, Unconnected
<1>2. Flow(session[c], app[c], Model * cycle[c], up[c], TRUE)
  BY <1>1, Connected
<1>3. Model * cycle[c] \in Nat /\ app[c] \in Apps
  BY EndPoints
<1>4. ~(app[c].received < Model * cycle[c] + Model)
  BY <1>2 DEF Flow, Receiving
<1> QED BY <1>1, <1>2, <1>3, <1>4, Sizes DEF Flow, Apps

LEMMA StartWritingKeeps ==
    ASSUME Inv, NEW c \in Clients, StartWriting(c)
    PROVE  Inv'
<1> DEFINE a == [app[c] EXCEPT !.toSend = Model]
<1>1. /\ ~stopped /\ app[c].next = "training" /\ app' = [app EXCEPT ![c] = Send(a)]
      /\ UNCHANGED <<async, up, accepted, session, sendEvent, others, cycle,
                     firstDone, stopped>>
  BY DEF StartWriting
<1>2. /\ c \in accepted /\ app[c].received = Model * cycle[c] + Model
      /\ Returning(session[c], app[c], Model * cycle[c], up[c])
  BY <1>1, Writing
<1>3. app[c] \in Apps /\ Model \in 0..Model /\ Model * cycle[c] \in Nat
  BY EndPoints, Sizes
<1>4. a \in Apps
  BY <1>3 DEF Apps
<1>5. /\ a.toSend = Model /\ a.toReceive = 0 /\ a.tx = 0 /\ a.received = app[c].received
      /\ a.begin = app[c].begin /\ a.end = app[c].end
      /\ session[c].received = Model * cycle[c]
      /\ session[c].toReceive = Model * cycle[c] + Model - session[c].received
  BY <1>1, <1>2, <1>3 DEF Apps, Returning
<1> HIDE DEF a
<1>6. a.toSend > 0
  BY <1>5, Sizes
<1>7. Returning(session[c], Send(a), Model * cycle[c], up[c])
  BY <1>3, <1>4, <1>5, <1>6, SendEffect, Sizes DEF Returning, Apps
<1> QED BY <1>1, <1>2, <1>4, <1>5, <1>6, <1>7, SendEffect, ClientSends

LEMMA ClientSendKeeps ==
    ASSUME Inv, NEW c \in Clients, ClientSend(c)
    PROVE  Inv'
<1>1. /\ ~stopped /\ app[c].next = "event"
      /\ \/ app' = [app EXCEPT ![c] = Send(app[c])]
         \/ ~up[c] /\ app' = [app EXCEPT ![c].next = "none"]
      /\ UNCHANGED <<async, up, accepted, session, sendEvent, others, cycle,
                     firstDone, stopped>>
  BY DEF ClientSend, Inv, TypeOK
<1>2. /\ c \in accepted /\ app[c].received = Model * cycle[c] + Model
      /\ Returning(session[c], app[c], Model * cycle[c], up[c])
      /\ app[c] \in Apps /\ session[c] \in Sessions /\ Model * cycle[c] \in Nat
  BY <1>1, Writing, EndPoints
<1>3. CASE app' = [app EXCEPT ![c] = Send(app[c])]
  <2>1. app[c].toSend > 0 /\ app[c].toReceive = 0
    BY <1>1, <1>2 DEF Returning
  <2>2. Returning(session[c], Send(app[c]), Model * cycle[c], up[c])
    BY <1>1, <1>2, <2>1, SendEffect, Sizes DEF Returning, Apps
  <2> QED BY <1>1, <1>2, <1>3, <2>1, <2>2, SendEffect, ClientSends
<1>4. CASE ~up[c] /\ app' = [app EXCEPT ![c].next = "none"]
  <2> DEFINE a == [app[c] EXCEPT !.next = "none"]
  <2>1. a \in Apps
    BY <1>2 DEF Apps
  <2>2. /\ a.received = app[c].received /\ a.begin = app[c].begin /\ a.end = app[c].end
        /\ a.toSend = app[c].toSend /\ a.tx = app[c].tx /\ a.next = "none"
        /\ a.toReceive = app[c].toReceive
    BY <1>2 DEF Apps
  <2>3. app' = [app EXCEPT ![c] = a]
    BY <1>4
  <2> HIDE DEF a
  <2>4. Returning(session[c], a, Model * cycle[c], up[c])
    BY <1>1, <1>2, <1>4, <2>2 DEF Returning
  <2> QED BY <1>1, <1>2, <2>1, <2>2, <2>3, <2>4, ClientSends
<1> QED BY <1>1, <1>3, <1>4

\* A model is back in an asynchronous round: a cycle more, and the model again or
\* the end of the simulation.
LEMMA CycleKeeps ==
    ASSUME Inv, async, ~stopped, NEW c \in accepted, NEW s \in Sessions, NEW a \in Apps,
           app' = [app EXCEPT ![c] = a], ModelIsBack(c, s),
           UNCHANGED <<async, up, accepted>>,
           s.toSend = 0, s.tx = 0, s.received = Model * cycle[c] + Model,
           a.received = Model * cycle[c] + Model, a.toReceive = Model,
           a.next = "none", a.toSend = 0, a.tx = 0
    PROVE  Inv'
<1> DEFINE b == Model * cycle[c] + Model
<1>1. /\ cycle' = [cycle EXCEPT ![c] = @ + 1]
      /\ firstDone' = IF cycle[c] = 0 THEN firstDone + 1 ELSE firstDone
      /\ stopped' = (firstDone' = Cardinality(Clients) \/ cycle'[c] = LastCycle)
      /\ IF stopped'
         THEN /\ session' = [session EXCEPT ![c] = s]
              /\ UNCHANGED <<sendEvent, others>>
         ELSE StartSendingModel(c, s)
  BY DEF ModelIsBack
<1>2. /\ c \in Clients /\ session \in [Clients -> Sessions] /\ app \in [Clients -> Apps]
      /\ cycle \in [Clients -> 0..LastCycle] /\ cycle[c] < LastCycle
      /\ Pending(sendEvent, others, accepted) /\ accepted \in SUBSET Clients
  BY Connected, EndPoints DEF ClientInv, Inv, TypeOK
<1>3. cycle'[c] = cycle[c] + 1 /\ cycle' \in [Clients -> 0..LastCycle]
  BY <1>1, <1>2 DEF LastCycle
<1>4. Model * cycle'[c] = b /\ b \in Nat
  <2>1. cycle[c] \in Nat
    BY <1>2 DEF LastCycle
  <2>2. Model * (cycle[c] + 1) = b /\ Model * cycle[c] \in Nat
    BY <2>1, NextMultiple, Sizes
  <2> QED BY <2>2, <1>3, Sizes
<1>5. ASSUME ~stopped' PROVE cycle'[c] < LastCycle
  <2>1. cycle'[c] # LastCycle
    BY <1>1, <1>5, Zenon
  <2> QED BY <2>1, <1>2, <1>3 DEF LastCycle
<1>6. PICK r \in Sessions :
        /\ session' = [session EXCEPT ![c] = r]
        /\ Pending(sendEvent', others', accepted)
        /\ Flow(r, a, b, up[c], ~stopped')
  <2>1. CASE stopped'
    <3>1. Flow(s, a, b, up[c], FALSE)
      BY <1>4, Sizes DEF Flow, Receiving
    <3> QED BY <2>1, <3>1, <1>1, <1>2
  <2>2. CASE ~stopped'
    <3> DEFINE t == [s EXCEPT !.toSend = Model, !.toReceive = Model]
    <3>1. Model \in 0..Model
      BY Sizes
    <3>2. t \in Sessions
      BY <3>1 DEF Sessions
    <3>3. SendModel(c, t, sendEvent, others)
      BY <2>2, <1>1 DEF StartSendingModel
    <3>4. /\ t.toSend = Model /\ t.toReceive = Model /\ t.tx = 0 /\ t.received = b
      BY DEF Sessions
    <3> HIDE DEF t
    <3>5. PICK r \in Sessions : session' = [session EXCEPT ![c] = r] /\ SentFrom(r, t)
      BY <1>2, <3>2, <3>3, SendModelEffect
    <3>6. Pending(sendEvent', others', accepted)
      BY <1>2, <3>2, <3>3, SendModelEffect, StillPending
    <3>7. Flow(r, a, b, up[c], TRUE)
      BY <3>4, <3>5, <1>4, Sizes DEF SentFrom, Flow, Receiving
    <3> QED BY <2>2, <3>5, <3>6, <3>7
  <2> QED BY <2>1, <2>2
<1> HIDE DEF b
<1>7. firstDone' = Cardinality({d \in Clients : cycle'[d] # 0})
  <2> DEFINE S == {d \in Clients : cycle[d] # 0}
             T == {d \in Clients : cycle'[d] # 0}
  <2>1. T = S \cup {c} /\ IsFiniteSet(S)
    <3>1. IsFiniteSet(S)
      BY ClientsInRound, FS_Subset
    <3>2. cycle[c] + 1 # 0
      BY <1>2 DEF LastCycle
    <3> QED BY <3>1, <3>2, <1>1, <1>2, <1>3
  <2>2. firstDone = Cardinality(S)
    BY DEF Inv
  <2> HIDE DEF S, T
  <2>3. c \in S <=> cycle[c] # 0
    BY <1>2 DEF S
  <2>4. firstDone' = Cardinality(T)
    BY <2>1, <2>2, <2>3, <1>1, FS_AddElement
  <2> QED BY <2>4 DEF T
<1>8. TypeOK'
  <2>1. firstDone' \in 0..Cardinality(Clients)
    BY <1>7, ClientsInRound, FS_Subset, FS_CardinalityType
  <2>2. session' \in [Clients -> Sessions] /\ app' \in [Clients -> Apps]
    BY <1>2, <1>6
  <2>3. sendEvent' \in Clients \cup {NoEvent} /\ others' \in [Clients -> Nat]
    BY <1>2, <1>6 DEF Pending
  <2>4. stopped' \in BOOLEAN
    BY <1>1
  <2> QED BY <1>3, <2>1, <2>2, <2>3, <2>4 DEF Inv, TypeOK, Sessions, Apps, Stamps, LastCycle
<1>9. ASSUME NEW d \in Clients PROVE ClientInv(d)'
  <2>1. CASE d = c
    <3>1. session'[c] = r /\ app'[c] = a
      BY <1>2, <1>6
    <3> QED BY <2>1, <3>1, <1>4, <1>5, <1>6 DEF ClientInv, LastCycle
  <2>2. CASE d # c
    <3>1. session'[d] = session[d] /\ app'[d] = app[d] /\ cycle'[d] = cycle[d]
      BY <1>1, <1>2, <1>6, <2>2
    <3>2. ClientInv(d)
      BY DEF Inv
    <3>3. d \in accepted => Flow(session[d], app[d], Model * cycle[d], up[d], ~stopped')
      BY <3>2 DEF ClientInv, Flow, Receiving
    <3> QED BY <3>1, <3>2, <3>3 DEF ClientInv, LastCycle
  <2> QED BY <2>1, <2>2
<1> QED BY <1>6, <1>7, <1>8, <1>9 DEF Inv

LEMMA DeliverUpKeeps ==
    ASSUME Inv, NEW c \in Clients, DeliverUp(c)
    PROVE  Inv'
<1> DEFINE b == Model * cycle[c]
           s == Received(c)
           taken == [app[c] EXCEPT !.tx = @ - 1]
           a == IF taken.next = "callback" THEN Send(taken) ELSE taken
<1>1. /\ ~stopped /\ up[c] /\ app[c].tx > 0
      /\ app' = [app EXCEPT ![c] = a]
      /\ UNCHANGED <<async, up, accepted>>
      /\ IF s.toReceive = 0 THEN ModelIsBack(c, s)
         ELSE /\ session' = [session EXCEPT ![c] = s]
              /\ UNCHANGED <<sendEvent, others, cycle, firstDone, stopped>>
  BY DEF DeliverUp
<1>2. /\ c \in accepted /\ app[c].received = b + Model
      /\ Returning(session[c], app[c], b, up[c])
  BY <1>1, Writing
<1>3. /\ session[c] \in Sessions /\ app[c] \in Apps
      /\ b \in Nat /\ accepted' = accepted \cup {c}
      /\ Flow(session[c], app[c], b, up[c], TRUE)
      /\ ~async => b = 0 /\ Stamped(session[c], app[c])
  BY <1>1, <1>2, Connected
<1> HIDE DEF b
<1>4. app[c].next # "training" /\ app[c].tx - 1 \in 0..Buffer
  <2>1. app[c].next # "training"
    BY <1>1, <1>2 DEF Returning
  <2> QED BY <2>1, <1>1, <1>3, Sizes DEF Apps
<1>5. /\ taken \in Apps /\ taken.tx = app[c].tx - 1 /\ taken.next = app[c].next
      /\ taken.toSend = app[c].toSend /\ taken.toReceive = app[c].toReceive
      /\ taken.received = app[c].received
      /\ taken.begin = app[c].begin /\ taken.end = app[c].end
  BY <1>3, <1>4 DEF Apps
<1>6. /\ session[c].received + app[c].toSend + app[c].tx = b + Model
      /\ session[c].toReceive = b + Model - session[c].received
      /\ session[c].toSend + session[c].tx = 0
  <2>1. session[c].toSend + session[c].tx + app[c].received = b + Model
    BY <1>3 DEF Flow
  <2>2. /\ app[c].toSend + app[c].tx + session[c].received = b + Model
        /\ session[c].toReceive = b + Model - session[c].received
    BY <1>2, <1>4 DEF Returning
  <2> QED BY <2>1, <2>2, <1>2, <1>3, Sizes DEF Sessions, Apps
<1>7. /\ s.received = session[c].received + 1
      /\ s.toReceive = session[c].toReceive - 1
      /\ s.toSend = session[c].toSend /\ s.tx = session[c].tx
      /\ s.begin = IF session[c].received % Model = 0 THEN Now(c) ELSE session[c].begin
      /\ s.end = IF session[c].toReceive = 1 THEN Now(c) ELSE session[c].end
  BY <1>3 DEF Received, Sessions
<1>8. s \in Sessions
  <2>1. Now(c) \in Stamps
    BY <1>1, <1>2, Clock
  <2>2. session[c].received + 1 \in Nat /\ session[c].toReceive - 1 \in 0..Model
    BY <1>1, <1>3, <1>6, Sizes DEF Sessions, Apps
  <2>3. /\ (IF session[c].received % Model = 0 THEN Now(c) ELSE session[c].begin)
             \in Stamps
        /\ (IF session[c].toReceive = 1 THEN Now(c) ELSE session[c].end) \in Stamps
    BY <2>1, <1>3 DEF Sessions
  <2> QED BY <2>2, <2>3, <1>3 DEF Received, Sessions
<1> HIDE DEF s, taken
<1>9. /\ a \in Apps /\ a.received = b + Model
      /\ a.begin = app[c].begin /\ a.end = app[c].end
      /\ a.toSend + a.tx + s.received = b + Model
      /\ Returning(s, a, b, up[c])
  <2>1. CASE taken.next = "callback"
    <3>1. taken.toSend > 0 /\ taken.toReceive = 0
      BY <2>1, <1>2, <1>5 DEF Returning
    <3>2. a = Send(taken)
      BY <2>1
    <3> HIDE DEF a
    <3>3. /\ a \in Apps /\ a.received = taken.received
          /\ a.begin = taken.begin /\ a.end = taken.end
          /\ a.toSend + a.tx = taken.toSend + taken.tx
          /\ a.next \in {"event", "callback", "none"}
          /\ a.next \in {"event", "callback"} => a.toSend > 0
          /\ a.next = "callback" => a.tx = Buffer
          /\ a.next = "none" => a.toSend = 0
          /\ a.toReceive = IF a.toSend > 0 THEN 0 ELSE Model
      BY <3>1, <3>2, <1>5, SendEffect
    <3>4. a.toSend + a.tx + s.received = b + Model
      <4>1. a.toSend + a.tx = app[c].toSend + (app[c].tx - 1)
        BY <3>3, <1>5
      <4>2. /\ app[c].toSend \in Nat /\ app[c].tx \in Nat
            /\ session[c].received \in Nat /\ b + Model \in Nat
        BY <1>3, Sizes DEF Sessions, Apps
      <4>3. s.received = session[c].received + 1
        BY <1>7
      <4>4. session[c].received + app[c].toSend + app[c].tx = b + Model
        BY <1>6
      <4> QED BY <4>1, <4>2, <4>3, <4>4
    <3>5. s.toReceive = b + Model - s.received
      BY <1>3, <1>6, <1>7, Sizes DEF Sessions
    <3>6. Returning(s, a, b, up[c])
      BY <3>3, <3>4, <3>5 DEF Returning, Apps
    <3> QED BY <3>3, <3>4, <3>6, <1>2, <1>5
  <2>2. CASE taken.next # "callback"
    <3>1. a = taken
      BY <2>2
    <3> HIDE DEF a
    <3>2. a.toSend + a.tx + s.received = b + Model
      <4>1. a.toSend + a.tx = app[c].toSend + (app[c].tx - 1)
        BY <3>1, <1>5
      <4>2. /\ app[c].toSend \in Nat /\ app[c].tx \in Nat
            /\ session[c].received \in Nat /\ b + Model \in Nat
        BY <1>3, Sizes DEF Sessions, Apps
      <4>3. s.received = session[c].received + 1
        BY <1>7
      <4>4. session[c].received + app[c].toSend + app[c].tx = b + Model
        BY <1>6
      <4> QED BY <4>1, <4>2, <4>3, <4>4
    <3>3. s.toReceive = b + Model - s.received
      BY <1>3, <1>6, <1>7, Sizes DEF Sessions
    <3>4. Returning(s, a, b, up[c])
      BY <3>1, <3>2, <3>3, <2>2, <1>2, <1>4, <1>5 DEF Returning
    <3> QED BY <3>1, <3>2, <3>4, <1>2, <1>5
  <2> QED BY <2>1, <2>2
<1> HIDE DEF a
\* The last packet of a model, in an asynchronous round.
<1>10. CASE s.toReceive = 0 /\ async
  <2>1. s.received = b + Model /\ s.toSend = 0 /\ s.tx = 0
    BY <1>10, <1>3, <1>6, <1>7, Sizes DEF Sessions
  <2>2. a.toSend = 0 /\ a.tx = 0
    BY <2>1, <1>3, <1>9, Sizes DEF Apps
  <2>3. a.next = "none" /\ a.toReceive = Model
    <3>1. a.next # "training"
      BY <2>1, <1>3, <1>9, Sizes DEF Returning
    <3>2. a.next \notin {"event", "callback"}
      BY <2>2, <1>9 DEF Returning
    <3> QED BY <3>1, <3>2, <2>2, <1>9 DEF Returning, Apps
  <2> QED BY <2>1, <2>2, <2>3, <1>1, <1>2, <1>8, <1>9, <1>10, CycleKeeps DEF b
<1>11. CASE ~(s.toReceive = 0 /\ async)
  <2>1. /\ session' = [session EXCEPT ![c] = s]
        /\ UNCHANGED <<sendEvent, others, cycle, firstDone, stopped>>
    BY <1>1, <1>11 DEF ModelIsBack
  <2>2. Flow(s, a, b, up[c], TRUE)
    <3>1. a.received \in b..(b + Model) /\ ~(a.received < b + Model)
      BY <1>3, <1>9, Sizes
    <3>2. s.toSend + s.tx + a.received = b + Model
      BY <1>3, <1>6, <1>7, <1>9, Sizes DEF Sessions
    <3> QED BY <3>1, <3>2, <1>9 DEF Flow
  <2>3. ~async => Stamped(s, a)
    <3> SUFFICES ASSUME ~async PROVE Stamped(s, a)
      OBVIOUS
    <3>1. /\ b = 0 /\ Stamped(session[c], app[c])
          /\ session[c].received \in 0..(Model - 1)
      BY <1>1, <1>3, <1>6, Sizes DEF Sessions, Apps
    <3>2. session[c].received % Model = 0 <=> session[c].received = 0
      <4>1. Model * 0 = 0 /\ 0 \in Nat /\ Model \in Nat \ {0}
        BY Sizes
      <4>2. /\ session[c].received \in Nat
            /\ Model * 0 <= session[c].received /\ session[c].received < Model * 0 + Model
        BY <3>1, <4>1, Sizes
      <4>3. session[c].received % Model = 0 <=> session[c].received = Model * 0
        BY <4>1, <4>2, Between
      <4> QED BY <4>1, <4>3
    <3>3. Now(c) = 2 + Model + session[c].received
      BY <3>1, <1>2, Sizes DEF Now
    <3>4. s.begin = IF s.received = 0 THEN 0 ELSE Model + 2
      BY <3>1, <3>2, <3>3, <1>7, Sizes DEF Stamped
    <3>5. s.end = IF s.received < Model THEN 0 ELSE 2 * Model + 1
      <4>1. session[c].toReceive = 1 <=> session[c].received = Model - 1
        BY <3>1, <1>6, Sizes
      <4>2. s.received < Model <=> session[c].received # Model - 1
        BY <3>1, <1>7, Sizes
      <4>3. session[c].received = Model - 1 => Now(c) = 2 * Model + 1
        BY <3>3, Sizes
      <4>4. session[c].end = 0
        BY <3>1, Sizes DEF Stamped
      <4> QED BY <4>1, <4>2, <4>3, <4>4, <1>7
    <3>6. a.begin = 1 /\ a.end = IF a.received < Model THEN 0 ELSE Model + 1
      BY <3>1, <1>2, <1>9 DEF Stamped
    <3> QED BY <3>4, <3>5, <3>6 DEF Stamped
  <2>4. Pending(sendEvent', others', accepted')
    BY <2>1, <1>1 DEF Inv, Pending
  <2> QED BY <2>1, <2>2, <2>3, <2>4, <1>1, <1>3, <1>8, <1>9, OneClient DEF b
<1> QED BY <1>10, <1>11

\* The simulation ends, or nothing happens.
LEMMA StopKeeps ==
    ASSUME Inv, stopped' \in BOOLEAN, stopped => stopped',
           UNCHANGED <<async, up, accepted, session, app, sendEvent, others, cycle, firstDone>>
    PROVE  Inv'
<1>1. TypeOK'
  BY DEF Inv, TypeOK, Stamps, LastCycle
<1>2. ASSUME NEW d \in Clients PROVE ClientInv(d)'
  <2>1. ClientInv(d)
    BY DEF Inv
  <2> QED BY <2>1 DEF ClientInv, Flow, Receiving, Returning, Stamped, LastCycle
<1> QED BY <1>1, <1>2 DEF Inv, Pending

LEMMA Invariance == Spec => []Inv
<1>1. Init => Inv
  BY InvInitially
<1>2. Inv /\ [Next]_vars => Inv'
  <2> SUFFICES ASSUME Inv, [Next]_vars PROVE Inv'
    OBVIOUS
  <2>1. ASSUME NEW c \in Clients, Work(c) PROVE Inv'
    BY <2>1, ConnectKeeps, RunSendEventKeeps, DeliverDownKeeps, StartWritingKeeps,
       ClientSendKeeps, DeliverUpKeeps DEF Work
  <2>2. StopAtLimit => Inv'
    BY StopKeeps DEF StopAtLimit
  <2>3. UNCHANGED vars => Inv'
    BY StopKeeps DEF vars, Inv, TypeOK
  <2> QED BY <2>1, <2>2, <2>3, BreakKeeps DEF Next, Stopped
<1> QED BY <1>1, <1>2, PTL DEF Spec

-----------------------------------------------------------------------------
(***************************************************************************)
(* Theorems                                                                 *)
(***************************************************************************)

\* The counters, stamps and events of a simulated round keep their types: no count
\* of bytes goes below zero, and no cycle is counted after the last.
THEOREM TypeCorrect == Spec => []TypeOK
<1>1. Inv => TypeOK
  BY DEF Inv
<1> QED BY <1>1, Invariance, PTL

\* SendModel, HandleRead, Send and ReceivedDataCallback: whatever events and
\* callbacks serve a socket, no packet is sent twice or left out.
THEOREM EveryPacketOnce == Spec => []NothingLostOrDoubled
<1>1. Inv => NothingLostOrDoubled
  <2> SUFFICES ASSUME Inv, NEW c \in accepted
               PROVE  LET s == session[c]
                          a == app[c]
                          writing == IF a.next = "training" THEN 0 ELSE 1
                      IN  /\ ~(async /\ stopped) =>
                               s.toSend + s.tx + a.received = Model * (cycle[c] + 1)
                          /\ a.received > Model * cycle[c] /\ a.received % Model = 0 =>
                               a.toSend + a.tx + s.received = Model * (cycle[c] + writing)
    BY DEF NothingLostOrDoubled
  <2> DEFINE b == Model * cycle[c]
             s == session[c]
             a == app[c]
  <2>1. /\ s \in Sessions /\ a \in Apps /\ b \in Nat /\ cycle[c] \in Nat
        /\ Flow(s, a, b, up[c], ~(async /\ stopped))
    BY EndPoints DEF Inv, TypeOK, ClientInv
  <2>2. Model * (cycle[c] + 1) = b + Model /\ Model * (cycle[c] + 0) = b
    BY <2>1, NextMultiple, Sizes
  <2>3. ~(async /\ stopped) => s.toSend + s.tx + a.received = Model * (cycle[c] + 1)
    <3> HIDE DEF b, s, a
    <3> QED BY <2>1, <2>2 DEF Flow
  <2>4. ASSUME a.received > b, a.received % Model = 0
        PROVE  a.received = b + Model
    <3>1. a.received \in Nat /\ b <= a.received /\ a.received <= b + Model
      BY <2>1, Sizes DEF Flow, Apps
    <3>2. ~(a.received < b + Model)
      <4> SUFFICES ASSUME a.received < Model * cycle[c] + Model PROVE FALSE
        OBVIOUS
      <4>1. a.received % Model = 0 <=> a.received = Model * cycle[c]
        BY <2>1, <3>1, Between, Sizes
      <4> QED BY <4>1, <2>1, <2>4, <3>1
    <3> HIDE DEF b, s, a
    <3> QED BY <3>1, <3>2, <2>1, Sizes
  <2>5. ASSUME a.received = b + Model
        PROVE  a.toSend + a.tx + s.received =
                 Model * (cycle[c] + IF a.next = "training" THEN 0 ELSE 1)
    <3> HIDE DEF b, s, a
    <3>1. Returning(s, a, b, up[c])
      BY <2>1, <2>5 DEF Flow
    <3>2. CASE a.next = "training"
      BY <3>1, <3>2, <2>1, <2>2 DEF Returning
    <3>3. CASE a.next # "training"
      BY <3>1, <3>3, <2>2 DEF Returning
    <3> QED BY <3>2, <3>3
  <2> QED BY <2>3, <2>4, <2>5
<1> QED BY <1>1, Invariance, PTL

\* WeakNetwork's stamps and round_exec's test of them: after a synchronous round a
\* client counts as a dropout exactly if its model is not back.
THEOREM DropoutsAreReal == Spec => []StatsTellTheTruth
<1>1. Inv => StatsTellTheTruth
  <2> SUFFICES ASSUME Inv, ~async, NEW c \in Clients
               PROVE  DropsOut(c) <=> session[c].received < Model
    BY DEF StatsTellTheTruth
  <2> DEFINE s == session[c]
             a == app[c]
  <2>1. s \in Sessions /\ a \in Apps /\ Stamped(s, a) /\ cycle[c] = 0
    BY EndPoints DEF ClientInv
  <2>2. CASE c \in accepted
    <3>1. Flow(s, a, 0, up[c], TRUE)
      <4>1. Model * cycle[c] = 0
        BY <2>1, Sizes
      <4>2. ClientInv(c)
        BY EndPoints
      <4> QED BY <2>2, <4>1, <4>2 DEF ClientInv
    <3>2. a.received < Model => s.received = 0
      BY <3>1, <2>1, Sizes DEF Flow, Receiving, Apps
    <3>3. DropsOut(c) <=> \/ a.end - a.begin <= 0 \/ s.end - s.begin <= 0
                          \/ s.begin - a.end <= 0
      BY <2>2 DEF DropsOut, Downlink, Uplink, Computation
    <3> HIDE DEF s, a
    <3>4. CASE a.received < Model
      BY <3>2, <3>3, <3>4, <2>1, Sizes DEF Stamped, s
    <3>5. CASE ~(a.received < Model) /\ s.received < Model
      BY <3>3, <3>5, <2>1, Sizes DEF Stamped, Sessions, s
    <3>6. CASE ~(a.received < Model) /\ ~(s.received < Model)
      BY <3>3, <3>6, <2>1, Sizes DEF Stamped, Sessions, s
    <3> QED BY <3>4, <3>5, <3>6
  <2>3. CASE c \notin accepted
    <3>1. s.received = 0 /\ a.received = 0
      BY <2>3, EndPoints DEF ClientInv, Unconnected
    <3>2. Downlink(c) = 0 - 1
      BY <3>1, <2>1, Sizes DEF Downlink, Stamped
    <3> QED BY <3>1, <3>2, Sizes DEF DropsOut
  <2> QED BY <2>2, <2>3
<1> QED BY <1>1, Invariance, PTL

\* ClientApplication: its pacing and its callback never both lapse; at rest, a
\* client whose link held has given back every model in full.
THEOREM UplinkRuns == Spec => []UplinkNeverStalls
<1>1. Inv => UplinkNeverStalls
  <2> SUFFICES ASSUME Inv, Quiet, NEW c \in accepted, up[c]
               PROVE  session[c].received = Model * (app[c].received \div Model)
    BY DEF UplinkNeverStalls
  <2> DEFINE b == Model * cycle[c]
             s == session[c]
             a == app[c]
  <2>1. /\ s \in Sessions /\ a \in Apps /\ b \in Nat /\ cycle[c] \in Nat /\ c \in Clients
        /\ Flow(s, a, b, up[c], ~(async /\ stopped))
    BY EndPoints DEF Inv, TypeOK, ClientInv
  <2>2. a.next \notin {"training", "event"} /\ a.tx = 0
    BY <2>1 DEF Quiet
  <2>3. CASE a.received < b + Model
    <3>1. s.received = b /\ a.received \in Nat /\ b <= a.received
      BY <2>1, <2>3, Sizes DEF Flow, Receiving
    <3>2. a.received \div Model = cycle[c]
      <4>1. /\ Model * cycle[c] <= a.received /\ a.received < Model * cycle[c] + Model
            /\ Model \in Nat \ {0}
        BY <3>1, <2>3, Sizes
      <4> QED BY <4>1, <3>1, <2>1, Between
    <3> QED BY <3>1, <3>2
  <2>4. CASE ~(a.received < b + Model)
    <3>1. a.received = b + Model
      BY <2>1, <2>4, Sizes DEF Flow
    <3>2. s.received = b + Model
      <4> HIDE DEF b, s, a
      <4>1. Returning(s, a, b, up[c])
        BY <3>1, <2>1 DEF Flow
      <4>2. a.next # "callback"
        BY <4>1, <2>2, Sizes DEF Returning
      <4>3. a.toSend = 0
        BY <4>1, <4>2, <2>1, <2>2 DEF Returning, Apps
      <4> QED BY <4>1, <4>3, <2>1, <2>2 DEF Returning, Sessions
    <3>3. Model * (cycle[c] + 1) = b + Model /\ cycle[c] + 1 \in Nat
      BY <2>1, NextMultiple, Sizes
    <3>4. a.received \div Model = cycle[c] + 1
      <4>1. a.received < Model * (cycle[c] + 1) + Model
        BY <3>1, <3>3, <2>1, Sizes
      <4> QED BY <4>1, <3>1, <3>3, <2>1, Between, Sizes
    <3> QED BY <3>2, <3>3, <3>4
  <2> QED BY <2>3, <2>4
<1> QED BY <1>1, Invariance, PTL

-----------------------------------------------------------------------------
(***************************************************************************)
(* The one send event of the server                                         *)
(***************************************************************************)

AllUp == \A c \in Clients : up[c]

\* A model of c is back, or all of it is sent, or the next acknowledgement will
\* start the socket's sends again.
CanGetThrough(c) ==
    \/ session[c].received >= Model
    \/ session[c].toSend = 0
    \/ session[c].onSend /\ session[c].tx > 0

\* Whenever no send event is pending, a socket is not in need of one or will set
\* one; the other sockets may have lost theirs.
SomebodyCan ==
    (AllUp /\ accepted # {} /\ sendEvent = NoEvent) =>
        \E c \in accepted : CanGetThrough(c)

\* A call of SendModel sets an event, unless the socket needs none or asks for the
\* next acknowledgement to make the next call.
LEMMA SendModelCan ==
    ASSUME session \in [Clients -> Sessions], NEW c \in Clients, NEW s \in Sessions,
           NEW event, NEW older, SendModel(c, s, event, older), sendEvent' = NoEvent
    PROVE  CanGetThrough(c)'
<1>1. CASE s.tx = Buffer
  <2>1. session'[c] = [s EXCEPT !.onSend = TRUE]
    BY <1>1 DEF SendModel
  <2>2. session'[c].onSend /\ session'[c].tx = Buffer
    BY <2>1, <1>1 DEF Sessions
  <2> QED BY <2>2, Sizes DEF CanGetThrough
<1>2. CASE s.tx # Buffer /\ s.toSend = 0
  <2>1. session'[c] = s
    BY <1>2 DEF SendModel
  <2> QED BY <2>1, <1>2 DEF CanGetThrough
<1>3. CASE s.tx # Buffer /\ s.toSend # 0
  <2> DEFINE sent == [s EXCEPT !.toSend = @ - 1, !.tx = @ + 1]
  <2>1. sent.toSend \in Nat /\ session'[c] = sent
    BY <1>3, Sizes DEF SendModel, Sessions
  <2>2. ~(sent.toSend > 0)
    <3> SUFFICES ASSUME sent.toSend > 0 PROVE FALSE
      OBVIOUS
    <3>1. Schedule(c, event, older)
      BY <1>3 DEF SendModel
    <3>2. sendEvent' = c
      BY <3>1 DEF Schedule
    <3> QED BY <3>2, ClientsInRound
  <2> HIDE DEF sent
  <2> QED BY <2>1, <2>2 DEF CanGetThrough
<1> QED BY <1>1, <1>2, <1>3

\* Somebody who can get through still can when no socket gives up anything.
LEMMA StillCan ==
    ASSUME Inv, SomebodyCan, AllUp, accepted # {}, sendEvent = NoEvent,
           accepted' = accepted,
           \A c \in accepted : CanGetThrough(c) => CanGetThrough(c)'
    PROVE  \E c \in accepted' : CanGetThrough(c)'
BY DEF SomebodyCan

LEMMA DownStillCan ==
    ASSUME Inv, SomebodyCan, NEW c \in Clients, DeliverDown(c),
           AllUp, accepted # {}, sendEvent' = NoEvent
    PROVE  \E d \in accepted' : CanGetThrough(d)'
<1> DEFINE s == [session[c] EXCEPT !.tx = @ - 1]
<1>1. /\ ~stopped /\ session[c].tx > 0 /\ accepted' = accepted
      /\ IF Ready(s) THEN SendModel(c, s, sendEvent, others)
         ELSE /\ session' = [session EXCEPT ![c] = s]
              /\ UNCHANGED <<sendEvent, others>>
  BY DEF DeliverDown
<1>2. /\ session \in [Clients -> Sessions] /\ session[c] \in Sessions
  BY DEF Inv, TypeOK, Sessions
<1>3. /\ s \in Sessions /\ s.onSend = session[c].onSend /\ s.toSend = session[c].toSend
      /\ s.received = session[c].received
  <2>1. session[c].tx - 1 \in 0..Buffer
    BY <1>1, <1>2, Sizes DEF Sessions
  <2> QED BY <2>1, <1>2 DEF Sessions
<1>4. c \in accepted
  <2>1. ~Unconnected(session[c], app[c])
    BY <1>1, <1>2 DEF Unconnected, Sessions
  <2> QED BY <2>1 DEF Inv, ClientInv
<1> HIDE DEF s
<1>5. CASE Ready(s)
  <2>1. CanGetThrough(c)'
    BY <1>1, <1>2, <1>3, <1>5, SendModelCan
  <2> QED BY <2>1, <1>1, <1>4
<1>6. CASE ~Ready(s)
  <2>1. sendEvent = NoEvent /\ session' = [session EXCEPT ![c] = s]
    BY <1>1, <1>6
  <2>2. ~session[c].onSend
    BY <2>1, <1>3, <1>6 DEF Ready
  <2>3. ASSUME NEW d \in accepted, CanGetThrough(d) PROVE CanGetThrough(d)'
    <3>1. d \in Clients
      BY DEF Inv, TypeOK
    <3>2. CASE d = c
      <4>1. session'[d] = s
        BY <2>1, <3>1, <3>2, <1>2
      <4> QED BY <4>1, <3>2, <2>2, <2>3, <1>3 DEF CanGetThrough
    <3>3. CASE d # c
      <4>1. session'[d] = session[d]
        BY <2>1, <3>1, <3>3, <1>2
      <4> QED BY <4>1, <2>3 DEF CanGetThrough
    <3> QED BY <3>2, <3>3
  <2> QED BY <2>1, <2>3, <1>1, StillCan
<1> QED BY <1>5, <1>6

LEMMA UpStillCan ==
    ASSUME Inv, SomebodyCan, NEW c \in Clients, DeliverUp(c),
           AllUp, accepted # {}, sendEvent' = NoEvent
    PROVE  \E d \in accepted' : CanGetThrough(d)'
<1> DEFINE s == Received(c)
<1>1. /\ ~stopped /\ app[c].tx > 0 /\ accepted' = accepted /\ up[c]
      /\ \/ StartSendingModel(c, s)
         \/ session' = [session EXCEPT ![c] = s] /\ UNCHANGED sendEvent
  BY DEF DeliverUp, ModelIsBack
<1>2. /\ session \in [Clients -> Sessions] /\ session[c] \in Sessions
  BY DEF Inv, TypeOK, Sessions
<1>3. /\ c \in accepted /\ Returning(session[c], app[c], Model * cycle[c], up[c])
      /\ app[c] \in Apps /\ Model * cycle[c] \in Nat
      /\ Flow(session[c], app[c], Model * cycle[c], up[c], TRUE)
  BY <1>1, Writing, Connected
<1>4. /\ s.received = session[c].received + 1 /\ s.onSend = session[c].onSend
      /\ s.toSend = session[c].toSend /\ s.tx = session[c].tx
      /\ session[c].received \in Nat
  BY <1>2 DEF Received, Sessions
<1>5. CASE StartSendingModel(c, s)
  <2> DEFINE r == [s EXCEPT !.toSend = Model, !.toReceive = Model]
  <2>1. SendModel(c, r, sendEvent, others)
    BY <1>5 DEF StartSendingModel
  <2>2. s \in Sessions
    <3>1. Now(c) \in Stamps
      BY <1>1, <1>3, Clock
    <3>2. session[c].received + 1 \in Nat /\ session[c].toReceive - 1 \in 0..Model
      <4>1. app[c].next # "training"
        BY <1>1, <1>3 DEF Returning
      <4>2. /\ app[c].toSend + app[c].tx + session[c].received = Model * cycle[c] + Model
            /\ session[c].toReceive = Model * cycle[c] + Model - session[c].received
        BY <4>1, <1>3 DEF Returning
      <4> QED BY <4>2, <1>1, <1>2, <1>3, Sizes DEF Sessions, Apps
    <3>3. /\ (IF session[c].received % Model = 0 THEN Now(c) ELSE session[c].begin)
               \in Stamps
          /\ (IF session[c].toReceive = 1 THEN Now(c) ELSE session[c].end) \in Stamps
      BY <3>1, <1>2 DEF Sessions
    <3> QED BY <3>2, <3>3, <1>2 DEF Received, Sessions
  <2>4. r \in Sessions
    <3> HIDE DEF s
    <3>1. Model \in 0..Model
      BY Sizes
    <3> QED BY <3>1, <2>2 DEF Sessions
  <2> HIDE DEF r
  <2>3. CanGetThrough(c)'
    BY <2>1, <2>4, <1>2, SendModelCan
  <2> QED BY <2>3, <1>1, <1>3
<1>6. CASE session' = [session EXCEPT ![c] = s] /\ UNCHANGED sendEvent
  <2>1. ASSUME NEW d \in accepted, CanGetThrough(d) PROVE CanGetThrough(d)'
    <3>1. d \in Clients
      BY DEF Inv, TypeOK
    <3> HIDE DEF s
    <3>2. CASE d = c
      <4>1. session'[d] = s
        BY <1>6, <3>1, <3>2, <1>2
      <4> QED BY <4>1, <3>2, <2>1, <1>4, Sizes DEF CanGetThrough
    <3>3. CASE d # c
      <4>1. session'[d] = session[d]
        BY <1>6, <3>1, <3>3, <1>2
      <4> QED BY <4>1, <2>1 DEF CanGetThrough
    <3> QED BY <3>2, <3>3
  <2> QED BY <2>1, <1>1, <1>6, StillCan
<1> QED BY <1>1, <1>5, <1>6

LEMMA SomebodyCanKept == Inv /\ SomebodyCan /\ [Next]_vars => SomebodyCan'
<1> SUFFICES ASSUME Inv, SomebodyCan, [Next]_vars,
                    AllUp', accepted' # {}, sendEvent' = NoEvent
             PROVE  \E c \in accepted' : CanGetThrough(c)'
  BY DEF SomebodyCan
<1>1. session \in [Clients -> Sessions] /\ accepted \subseteq Clients
      /\ up \in [Clients -> BOOLEAN]
  BY DEF Inv, TypeOK, Sessions
<1>2. ASSUME NEW c \in Clients, Connect(c) PROVE \E d \in accepted' : CanGetThrough(d)'
  <2> DEFINE s == [session[c] EXCEPT !.toSend = Model, !.toReceive = Model]
  <2>1. c \in accepted' /\ SendModel(c, s, sendEvent, others)
    BY <1>2 DEF Connect, StartSendingModel
  <2>2. s \in Sessions
    <3>1. Model \in 0..Model /\ session[c] \in Sessions
      BY <1>1, Sizes
    <3> QED BY <3>1 DEF Sessions
  <2> HIDE DEF s
  <2> QED BY <2>1, <2>2, <1>1, SendModelCan
<1>3. ASSUME NEW c \in Clients, RunSendEvent(c) PROVE \E d \in accepted' : CanGetThrough(d)'
  <2>1. PICK latest \in BOOLEAN :
          LET event == IF latest THEN NoEvent ELSE sendEvent
              older == IF latest THEN others ELSE [others EXCEPT ![c] = @ - 1]
          IN  /\ IF latest THEN sendEvent = c ELSE others[c] > 0
              /\ \/ SendModel(c, session[c], event, older)
                 \/ ~up[c] /\ Unscheduled(event, older) /\ UNCHANGED session
    BY <1>3 DEF RunSendEvent
  <2>2. up[c] /\ accepted' = accepted
    BY <1>3 DEF RunSendEvent, AllUp
  <2>3. c \in accepted
    BY <2>1, ClientsInRound DEF Inv, Pending
  <2>4. \E event, older : SendModel(c, session[c], event, older)
    BY <2>1, <2>2
  <2>5. CanGetThrough(c)'
    BY <2>4, <1>1, SendModelCan
  <2> QED BY <2>2, <2>3, <2>5
<1>4. ASSUME NEW c \in Clients, DeliverDown(c) PROVE \E d \in accepted' : CanGetThrough(d)'
  <2>1. AllUp /\ accepted # {}
    BY <1>4 DEF DeliverDown, AllUp
  <2> QED BY <2>1, <1>4, DownStillCan
<1>5. ASSUME NEW c \in Clients, DeliverUp(c) PROVE \E d \in accepted' : CanGetThrough(d)'
  <2>1. AllUp /\ accepted # {}
    BY <1>5 DEF DeliverUp, AllUp
  <2> QED BY <2>1, <1>5, UpStillCan
<1>6. ASSUME NEW c \in Clients, Break(c) PROVE FALSE
  BY <1>1, <1>6 DEF Break, AllUp
<1>7. ASSUME UNCHANGED <<up, accepted, sendEvent, session>>
      PROVE  \E d \in accepted' : CanGetThrough(d)'
  BY <1>7 DEF SomebodyCan, AllUp, CanGetThrough
<1>8. ASSUME NEW c \in Clients, StartWriting(c) \/ ClientSend(c)
      PROVE  UNCHANGED <<up, accepted, sendEvent, session>>
  BY <1>8 DEF StartWriting, ClientSend
<1>9. StopAtLimit \/ Stopped \/ UNCHANGED vars => UNCHANGED <<up, accepted, sendEvent, session>>
  BY DEF StopAtLimit, Stopped, vars
<1> QED BY <1>2, <1>3, <1>4, <1>5, <1>6, <1>7, <1>8, <1>9 DEF Next, Work

\* Where nothing is left to happen, who can get through has got through.
LEMMA QuietServes ==
    ASSUME Inv, SomebodyCan, AllUp, Clients # {}, ~stopped, Quiet
    PROVE  \E c \in Clients : session[c].received >= Model
<1>1. accepted # {} /\ sendEvent = NoEvent /\ accepted \subseteq Clients
  BY DEF Quiet, AllUp, Inv, TypeOK
<1>2. PICK c \in accepted : CanGetThrough(c)
  BY <1>1 DEF SomebodyCan
<1> DEFINE b == Model * cycle[c]
           s == session[c]
           a == app[c]
<1>3. /\ c \in Clients /\ s \in Sessions /\ a \in Apps /\ b \in Nat
      /\ Flow(s, a, b, up[c], TRUE)
  BY <1>1, EndPoints DEF ClientInv
<1>4. s.tx = 0 /\ a.tx = 0 /\ a.next \notin {"training", "event"} /\ up[c]
  BY <1>3 DEF Quiet, AllUp
<1>5. CASE s.received >= Model
  BY <1>3, <1>5
<1>6. CASE ~(s.received >= Model)
  <2>1. s.toSend = 0
    BY <1>2, <1>4, <1>6 DEF CanGetThrough
  <2> HIDE DEF b, s, a
  <2>2. a.received = b + Model
    BY <2>1, <1>3, <1>4, Sizes DEF Flow, Apps
  <2>3. Returning(s, a, b, up[c])
    BY <2>2, <1>3 DEF Flow
  <2>4. a.toSend = 0
    BY <2>3, <1>3, <1>4, Sizes DEF Returning, Apps
  <2>5. s.received = b + Model
    BY <2>3, <2>4, <1>3, <1>4, Sizes DEF Returning, Sessions
  <2> QED BY <2>5, <1>3, <1>6, Sizes
<1> QED BY <1>5, <1>6

\* An asynchronous round is over when a model is back.
LEMMA LastModelServes ==
    ASSUME Inv, NEW c \in Clients, DeliverUp(c), stopped'
    PROVE  session'[c].received >= Model
<1> DEFINE s == Received(c)
<1>1. ~stopped /\ app[c].tx > 0 /\ up[c]
  BY DEF DeliverUp
<1>2. s.toReceive = 0 /\ session' = [session EXCEPT ![c] = s]
  BY <1>1 DEF DeliverUp, ModelIsBack
<1>3. /\ session[c] \in Sessions /\ session \in [Clients -> Sessions]
      /\ Returning(session[c], app[c], Model * cycle[c], up[c])
      /\ Model * cycle[c] \in Nat
  BY <1>1, Writing, EndPoints DEF Inv, TypeOK, Sessions
<1>4. s.received = session[c].received + 1 /\ s.toReceive = session[c].toReceive - 1
  BY <1>3 DEF Received, Sessions
<1>5. session[c].toReceive = Model * cycle[c] + Model - session[c].received
  BY <1>3 DEF Returning
<1> HIDE DEF s
<1> QED BY <1>2, <1>3, <1>4, <1>5, Sizes DEF Sessions

\* Server::HandleReadytoSend and SendModel: though sockets lose the one m_sendEvent
\* to each other and are then never served again, a round in which all links hold
\* does not end before a client has got through it.
THEOREM SomebodyGetsThrough == Spec => []NotAllStarve
<1>1. Init => SomebodyCan /\ NotAllStarve
  BY DEF Init, SomebodyCan, NotAllStarve
<1>2. Inv /\ SomebodyCan /\ [Next]_vars => SomebodyCan'
  BY SomebodyCanKept
<1>3. Inv /\ SomebodyCan /\ NotAllStarve /\ [Next]_vars => NotAllStarve'
  <2> SUFFICES ASSUME Inv, SomebodyCan, NotAllStarve, [Next]_vars,
                      stopped', Clients # {}, AllUp'
               PROVE  \E c \in Clients : session'[c].received >= Model
    BY DEF NotAllStarve, AllUp
  <2>1. CASE stopped
    <3>1. UNCHANGED vars
      BY <2>1 DEF Next, Work, Connect, RunSendEvent, DeliverDown, StartWriting, ClientSend,
                  DeliverUp, Break, StopAtLimit, Stopped
    <3> QED BY <3>1, <2>1 DEF vars, NotAllStarve, AllUp
  <2>2. CASE ~stopped
    <3>1. StopAtLimit \/ \E c \in Clients : DeliverUp(c)
      BY <2>2 DEF Next, Work, Connect, RunSendEvent, DeliverDown, StartWriting, ClientSend,
                  Break, Stopped, vars
    <3>2. CASE StopAtLimit
      <4>1. Quiet /\ AllUp /\ session' = session
        BY <3>2 DEF StopAtLimit, AllUp
      <4> QED BY <4>1, <2>2, QuietServes
    <3>3. CASE \E c \in Clients : DeliverUp(c)
      BY <3>3, LastModelServes
    <3> QED BY <3>1, <3>2, <3>3
  <2> QED BY <2>1, <2>2
<1> QED BY <1>1, <1>2, <1>3, Invariance, PTL DEF Spec
=============================================================================
