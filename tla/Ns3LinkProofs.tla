---------------------------- MODULE Ns3LinkProofs ----------------------------
(***************************************************************************)
(* Proofs about Ns3Link for every number of nodes and of rounds, wherever    *)
(* reads fall short and whichever process is killed.                        *)
(***************************************************************************)
EXTENDS Ns3Link, Integers, FiniteSetTheorems, FunctionTheorems,
        SequenceTheorems, TLAPS

-----------------------------------------------------------------------------
(***************************************************************************)
(* Streams of whole messages                                                *)
(***************************************************************************)

Messages == ({"header"} \X (0..NumClients)) \cup ({"flag"} \X BOOLEAN)
                \cup ({"stat"} \X Stats)

Pieces == Messages \X {1, 2}

\* The stream holds the n messages f[1], ..., f[n].
Carries(stream, n, f) ==
    /\ stream \in Seq(Pieces)
    /\ Len(stream) = 2 * n
    /\ \A i \in 1..n : stream[2 * i - 1][1] = f[i]

LEMMA CarriesNothing == \A f : Carries(<<>>, 0, f)
BY DEF Carries

LEMMA WriteCarries ==
    ASSUME NEW s, NEW n \in Nat, NEW f, Carries(s, n, f), NEW m \in Messages,
           NEW g, \A i \in 1..n : g[i] = f[i], g[n + 1] = m
    PROVE  Carries(Write(s, m), n + 1, g)
<1> DEFINE t == << <<m, 1>>, <<m, 2>> >>
<1>1. t \in Seq(Pieces) /\ Len(t) = 2 /\ t[1] = <<m, 1>>
  BY DEF Pieces
<1>2. s \in Seq(Pieces) /\ Len(s) = 2 * n
  BY DEF Carries
<1>3. Write(s, m) = s \o t
  BY DEF Write
<1> HIDE DEF t
<1>4. /\ s \o t \in Seq(Pieces) /\ Len(s \o t) = 2 * (n + 1)
      /\ \A i \in 1..Len(s) : (s \o t)[i] = s[i]
      /\ (s \o t)[2 * n + 1] = t[1]
  <2>1. /\ s \o t \in Seq(Pieces) /\ Len(s \o t) = Len(s) + Len(t)
        /\ \A i \in 1..(Len(s) + Len(t)) :
             (s \o t)[i] = IF i <= Len(s) THEN s[i] ELSE t[i - Len(s)]
    BY <1>1, <1>2, ConcatProperties
  <2> QED BY <2>1, <1>1, <1>2
<1>5. ASSUME NEW i \in 1..(n + 1) PROVE (s \o t)[2 * i - 1][1] = g[i]
  <2>1. CASE i <= n
    BY <2>1, <1>2, <1>4 DEF Carries
  <2>2. CASE i = n + 1
    <3>1. 2 * i - 1 = 2 * n + 1 /\ g[i] = m
      BY <2>2
    <3>2. t[1][1] = m
      BY <1>1
    <3> QED BY <3>1, <3>2, <1>4
  <2>3. i <= n \/ i = n + 1
    OBVIOUS
  <2> QED BY <2>1, <2>2, <2>3, Zenon
<1> QED BY <1>3, <1>4, <1>5 DEF Carries

LEMMA WriteFirst ==
    ASSUME NEW m \in Messages, NEW g, g[1] = m
    PROVE  Carries(Write(<<>>, m), 1, g)
<1> DEFINE n == 0
<1>1. n \in Nat /\ n = 0 /\ n + 1 = 1 /\ Carries(<<>>, n, g)
  BY CarriesNothing
<1>2. (\A i \in 1..n : g[i] = g[i]) /\ g[n + 1] = m
  BY <1>1
<1> HIDE DEF n
<1>3. Carries(Write(<<>>, m), n + 1, g)
  BY <1>1, <1>2, WriteCarries
<1> QED BY <1>1, <1>3

\* A read of a whole message takes the first one.
LEMMA GetsCarries ==
    ASSUME NEW s, NEW n \in Nat, NEW f, Carries(s, n, f), NEW m, Gets(s, m),
           NEW g, \A i \in 1..(n - 1) : g[i] = f[i + 1]
    PROVE  /\ n >= 1 /\ m = f[1]
           /\ Carries(Rest(s), n - 1, g)
<1>1. s \in Seq(Pieces) /\ Len(s) = 2 * n /\ n >= 1
  BY DEF Carries, Gets
<1>2. m = f[1]
  BY <1>1 DEF Carries, Gets
<1>3. /\ Rest(s) \in Seq(Pieces) /\ Len(Rest(s)) = 2 * (n - 1)
      /\ \A i \in 1..Len(Rest(s)) : Rest(s)[i] = s[i + 2]
  BY <1>1 DEF Rest
<1>4. ASSUME NEW i \in 1..(n - 1) PROVE Rest(s)[2 * i - 1][1] = g[i]
  BY <1>1, <1>3 DEF Carries
<1> QED BY <1>1, <1>2, <1>3, <1>4 DEF Carries

-----------------------------------------------------------------------------
(***************************************************************************)
(* The inductive invariant                                                  *)
(***************************************************************************)

\* The messages of a request, from the header on.
RequestMessage(j) ==
    IF j = 0 THEN Header(NumClients) ELSE Flag(j - 1 \in array)

\* How many of them ns-3 has read: none while it sends the end of the last answer.
Consumed ==
    CASE ns3 = "flags" -> next + 1
      [] ns3 = "header" /\ round = asked -> 0
      [] ns3 = "answering" /\ round # asked -> 0
      [] OTHER -> NumClients + 1

\* The stream to ns-3 holds what has been written of the request and not read; all
\* of it has been written when the answer is waited for.
RequestInv ==
    \E n \in 0..(NumClients + 1) :
        /\ Carries(toNs3, n, [i \in 1..n |-> RequestMessage(Consumed + i - 1)])
        /\ Consumed + n <= NumClients + 1
        /\ py = "asking" => /\ items \in 1..NumClients
                            /\ Consumed + n = NumClients + 1 - items
        /\ py \in {"waiting", "reading", "idle"} => Consumed + n = NumClients + 1

\* Where ns-3 is in the request: its round is the one that is asked for, or the
\* one before as long as nothing of the request is read.
SimulatorInv ==
    /\ ns3 = "header" => round = asked \/ round = asked + 1
    /\ ns3 = "flags" =>
         /\ round = asked /\ next < NumClients
         /\ \A j \in 0..(next - 1) : j \in inRound <=> j \in array
    /\ ns3 \in {"simulating", "answering"} /\ round = asked => inRound = array
    /\ ns3 = "simulating" => round = asked
    /\ ns3 = "answering" => \/ round = asked
                            \/ round + 1 = asked /\ InRoundFrom(next) = {}

Connected == ns3 \notin {"starting", "listening"}

\* The answer to the request has been begun, or will never be.
Served == \/ ns3 = "gone"
          \/ ns3 = "answering" /\ round = asked
          \/ ns3 = "header" /\ round = asked + 1

Entry(id) == <<"stat", <<id, asked>>>>

\* The entries of an answer come in the order of the nodes, each once: those read
\* before those in the stream, and these before those still to be written.
EntriesInv(n, ids) ==
    /\ \A i \in 1..n : /\ ids[i] \in array
                       /\ \A j \in 1..(i - 1) : ids[j] < ids[i]
                       /\ \A s \in ret : s[1] < ids[i]
                       /\ ns3 = "answering" => ids[i] < next
    /\ ret \subseteq array \X {asked}
    /\ ns3 = "answering" => \A s \in ret : s[1] < next

\* The stream to the Flower server, by what its thread is doing.
SleepingInv == ~Connected \/ ns3 = "gone"

IdleInv ==
    /\ Connected /\ Served
    /\ toPy = <<>>
    /\ ret = array \X {asked}
    /\ ns3 = "answering" => InRoundFrom(next) = {}

AskingInv == Connected /\ items \in 1..NumClients /\ toPy = <<>> /\ ret = {}

UnansweredInv == toPy = <<>> /\ (Served => ns3 = "gone")

AnsweredInv ==
    \E n \in Nat : \E ids :
        /\ Carries(toPy, n + 1, [i \in 1..(n + 1) |->
                      IF i = 1 THEN Header(Cardinality(array)) ELSE Entry(ids[i - 1])])
        /\ EntriesInv(n, ids)
        /\ Served

WaitingInv == Connected /\ ret = {} /\ (UnansweredInv \/ AnsweredInv)

ReadingInv ==
    /\ Connected /\ Served
    /\ items \in 1..NumClients /\ items + Cardinality(ret) = Cardinality(array)
    /\ \E n \in Nat : \E ids :
         /\ Carries(toPy, n, [i \in 1..n |-> Entry(ids[i])])
         /\ EntriesInv(n, ids)

PythonInv ==
    /\ ~Connected => /\ py \in {"sleeping", "raised", "gone"}
                     /\ asked = 0 /\ round = 1
                     /\ toNs3 = <<>>
    /\ py = "sleeping" => /\ SleepingInv /\ asked = 0 /\ array = {} /\ ret = {}
                          /\ toPy = <<>>
    /\ py = "idle" => IdleInv
    /\ py = "asking" => AskingInv
    /\ py = "waiting" => WaitingInv
    /\ py = "reading" => ReadingInv

Inv ==
    /\ TypeOK
    /\ ns3 # "gone" => RequestInv
    /\ SimulatorInv
    /\ PythonInv

LEMMA CarriesSame ==
    ASSUME NEW s, NEW n \in Nat, NEW f, NEW g, Carries(s, n, f),
           \A i \in 1..n : f[i] = g[i]
    PROVE  Carries(s, n, g)
BY DEF Carries

LEMMA NothingCarried ==
    ASSUME NEW s, NEW f, Carries(s, 0, f)
    PROVE  s = <<>>
BY DEF Carries

LEMMA Sizes == NumClients \in Nat \ {0} /\ NumRounds \in Nat
BY SizesPositive

LEMMA NodesAreNumbers == Nodes \subseteq Nat
BY Sizes DEF Nodes

LEMMA SubsetSize ==
    ASSUME NEW S \in SUBSET Nodes
    PROVE  IsFiniteSet(S) /\ Cardinality(S) \in 0..NumClients
<1>1. IsFiniteSet(Nodes) /\ Cardinality(Nodes) = NumClients
  BY Sizes, FS_Interval DEF Nodes
<1> QED BY <1>1, FS_Subset, FS_CardinalityType, Sizes

LEMMA ConsumedValue ==
    /\ ns3 = "flags" => Consumed = next + 1
    /\ ns3 = "header" /\ round = asked => Consumed = 0
    /\ ns3 = "answering" /\ round # asked => Consumed = 0
    /\ ns3 = "header" /\ round # asked => Consumed = NumClients + 1
    /\ ns3 = "answering" /\ round = asked => Consumed = NumClients + 1
    /\ ns3 \notin {"flags", "header", "answering"} => Consumed = NumClients + 1
BY DEF Consumed

LEMMA RequestKept ==
    ASSUME RequestInv, Consumed' = Consumed, UNCHANGED <<toNs3, array>>,
           py' = "asking" => py = "asking" /\ items' = items,
           py' \in {"waiting", "reading", "idle"} => py \in {"waiting", "reading", "idle"}
    PROVE  RequestInv'
<1>1. \A j : RequestMessage(j)' = RequestMessage(j)
  BY DEF RequestMessage, Header, Flag
<1>2. PICK n \in 0..(NumClients + 1) :
        /\ Carries(toNs3, n, [i \in 1..n |-> RequestMessage(Consumed + i - 1)])
        /\ Consumed + n <= NumClients + 1
        /\ py = "asking" => /\ items \in 1..NumClients
                            /\ Consumed + n = NumClients + 1 - items
        /\ py \in {"waiting", "reading", "idle"} => Consumed + n = NumClients + 1
  BY DEF RequestInv
<1>3. Carries(toNs3, n, [i \in 1..n |-> RequestMessage(Consumed + i - 1)])'
  BY <1>1, <1>2 DEF Carries
<1> QED BY <1>2, <1>3 DEF RequestInv

LEMMA FlagMessage ==
    ASSUME NEW j, j # 0
    PROVE  RequestMessage(j) = Flag(j - 1 \in array)
BY Zenon DEF RequestMessage

LEMMA RequestTyped == \A j \in 0..NumClients : RequestMessage(j) \in Messages
<1>1. Header(NumClients) \in Messages
  BY Sizes DEF Header, Messages
<1>2. ASSUME NEW b \in BOOLEAN PROVE Flag(b) \in Messages
  BY DEF Flag, Messages
<1>3. ASSUME NEW j PROVE (j - 1 \in array) \in BOOLEAN
  OBVIOUS
<1> QED BY <1>1, <1>2, <1>3 DEF RequestMessage

\* What a read that succeeds has read of a request.
LEMMA RequestRead ==
    ASSUME TypeOK, RequestInv, Consumed \in Nat, NEW m, Gets(toNs3, m)
    PROVE  /\ Consumed <= NumClients
           /\ m = RequestMessage(Consumed)
           /\ \E n \in 0..NumClients :
                /\ Carries(Rest(toNs3), n,
                           [i \in 1..n |-> RequestMessage(Consumed + 1 + i - 1)])
                /\ Consumed + 1 + n <= NumClients + 1
                /\ py = "asking" => /\ items \in 1..NumClients
                                    /\ Consumed + 1 + n = NumClients + 1 - items
                /\ py \in {"waiting", "reading", "idle"} =>
                     Consumed + 1 + n = NumClients + 1
<1>1. PICK n \in 0..(NumClients + 1) :
        /\ Carries(toNs3, n, [i \in 1..n |-> RequestMessage(Consumed + i - 1)])
        /\ Consumed + n <= NumClients + 1
        /\ py = "asking" => /\ items \in 1..NumClients
                            /\ Consumed + n = NumClients + 1 - items
        /\ py \in {"waiting", "reading", "idle"} => Consumed + n = NumClients + 1
  BY DEF RequestInv
<1> DEFINE f == [i \in 1..n |-> RequestMessage(Consumed + i - 1)]
           g == [i \in 1..(n - 1) |-> RequestMessage(Consumed + 1 + i - 1)]
<1>2. \A i \in 1..(n - 1) : g[i] = f[i + 1]
  <2> SUFFICES ASSUME NEW i \in 1..(n - 1) PROVE f[i + 1] = g[i]
    OBVIOUS
  <2>1. /\ i + 1 \in 1..n
        /\ Consumed + (i + 1) - 1 = Consumed + 1 + i - 1
    OBVIOUS
  <2> QED BY <2>1
<1>3. n >= 1 /\ m = f[1] /\ Carries(Rest(toNs3), n - 1, g)
  <2>1. Carries(toNs3, n, f) /\ n \in Nat
    BY <1>1, Sizes
  <2> HIDE DEF f, g
  <2> QED BY <2>1, <1>2, GetsCarries
<1>4. m = RequestMessage(Consumed)
  <2>1. Consumed + 1 - 1 = Consumed
    OBVIOUS
  <2> QED BY <1>3, <2>1
<1>5. n - 1 \in 0..NumClients
  BY <1>3, Sizes
<1>6. Consumed <= NumClients /\ Consumed + 1 + (n - 1) = Consumed + n
  BY <1>1, <1>3, Sizes
<1> QED BY <1>1, <1>3, <1>4, <1>5, <1>6

-----------------------------------------------------------------------------
(***************************************************************************)
(* The Flower server's steps                                                *)
(***************************************************************************)

LEMMA InvInitially == Init => Inv
<1> SUFFICES ASSUME Init PROVE Inv
  OBVIOUS
<1>1. TypeOK
  BY Sizes DEF Init, TypeOK
<1>2. RequestInv
  <2>1. Consumed = NumClients + 1
    BY ConsumedValue DEF Init
  <2>2. Carries(toNs3, 0, [i \in 1..0 |-> RequestMessage(Consumed + i - 1)])
    BY CarriesNothing DEF Init
  <2> QED BY <2>1, <2>2, Sizes DEF RequestInv, Init
<1>3. SimulatorInv /\ PythonInv
  BY DEF Init, SimulatorInv, PythonInv, SleepingInv, Connected
<1> QED BY <1>1, <1>2, <1>3 DEF Inv

LEMMA ConnectKeeps ==
    ASSUME Inv, Connect
    PROVE  Inv'
<1> USE DEF Inv
<1>1. CASE ns3 = "listening"
  <2>1. /\ py = "sleeping" /\ py' = "idle" /\ ns3' = "header"
        /\ asked = 0 /\ round = 1 /\ array = {} /\ ret = {} /\ toPy = <<>> /\ toNs3 = <<>>
        /\ UNCHANGED <<asked, array, items, ret, round, inRound, next, toNs3, toPy>>
    BY <1>1 DEF Connect, PythonInv, Connected
  <2>2. RequestInv'
    <3>1. Consumed' = NumClients + 1
      BY <2>1 DEF Consumed
    <3>2. Carries(toNs3, 0, [i \in 1..0 |-> RequestMessage(Consumed + i - 1)])'
      BY <2>1, CarriesNothing DEF Carries
    <3> QED BY <2>1, <3>1, <3>2, Sizes DEF RequestInv
  <2>3. TypeOK' /\ SimulatorInv'
    BY <2>1 DEF TypeOK, SimulatorInv
  <2>4. PythonInv'
    BY <2>1 DEF PythonInv, IdleInv, Connected, Served
  <2> QED BY <2>2, <2>3, <2>4
<1>2. CASE ns3 # "listening"
  <2>1. /\ py = "sleeping" /\ py' = "raised"
        /\ UNCHANGED <<ns3, asked, array, items, ret, round, inRound, next, toNs3, toPy>>
    BY <1>2 DEF Connect
  <2>2. ns3 # "gone" => RequestInv'
    BY <2>1, RequestKept DEF Consumed
  <2>3. TypeOK' /\ SimulatorInv' /\ PythonInv'
    BY <2>1 DEF TypeOK, SimulatorInv, PythonInv, Connected, InRoundFrom
  <2> QED BY <2>1, <2>2, <2>3
<1> QED BY <1>1, <1>2

\* The thread stops, for whatever reason.
LEMMA StopKeeps ==
    ASSUME Inv, py' \in {"raised", "gone"},
           UNCHANGED <<asked, array, items, ret, nsVars, toNs3, toPy>>
    PROVE  Inv'
<1> USE DEF Inv, nsVars
<1>1. ns3 # "gone" => RequestInv'
  BY RequestKept DEF Consumed
<1>2. TypeOK' /\ SimulatorInv' /\ PythonInv'
  BY DEF TypeOK, SimulatorInv, PythonInv, Connected, InRoundFrom
<1> QED BY <1>1, <1>2

LEMMA SendRequestKeeps ==
    ASSUME Inv, SendRequest
    PROVE  Inv'
<1> USE DEF Inv, nsVars
<1>1. /\ py = "idle" /\ py' = "asking" /\ asked < NumRounds
      /\ array' \in SUBSET Nodes /\ asked' = asked + 1
      /\ toNs3' = Write(toNs3, Header(NumClients))
      /\ items' = NumClients /\ ret' = {}
      /\ UNCHANGED <<ns3, round, inRound, next, toPy>>
  BY DEF SendRequest
<1>2. IdleInv /\ asked \in Nat /\ round \in Nat
  BY <1>1 DEF PythonInv, TypeOK
<1>3. TypeOK'
  BY <1>1, <1>2, Sizes DEF TypeOK
<1>4. SimulatorInv'
  BY <1>1, <1>2 DEF SimulatorInv, IdleInv, Served, Connected, InRoundFrom
<1>5. PythonInv'
  BY <1>1, <1>2, Sizes DEF PythonInv, AskingInv, IdleInv, Connected
<1>6. ns3 # "gone" => RequestInv'
  <2> SUFFICES ASSUME ns3 # "gone" PROVE RequestInv'
    OBVIOUS
  <2>1. Consumed = NumClients + 1
    BY <1>2, ConsumedValue DEF IdleInv, Served, Connected
  <2>2. Consumed' = 0
    BY <1>1, <1>2 DEF Consumed, IdleInv, Served, Connected
  <2>3. PICK n \in 0..(NumClients + 1) :
          /\ Carries(toNs3, n, [i \in 1..n |-> RequestMessage(Consumed + i - 1)])
          /\ Consumed + n <= NumClients + 1
    BY DEF RequestInv
  <2>4. n = 0 /\ n \in Nat
    BY <2>1, <2>3, Sizes
  <2>5. Header(NumClients) \in Messages
    BY Sizes DEF Header, Messages
  <2> DEFINE f == [i \in 1..n |-> RequestMessage(Consumed + i - 1)]
             g == [i \in 1..(n + 1) |-> RequestMessage(Consumed + i - 1)]'
  <2>6. (\A i \in 1..n : g[i] = f[i]) /\ g[n + 1] = Header(NumClients)
    BY <2>2, <2>4 DEF RequestMessage, Header
  <2>7. Carries(toNs3, n, f)
    BY <2>3
  <2> HIDE DEF f, g
  <2>8. Carries(toNs3', n + 1, g)
    BY <1>1, <2>4, <2>5, <2>6, <2>7, WriteCarries
  <2>9. Consumed' + (n + 1) = NumClients + 1 - items' /\ n + 1 \in 0..(NumClients + 1)
    BY <1>1, <2>2, <2>4, Sizes
  <2> QED BY <1>1, <2>8, <2>9, Sizes DEF RequestInv, Carries, g
<1> QED BY <1>1, <1>3, <1>4, <1>5, <1>6

\* While the request is written it is not answered.
LEMMA NotServed ==
    ASSUME Inv, py = "asking", ns3 # "gone"
    PROVE  ~Served /\ Consumed <= NumClients
<1>1. asked \in Nat /\ round \in Nat /\ items \in 1..NumClients
  BY DEF Inv, TypeOK, PythonInv, AskingInv
<1>2. Consumed \in Nat
  <2>1. next \in Nat
    BY Sizes DEF Inv, TypeOK
  <2> QED BY <2>1, ConsumedValue, Sizes
<1>3. Consumed <= NumClients
  <2>1. PICK n \in 0..(NumClients + 1) : Consumed + n = NumClients + 1 - items
    BY DEF Inv, RequestInv
  <2> QED BY <2>1, <1>1, <1>2, Sizes
<1> QED BY <1>1, <1>3, ConsumedValue, Sizes DEF Served

LEMMA SendElementKeeps ==
    ASSUME Inv, SendElement
    PROVE  Inv'
<1> USE DEF Inv, nsVars
<1>1. /\ py = "asking" /\ items' = items - 1
      /\ toNs3' = Write(toNs3, Flag(NumClients - items \in array))
      /\ py' = IF items = 1 THEN "waiting" ELSE "asking"
      /\ UNCHANGED <<asked, array, ret, ns3, round, inRound, next, toPy>>
  BY DEF SendElement
<1>2. AskingInv /\ items \in 1..NumClients
  BY <1>1 DEF PythonInv, AskingInv
<1>3. TypeOK'
  <2>1. py' \in {"sleeping", "idle", "asking", "waiting", "reading", "raised", "gone"}
    BY <1>1
  <2>2. items' \in 0..NumClients
    BY <1>1, <1>2, Sizes
  <2> QED BY <1>1, <2>1, <2>2 DEF TypeOK
<1>4. SimulatorInv'
  BY <1>1 DEF SimulatorInv, InRoundFrom
<1>5. PythonInv'
  <2>1. Connected' /\ UNCHANGED <<ns3, round, asked, toPy, ret>>
    BY <1>1, <1>2 DEF AskingInv, Connected
  <2>2. CASE items = 1
    <3>1. (Served => ns3 = "gone")'
      BY <1>1, NotServed DEF Served
    <3>2. WaitingInv'
      BY <2>1, <3>1, <1>1, <1>2 DEF WaitingInv, UnansweredInv, AskingInv
    <3> QED BY <2>1, <2>2, <3>2, <1>1 DEF PythonInv
  <2>3. CASE items # 1
    <3>1. AskingInv'
      BY <2>1, <2>3, <1>1, <1>2, Sizes DEF AskingInv
    <3> QED BY <2>1, <2>3, <3>1, <1>1 DEF PythonInv
  <2> QED BY <2>2, <2>3
<1>6. ns3 # "gone" => RequestInv'
  <2> SUFFICES ASSUME ns3 # "gone" PROVE RequestInv'
    OBVIOUS
  <2>1. PICK n \in 0..(NumClients + 1) :
          /\ Carries(toNs3, n, [i \in 1..n |-> RequestMessage(Consumed + i - 1)])
          /\ Consumed + n = NumClients + 1 - items
    BY <1>1 DEF RequestInv
  <2>2. Consumed' = Consumed /\ Consumed \in Nat
    <3>1. next \in Nat
      BY Sizes DEF TypeOK
    <3> QED BY <1>1, <3>1, ConsumedValue, Sizes DEF Consumed
  <2>3. n \in Nat /\ Consumed + n \in 1..NumClients
    BY <2>1, <2>2, <1>2, Sizes
  <2> DEFINE m == RequestMessage(Consumed + n)
             f == [i \in 1..n |-> RequestMessage(Consumed + i - 1)]
             g == [i \in 1..(n + 1) |-> RequestMessage(Consumed + i - 1)]
  <2>4. m = Flag(NumClients - items \in array) /\ m \in Messages
    <3>1. Consumed + n # 0 /\ (Consumed + n) - 1 = NumClients - items
      BY <2>1, <2>2, <2>3, <1>2, Sizes
    <3>2. m = Flag(NumClients - items \in array)
      <4>1. m = Flag((Consumed + n) - 1 \in array)
        BY <3>1, FlagMessage, Zenon
      <4> QED BY <4>1, <3>1, Zenon
    <3> QED BY <3>2, <2>3, RequestTyped
  <2>5. (\A i \in 1..n : g[i] = f[i]) /\ g[n + 1] = m
    <3>1. Consumed + (n + 1) - 1 = Consumed + n
      BY <2>2, <2>3
    <3> QED BY <3>1, <2>3
  <2>6. Carries(toNs3, n, f)
    BY <2>1
  <2> HIDE DEF f, g, m
  <2>7. Carries(toNs3', n + 1, g)
    BY <1>1, <2>3, <2>4, <2>5, <2>6, WriteCarries
  <2>8. \A j : RequestMessage(j)' = RequestMessage(j)
    BY <1>1 DEF RequestMessage, Header, Flag
  <2>9. Carries(toNs3, n + 1, [i \in 1..(n + 1) |-> RequestMessage(Consumed + i - 1)])'
    BY <2>2, <2>7, <2>8 DEF Carries, g
  <2>10. /\ Consumed' + (n + 1) = NumClients + 1 - items'
         /\ n + 1 \in 0..(NumClients + 1)
         /\ py' = "asking" => items' \in 1..NumClients
         /\ Consumed' + (n + 1) <= NumClients + 1
         /\ py' \in {"waiting", "reading", "idle"} =>
              Consumed' + (n + 1) = NumClients + 1
    BY <1>1, <1>2, <2>1, <2>2, <2>3, Sizes
  <2> QED BY <2>9, <2>10, Zenon DEF RequestInv
<1> QED BY <1>1, <1>3, <1>4, <1>5, <1>6

LEMMA ReadHeaderKeeps ==
    ASSUME Inv, ReadHeader
    PROVE  Inv'
<1> USE DEF Inv, nsVars
<1>1. PICK k \in 0..NumClients : /\ Gets(toPy, Header(k))
                                 /\ items' = k /\ py' = IF k = 0 THEN "idle" ELSE "reading"
  BY DEF ReadHeader, EntriesLeft
<1>2. /\ py = "waiting" /\ toPy' = Rest(toPy)
      /\ UNCHANGED <<asked, array, ret, ns3, round, inRound, next, toNs3>>
  BY DEF ReadHeader
<1>3. Connected /\ ret = {} /\ AnsweredInv
  <2>1. toPy # <<>>
    BY <1>1 DEF Gets
  <2> QED BY <1>2, <2>1 DEF PythonInv, WaitingInv, UnansweredInv
<1> DEFINE f(n, ids) == [i \in 1..(n + 1) |->
                           IF i = 1 THEN Header(Cardinality(array)) ELSE Entry(ids[i - 1])]
           g(n, ids) == [i \in 1..n |-> Entry(ids[i])]
<1>4. Served /\ \E n \in Nat : \E ids : Carries(toPy, n + 1, f(n, ids)) /\ EntriesInv(n, ids)
  BY <1>3 DEF AnsweredInv
<1>n. PICK n \in Nat : \E ids : Carries(toPy, n + 1, f(n, ids)) /\ EntriesInv(n, ids)
  BY <1>4
<1>5. PICK ids : Carries(toPy, n + 1, f(n, ids)) /\ EntriesInv(n, ids)
  BY <1>n
<1>6. Header(k) = f(n, ids)[1] /\ Carries(toPy', n, g(n, ids))
  <2>1. \A i \in 1..((n + 1) - 1) : g(n, ids)[i] = f(n, ids)[i + 1]
    OBVIOUS
  <2> HIDE DEF f, g
  <2>2. n + 1 \in Nat /\ (n + 1) - 1 = n
    OBVIOUS
  <2>3. Header(k) = f(n, ids)[1] /\ Carries(Rest(toPy), (n + 1) - 1, g(n, ids))
    BY <1>1, <1>5, <2>1, <2>2, GetsCarries
  <2> QED BY <1>2, <2>2, <2>3
<1>7. k = Cardinality(array)
  BY <1>6 DEF Header
<1>8. EntriesInv(n, ids)' /\ Served' /\ Connected'
  BY <1>2, <1>3, <1>4, <1>5 DEF EntriesInv, Served, Connected
<1>9. array \in SUBSET Nodes /\ IsFiniteSet(array)
  BY SubsetSize DEF TypeOK
<1>10. PythonInv'
  <2>1. CASE k = 0
    <3>1. array = {}
      BY <2>1, <1>7, <1>9, FS_EmptySet
    <3>2. n = 0
      BY <3>1, <1>5 DEF EntriesInv
    <3>3. toPy' = <<>>
      BY <3>2, <1>6, NothingCarried
    <3>4. ns3 = "answering" => InRoundFrom(next) = {}
      <4>1. ns3 = "answering" => inRound = {}
        BY <3>1, <1>4 DEF Served, SimulatorInv
      <4> QED BY <4>1 DEF InRoundFrom
    <3>5. IdleInv'
      BY <3>1, <3>3, <3>4, <1>2, <1>3, <1>8 DEF IdleInv, InRoundFrom
    <3> QED BY <2>1, <3>5, <1>1, <1>2, <1>8 DEF PythonInv
  <2>2. CASE k # 0
    <3>1. k \in 1..NumClients /\ Cardinality(ret') = 0
      BY <2>2, <1>2, <1>3, FS_EmptySet
    <3>2. k + Cardinality(ret') = Cardinality(array')
      BY <3>1, <1>2, <1>7
    <3>3. Carries(toPy, n, [i \in 1..n |-> Entry(ids[i])])'
      BY <1>2, <1>6 DEF Entry
    <3>4. ReadingInv'
      BY <3>1, <3>2, <3>3, <1>1, <1>8 DEF ReadingInv
    <3> QED BY <2>2, <3>4, <1>1, <1>2, <1>8 DEF PythonInv
  <2> QED BY <2>1, <2>2
<1>11. TypeOK'
  BY <1>1, <1>2 DEF TypeOK
<1>12. SimulatorInv'
  BY <1>2 DEF SimulatorInv, InRoundFrom
<1>13. ns3 # "gone" => RequestInv'
  BY <1>1, <1>2, RequestKept DEF Consumed
<1> QED BY <1>2, <1>10, <1>11, <1>12, <1>13

\* As many entries of this answer as were asked for are all of them.
LEMMA AllEntries ==
    ASSUME TypeOK, NEW R \in SUBSET (array \X {asked}), Cardinality(R) = Cardinality(array)
    PROVE  R = array \X {asked}
<1> DEFINE T == array \X {asked}
           f == [id \in array |-> <<id, asked>>]
<1>1. IsFiniteSet(array)
  BY SubsetSize DEF TypeOK
<1>2. f \in Surjection(array, T)
  <2>1. \A t \in T : \E id \in array : f[id] = t
    OBVIOUS
  <2>2. f \in [array -> T]
    OBVIOUS
  <2> QED BY <2>1, <2>2, Zenon DEF Surjection
<1> HIDE DEF f
<1>3. IsFiniteSet(T) /\ Cardinality(T) <= Cardinality(array)
  BY <1>1, <1>2, FS_Surjection
<1>4. Cardinality(R) <= Cardinality(T) /\ (Cardinality(T) = Cardinality(R) => T = R)
  BY <1>3, FS_Subset
<1>5. Cardinality(T) \in Nat /\ Cardinality(array) \in Nat
  BY <1>1, <1>3, FS_CardinalityType
<1> QED BY <1>3, <1>4, <1>5

LEMMA ReadEntryKeeps ==
    ASSUME Inv, ReadEntry
    PROVE  Inv'
<1> USE DEF Inv, nsVars
<1>1. PICK s \in Stats : Gets(toPy, <<"stat", s>>) /\ ret' = ret \cup {s}
  BY DEF ReadEntry
<1>2. /\ py = "reading" /\ toPy' = Rest(toPy)
      /\ items' = items - 1 /\ py' = IF items = 1 THEN "idle" ELSE "reading"
      /\ UNCHANGED <<asked, array, ns3, round, inRound, next, toNs3>>
  <2>1. items \in Nat
    BY Sizes DEF TypeOK
  <2> QED BY <2>1 DEF ReadEntry, EntriesLeft
<1>3. /\ Connected /\ Served /\ items \in 1..NumClients
      /\ items + Cardinality(ret) = Cardinality(array)
  BY <1>2 DEF PythonInv, ReadingInv
<1> DEFINE f(n, ids) == [i \in 1..n |-> Entry(ids[i])]
<1>n. PICK n \in Nat : \E ids : Carries(toPy, n, f(n, ids)) /\ EntriesInv(n, ids)
  BY <1>2 DEF PythonInv, ReadingInv
<1>4. PICK ids : Carries(toPy, n, f(n, ids)) /\ EntriesInv(n, ids)
  BY <1>n
<1> DEFINE rest == [i \in 1..(n - 1) |-> ids[i + 1]]
<1>5. n >= 1 /\ <<"stat", s>> = f(n, ids)[1] /\ Carries(toPy', n - 1, f(n - 1, rest))
  <2>1. \A i \in 1..(n - 1) : f(n - 1, rest)[i] = f(n, ids)[i + 1]
    OBVIOUS
  <2> HIDE DEF f, rest
  <2> QED BY <1>1, <1>2, <1>4, <2>1, GetsCarries
<1>6. s = <<ids[1], asked>> /\ ids[1] \in array
  BY <1>4, <1>5 DEF Entry, EntriesInv
<1>7. /\ array \in SUBSET Nodes /\ inRound \in SUBSET Nodes
      /\ asked \in Nat /\ next \in Nat /\ n \in Nat /\ n - 1 \in Nat
  BY <1>5, Sizes DEF TypeOK
<1>8. \A i \in 1..n : ids[i] \in Nat /\ ids[i] \in array
  BY <1>4, <1>7, NodesAreNumbers DEF EntriesInv
<1>9. EntriesInv(n - 1, rest)'
  <2>1. ASSUME NEW i \in 1..(n - 1)
        PROVE  /\ rest[i] \in array
               /\ \A j \in 1..(i - 1) : rest[j] < rest[i]
               /\ \A e \in ret' : e[1] < rest[i]
               /\ ns3 = "answering" => rest[i] < next
    <3>1. i + 1 \in 1..n /\ rest[i] = ids[i + 1]
      BY <1>7
    <3>2. /\ rest[i] \in array
          /\ \A e \in ret : e[1] < rest[i]
          /\ ns3 = "answering" => rest[i] < next
          /\ \A j \in 1..((i + 1) - 1) : ids[j] < ids[i + 1]
      BY <3>1, <1>4 DEF EntriesInv
    <3>3. \A j \in 1..(i - 1) : rest[j] < rest[i]
      <4> SUFFICES ASSUME NEW j \in 1..(i - 1) PROVE ids[j + 1] < ids[i + 1]
        BY <3>1
      <4>1. j + 1 \in 1..((i + 1) - 1)
        OBVIOUS
      <4> QED BY <4>1, <3>2
    <3>4. s[1] < rest[i]
      <4>1. 1 \in 1..((i + 1) - 1)
        OBVIOUS
      <4> QED BY <4>1, <3>1, <3>2, <1>6
    <3> HIDE DEF rest
    <3> QED BY <3>2, <3>3, <3>4, <1>1
  <2>2. ret' \subseteq array \X {asked}
    BY <1>1, <1>4, <1>6 DEF EntriesInv
  <2>3. ns3 = "answering" => \A e \in ret' : e[1] < next
    <3>1. ns3 = "answering" => ids[1] < next
      BY <1>4, <1>5 DEF EntriesInv
    <3> QED BY <3>1, <1>1, <1>4, <1>6 DEF EntriesInv
  <2> HIDE DEF rest
  <2> QED BY <2>1, <2>2, <2>3, <1>2 DEF EntriesInv
<1>10. /\ Cardinality(ret') = Cardinality(ret) + 1 /\ Cardinality(ret) \in Nat
       /\ Cardinality(array) \in Nat
  <2>1. s \notin ret
    <3>1. \A e \in ret : e[1] < ids[1]
      BY <1>4, <1>5 DEF EntriesInv
    <3> QED BY <3>1, <1>5, <1>6, <1>8
  <2>2. IsFiniteSet(ret)
    <3>1. IsFiniteSet(array) /\ IsFiniteSet({asked})
      BY <1>7, SubsetSize, FS_Singleton
    <3>2. IsFiniteSet(array \X {asked})
      BY <3>1, FS_Product
    <3>3. ret \subseteq array \X {asked}
      BY <1>4 DEF EntriesInv
    <3> QED BY <3>2, <3>3, FS_Subset
  <2> QED BY <2>1, <2>2, <1>1, <1>7, SubsetSize, FS_AddElement, FS_CardinalityType
<1>11. Served' /\ Connected'
  BY <1>2, <1>3 DEF Served, Connected
<1> HIDE DEF rest
<1>12. PythonInv'
  <2>1. CASE items = 1
    <3>1. ret' = array \X {asked}
      <4>1. Cardinality(ret') = Cardinality(array) /\ ret' \in SUBSET (array \X {asked})
        BY <2>1, <1>2, <1>3, <1>9, <1>10 DEF EntriesInv
      <4> QED BY <4>1, AllEntries
    <3>2. n - 1 = 0
      <4> SUFFICES ASSUME n - 1 # 0 PROVE FALSE
        OBVIOUS
      <4>1. 1 \in 1..(n - 1) /\ ids[2] = rest[1]
        BY <1>7 DEF rest
      <4>2. rest[1] \in array /\ \A e \in ret' : e[1] < rest[1]
        BY <4>1, <1>2, <1>9 DEF EntriesInv
      <4>3. <<rest[1], asked>> \in ret'
        BY <4>2, <3>1
      <4>4. rest[1] < rest[1]
        BY <4>2, <4>3
      <4>5. rest[1] \in Nat
        BY <4>2, <1>7, NodesAreNumbers
      <4> QED BY <4>4, <4>5
    <3>3. toPy' = <<>>
      BY <3>2, <1>5, NothingCarried
    <3>4. ns3 = "answering" => InRoundFrom(next) = {}
      <4> SUFFICES ASSUME ns3 = "answering", NEW id \in InRoundFrom(next) PROVE FALSE
        OBVIOUS
      <4>1. id \in inRound /\ id >= next /\ inRound = array
        BY <1>3 DEF Served, SimulatorInv, InRoundFrom
      <4>2. <<id, asked>> \in ret'
        BY <4>1, <3>1
      <4>3. id < next
        BY <4>2, <1>2, <1>9 DEF EntriesInv
      <4>4. id \in Nat
        BY <4>1, <1>7, NodesAreNumbers
      <4> QED BY <4>1, <4>3, <4>4, <1>7
    <3>5. IdleInv'
      BY <3>1, <3>3, <3>4, <1>2, <1>11 DEF IdleInv, InRoundFrom
    <3> QED BY <2>1, <3>5, <1>2, <1>11 DEF PythonInv
  <2>2. CASE items # 1
    <3>1. items' \in 1..NumClients /\ items' + Cardinality(ret') = Cardinality(array')
      BY <2>2, <1>2, <1>3, <1>10, Sizes
    <3>2. Carries(toPy, n - 1, [i \in 1..(n - 1) |-> Entry(rest[i])])'
      <4>1. Carries(toPy', n - 1, [i \in 1..(n - 1) |-> Entry(rest[i])])
        BY <1>5
      <4>2. \A id : Entry(id)' = Entry(id)
        BY <1>2 DEF Entry
      <4> QED BY <4>1, <4>2 DEF Carries, rest
    <3>3. ReadingInv'
      BY <3>1, <3>2, <1>7, <1>9, <1>11 DEF ReadingInv
    <3> QED BY <2>2, <3>3, <1>2, <1>11 DEF PythonInv
  <2> QED BY <2>1, <2>2
<1>13. TypeOK'
  BY <1>1, <1>2, <1>3, Sizes DEF TypeOK
<1>14. SimulatorInv'
  BY <1>2 DEF SimulatorInv, InRoundFrom
<1>15. ns3 # "gone" => RequestInv'
  BY <1>2, RequestKept DEF Consumed
<1> QED BY <1>2, <1>12, <1>13, <1>14, <1>15

-----------------------------------------------------------------------------
(***************************************************************************)
(* The simulator's steps                                                    *)
(***************************************************************************)

LEMMA ListenKeeps ==
    ASSUME Inv, Listen
    PROVE  Inv'
<1> USE DEF Inv, pyVars
<1>1. /\ ns3 = "starting" /\ ns3' = "listening"
      /\ UNCHANGED <<py, asked, array, items, ret, round, inRound, next, toNs3, toPy>>
  BY DEF Listen
<1>2. RequestInv'
  <2>1. Consumed' = Consumed
    BY <1>1, ConsumedValue DEF Consumed
  <2> QED BY <2>1, <1>1, RequestKept
<1>3. TypeOK' /\ SimulatorInv'
  BY <1>1 DEF TypeOK, SimulatorInv
<1>4. PythonInv'
  BY <1>1 DEF PythonInv, SleepingInv, Connected, IdleInv, AskingInv, WaitingInv, ReadingInv
<1> QED BY <1>2, <1>3, <1>4

\* ns-3's process ends, for whatever reason.
LEMMA GoneKeeps ==
    ASSUME Inv, ns3' = "gone", UNCHANGED <<pyVars, round, inRound, next, toNs3, toPy>>
    PROVE  Inv'
<1> USE DEF Inv, pyVars
<1>1. TypeOK' /\ SimulatorInv'
  BY DEF TypeOK, SimulatorInv
<1>2. Connected' /\ Served'
  BY DEF Connected, Served
<1>3. \A n, ids : EntriesInv(n, ids) => EntriesInv(n, ids)'
  BY DEF EntriesInv
<1>4. \A id : Entry(id)' = Entry(id)
  BY DEF Entry
<1>5. py = "waiting" => WaitingInv'
  <2>1. CASE UnansweredInv
    BY <2>1, <1>2 DEF WaitingInv, UnansweredInv, PythonInv
  <2>2. CASE AnsweredInv
    <3>1. AnsweredInv'
      BY <2>2, <1>2, <1>3, <1>4 DEF AnsweredInv, Header
    <3> QED BY <3>1, <1>2 DEF WaitingInv, PythonInv
  <2> QED BY <2>1, <2>2 DEF WaitingInv, PythonInv
<1>6. py = "reading" => ReadingInv'
  BY <1>2, <1>3, <1>4 DEF PythonInv, ReadingInv
<1>7. PythonInv'
  BY <1>2, <1>5, <1>6 DEF PythonInv, SleepingInv, IdleInv, AskingInv
<1> QED BY <1>1, <1>7

\* A message of a request is read: ns-3 is in a round that is not answered.
LEMMA ReadKeepsPython ==
    ASSUME Inv, UNCHANGED <<pyVars, round, toPy>>, ns3 \in {"header", "flags"},
           ns3' \in {"flags", "simulating"}, round = asked
    PROVE  PythonInv'
<1> USE DEF Inv, pyVars
<1>1. Connected /\ Connected' /\ ~Served /\ ~Served' /\ asked \in Nat /\ asked # 0
  BY DEF Connected, Served, TypeOK
<1>2. py \notin {"sleeping", "idle", "reading"}
  BY <1>1 DEF PythonInv, SleepingInv, IdleInv, ReadingInv
<1>3. py = "asking" => AskingInv'
  BY <1>1 DEF PythonInv, AskingInv
<1>4. py = "waiting" => WaitingInv'
  BY <1>1 DEF PythonInv, WaitingInv, UnansweredInv, AnsweredInv
<1> QED BY <1>1, <1>2, <1>3, <1>4 DEF PythonInv

LEMMA RequestAdvances ==
    ASSUME Inv, ns3 # "gone", NEW m, Gets(toNs3, m), toNs3' = Rest(toNs3),
           Consumed \in Nat, Consumed' = Consumed + 1, UNCHANGED pyVars
    PROVE  RequestInv'
<1>1. PICK n \in 0..NumClients :
        /\ Carries(Rest(toNs3), n,
                   [i \in 1..n |-> RequestMessage(Consumed + 1 + i - 1)])
        /\ Consumed + 1 + n <= NumClients + 1
        /\ py = "asking" => /\ items \in 1..NumClients
                            /\ Consumed + 1 + n = NumClients + 1 - items
        /\ py \in {"waiting", "reading", "idle"} => Consumed + 1 + n = NumClients + 1
  BY RequestRead DEF Inv
<1>2. \A j : RequestMessage(j)' = RequestMessage(j)
  BY DEF RequestMessage, Header, Flag, pyVars
<1>3. Carries(toNs3, n, [i \in 1..n |-> RequestMessage(Consumed + i - 1)])'
  BY <1>1, <1>2 DEF Carries
<1>4. n \in 0..(NumClients + 1)
  BY Sizes
<1>5. UNCHANGED <<py, items>>
  BY DEF pyVars
<1> QED BY <1>1, <1>3, <1>4, <1>5 DEF RequestInv

LEMMA RecvCommandKeeps ==
    ASSUME Inv, RecvCommand
    PROVE  Inv'
<1> USE DEF Inv
<1>1. /\ ns3 = "header" /\ ns3' = "flags" /\ next' = 0
      /\ Gets(toNs3, Header(NumClients)) /\ toNs3' = Rest(toNs3)
      /\ UNCHANGED <<pyVars, round, inRound, toPy>>
  BY DEF RecvCommand
<1>2. round = asked /\ Consumed = 0
  <2>1. Consumed \in Nat
    BY <1>1, ConsumedValue, Sizes
  <2>2. Consumed <= NumClients
    BY <1>1, <2>1, RequestRead
  <2> QED BY <1>1, <2>2, ConsumedValue, Sizes
<1>3. Consumed' = 1
  BY <1>1 DEF Consumed
<1>4. RequestInv'
  <2>1. /\ Gets(toNs3, Header(NumClients)) /\ ns3 # "gone"
        /\ Consumed \in Nat /\ Consumed' = Consumed + 1
    BY <1>1, <1>2, <1>3
  <2> QED BY <2>1, <1>1, RequestAdvances
<1>5. TypeOK'
  BY <1>1, Sizes DEF TypeOK, pyVars
<1>6. SimulatorInv'
  BY <1>1, <1>2, Sizes DEF SimulatorInv, pyVars
<1>7. PythonInv'
  BY <1>1, <1>2, ReadKeepsPython
<1> QED BY <1>4, <1>5, <1>6, <1>7

LEMMA RecvFlagKeeps ==
    ASSUME Inv, RecvFlag
    PROVE  Inv'
<1> USE DEF Inv
<1>1. PICK b \in BOOLEAN : Gets(toNs3, Flag(b)) /\ SetInRound(b)
  BY DEF RecvFlag
<1>2. /\ ns3 = "flags" /\ next' = next + 1
      /\ inRound' = IF b THEN inRound \cup {next} ELSE inRound \ {next}
      /\ ns3' = IF next + 1 = NumClients THEN "simulating" ELSE "flags"
      /\ toNs3' = Rest(toNs3)
      /\ UNCHANGED <<pyVars, round, toPy>>
  BY <1>1 DEF RecvFlag, SetInRound
<1>3. /\ round = asked /\ next \in 0..(NumClients - 1)
      /\ Consumed = next + 1 /\ Consumed \in Nat /\ Consumed # 0
      /\ \A j \in 0..(next - 1) : j \in inRound <=> j \in array
      /\ inRound \subseteq Nodes /\ array \subseteq Nodes
  BY <1>2, ConsumedValue, Sizes DEF SimulatorInv, TypeOK
<1>4. b <=> next \in array
  <2>1. Flag(b) = RequestMessage(Consumed)
    BY <1>1, <1>2, <1>3, RequestRead
  <2>2. Flag(b) = Flag(Consumed - 1 \in array) /\ Consumed - 1 = next
    BY <2>1, <1>3, FlagMessage
  <2>3. Flag(b) = Flag(next \in array)
    BY <2>2, Zenon
  <2>4. b = (next \in array)
    BY <2>3 DEF Flag
  <2> QED BY <2>4
<1>5. \A j \in 0..next : j \in inRound' <=> j \in array
  <2> SUFFICES ASSUME NEW j \in 0..next PROVE j \in inRound' <=> j \in array
    OBVIOUS
  <2>1. CASE j = next
    BY <2>1, <1>2, <1>4
  <2>2. CASE j # next
    <3>1. j \in 0..(next - 1)
      BY <2>2, <1>3
    <3> QED BY <2>2, <3>1, <1>2, <1>3
  <2> QED BY <2>1, <2>2
<1>6. inRound' \subseteq Nodes
  BY <1>2, <1>3 DEF Nodes
<1>7. Consumed' = Consumed + 1
  BY <1>2, <1>3 DEF Consumed
<1>8. RequestInv'
  <2>1. ns3 # "gone" /\ Gets(toNs3, Flag(b))
    BY <1>1, <1>2
  <2> QED BY <2>1, <1>2, <1>3, <1>7, RequestAdvances
<1>9. TypeOK'
  BY <1>2, <1>3, <1>6, Sizes DEF TypeOK, pyVars
<1>10. SimulatorInv'
  <2>1. CASE next + 1 = NumClients
    <3>1. inRound' = array
      <4>1. Nodes = 0..next
        BY <2>1, <1>3, Sizes DEF Nodes
      <4>2. \A j \in Nodes : j \in inRound' <=> j \in array
        BY <4>1, <1>5
      <4> QED BY <4>2, <1>3, <1>6
    <3> QED BY <2>1, <3>1, <1>2, <1>3 DEF SimulatorInv, pyVars
  <2>2. CASE next + 1 # NumClients
    <3>1. next' < NumClients /\ \A j \in 0..(next' - 1) : j \in inRound' <=> j \in array'
      BY <2>2, <1>2, <1>3, <1>5, Sizes DEF pyVars
    <3> QED BY <2>2, <3>1, <1>2, <1>3 DEF SimulatorInv, pyVars
  <2> QED BY <2>1, <2>2
<1>11. PythonInv'
  BY <1>2, <1>3, ReadKeepsPython
<1> QED BY <1>8, <1>9, <1>10, <1>11

LEMMA RespondKeeps ==
    ASSUME Inv, Respond
    PROVE  Inv'
<1> USE DEF Inv
<1>1. /\ ns3 = "simulating" /\ ns3' = "answering" /\ next' = 0
      /\ toPy' = Write(toPy, Header(Cardinality(inRound)))
      /\ UNCHANGED <<pyVars, py, asked, array, items, ret, round, inRound, toNs3>>
  BY DEF Respond, Answer, pyVars
<1>2. /\ round = asked /\ inRound = array /\ Consumed = NumClients + 1
      /\ Connected /\ ~Served
  BY <1>1, ConsumedValue DEF SimulatorInv, Connected, Served
<1>3. py \notin {"sleeping", "idle", "asking", "reading"}
  <2>1. py # "asking"
    BY <1>1, <1>2, NotServed, Sizes
  <2> QED BY <1>1, <1>2, <2>1 DEF PythonInv, SleepingInv, IdleInv, ReadingInv
<1>4. TypeOK' /\ SimulatorInv'
  BY <1>1, <1>2, Sizes DEF TypeOK, SimulatorInv
<1>5. RequestInv'
  <2>1. Consumed' = Consumed
    BY <1>1, <1>2 DEF Consumed
  <2> QED BY <2>1, <1>1, RequestKept
<1>6. Connected' /\ Served'
  BY <1>1, <1>2 DEF Connected, Served
<1>7. py = "waiting" => WaitingInv'
  <2> SUFFICES ASSUME py = "waiting" PROVE WaitingInv'
    OBVIOUS
  <2>1. ret = {} /\ toPy = <<>>
    BY <1>2 DEF PythonInv, WaitingInv, UnansweredInv, AnsweredInv
  <2> DEFINE ids == <<>>
             g == [i \in 1..(0 + 1) |-> IF i = 1 THEN Header(Cardinality(array))
                                       ELSE Entry(ids[i - 1])]
  <2>2. Header(Cardinality(array)) \in Messages
    <3>1. Cardinality(array) \in 0..NumClients
      BY SubsetSize DEF TypeOK
    <3> QED BY <3>1 DEF Header, Messages
  <2>3. g[1] = Header(Cardinality(array))
    OBVIOUS
  <2> HIDE DEF g
  <2>4. Carries(toPy', 1, g)
    BY <1>1, <1>2, <2>1, <2>2, <2>3, WriteFirst
  <2>5. \A id : Entry(id)' = Entry(id)
    BY <1>1 DEF Entry
  <2>6. Carries(toPy, 0 + 1, [i \in 1..(0 + 1) |->
                    IF i = 1 THEN Header(Cardinality(array)) ELSE Entry(ids[i - 1])])'
    BY <1>1, <2>4, <2>5 DEF Carries, g, Header
  <2>7. EntriesInv(0, ids)'
    BY <1>1, <2>1 DEF EntriesInv
  <2>8. AnsweredInv'
    BY <2>6, <2>7, <1>6 DEF AnsweredInv
  <2> QED BY <1>1, <1>6, <2>1, <2>8 DEF WaitingInv
<1>8. PythonInv'
  BY <1>1, <1>3, <1>6, <1>7 DEF PythonInv
<1> QED BY <1>4, <1>5, <1>8

\* The next entry of an answer is that of a node above all those before it.
LEMMA EntryAdded ==
    ASSUME TypeOK, inRound = array, ns3 = "answering",
           NEW id \in InRoundFrom(next), next' = id + 1,
           UNCHANGED <<asked, array, ret>>,
           NEW n \in Nat, NEW ids, EntriesInv(n, ids)
    PROVE  EntriesInv(n + 1, [i \in 1..(n + 1) |-> IF i <= n THEN ids[i] ELSE id])'
<1> DEFINE more == [i \in 1..(n + 1) |-> IF i <= n THEN ids[i] ELSE id]
<1>1. id \in array /\ id \in Nat /\ next \in Nat /\ id >= next
  BY NodesAreNumbers, Sizes DEF TypeOK, InRoundFrom
<1>2. \A i \in 1..n : ids[i] \in Nat
  BY NodesAreNumbers DEF TypeOK, EntriesInv
<1>3. \A s \in ret : s[1] < id + 1 /\ s[1] < id
  <2> SUFFICES ASSUME NEW s \in ret PROVE s[1] < id + 1 /\ s[1] < id
    OBVIOUS
  <2>1. s[1] \in Nat
    BY NodesAreNumbers DEF TypeOK, EntriesInv
  <2>2. s[1] < next
    BY DEF EntriesInv
  <2> QED BY <2>1, <2>2, <1>1
<1>4. ASSUME NEW i \in 1..(n + 1)
      PROVE  /\ more[i] \in array
             /\ \A j \in 1..(i - 1) : more[j] < more[i]
             /\ \A s \in ret : s[1] < more[i]
             /\ more[i] < id + 1
  <2>1. CASE i <= n
    <3>1. /\ ids[i] \in array /\ ids[i] < next
          /\ \A j \in 1..(i - 1) : ids[j] < ids[i]
          /\ \A s \in ret : s[1] < ids[i]
      BY <2>1 DEF EntriesInv
    <3>2. \A j \in 1..(i - 1) : more[j] = ids[j]
      BY <2>1
    <3>3. more[i] = ids[i]
      BY <2>1
    <3> HIDE DEF more
    <3>4. ids[i] < id + 1
      BY <2>1, <3>1, <1>1, <1>2
    <3> QED BY <3>1, <3>2, <3>3, <3>4
  <2>2. CASE i = n + 1
    <3>1. more[i] = id /\ \A j \in 1..(i - 1) : j \in 1..n /\ more[j] = ids[j]
      BY <2>2
    <3>2. \A j \in 1..n : ids[j] < next
      BY DEF EntriesInv
    <3> HIDE DEF more
    <3>3. \A j \in 1..(i - 1) : more[j] < more[i]
      BY <3>1, <3>2, <1>1, <1>2
    <3> QED BY <3>1, <3>3, <1>1, <1>3
  <2>3. i <= n \/ i = n + 1
    OBVIOUS
  <2> HIDE DEF more
  <2> QED BY <2>1, <2>2, <2>3
<1> HIDE DEF more
<1>5. ret \subseteq array \X {asked}
  BY DEF EntriesInv
<1>6. EntriesInv(n + 1, more)'
  BY <1>3, <1>4, <1>5 DEF EntriesInv
<1> QED BY <1>6 DEF more

LEMMA EntryTyped ==
    ASSUME TypeOK, NEW id \in inRound, asked # 0
    PROVE  Entry(id) \in Messages
<1>1. <<id, asked>> \in Stats
  BY Sizes DEF TypeOK, Stats
<1> QED BY <1>1 DEF Entry, Messages

\* send writes an entry.
LEMMA WriteStatKeeps ==
    ASSUME Inv, ns3 = "answering", NEW id \in InRoundFrom(next),
           toPy' = Write(toPy, Stat(id)), next' = id + 1,
           UNCHANGED <<ns3, round, pyVars, inRound, toNs3>>
    PROVE  Inv'
<1> USE DEF Inv
<1>1. UNCHANGED <<py, asked, array, items, ret, ns3, round>>
  BY DEF pyVars
<1>2. /\ round = asked /\ inRound = array /\ asked # 0 /\ Connected
      /\ Stat(id) = Entry(id) /\ Entry(id) \in Messages
  <2>1. round = asked /\ inRound = array /\ asked # 0
    BY DEF SimulatorInv, TypeOK
  <2> QED BY <2>1, EntryTyped DEF Stat, Entry, Connected, InRoundFrom
<1>3. Connected' /\ Served /\ Served'
  BY <1>1, <1>2 DEF Connected, Served
<1>4. TypeOK'
  <2>1. id + 1 \in 0..NumClients
    BY Sizes DEF InRoundFrom, TypeOK, Nodes
  <2> QED BY <1>1, <2>1 DEF TypeOK
<1>5. SimulatorInv'
  BY <1>1, <1>2 DEF SimulatorInv
<1>6. RequestInv'
  <2>1. Consumed' = Consumed
    BY <1>1, <1>2 DEF Consumed
  <2> QED BY <1>1, <2>1, RequestKept
<1>7. py \notin {"sleeping", "idle", "asking"}
  <2>1. py # "asking"
    BY <1>3, NotServed
  <2> QED BY <2>1, <1>2 DEF PythonInv, SleepingInv, IdleInv
<1>8. \A e : Entry(e)' = Entry(e)
  BY <1>1 DEF Entry
<1> DEFINE more(n, ids) == [i \in 1..(n + 1) |-> IF i <= n THEN ids[i] ELSE id]
<1>9. ASSUME py = "waiting" PROVE WaitingInv'
  <2>1. AnsweredInv /\ ret = {}
    BY <1>3, <1>9 DEF PythonInv, WaitingInv, UnansweredInv
  <2> DEFINE f(n, ids) == [i \in 1..(n + 1) |->
               IF i = 1 THEN Header(Cardinality(array)) ELSE Entry(ids[i - 1])]
  <2>2. \E n \in Nat : \E ids : Carries(toPy, n + 1, f(n, ids)) /\ EntriesInv(n, ids)
    BY <2>1 DEF AnsweredInv
  <2>n. PICK n \in Nat : \E ids : Carries(toPy, n + 1, f(n, ids)) /\ EntriesInv(n, ids)
    BY <2>2
  <2>3. PICK ids : Carries(toPy, n + 1, f(n, ids)) /\ EntriesInv(n, ids)
    BY <2>n
  <2>4. EntriesInv(n + 1, more(n, ids))'
    BY <1>1, <1>2, <2>3, EntryAdded
  <2> DEFINE g == f(n + 1, more(n, ids))
  <2>5. (\A i \in 1..(n + 1) : g[i] = f(n, ids)[i]) /\ g[(n + 1) + 1] = Entry(id)
    OBVIOUS
  <2>6. Carries(toPy', (n + 1) + 1, g)
    <3> HIDE DEF f, g, more
    <3>1. n + 1 \in Nat
      OBVIOUS
    <3> QED BY <3>1, <1>2, <2>3, <2>5, WriteCarries
  <2>7. Carries(toPy, (n + 1) + 1, [i \in 1..((n + 1) + 1) |->
                  IF i = 1 THEN Header(Cardinality(array)) ELSE Entry(more(n, ids)[i - 1])])'
    <3> HIDE DEF more
    <3> QED BY <1>1, <1>8, <2>6 DEF Carries, Header
  <2>8. AnsweredInv'
    <3> HIDE DEF more
    <3>1. n + 1 \in Nat
      OBVIOUS
    <3> QED BY <3>1, <1>3, <2>4, <2>7 DEF AnsweredInv
  <2> QED BY <1>1, <1>3, <2>1, <2>8 DEF WaitingInv
<1>10. ASSUME py = "reading" PROVE ReadingInv'
  <2>1. /\ items \in 1..NumClients /\ items + Cardinality(ret) = Cardinality(array)
        /\ \E n \in Nat : \E ids :
             /\ Carries(toPy, n, [i \in 1..n |-> Entry(ids[i])])
             /\ EntriesInv(n, ids)
    BY <1>10 DEF PythonInv, ReadingInv
  <2> DEFINE f(n, ids) == [i \in 1..n |-> Entry(ids[i])]
  <2>n. PICK n \in Nat : \E ids : Carries(toPy, n, f(n, ids)) /\ EntriesInv(n, ids)
    BY <2>1
  <2>2. PICK ids : Carries(toPy, n, f(n, ids)) /\ EntriesInv(n, ids)
    BY <2>n
  <2>3. EntriesInv(n + 1, more(n, ids))'
    BY <1>1, <1>2, <2>2, EntryAdded
  <2> DEFINE g == f(n + 1, more(n, ids))
  <2>4. (\A i \in 1..n : g[i] = f(n, ids)[i]) /\ g[n + 1] = Entry(id)
    OBVIOUS
  <2>5. Carries(toPy', n + 1, g)
    <3> HIDE DEF f, g, more
    <3> QED BY <1>2, <2>2, <2>4, WriteCarries
  <2>6. Carries(toPy, n + 1, [i \in 1..(n + 1) |-> Entry(more(n, ids)[i])])'
    <3> HIDE DEF more
    <3> QED BY <1>8, <2>5 DEF Carries
  <2> HIDE DEF more
  <2>7. n + 1 \in Nat
    OBVIOUS
  <2> QED BY <2>1, <2>3, <2>6, <2>7, <1>1, <1>3 DEF ReadingInv
<1>11. PythonInv'
  BY <1>1, <1>3, <1>7, <1>9, <1>10 DEF PythonInv
<1> QED BY <1>4, <1>5, <1>6, <1>11

\* The answer is over: back to recv.
LEMMA NextRoundKeeps ==
    ASSUME Inv, ns3 = "answering", InRoundFrom(next) = {}, ns3' = "header",
           round' = round + 1, UNCHANGED <<next, toPy, pyVars, inRound, toNs3>>
    PROVE  Inv'
<1> USE DEF Inv
<1>1. UNCHANGED <<py, asked, array, items, ret>>
  BY DEF pyVars
<1>2. asked \in 0..NumRounds /\ round \in Nat /\ round >= 1
  BY DEF TypeOK
<1>3. round = asked \/ round + 1 = asked
  BY DEF SimulatorInv
<1>4. TypeOK'
  BY <1>1, <1>2, <1>3, Sizes DEF TypeOK
<1>5. SimulatorInv'
  BY <1>1, <1>3 DEF SimulatorInv
<1>6. RequestInv'
  <2>1. Consumed' = Consumed
    BY <1>1, <1>2, <1>3 DEF Consumed
  <2> QED BY <1>1, <2>1, RequestKept
<1>7. Connected' /\ (Served' <=> Served) /\ Connected
  BY <1>1, <1>2, <1>3 DEF Connected, Served
<1>8. \A n, ids : EntriesInv(n, ids) => EntriesInv(n, ids)'
  BY <1>1 DEF EntriesInv
<1>9. \A id : Entry(id)' = Entry(id)
  BY <1>1 DEF Entry
<1>10. py = "waiting" => WaitingInv'
  <2>1. CASE UnansweredInv
    BY <2>1, <1>1, <1>7 DEF WaitingInv, UnansweredInv, PythonInv
  <2>2. CASE AnsweredInv
    <3>1. AnsweredInv'
      BY <2>2, <1>1, <1>7, <1>8, <1>9 DEF AnsweredInv, Header
    <3> QED BY <3>1, <1>1, <1>7 DEF WaitingInv, PythonInv
  <2> QED BY <2>1, <2>2 DEF WaitingInv, PythonInv
<1>11. py = "reading" => ReadingInv'
  BY <1>1, <1>7, <1>8, <1>9 DEF PythonInv, ReadingInv
<1>12. PythonInv'
  BY <1>1, <1>7, <1>10, <1>11 DEF PythonInv, SleepingInv, IdleInv, AskingInv
<1> QED BY <1>4, <1>5, <1>6, <1>12

LEMMA SendStatKeeps ==
    ASSUME Inv, SendStat
    PROVE  Inv'
<1>1. CASE InRoundFrom(next) # {}
  <2>1. PICK id \in InRoundFrom(next) : /\ toPy' = Write(toPy, Stat(id))
                                        /\ next' = id + 1
                                        /\ UNCHANGED <<ns3, round>>
    BY <1>1 DEF SendStat
  <2> QED BY <2>1, WriteStatKeeps DEF SendStat
<1>2. CASE InRoundFrom(next) = {}
  BY <1>2, NextRoundKeeps DEF SendStat
<1> QED BY <1>1, <1>2

-----------------------------------------------------------------------------
(***************************************************************************)
(* Theorems                                                                 *)
(***************************************************************************)

LEMMA StutterKeeps ==
    ASSUME Inv, UNCHANGED vars
    PROVE  Inv'
<1> USE DEF Inv
<1>1. UNCHANGED <<py, asked, array, items, ret, ns3, round, inRound, next, toNs3, toPy>>
  BY DEF vars, pyVars, nsVars
<1>2. TypeOK' /\ SimulatorInv'
  BY <1>1 DEF TypeOK, SimulatorInv, InRoundFrom
<1>3. ns3 # "gone" => RequestInv'
  BY <1>1, RequestKept DEF Consumed
<1>4. (Connected' <=> Connected) /\ (Served' <=> Served)
  BY <1>1 DEF Connected, Served
<1>5. \A n, ids : EntriesInv(n, ids) => EntriesInv(n, ids)'
  BY <1>1 DEF EntriesInv
<1>6. \A id : Entry(id)' = Entry(id)
  BY <1>1 DEF Entry
<1>7. py = "waiting" => WaitingInv'
  <2>1. CASE UnansweredInv
    BY <2>1, <1>1, <1>4 DEF WaitingInv, UnansweredInv, PythonInv
  <2>2. CASE AnsweredInv
    <3>1. AnsweredInv'
      BY <2>2, <1>1, <1>4, <1>5, <1>6 DEF AnsweredInv, Header
    <3> QED BY <3>1, <1>1, <1>4 DEF WaitingInv, PythonInv
  <2> QED BY <2>1, <2>2 DEF WaitingInv, PythonInv
<1>8. py = "reading" => ReadingInv'
  BY <1>1, <1>4, <1>5, <1>6 DEF PythonInv, ReadingInv
<1>9. PythonInv'
  BY <1>1, <1>4, <1>7, <1>8 DEF PythonInv, SleepingInv, IdleInv, AskingInv, InRoundFrom
<1> QED BY <1>1, <1>2, <1>3, <1>9

LEMMA InvKept == Inv /\ [Next]_vars => Inv'
<1> SUFFICES ASSUME Inv, [Next]_vars PROVE Inv'
  OBVIOUS
<1>1. CASE Python
  <2>1. Raise \/ Disconnect => Inv'
    BY StopKeeps DEF Raise, Disconnect
  <2> QED BY <1>1, <2>1, ConnectKeeps, SendRequestKeeps, SendElementKeeps,
             ReadHeaderKeeps, ReadEntryKeeps DEF Python
<1>2. CASE Simulator
  <2>1. Exit => Inv'
    BY GoneKeeps DEF Exit
  <2> QED BY <1>2, <2>1, ListenKeeps, RecvCommandKeeps, RecvFlagKeeps, RespondKeeps,
             SendStatKeeps DEF Simulator
<1>3. CASE KillPython
  BY <1>3, StopKeeps DEF KillPython
<1>4. CASE KillNs3
  BY <1>4, GoneKeeps DEF KillNs3
<1>5. CASE Ended \/ UNCHANGED vars
  BY <1>5, StutterKeeps DEF Ended
<1> QED BY <1>1, <1>2, <1>3, <1>4, <1>5 DEF Next

LEMMA Invariance == Spec => []Inv
<1>1. Init => Inv
  BY InvInitially
<1>2. Inv /\ [Next]_vars => Inv'
  BY InvKept
<1> QED BY <1>1, <1>2, PTL DEF Spec

\* The variables of network.py, flwr-interface.cc and main.cc keep their types: no
\* index leaves the nodes, no round is counted that is not asked for.
THEOREM TypeCorrect == Spec => []TypeOK
<1>1. Inv => TypeOK
  BY DEF Inv
<1> QED BY <1>1, Invariance, PTL

\* Simulator recv: a simulation is that of the last request and of exactly its
\* nodes, however the reads of its flags fall and whichever end is killed.
THEOREM RequestIsSimulated == Spec => []SimulatesTheRequest
<1>1. Inv => SimulatesTheRequest
  BY DEF Inv, SimulatorInv, SimulatesTheRequest, TypeOK
<1> QED BY <1>1, Invariance, PTL

LEMMA ServiceInitially == Init => Service!Init
BY DEF Init, Service!Init, Phase, Made

LEMMA ServiceSteps ==
    ASSUME Inv, Inv', [Next]_vars
    PROVE  [Service!Next]_Service!vars
<1> USE DEF Service!vars, Phase, Made
<1>1. CASE Connect
  <2>1. py = "sleeping" /\ ret = {} /\ py' \in {"idle", "raised"}
        /\ UNCHANGED <<asked, array, ret>>
    BY <1>1 DEF Connect, Inv, PythonInv
  <2>2. py' = "raised" => Service!End
    BY <2>1 DEF Service!End
  <2>3. py' = "idle" => UNCHANGED Service!vars
    BY <2>1
  <2> QED BY <2>1, <2>2, <2>3 DEF Service!Next
<1>2. CASE SendRequest
  <2>1. Service!Call(array') /\ array' \in SUBSET Nodes
    BY <1>2 DEF SendRequest, Service!Call
  <2> QED BY <2>1 DEF Service!Next
<1>3. CASE SendElement
  BY <1>3 DEF SendElement
\* What has been read when the last entry is.
<1>4. CASE ReadHeader \/ ReadEntry
  <2>1. /\ py \in {"waiting", "reading"} /\ py' \in {"idle", "reading"}
        /\ UNCHANGED <<asked, array>>
    BY <1>4 DEF ReadHeader, ReadEntry, EntriesLeft
  <2>2. CASE py' = "idle"
    <3>1. ret' = array \X {asked}
      BY <2>1, <2>2 DEF Inv, PythonInv, IdleInv
    <3>2. Service!Return
      BY <2>1, <2>2, <3>1 DEF Service!Return
    <3> QED BY <3>2 DEF Service!Next
  <2>3. CASE py' = "reading"
    BY <2>1, <2>3
  <2> QED BY <2>1, <2>2, <2>3
<1>5. CASE Raise \/ Disconnect \/ KillPython
  <2>1. py # "gone" /\ py' \in {"raised", "gone"} /\ UNCHANGED <<asked, array, ret>>
    BY <1>5 DEF Raise, Disconnect, KillPython
  <2>2. CASE py = "raised"
    BY <2>1, <2>2
  <2>3. CASE py # "raised"
    <3>1. Service!End
      BY <2>1, <2>3 DEF Service!End
    <3> QED BY <3>1 DEF Service!Next
  <2> QED BY <2>2, <2>3
<1>6. CASE Simulator \/ KillNs3 \/ Ended \/ UNCHANGED vars
  <2>1. UNCHANGED pyVars
    BY <1>6 DEF Simulator, Listen, RecvCommand, RecvFlag, Exit, Respond, Answer, SendStat,
                KillNs3, Ended, vars
  <2> QED BY <2>1 DEF pyVars
<1> QED BY <1>1, <1>2, <1>3, <1>4, <1>5, <1>6 DEF Next, Python

\* sendRequest returns statistics of exactly the nodes of the call, made for this
\* call, or raises, and is called no more then: the link implements the service.
THEOREM ServiceImplemented == Spec => ImplementsService
<1>1. Init => Service!Init
  BY ServiceInitially
<1>2. Inv /\ Inv' /\ [Next]_vars => [Service!Next]_Service!vars
  BY ServiceSteps
<1> QED BY <1>1, <1>2, Invariance, PTL DEF Spec, ImplementsService, Service!Spec
-----------------------------------------------------------------------------
(***************************************************************************)
(* Nobody waits for what will not come                                      *)
(***************************************************************************)

\* An entry with node id is in the stream to the Flower server.
Coming(id) == \E i \in 0..Len(toPy) : /\ 2 * i + 1 <= Len(toPy)
                                      /\ toPy[2 * i + 1][1] = Entry(id)

\* No node's entry is left out of an answer: it is read, on its way, or will be
\* written.  With the count in the header this says that there are enough to read.
NothingMissing ==
    (py \in {"waiting", "reading"} /\ ns3 # "gone" /\ Served) =>
        \A id \in array : \/ <<id, asked>> \in ret
                          \/ Coming(id)
                          \/ ns3 = "answering" /\ id >= next

LEMMA EntriesDiffer ==
    ASSUME NEW id, NEW n
    PROVE  Header(n) # Entry(id)
BY DEF Header, Entry

\* What is in the stream stays there when more is written.
LEMMA ComingKept ==
    ASSUME UNCHANGED asked, toPy \in Seq(Pieces), NEW m \in Messages,
           toPy' = Write(toPy, m), NEW id, Coming(id)
    PROVE  Coming(id)'
<1> DEFINE t == << <<m, 1>>, <<m, 2>> >>
<1>1. t \in Seq(Pieces) /\ Len(t) = 2
  BY DEF Pieces
<1>2. toPy' = toPy \o t
  BY DEF Write
<1> HIDE DEF t
<1>3. PICK i \in 0..Len(toPy) : 2 * i + 1 <= Len(toPy) /\ toPy[2 * i + 1][1] = Entry(id)
  BY DEF Coming
<1>4. /\ Len(toPy') = Len(toPy) + 2 /\ Len(toPy) \in Nat
      /\ toPy'[2 * i + 1] = toPy[2 * i + 1]
  <2>1. /\ Len(toPy \o t) = Len(toPy) + Len(t)
        /\ \A j \in 1..(Len(toPy) + Len(t)) :
             (toPy \o t)[j] = IF j <= Len(toPy) THEN toPy[j] ELSE t[j - Len(toPy)]
    BY <1>1, ConcatProperties
  <2> QED BY <2>1, <1>1, <1>2, <1>3
<1>5. Entry(id)' = Entry(id)
  BY DEF Entry
<1> QED BY <1>3, <1>4, <1>5 DEF Coming

\* An entry that is written is in the stream.
LEMMA ComingWritten ==
    ASSUME UNCHANGED asked, NEW n \in Nat, NEW f, Carries(toPy, n, f), NEW id,
           Entry(id) \in Messages, toPy' = Write(toPy, Entry(id))
    PROVE  Coming(id)'
<1> DEFINE m == Entry(id)
           g == [i \in 1..(n + 1) |-> IF i <= n THEN f[i] ELSE m]
<1>1. (\A i \in 1..n : g[i] = f[i]) /\ g[n + 1] = m
  OBVIOUS
<1> HIDE DEF m, g
<1>2. Carries(toPy', n + 1, g)
  BY <1>1, WriteCarries DEF m
<1>3. /\ Len(toPy') = 2 * (n + 1) /\ n + 1 \in 1..(n + 1)
      /\ toPy'[2 * (n + 1) - 1][1] = m
  BY <1>1, <1>2 DEF Carries
<1>4. 2 * (n + 1) - 1 = 2 * n + 1 /\ n \in 0..Len(toPy')
  BY <1>3
<1>5. m = Entry(id)'
  BY DEF m, Entry
<1> QED BY <1>3, <1>4, <1>5 DEF Coming

\* A read takes the first message out and leaves the others.
LEMMA ComingRead ==
    ASSUME UNCHANGED asked, toPy \in Seq(Pieces), NEW m, Gets(toPy, m),
           toPy' = Rest(toPy), NEW id, Coming(id)
    PROVE  m = Entry(id) \/ Coming(id)'
<1> SUFFICES ASSUME ~(m = Entry(id)) PROVE Coming(id)'
  OBVIOUS
<1>1. PICK i \in 0..Len(toPy) : 2 * i + 1 <= Len(toPy) /\ toPy[2 * i + 1][1] = Entry(id)
  BY DEF Coming
<1>2. Len(toPy) \in Nat /\ Len(toPy) >= 2 /\ m = toPy[1][1]
  BY DEF Gets
<1>3. i # 0
  <2> SUFFICES ASSUME i = 0 PROVE FALSE
    OBVIOUS
  <2>1. 2 * i + 1 = 1
    OBVIOUS
  <2> QED BY <2>1, <1>1, <1>2
<1>4. /\ Len(toPy') = Len(toPy) - 2
      /\ \A j \in 1..Len(toPy') : toPy'[j] = toPy[j + 2]
  <2> DEFINE t == SubSeq(toPy, 3, Len(toPy))
  <2>1. \A k \in 3..Len(toPy) : toPy[k] \in Pieces
    BY <1>2
  <2>2. /\ Len(t) = IF 3 <= Len(toPy) THEN Len(toPy) - 3 + 1 ELSE 0
        /\ \A k \in 1..(Len(toPy) - 3 + 1) : t[k] = toPy[3 + k - 1]
    BY <2>1, <1>2, SubSeqProperties
  <2>3. toPy' = t
    BY DEF Rest
  <2> HIDE DEF t
  <2> QED BY <2>2, <2>3, <1>2
<1>5. /\ i - 1 \in 0..Len(toPy') /\ 2 * (i - 1) + 1 \in 1..Len(toPy')
      /\ (2 * (i - 1) + 1) + 2 = 2 * i + 1
  BY <1>1, <1>2, <1>3, <1>4
<1>6. toPy'[2 * (i - 1) + 1] = toPy[2 * i + 1]
  BY <1>4, <1>5
<1>7. Entry(id)' = Entry(id)
  BY DEF Entry
<1>8. \E j \in 0..Len(toPy') : 2 * j + 1 <= Len(toPy') /\ toPy'[2 * j + 1][1] = Entry(id)'
  <2> DEFINE j == i - 1
  <2>1. j \in 0..Len(toPy') /\ 2 * j + 1 <= Len(toPy') /\ toPy'[2 * j + 1][1] = Entry(id)'
    BY <1>1, <1>5, <1>6, <1>7
  <2> HIDE DEF j
  <2> QED BY <2>1
<1> QED BY <1>8 DEF Coming

\* The stream that sendRequest reads an answer from holds whole messages.
LEMMA AnswerStream ==
    ASSUME Inv, py \in {"waiting", "reading"}, Served, ns3 # "gone"
    PROVE  \E n \in Nat : \E f : Carries(toPy, n, f)
<1>1. CASE py = "waiting"
  <2>1. AnsweredInv
    BY <1>1 DEF Inv, PythonInv, WaitingInv, UnansweredInv
  <2>2. PICK n \in Nat : \E ids : Carries(toPy, n + 1, [i \in 1..(n + 1) |->
                  IF i = 1 THEN Header(Cardinality(array)) ELSE Entry(ids[i - 1])])
    BY <2>1 DEF AnsweredInv
  <2>3. n + 1 \in Nat
    OBVIOUS
  <2> QED BY <2>2, <2>3
<1>2. CASE py = "reading"
  BY <1>2 DEF Inv, PythonInv, ReadingInv
<1> QED BY <1>1, <1>2

\* The entries that are read or on their way are still so, or read, after a read.
LEMMA ReadMissesNothing ==
    ASSUME Inv, NothingMissing, ReadHeader \/ ReadEntry
    PROVE  NothingMissing'
<1> SUFFICES ASSUME py' \in {"waiting", "reading"}, ns3' # "gone", Served', NEW id \in array'
             PROVE  \/ <<id, asked'>> \in ret'
                    \/ Coming(id)'
                    \/ ns3' = "answering" /\ id >= next'
  BY Zenon DEF NothingMissing
<1>1. /\ py \in {"waiting", "reading"} /\ toPy' = Rest(toPy)
      /\ UNCHANGED <<asked, array, ns3, round, inRound, next>>
      /\ ret \subseteq ret'
  BY DEF ReadHeader, ReadEntry, nsVars
<1>2. Served /\ ns3 # "gone"
  BY <1>1 DEF Served
<1>3. CASE Coming(id)
  <2>1. toPy \in Seq(Pieces)
    BY <1>1, <1>2, AnswerStream DEF Carries
  <2>2. CASE ReadHeader
    <3>1. PICK k \in 0..NumClients : Gets(toPy, Header(k))
      BY <2>2 DEF ReadHeader
    <3>2. Coming(id)'
      BY <3>1, <2>1, <1>1, <1>3, ComingRead, EntriesDiffer
    <3> QED BY <3>2
  <2>3. CASE ReadEntry
    <3>1. PICK s \in Stats : Gets(toPy, <<"stat", s>>) /\ ret' = ret \cup {s}
      BY <2>3 DEF ReadEntry
    <3>2. Coming(id)' \/ <<"stat", s>> = Entry(id)
      BY <3>1, <2>1, <1>1, <1>3, ComingRead
    <3>3. <<"stat", s>> = Entry(id) => s = <<id, asked>>
      BY DEF Entry
    <3> QED BY <3>1, <3>2, <3>3, <1>1
  <2> QED BY <2>2, <2>3
<1>4. <<id, asked>> \in ret \/ Coming(id) \/ (ns3 = "answering" /\ id >= next)
  BY <1>1, <1>2 DEF NothingMissing
<1> QED BY <1>1, <1>3, <1>4

\* send writes the entries from the lowest node up, to the last one.
LEMMA SendMissesNothing ==
    ASSUME Inv, NothingMissing, SendStat
    PROVE  NothingMissing'
<1> SUFFICES ASSUME py' \in {"waiting", "reading"}, ns3' # "gone", Served', NEW id \in array'
             PROVE  \/ <<id, asked'>> \in ret'
                    \/ Coming(id)'
                    \/ ns3' = "answering" /\ id >= next'
  BY Zenon DEF NothingMissing
<1>1. /\ ns3 = "answering" /\ UNCHANGED <<py, asked, array, items, ret, inRound>>
  BY DEF SendStat, pyVars
<1>2. /\ round \in Nat /\ asked \in Nat /\ next \in Nat
      /\ array \in SUBSET Nodes /\ array \subseteq Nat
  BY <1>1, Sizes, NodesAreNumbers DEF Inv, TypeOK
<1>3. Served /\ round = asked /\ inRound = array
  <2>1. round = asked \/ round + 1 = asked
    BY <1>1 DEF Inv, SimulatorInv
  <2>2. CASE ns3' = "answering"
    BY <2>2, <1>1 DEF Served, SendStat, Inv, SimulatorInv
  <2>3. CASE ns3' # "answering"
    <3>1. ns3' = "header" /\ round' = round + 1
      BY <2>3, <1>1 DEF SendStat
    <3>2. round = asked
      BY <3>1, <1>1, <1>2, <2>1 DEF Served
    <3> QED BY <3>2, <1>1 DEF Served, Inv, SimulatorInv
  <2> QED BY <2>2, <2>3
<1>4. \/ <<id, asked>> \in ret \/ Coming(id) \/ id >= next
  BY <1>1, <1>3 DEF NothingMissing
<1>5. CASE InRoundFrom(next) # {}
  <2>1. PICK d \in InRoundFrom(next) : /\ \A j \in InRoundFrom(next) : d <= j
                                       /\ toPy' = Write(toPy, Stat(d))
                                       /\ next' = d + 1 /\ ns3' = ns3
    BY <1>5 DEF SendStat
  <2>2. PICK n \in Nat : \E f : Carries(toPy, n, f)
    BY <1>1, <1>3, AnswerStream
  <2>3. /\ Stat(d) = Entry(d) /\ d \in inRound /\ asked # 0
        /\ d \in Nat
    BY <1>1, <1>2, <1>3 DEF Stat, Entry, InRoundFrom, Inv, TypeOK
  <2>4. Entry(d) \in Messages
    BY <2>3, EntryTyped DEF Inv
  <2>5. CASE Coming(id)
    <3>1. toPy \in Seq(Pieces)
      BY <2>2 DEF Carries
    <3>2. Coming(id)'
      BY <3>1, <2>1, <2>3, <2>4, <2>5, <1>1, ComingKept
    <3> QED BY <3>2
  <2>6. CASE id >= next
    <3>1. id \in InRoundFrom(next) /\ id \in Nat
      BY <2>6, <1>1, <1>2, <1>3 DEF InRoundFrom
    <3>2. id = d \/ id >= d + 1
      BY <3>1, <2>1, <2>3
    <3>3. id = d => Coming(id)'
      BY <2>1, <2>2, <2>3, <2>4, <1>1, ComingWritten
    <3> QED BY <3>2, <3>3, <2>1, <1>1
  <2> QED BY <2>5, <2>6, <1>1, <1>4
<1>6. CASE InRoundFrom(next) = {}
  <2>1. toPy' = toPy
    BY <1>6 DEF SendStat
  <2>2. ~(id >= next)
    BY <1>6, <1>1, <1>3 DEF InRoundFrom
  <2>3. Coming(id) => Coming(id)'
    BY <2>1, <1>1 DEF Coming, Entry
  <2> QED BY <2>2, <2>3, <1>1, <1>4
<1> QED BY <1>5, <1>6

LEMMA NothingGoesMissing == Inv /\ NothingMissing /\ [Next]_vars => NothingMissing'
<1> SUFFICES ASSUME Inv, NothingMissing, [Next]_vars PROVE NothingMissing'
  OBVIOUS
<1>1. CASE ReadHeader \/ ReadEntry
  BY <1>1, ReadMissesNothing
<1>2. CASE SendStat
  BY <1>2, SendMissesNothing
\* What begins an answer has all of it still to write.
<1>3. CASE Respond
  <2>1. ns3' = "answering" /\ next' = 0 /\ array' = array
    BY <1>3 DEF Respond, Answer, pyVars
  <2>2. array \subseteq Nat
    BY NodesAreNumbers DEF Inv, TypeOK
  <2> QED BY <2>1, <2>2 DEF NothingMissing
<1>4. CASE SendElement
  <2>1. py = "asking" /\ UNCHANGED <<ns3, asked, round>>
    BY <1>4 DEF SendElement, nsVars
  <2>2. ns3 # "gone" => ~Served
    BY <2>1, NotServed
  <2> QED BY <2>1, <2>2 DEF NothingMissing, Served
<1>5. CASE Listen \/ RecvCommand \/ RecvFlag \/ Exit \/ KillNs3
  <2>1. ns3' \in {"listening", "flags", "simulating", "gone"}
    BY <1>5 DEF Listen, RecvCommand, RecvFlag, SetInRound, Exit, KillNs3
  <2> QED BY <2>1 DEF NothingMissing, Served
<1>6. CASE Connect \/ SendRequest \/ Raise \/ Disconnect \/ KillPython
  <2>1. py' \in {"idle", "raised", "asking", "gone"}
    BY <1>6 DEF Connect, SendRequest, Raise, Disconnect, KillPython
  <2> QED BY <2>1 DEF NothingMissing
<1>7. CASE Ended \/ UNCHANGED vars
  <2>1. UNCHANGED <<py, asked, array, items, ret, ns3, round, inRound, next, toNs3, toPy>>
    BY <1>7 DEF Ended, vars, pyVars, nsVars
  <2>2. \A id : Coming(id)' <=> Coming(id)
    BY <2>1 DEF Coming, Entry
  <2> QED BY <2>1, <2>2 DEF NothingMissing, Served
<1> QED BY <1>1, <1>2, <1>3, <1>4, <1>5, <1>6, <1>7 DEF Next, Python, Simulator

\* While an answer is read, an entry is missing from what has been read.
LEMMA SomeEntryUnread ==
    ASSUME Inv, py = "reading"
    PROVE  \E id \in array : <<id, asked>> \notin ret
<1> SUFFICES ASSUME array \X {asked} \subseteq ret PROVE FALSE
  OBVIOUS
<1>1. /\ ret \subseteq array \X {asked}
      /\ items \in 1..NumClients /\ items + Cardinality(ret) = Cardinality(array)
  BY DEF Inv, PythonInv, ReadingInv, EntriesInv
<1>2. ret = array \X {asked}
  BY <1>1
<1> DEFINE T == array \X {asked}
           f == [id \in array |-> <<id, asked>>]
<1>3. IsFiniteSet(array) /\ Cardinality(array) \in Nat
  BY SubsetSize DEF Inv, TypeOK
<1>4. f \in Bijection(array, T)
  <2>1. /\ f \in [array -> T]
        /\ \A a, b \in array : f[a] = f[b] => a = b
        /\ \A t \in T : \E id \in array : f[id] = t
    OBVIOUS
  <2> HIDE DEF f, T
  <2> QED BY <2>1, Fun_IsBij
<1> HIDE DEF f
<1>5. Cardinality(T) = Cardinality(array)
  <2>1. ExistsBijection(array, T)
    BY <1>4 DEF ExistsBijection
  <2> HIDE DEF T
  <2> QED BY <2>1, <1>3, FS_Bijection
<1> QED BY <1>1, <1>2, <1>3, <1>5, Sizes

LEMMA NoneBothWaits == Inv /\ NothingMissing => NeverBothWait
<1> SUFFICES ASSUME Inv, NothingMissing, py \in {"waiting", "reading"}, toPy = <<>>,
                    ns3 \in {"header", "flags"}, toNs3 = <<>>
             PROVE  FALSE
  BY DEF NeverBothWait
<1>1. /\ asked \in Nat /\ round \in Nat /\ next \in Nat
  BY Sizes DEF Inv, TypeOK
\* ns-3 has read all of the request that there is, which is all of it.
<1>2. Served
  <2>1. PICK n \in 0..(NumClients + 1) :
          /\ Carries(toNs3, n, [i \in 1..n |-> RequestMessage(Consumed + i - 1)])
          /\ Consumed + n = NumClients + 1
    BY DEF Inv, RequestInv
  <2>2. n = 0
    BY <2>1, Sizes DEF Carries
  <2>3. Consumed + 0 = NumClients + 1
    BY <2>1, <2>2
  <2>4. CASE ns3 = "header"
    <3>1. round = asked => Consumed = 0
      BY <2>4, ConsumedValue
    <3>2. round # asked
      BY <3>1, <2>3, Sizes
    <3> QED BY <3>2, <2>4 DEF Served, Inv, SimulatorInv
  <2>5. CASE ns3 = "flags"
    <3>1. Consumed = next + 1 /\ next < NumClients
      BY <2>5, ConsumedValue DEF Inv, SimulatorInv
    <3> QED BY <3>1, <2>3, <1>1, Sizes
  <2> QED BY <2>4, <2>5
<1>3. CASE py = "waiting"
  <2>1. PICK n \in Nat : \E f : Carries(toPy, n + 1, f)
    BY <1>2, <1>3 DEF Inv, PythonInv, WaitingInv, UnansweredInv, AnsweredInv
  <2> QED BY <2>1 DEF Carries
<1>4. CASE py = "reading"
  <2>1. PICK id \in array : <<id, asked>> \notin ret
    BY <1>4, SomeEntryUnread
  <2>2. ~Coming(id)
    BY DEF Coming
  <2>3. ns3 # "answering" /\ ns3 # "gone"
    OBVIOUS
  <2> QED BY <2>1, <2>2, <2>3, <1>2, <1>4 DEF NothingMissing
<1> QED BY <1>3, <1>4

\* network.py's sendRequest and recv of flwr-interface.cc never both wait in a read
\* for what the other would have to write: a request is written to its end before
\* the answer is read, and an answer has an entry for every node that its header
\* counts.
THEOREM NobodyBlocksBoth == Spec => []NeverBothWait
<1>1. Init => NothingMissing
  BY DEF Init, NothingMissing
<1>2. Inv /\ NothingMissing /\ [Next]_vars => NothingMissing'
  BY NothingGoesMissing
<1>3. Inv /\ NothingMissing => NeverBothWait
  BY NoneBothWaits
<1> QED BY <1>1, <1>2, <1>3, Invariance, PTL DEF Spec
=============================================================================
