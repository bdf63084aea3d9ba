------------------------------- MODULE Ns3Link -------------------------------
(***************************************************************************)
(* The TCP connection between the Flower server and ns-3, at the level of   *)
(* the reads and writes of its two ends: geom/network/network.py,           *)
(* geom/server/flower_server.py and, in scratch/wifi_exp, flwr-interface.cc  *)
(* and the loop of main.cc, in a synchronous experiment.                    *)
(*                                                                         *)
(* TCP keeps no boundaries: a message is two pieces in the stream, and a     *)
(* read returns as many of those that have arrived as it likes, at least one *)
(* and at most the size it asked for.  Either process can be killed.         *)
(***************************************************************************)
EXTENDS Naturals, Sequences, FiniteSets

CONSTANTS
    NumClients,   \* the nodes of ns-3: --numClients, and cfg.clients.total
    NumRounds     \* the rounds of the experiment, and so the requests

ASSUME SizesPositive == NumClients \in Nat \ {0} /\ NumRounds \in Nat

Nodes == 0..(NumClients - 1)

VARIABLES
    py,        \* what the Flower server's thread is doing
    asked,     \* the requests it has made
    array,     \* the nodes of the last one
    items,     \* entries still to be written, or still to be read
    ret,       \* the statistics read
    ns3,       \* what the simulator's process is doing
    round,     \* its count of the rounds
    inRound,   \* the sessions whose m_inRound is set
    next,      \* the session that recv or send has come to
    toNs3, toPy  \* the two streams, as sequences of pieces

pyVars == <<py, asked, array, items, ret>>
nsVars == <<ns3, round, inRound, next>>
vars == <<pyVars, nsVars, toNs3, toPy>>

Stats == Nodes \X (1..(NumRounds + 1))

\* A message of either direction: its kind and what it says.
Header(n) == <<"header", n>>
Flag(b) == <<"flag", b>>
Stat(id) == <<"stat", <<id, round>>>>

Write(stream, m) == stream \o << <<m, 1>>, <<m, 2>> >>

TypeOK ==
    /\ py \in {"sleeping", "idle", "asking", "waiting", "reading", "raised", "gone"}
    /\ asked \in 0..NumRounds
    /\ array \subseteq Nodes
    /\ items \in 0..NumClients
    /\ ret \subseteq Stats
    /\ ns3 \in {"starting", "listening", "header", "flags", "simulating",
                "answering", "gone"}
    /\ round \in 1..(NumRounds + 1)
    /\ inRound \subseteq Nodes
    /\ next \in 0..NumClients

Init ==
    /\ py = "sleeping" /\ asked = 0 /\ array = {} /\ items = 0 /\ ret = {}
    /\ ns3 = "starting" /\ round = 1 /\ inRound = Nodes /\ next = 0
    /\ toNs3 = <<>> /\ toPy = <<>>

-----------------------------------------------------------------------------
(***************************************************************************)
(* Reading from a stream                                                    *)
(***************************************************************************)

\* The read gets the whole of message m.
Gets(stream, m) == Len(stream) >= 2 /\ m = Head(stream)[1]

\* The read gets less: a piece, or nothing from a connection that is closed.
GetsLess(stream, peer) == stream # <<>> \/ peer = "gone"

Rest(stream) == SubSeq(stream, 3, Len(stream))

-----------------------------------------------------------------------------
(***************************************************************************)
(* The Flower server's thread                                               *)
(***************************************************************************)

\* connect after wait_ns3_establishment seconds, whether or not ns-3 has got to
\* its listen; accept returns there.
Connect ==
    /\ py = "sleeping"
    /\ IF ns3 = "listening"
       THEN py' = "idle" /\ ns3' = "header"
       ELSE py' = "raised" /\ UNCHANGED ns3
    /\ UNCHANGED <<asked, array, items, ret, round, inRound, next, toNs3, toPy>>

\* (mutant) One request more than there are rounds.
SendRequestAgain ==
    /\ py = "idle"
    /\ asked <= NumRounds
    /\ array' \in SUBSET Nodes
    /\ asked' = asked + 1
    /\ toNs3' = Write(toNs3, Header(NumClients))
    /\ items' = NumClients
    /\ ret' = {}
    /\ py' = "asking"
    /\ UNCHANGED <<nsVars, toPy>>

\* sendRequest, with the header written.
SendRequest ==
    /\ py = "idle"
    /\ asked < NumRounds
    /\ array' \in SUBSET Nodes
    /\ asked' = asked + 1
    /\ toNs3' = Write(toNs3, Header(NumClients))
    /\ items' = NumClients
    /\ ret' = {}
    /\ py' = "asking"
    /\ UNCHANGED <<nsVars, toPy>>

\* The loop over the array.
SendElement ==
    /\ py = "asking"
    /\ toNs3' = Write(toNs3, Flag(NumClients - items \in array))
    /\ items' = items - 1
    /\ py' = IF items = 1 THEN "waiting" ELSE "asking"
    /\ UNCHANGED <<asked, array, ret, nsVars, toPy>>

\* The loop over the entries is over when there are none left.
EntriesLeft(n) ==
    /\ items' = n
    /\ py' = IF n = 0 THEN "idle" ELSE "reading"

ReadHeader ==
    /\ py = "waiting"
    /\ \E n \in 0..NumClients :
         Gets(toPy, Header(n)) /\ EntriesLeft(n)
    /\ toPy' = Rest(toPy)
    /\ UNCHANGED <<asked, array, ret, nsVars, toNs3>>

ReadEntry ==
    /\ py = "reading"
    /\ \E s \in Stats : Gets(toPy, <<"stat", s>>) /\ ret' = ret \cup {s}
    /\ EntriesLeft(items - 1)
    /\ toPy' = Rest(toPy)
    /\ UNCHANGED <<asked, array, nsVars, toNs3>>

\* struct.unpack raises on anything shorter, and the socket stays open; a write
\* to a process that is gone raises too.
Raise ==
    /\ \/ py \in {"waiting", "reading"} /\ GetsLess(toPy, ns3)
       \/ py = "asking" /\ ns3 = "gone"
    /\ py' = "raised"
    /\ UNCHANGED <<asked, array, items, ret, nsVars, toNs3, toPy>>

\* Flower's server returns after its last round: disconnect.
Disconnect ==
    /\ py = "idle"
    /\ asked = NumRounds
    /\ py' = "gone"
    /\ UNCHANGED <<asked, array, items, ret, nsVars, toNs3, toPy>>

KillPython ==
    /\ py # "gone"
    /\ py' = "gone"
    /\ UNCHANGED <<asked, array, items, ret, nsVars, toNs3, toPy>>

-----------------------------------------------------------------------------
(***************************************************************************)
(* ns-3                                                                     *)
(***************************************************************************)

Listen ==
    /\ ns3 = "starting"
    /\ ns3' = "listening"
    /\ UNCHANGED <<pyVars, round, inRound, next, toNs3, toPy>>

\* recv: a RUN_SIMULATION with as many items as there are sessions.
RecvCommand ==
    /\ ns3 = "header"
    /\ Gets(toNs3, Header(NumClients))
    /\ ns3' = "flags"
    /\ next' = 0
    /\ toNs3' = Rest(toNs3)
    /\ UNCHANGED <<pyVars, round, inRound, toPy>>

\* recv: the sessions in the order of their ids, one flag each.
SetInRound(b) ==
    /\ inRound' = IF b THEN inRound \cup {next} ELSE inRound \ {next}
    /\ next' = next + 1
    /\ ns3' = IF next' = NumClients THEN "simulating" ELSE "flags"

RecvFlag ==
    /\ ns3 = "flags"
    /\ \E b \in BOOLEAN : Gets(toNs3, Flag(b)) /\ SetInRound(b)
    /\ toNs3' = Rest(toNs3)
    /\ UNCHANGED <<pyVars, round, toPy>>

\* (mutant) The length of a flag that has been read is not looked at.
ExitUnlessFlags ==
    \/ /\ ns3 = "header"
       /\ GetsLess(toNs3, py)
       /\ ns3' = "gone"
       /\ UNCHANGED <<pyVars, round, inRound, next, toNs3, toPy>>
    \/ /\ ns3 = "flags"
       /\ toNs3 # <<>>
       /\ \E b \in BOOLEAN : SetInRound(b)
       /\ toNs3' = Tail(toNs3)
       /\ UNCHANGED <<pyVars, round, toPy>>

\* (mutant) A read that returns nothing is tried again.
ExitUnlessClosed ==
    /\ ns3 \in {"header", "flags"}
    /\ toNs3 # <<>>
    /\ ns3' = "gone"
    /\ UNCHANGED <<pyVars, round, inRound, next, toNs3, toPy>>

\* recv gets less than it asked for: EXIT, the loop of main ends, the process
\* closes its socket.
Exit ==
    /\ ns3 \in {"header", "flags"}
    /\ GetsLess(toNs3, py)
    /\ ns3' = "gone"
    /\ UNCHANGED <<pyVars, round, inRound, next, toNs3, toPy>>

\* The part of WeakNetwork and send that their mutants share.
Answer(count) ==
    /\ ns3 = "simulating"
    /\ toPy' = Write(toPy, Header(count))
    /\ next' = 0
    /\ ns3' = "answering"
    /\ UNCHANGED <<pyVars, round, inRound, toNs3>>

\* (mutant) The header counts the sessions and not the statistics.
RespondForAll == Answer(NumClients)

InRoundFrom(n) == {id \in inRound : id >= n}

\* WeakNetwork returns the statistics of the nodes in the round, and send writes
\* the header.
Respond == Answer(Cardinality(inRound))

\* The rest of send, and back to recv.
SendStat ==
    /\ ns3 = "answering"
    /\ IF InRoundFrom(next) # {}
       THEN \E id \in InRoundFrom(next) :
              /\ \A j \in InRoundFrom(next) : id <= j
              /\ toPy' = Write(toPy, Stat(id))
              /\ next' = id + 1
              /\ UNCHANGED <<ns3, round>>
       ELSE /\ ns3' = "header"
            /\ round' = round + 1
            /\ UNCHANGED <<next, toPy>>
    /\ UNCHANGED <<pyVars, inRound, toNs3>>

\* Somebody kills it, or it writes to a connection whose other end is gone.
KillNs3 ==
    /\ ns3 # "gone"
    /\ ns3' = "gone"
    /\ UNCHANGED <<pyVars, round, inRound, next, toNs3, toPy>>

-----------------------------------------------------------------------------
\* Both ends are where they stay.
Ended == py \in {"raised", "gone"} /\ ns3 \in {"gone", "header", "listening"} /\ UNCHANGED vars

Python == Connect \/ SendRequest \/ SendElement \/ ReadHeader \/ ReadEntry
          \/ Raise \/ Disconnect

Simulator == Listen \/ RecvCommand \/ RecvFlag \/ Exit \/ Respond \/ SendStat

Next == Python \/ Simulator \/ KillPython \/ KillNs3 \/ Ended

Spec == Init /\ [][Next]_vars

\* Both processes go on when a read or write of theirs can; a simulation ends.
FairSpec == Spec /\ WF_vars(Python) /\ WF_vars(Simulator)

-----------------------------------------------------------------------------
(***************************************************************************)
(* Properties                                                               *)
(***************************************************************************)

\* What ns-3 simulates is the round that was asked for last, with the nodes that
\* were asked for: no flag of another request, and none read at a wrong place.
SimulatesTheRequest ==
    (ns3 = "simulating" \/ (ns3 = "answering" /\ InRoundFrom(next) # {})) =>
        inRound = array /\ round = asked

\* The two ends never both wait for the other to write: while sendRequest reads
\* from a stream with nothing in it, recv has something to read or is not reading.
NeverBothWait ==
    (py \in {"waiting", "reading"} /\ toPy = <<>>) =>
        ~(ns3 \in {"header", "flags"} /\ toNs3 = <<>>)

\* sendRequest returns or raises, though ns-3 gives up on a request it cannot
\* read, or is killed.
EveryCallEnds ==
    (py \in {"asking", "waiting", "reading"}) ~> (py \in {"idle", "raised", "gone"})

\* Once connected, ns-3 ends when the Flower server's process has ended, wherever
\* in a request or an answer that was.
Ns3Leaves ==
    (py = "gone" /\ ns3 \notin {"starting", "listening"}) ~> (ns3 = "gone")

\* Where sendRequest's caller is, and what the last call has returned to it.
Phase == IF py \in {"sleeping", "idle"} THEN "idle"
         ELSE IF py \in {"raised", "gone"} THEN "over" ELSE "called"

Made == IF py = "idle" THEN ret ELSE {}

\* To its caller, sendRequest is a simulation service: what it returns are
\* statistics of the nodes of this very call, and of no other node or call.
Service == INSTANCE SimulationService WITH
    phase <- Phase, call <- asked, request <- array, made <- Made

ImplementsService == Service!Spec
=============================================================================
