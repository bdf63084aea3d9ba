---------------------- MODULE FederatedRoundLoopProofs ----------------------
(***************************************************************************)
(* What the loop of configure_fit leaves in the list it pops from, for every *)
(* list and all dropouts.  The loop is a recursive function; that it exists, *)
(* and what holds after every turn of it, is proved from the least number    *)
(* for which it would not.                                                  *)
(***************************************************************************)
EXTENDS FederatedRoundLoop, FederatedRoundProofs, WellFoundedInduction

LEMMA Least ==
    ASSUME NEW T \in SUBSET Nat, T # {}
    PROVE  \E x \in T : \A y \in T : x <= y
<1> DEFINE R == OpToRel(<, Nat)
<1>1. IsWellFoundedOn(R, Nat)
  BY Zenon, NatLessThanWellFounded
<1>2. \A x, y \in Nat : y < x => <<y, x>> \in R
  BY DEF OpToRel
<1> HIDE DEF R
<1>3. PICK x \in T : \A y \in T : ~ (<<y, x>> \in R)
  BY <1>1, WFMin
<1>4. \A y \in T : ~(y < x)
  BY <1>2, <1>3
<1> QED BY <1>4

-----------------------------------------------------------------------------
(***************************************************************************)
(* Pops, one position after the other                                       *)
(***************************************************************************)

\* k is where the dropouts that end at i begin.
RunStart(k, i) ==
    /\ k \in 1..i
    /\ \A j \in k..i : DropsOut(j)
    /\ k = 1 \/ ~DropsOut(k - 1)

LEMMA OneRunStart ==
    ASSUME NEW i \in Nat, NEW k, NEW h, RunStart(k, i), RunStart(h, i)
    PROVE  k = h
<1>1. k \in 1..i /\ h \in 1..i
  BY DEF RunStart
<1>2. ~(k < h)
  <2> SUFFICES ASSUME k < h PROVE FALSE
    OBVIOUS
  <2>1. h - 1 \in k..i /\ h # 1
    BY <1>1
  <2> QED BY <2>1 DEF RunStart
<1>3. ~(h < k)
  <2> SUFFICES ASSUME h < k PROVE FALSE
    OBVIOUS
  <2>1. k - 1 \in h..i /\ k # 1
    BY <1>1
  <2> QED BY <2>1 DEF RunStart
<1> QED BY <1>1, <1>2, <1>3

LEMMA SomeRunStart ==
    ASSUME NEW i \in Nat \ {0}, DropsOut(i)
    PROVE  \E k \in 1..i : RunStart(k, i)
<1> DEFINE T == {k \in 1..i : \A j \in k..i : DropsOut(j)}
<1>1. i \in T
  <2>1. \A j \in i..i : j = i
    OBVIOUS
  <2> QED BY <2>1
<1>2. PICK k \in T : \A h \in T : k <= h
  <2>1. T \in SUBSET Nat /\ T # {}
    BY <1>1
  <2> HIDE DEF T
  <2> QED BY <2>1, Least
<1>3. k # 1 => ~DropsOut(k - 1)
  <2> SUFFICES ASSUME k # 1, DropsOut(k - 1) PROVE FALSE
    OBVIOUS
  <2>1. k - 1 \in 1..i
    OBVIOUS
  <2>2. \A j \in (k - 1)..i : j = k - 1 \/ j \in k..i
    OBVIOUS
  <2>3. k - 1 \in T
    BY <2>1, <2>2
  <2> QED BY <1>2, <2>3
<1> QED BY <1>3 DEF RunStart

LEMMA PopsByStart ==
    ASSUME NEW i \in Nat
    PROVE  Pops(i) <=> \E k \in 1..i : RunStart(k, i) /\ (i - k) % 2 = 0
BY DEF Pops, RunStart

\* A position is popped if its client dropped out and the position before it was
\* not popped.
LEMMA PopsRecurrence ==
    ASSUME NEW i \in Nat \ {0}
    PROVE  Pops(i) <=> DropsOut(i) /\ (i = 1 \/ ~Pops(i - 1))
<1>1. ASSUME Pops(i) PROVE DropsOut(i)
  BY <1>1, PopsOnlyDropouts
<1>2. ASSUME Pops(i), i # 1, Pops(i - 1) PROVE FALSE
  <2>1. i - 1 \in Nat
    OBVIOUS
  <2>2. PICK k \in 1..i : RunStart(k, i) /\ (i - k) % 2 = 0
    BY <1>2, PopsByStart
  <2>3. PICK h \in 1..(i - 1) : RunStart(h, i - 1) /\ (i - 1 - h) % 2 = 0
    BY <1>2, <2>1, PopsByStart
  <2>4. DropsOut(i - 1)
    BY <1>2, <2>1, PopsOnlyDropouts
  <2>5. k # i
    BY <2>2, <2>4, <1>2 DEF RunStart
  <2>6. RunStart(k, i - 1)
    BY <2>2, <2>5 DEF RunStart
  <2>7. k = h
    BY <2>1, <2>3, <2>6, OneRunStart
  <2> QED BY <2>2, <2>3, <2>7
<1>3. ASSUME DropsOut(i), i = 1 PROVE Pops(i)
  <2>1. PICK k \in 1..i : RunStart(k, i)
    BY <1>3, SomeRunStart
  <2>2. (i - k) % 2 = 0
    BY <1>3
  <2> QED BY <2>1, <2>2, PopsByStart
<1>4. ASSUME DropsOut(i), i # 1, ~Pops(i - 1) PROVE Pops(i)
  <2>1. i - 1 \in Nat \ {0}
    BY <1>4
  <2>2. CASE ~DropsOut(i - 1)
    <3>1. PICK k \in 1..i : RunStart(k, i)
      BY <1>4, SomeRunStart
    <3>2. k = i
      <4> SUFFICES ASSUME k # i PROVE FALSE
        OBVIOUS
      <4>1. i - 1 \in k..i
        OBVIOUS
      <4> QED BY <2>2, <3>1, <4>1 DEF RunStart
    <3>3. (i - k) % 2 = 0
      BY <3>2
    <3> QED BY <3>1, <3>3, PopsByStart
  <2>3. CASE DropsOut(i - 1)
    <3>1. PICK k \in 1..(i - 1) : RunStart(k, i - 1)
      BY <2>1, <2>3, SomeRunStart
    <3>2. (i - 1 - k) % 2 # 0
      BY <1>4, <2>1, <3>1, PopsByStart
    <3>3. (i - k) % 2 = 0
      BY <3>2
    <3>4. k \in 1..i /\ \A j \in k..i : j = i \/ j \in k..(i - 1)
      OBVIOUS
    <3>5. RunStart(k, i)
      BY <1>4, <3>1, <3>4 DEF RunStart
    <3> QED BY <3>3, <3>4, <3>5, PopsByStart
  <2> QED BY <2>2, <2>3
<1> QED BY <1>1, <1>2, <1>3, <1>4
-----------------------------------------------------------------------------
(***************************************************************************)
(* The turns of the loop                                                    *)
(***************************************************************************)

Start == [list |-> fit_clients, i |-> 1]

\* f records the first n turns of the loop.
IsRun(f, n) ==
    f = [m \in 0..n |-> IF m = 0 THEN Start ELSE Turn(f[m - 1].list, f[m - 1].i)]

\* One more turn.
LEMMA RunExtends ==
    ASSUME NEW n \in Nat, NEW f, IsRun(f, n)
    PROVE  \E g : IsRun(g, n + 1)
<1> DEFINE next == Turn(f[n].list, f[n].i)
           g == [m \in 0..(n + 1) |-> IF m = n + 1 THEN next ELSE f[m]]
<1>1. \A m \in 0..n : f[m] = IF m = 0 THEN Start ELSE Turn(f[m - 1].list, f[m - 1].i)
  BY DEF IsRun
<1>2. \A m \in 0..n : g[m] = f[m]
  OBVIOUS
<1>3. g[n + 1] = next
  OBVIOUS
<1>4. \A m \in 0..(n + 1) :
        g[m] = IF m = 0 THEN Start ELSE Turn(g[m - 1].list, g[m - 1].i)
  <2> HIDE DEF g
  <2> SUFFICES ASSUME NEW m \in 0..(n + 1)
               PROVE  g[m] = IF m = 0 THEN Start ELSE Turn(g[m - 1].list, g[m - 1].i)
    OBVIOUS
  <2>1. CASE m = n + 1
    <3>1. m # 0 /\ m - 1 = n /\ g[m - 1] = f[n]
      BY <2>1, <1>2
    <3> QED BY <2>1, <3>1, <1>3
  <2>2. CASE m # n + 1
    <3>1. m \in 0..n /\ (m # 0 => m - 1 \in 0..n)
      BY <2>2
    <3> QED BY <3>1, <1>1, <1>2
  <2> QED BY <2>1, <2>2
<1>5. g = [m \in 0..(n + 1) |-> g[m]]
  OBVIOUS
<1> HIDE DEF g
<1> QED BY <1>4, <1>5 DEF IsRun

LEMMA RunExists ==
    ASSUME NEW N \in Nat
    PROVE  \E f : IsRun(f, N)
<1> DEFINE T == {n \in Nat : ~ \E f : IsRun(f, n)}
<1> SUFFICES ASSUME T # {} PROVE FALSE
  OBVIOUS
<1>1. PICK n \in T : \A m \in T : n <= m
  <2>1. T \in SUBSET Nat
    OBVIOUS
  <2> HIDE DEF T
  <2> QED BY <2>1, Least
<1>2. CASE n = 0
  <2> DEFINE f == [m \in 0..0 |-> Start]
  <2>1. f = [m \in 0..0 |-> IF m = 0 THEN Start ELSE Turn(f[m - 1].list, f[m - 1].i)]
    OBVIOUS
  <2> HIDE DEF f
  <2>2. IsRun(f, 0)
    BY <2>1 DEF IsRun
  <2> QED BY <2>2, <1>2
<1>3. CASE n # 0
  <2>1. n - 1 \in Nat /\ n - 1 \notin T
    BY <1>1, <1>3
  <2>2. PICK f : IsRun(f, n - 1)
    BY <2>1
  <2>3. \E g : IsRun(g, n - 1 + 1)
    BY <2>1, <2>2, RunExtends
  <2> QED BY <2>3
<1> QED BY <1>2, <1>3

LEMMA PopLoopTurns ==
    ASSUME fit_clients \in Seq(Clients)
    PROVE  /\ PopLoop[0] = Start
           /\ \A n \in 1..Len(fit_clients) :
                PopLoop[n] = Turn(PopLoop[n - 1].list, PopLoop[n - 1].i)
<1>1. Len(fit_clients) \in Nat
  OBVIOUS
<1>2. IsRun(PopLoop, Len(fit_clients))
  <2>1. \E f : f = [m \in 0..Len(fit_clients) |->
                      IF m = 0 THEN [list |-> fit_clients, i |-> 1]
                      ELSE Turn(f[m - 1].list, f[m - 1].i)]
    BY <1>1, RunExists DEF IsRun, Start
  <2>2. PopLoop = [m \in 0..Len(fit_clients) |->
                      IF m = 0 THEN [list |-> fit_clients, i |-> 1]
                      ELSE Turn(PopLoop[m - 1].list, PopLoop[m - 1].i)]
    BY <2>1, Zenon DEF PopLoop
  <2> QED BY <2>2 DEF IsRun, Start
<1>3. \A n \in 0..Len(fit_clients) :
        PopLoop[n] = IF n = 0 THEN Start ELSE Turn(PopLoop[n - 1].list, PopLoop[n - 1].i)
  BY <1>2, Zenon DEF IsRun
<1> QED BY <1>1, <1>3
-----------------------------------------------------------------------------
(***************************************************************************)
(* What holds after every turn: the position i stands for position p of the  *)
(* list there was; from there on the list is as it was, and in front of it   *)
(* are the clients whose position is not popped, whether the loop looked at  *)
(* them or not.  The client at p follows one that was not popped.            *)
(***************************************************************************)

Before(l, i) == {l[x] : x \in {y \in 1..Len(l) : y < i}}

Kept(p) == {fit_clients[j] : j \in {h \in 1..Len(fit_clients) : h < p /\ ~Pops(h)}}

TurnInv(l, i, p) ==
    /\ l \in Seq(Clients) /\ i \in Nat \ {0} /\ p \in Nat \ {0}
    /\ i <= p
    /\ Len(l) - i = Len(fit_clients) - p
    /\ \A j \in p..Len(fit_clients) : l[j - p + i] = fit_clients[j]
    /\ Before(l, i) = Kept(p)
    /\ p \in 2..Len(fit_clients) => ~Pops(p - 1)

LEMMA ConcatSeq ==
    ASSUME NEW S, NEW a \in Seq(S), NEW b \in Seq(S)
    PROVE  /\ a \o b \in Seq(S) /\ Len(a \o b) = Len(a) + Len(b)
           /\ \A x \in 1..Len(a) : (a \o b)[x] = a[x]
           /\ \A x \in (Len(a) + 1)..(Len(a) + Len(b)) : (a \o b)[x] = b[x - Len(a)]
OBVIOUS

LEMMA RemoveAtSeq ==
    ASSUME NEW S, NEW l \in Seq(S), NEW i \in 1..Len(l)
    PROVE  /\ RemoveAt(l, i) \in Seq(S)
           /\ Len(RemoveAt(l, i)) = Len(l) - 1
           /\ \A x \in 1..(Len(l) - 1) :
                RemoveAt(l, i)[x] = IF x < i THEN l[x] ELSE l[x + 1]
<1> DEFINE a == SubSeq(l, 1, i - 1)
           b == SubSeq(l, i + 1, Len(l))
<1>1. /\ a \in Seq(S) /\ Len(a) = i - 1
      /\ \A x \in 1..(i - 1) : a[x] = l[x]
  OBVIOUS
<1>2. /\ b \in Seq(S) /\ Len(b) = Len(l) - i
      /\ \A x \in 1..(Len(l) - i) : b[x] = l[x + i]
  OBVIOUS
<1>3. RemoveAt(l, i) = a \o b
  BY DEF RemoveAt
<1> HIDE DEF a, b
<1>4. a \o b \in Seq(S) /\ Len(a \o b) = Len(l) - 1
  <2>1. a \o b \in Seq(S) /\ Len(a \o b) = Len(a) + Len(b)
    BY <1>1, <1>2, ConcatSeq
  <2> QED BY <2>1, <1>1, <1>2
<1>5. ASSUME NEW x \in 1..(Len(l) - 1)
      PROVE  (a \o b)[x] = IF x < i THEN l[x] ELSE l[x + 1]
  <2>1. CASE x < i
    BY <2>1, <1>1, <1>2
  <2>2. CASE ~(x < i)
    <3>1. x - (i - 1) \in 1..(Len(l) - i)
      BY <2>2
    <3>2. (a \o b)[x] = b[x - (i - 1)]
      BY <2>2, <1>1, <1>2
    <3> QED BY <2>2, <3>1, <3>2, <1>2
  <2> QED BY <2>1, <2>2
<1> QED BY <1>3, <1>4, <1>5

LEMMA BeforeNext ==
    ASSUME NEW l \in Seq(Clients), NEW i \in Nat \ {0}
    PROVE  /\ i <= Len(l) => Before(l, i + 1) = Before(l, i) \cup {l[i]}
           /\ i > Len(l) => Before(l, i + 1) = Before(l, i)
<1>1. CASE i <= Len(l)
  <2>1. {y \in 1..Len(l) : y < i + 1} = {y \in 1..Len(l) : y < i} \cup {i}
    BY <1>1
  <2> QED BY <2>1, <1>1 DEF Before
<1>2. CASE i > Len(l)
  <2>1. {y \in 1..Len(l) : y < i + 1} = {y \in 1..Len(l) : y < i}
    BY <1>2
  <2> QED BY <2>1, <1>2 DEF Before
<1> QED BY <1>1, <1>2

LEMMA KeptNext ==
    ASSUME fit_clients \in Seq(Clients), NEW p \in Nat \ {0}
    PROVE  /\ p <= Len(fit_clients) /\ ~Pops(p) => Kept(p + 1) = Kept(p) \cup {fit_clients[p]}
           /\ p > Len(fit_clients) \/ Pops(p) => Kept(p + 1) = Kept(p)
<1> DEFINE K(q) == {h \in 1..Len(fit_clients) : h < q /\ ~Pops(h)}
<1>1. CASE p <= Len(fit_clients) /\ ~Pops(p)
  <2>1. K(p + 1) = K(p) \cup {p}
    BY <1>1
  <2> QED BY <2>1, <1>1 DEF Kept
<1>2. CASE p > Len(fit_clients) \/ Pops(p)
  <2>1. K(p + 1) = K(p)
    BY <1>2
  <2> QED BY <2>1, <1>2 DEF Kept
<1> QED BY <1>1, <1>2

\* The loop pops the client it looks at exactly if Pops says so.
LEMMA LooksAt ==
    ASSUME fit_clients \in Seq(Clients), NEW l, NEW i, NEW p, TurnInv(l, i, p), i <= Len(l)
    PROVE  /\ p <= Len(fit_clients) /\ l[i] = fit_clients[p]
           /\ response[cid_to_index[l[i]]] <=> ~Pops(p)
<1>1. p \in 1..Len(fit_clients) /\ p \in p..Len(fit_clients)
  BY DEF TurnInv
<1>2. l[p - p + i] = fit_clients[p] /\ p - p + i = i
  BY <1>1 DEF TurnInv
<1>3. Pops(p) <=> DropsOut(p)
  <2>1. p = 1 \/ ~Pops(p - 1)
    BY <1>1 DEF TurnInv
  <2> QED BY <2>1, <1>1, PopsRecurrence
<1> QED BY <1>1, <1>2, <1>3 DEF DropsOut

LEMMA TurnKeeps ==
    ASSUME fit_clients \in Seq(Clients), NEW l, NEW i, NEW p, TurnInv(l, i, p)
    PROVE  /\ \E q : TurnInv(Turn(l, i).list, Turn(l, i).i, q)
           /\ Turn(l, i).i = i + 1 \/ Turn(l, i).i > Len(Turn(l, i).list)
<1>1. CASE i > Len(l)
  <2>1. Turn(l, i).list = l /\ Turn(l, i).i = i
    BY <1>1 DEF Turn
  <2> QED BY <2>1, <1>1
<1>2. CASE i <= Len(l) /\ response[cid_to_index[l[i]]]
  <2>1. Turn(l, i).list = l /\ Turn(l, i).i = i + 1
    BY <1>2 DEF Turn, TurnInv
  <2>2. p <= Len(fit_clients) /\ l[i] = fit_clients[p] /\ ~Pops(p)
    BY <1>2, LooksAt
  <2>3. Before(l, i + 1) = Kept(p + 1)
    BY <1>2, <2>2, BeforeNext, KeptNext DEF TurnInv
  <2>4. \A j \in (p + 1)..Len(fit_clients) : l[j - (p + 1) + (i + 1)] = fit_clients[j]
    <3> SUFFICES ASSUME NEW j \in (p + 1)..Len(fit_clients)
                 PROVE  l[j - (p + 1) + (i + 1)] = fit_clients[j]
      OBVIOUS
    <3>1. j \in p..Len(fit_clients) /\ j - (p + 1) + (i + 1) = j - p + i
      BY DEF TurnInv
    <3> QED BY <3>1 DEF TurnInv
  <2>5. p + 1 - 1 = p
    BY DEF TurnInv
  <2>6. TurnInv(l, i + 1, p + 1)
    BY <2>2, <2>3, <2>4, <2>5 DEF TurnInv
  <2> QED BY <2>1, <2>6
<1>3. CASE i <= Len(l) /\ ~response[cid_to_index[l[i]]]
  <2> DEFINE m == RemoveAt(l, i)
  <2>1. Turn(l, i).list = m /\ Turn(l, i).i = i + 1
    BY <1>3 DEF Turn, TurnInv
  <2>2. p <= Len(fit_clients) /\ l[i] = fit_clients[p] /\ Pops(p)
    BY <1>3, LooksAt
  <2>3. /\ m \in Seq(Clients) /\ Len(m) = Len(l) - 1
        /\ \A x \in 1..(Len(l) - 1) : m[x] = IF x < i THEN l[x] ELSE l[x + 1]
    <3>1. l \in Seq(Clients) /\ i \in 1..Len(l)
      BY <1>3 DEF TurnInv
    <3> QED BY <3>1, RemoveAtSeq
  <2> HIDE DEF m
  <2>4. /\ i \in Nat \ {0} /\ p \in Nat \ {0} /\ Len(l) - i = Len(fit_clients) - p
        /\ l \in Seq(Clients) /\ Len(l) \in Nat /\ Len(fit_clients) \in Nat
        /\ \A j \in p..Len(fit_clients) : l[j - p + i] = fit_clients[j]
    BY DEF TurnInv
  <2>5. ~Pops(p + 1)
    <3>1. PICK q \in Nat \ {0} : q = p + 1
      BY <2>4
    <3>2. q # 1 /\ q - 1 = p
      BY <2>4, <3>1
    <3>3. ~Pops(q)
      BY <2>2, <3>2, PopsRecurrence
    <3> QED BY <3>1, <3>3
  <2>6. Before(m, i) = Before(l, i)
    <3>1. {y \in 1..Len(m) : y < i} = {y \in 1..Len(l) : y < i}
      BY <1>3, <2>3, <2>4
    <3>2. \A x \in {y \in 1..Len(l) : y < i} : m[x] = l[x]
      BY <1>3, <2>3, <2>4
    <3> QED BY <3>1, <3>2 DEF Before
  <2>7. Before(m, i + 1) = Kept(p + 1 + 1)
    <3>1. Kept(p + 1) = Kept(p) /\ p + 1 \in Nat \ {0}
      BY <2>2, <2>4, KeptNext
    <3>2. CASE i < Len(l)
      <4>1. m[i] = l[i + 1] /\ i <= Len(m)
        BY <3>2, <2>3, <2>4
      <4>2. p + 1 \in p..Len(fit_clients) /\ p + 1 - p + i = i + 1
        BY <3>2, <2>4
      <4>3. l[i + 1] = fit_clients[p + 1]
        BY <4>2, <2>4
      <4>4. Kept(p + 1 + 1) = Kept(p + 1) \cup {fit_clients[p + 1]}
        BY <3>1, <4>2, <2>5, KeptNext
      <4>5. Before(m, i + 1) = Before(m, i) \cup {m[i]}
        BY <4>1, <2>3, <2>4, BeforeNext
      <4> QED BY <3>1, <4>1, <4>3, <4>4, <4>5, <2>6 DEF TurnInv
    <3>3. CASE ~(i < Len(l))
      <4>1. i > Len(m) /\ p + 1 > Len(fit_clients)
        BY <3>3, <1>3, <2>3, <2>4
      <4>2. Before(m, i + 1) = Before(m, i)
        BY <4>1, <2>3, <2>4, BeforeNext
      <4>3. Kept(p + 1 + 1) = Kept(p + 1)
        BY <3>1, <4>1, KeptNext
      <4> QED BY <3>1, <4>2, <4>3, <2>6 DEF TurnInv
    <3> QED BY <3>2, <3>3
  <2>8. \A j \in (p + 2)..Len(fit_clients) : m[j - (p + 2) + (i + 1)] = fit_clients[j]
    <3> SUFFICES ASSUME NEW j \in (p + 2)..Len(fit_clients)
                 PROVE  m[j - (p + 2) + (i + 1)] = fit_clients[j]
      OBVIOUS
    <3> DEFINE x == j - (p + 2) + (i + 1)
    <3>1. x \in 1..(Len(l) - 1) /\ ~(x < i) /\ x + 1 = j - p + i /\ j \in p..Len(fit_clients)
      BY <2>4
    <3> QED BY <3>1, <2>3, <2>4
  <2>9. /\ p + 2 = p + 1 + 1 /\ p + 2 - 1 = p + 1 /\ i + 1 <= p + 2
        /\ Len(m) - (i + 1) = Len(fit_clients) - (p + 2)
        /\ i + 1 \in Nat \ {0} /\ p + 2 \in Nat \ {0}
    BY <2>3, <2>4 DEF TurnInv
  <2>10. TurnInv(m, i + 1, p + 2)
    BY <2>3, <2>5, <2>7, <2>8, <2>9 DEF TurnInv
  <2> QED BY <2>1, <2>10
<1> QED BY <1>1, <1>2, <1>3 DEF TurnInv

AfterTurns(n) ==
    /\ \E p : TurnInv(PopLoop[n].list, PopLoop[n].i, p)
    /\ PopLoop[n].i = n + 1 \/ PopLoop[n].i > Len(PopLoop[n].list)

LEMMA EveryTurn ==
    ASSUME fit_clients \in Seq(Clients)
    PROVE  \A n \in 0..Len(fit_clients) : AfterTurns(n)
<1> DEFINE T == {n \in 0..Len(fit_clients) : ~AfterTurns(n)}
<1> SUFFICES ASSUME T # {} PROVE FALSE
  OBVIOUS
<1>1. PICK n \in T : \A m \in T : n <= m
  <2>1. T \in SUBSET Nat
    OBVIOUS
  <2> HIDE DEF T
  <2> QED BY <2>1, Least
<1>2. CASE n = 0
  <2>1. PopLoop[0].list = fit_clients /\ PopLoop[0].i = 1
    BY PopLoopTurns DEF Start
  <2>2. Before(fit_clients, 1) = {} /\ Kept(1) = {}
    BY DEF Before, Kept
  <2>3. \A j \in 1..Len(fit_clients) : fit_clients[j - 1 + 1] = fit_clients[j]
    <3>1. \A j \in 1..Len(fit_clients) : j - 1 + 1 = j
      OBVIOUS
    <3> QED BY <3>1, Zenon
  <2>4. TurnInv(fit_clients, 1, 1)
    <3>1. /\ 1 \notin 2..Len(fit_clients) /\ 1 \in Nat \ {0} /\ 1 <= 1
          /\ Len(fit_clients) - 1 = Len(fit_clients) - 1
      OBVIOUS
    <3> QED BY <2>2, <2>3, <3>1, Zenon DEF TurnInv
  <2> QED BY <1>2, <2>1, <2>4 DEF AfterTurns
<1>3. CASE n # 0
  <2>1. n \in 1..Len(fit_clients) /\ n - 1 \in 0..Len(fit_clients) /\ n - 1 \notin T
    BY <1>1, <1>3
  <2> DEFINE l == PopLoop[n - 1].list
             i == PopLoop[n - 1].i
  <2>2. AfterTurns(n - 1)
    BY <2>1
  <2>3. PICK p : TurnInv(l, i, p)
    BY <2>2 DEF AfterTurns
  <2>4. i = n \/ i > Len(l)
    BY <2>1, <2>2 DEF AfterTurns
  <2>5. PopLoop[n] = Turn(l, i)
    BY <2>1, PopLoopTurns
  <2> HIDE DEF l, i
  <2>6. \E q : TurnInv(PopLoop[n].list, PopLoop[n].i, q)
    BY <2>3, <2>5, TurnKeeps
  <2>7. PopLoop[n].i = n + 1 \/ PopLoop[n].i > Len(PopLoop[n].list)
    <3>1. CASE i > Len(l)
      BY <3>1, <2>5 DEF Turn
    <3>2. CASE i = n
      BY <3>2, <2>3, <2>5, TurnKeeps
    <3> QED BY <2>4, <3>1, <3>2
  <2> QED BY <2>6, <2>7 DEF AfterTurns
<1> QED BY <1>2, <1>3

\* After as many turns as the list was long, the loop has come to its end.
LEMMA LoopLeaves ==
    ASSUME fit_clients \in Seq(Clients)
    PROVE  Left = ToSet(PopLoop[Len(fit_clients)].list)
<1> DEFINE N == Len(fit_clients)
           l == PopLoop[N].list
           i == PopLoop[N].i
<1>1. AfterTurns(N) /\ N \in Nat
  BY EveryTurn
<1>2. PICK p : TurnInv(l, i, p)
  BY <1>1 DEF AfterTurns
<1>3. i = N + 1 \/ i > Len(l)
  BY <1>1 DEF AfterTurns
<1> HIDE DEF l, i
<1>4. i > Len(l) /\ p > N
  BY <1>2, <1>3 DEF TurnInv
<1>5. Before(l, i) = ToSet(l)
  <2>1. l \in Seq(Clients) /\ DOMAIN l = 1..Len(l) /\ i \in Nat
    BY <1>2 DEF TurnInv
  <2>2. {y \in 1..Len(l) : y < i} = DOMAIN l
    BY <2>1, <1>4
  <2> QED BY <2>2 DEF Before, ToSet
<1>6. Kept(p) = Left
  <2>1. {h \in 1..N : h < p /\ ~Pops(h)} = {h \in 1..N : ~Pops(h)}
    BY <1>1, <1>2, <1>4 DEF TurnInv
  <2> QED BY <2>1 DEF Kept, Left
<1>7. Left = ToSet(l)
  BY <1>2, <1>5, <1>6 DEF TurnInv
<1> QED BY <1>7 DEF l

\* Left, from which everything else about a round's participants is derived, is
\* what configure_fit's loop over the list it pops from leaves in it, however
\* long the list and whoever drops out.
THEOREM LoopLeavesLeft == Spec => []LeftIsWhatTheLoopLeaves
<1>1. Inv => LeftIsWhatTheLoopLeaves
  BY LoopLeaves DEF Inv, RoundInv, LeftIsWhatTheLoopLeaves
<1> QED BY <1>1, InvHolds, PTL
-----------------------------------------------------------------------------
(***************************************************************************)
(* Which dropouts train                                                     *)
(***************************************************************************)

\* While the participants train they are what the loop left, and the answer of
\* ns-3 that it looked at is the one whose statistics are kept.
DropInv == pc = "training" => participants = Left /\ ns3_res = response

\* Clients that register meanwhile do not change what the loop has left.
LEMMA LeftKept ==
    ASSUME fit_clients \in Seq(Clients), Listed \subseteq DOMAIN cid_to_index,
           UNCHANGED <<fit_clients, response>>,
           \A d \in DOMAIN cid_to_index : cid_to_index'[d] = cid_to_index[d]
    PROVE  Left' = Left
<1>1. \A j \in 1..Len(fit_clients) : DropsOut(j)' <=> DropsOut(j)
  BY DEF DropsOut, Listed
<1>2. ASSUME NEW i \in 1..Len(fit_clients) PROVE Pops(i)' <=> Pops(i)
  <2>1. \A k \in 1..i : (\A j \in k..i : DropsOut(j)') <=> \A j \in k..i : DropsOut(j)
    <3>1. \A k \in 1..i : \A j \in k..i : j \in 1..Len(fit_clients)
      OBVIOUS
    <3> QED BY <1>1, <3>1
  <2>2. \A k \in 1..i : k # 1 => (DropsOut(k - 1)' <=> DropsOut(k - 1))
    <3>1. \A k \in 1..i : k # 1 => k - 1 \in 1..Len(fit_clients)
      OBVIOUS
    <3> QED BY <1>1, <3>1
  <2>3. Pops(i)' <=> \E k \in 1..i : /\ \A j \in k..i : DropsOut(j)'
                                     /\ k = 1 \/ ~DropsOut(k - 1)'
                                     /\ (i - k) % 2 = 0
    BY DEF Pops
  <2>4. Pops(i) <=> \E k \in 1..i : /\ \A j \in k..i : DropsOut(j)
                                    /\ k = 1 \/ ~DropsOut(k - 1)
                                    /\ (i - k) % 2 = 0
    BY DEF Pops
  <2> HIDE DEF DropsOut
  <2> QED BY <2>1, <2>2, <2>3, <2>4
<1>3. Left' = {fit_clients[i] : i \in {j \in 1..Len(fit_clients) : ~Pops(j)'}}
  BY DEF Left
<1>4. {j \in 1..Len(fit_clients) : ~Pops(j)'} = {j \in 1..Len(fit_clients) : ~Pops(j)}
  BY <1>2
<1> QED BY <1>3, <1>4 DEF Left

LEMMA DropInvKept ==
    ASSUME Inv, DropInv, [Next]_vars
    PROVE  DropInv'
<1>1. ASSUME pc = "training", UNCHANGED <<participants, ns3_res, fit_clients, response>>,
             \A d \in DOMAIN cid_to_index : cid_to_index'[d] = cid_to_index[d]
      PROVE  DropInv'
  BY <1>1, LeftKept DEF Inv, RoundInv, DropInv
<1>2. ASSUME NEW c \in Clients, UpdateIdMappings(c) PROVE DropInv'
  <2>1. \A d \in DOMAIN cid_to_index : cid_to_index'[d] = cid_to_index[d]
    BY <1>2, MappingExtends DEF Inv
  <2> QED BY <1>1, <1>2, <2>1 DEF UpdateIdMappings, fitVars, ns3Vars, DropInv
<1>3. ASSUME NEW c \in Clients, Register(c) \/ Leave(c) \/ FitReturns(c) \/ FitFails(c)
      PROVE  DropInv'
  <2>1. UNCHANGED <<pc, participants, ns3_res, fit_clients, response, cid_to_index>>
    BY <1>3 DEF Register, Leave, FitReturns, FitFails, fitVars, ns3Vars, mapVars
  <2> QED BY <1>1, <2>1 DEF DropInv
<1>4. CASE ConfigureFit
  <2>1. /\ pc = "simulating" /\ participants' = Left /\ ns3_res' = response
        /\ UNCHANGED <<fit_clients, response, cid_to_index>>
    BY <1>4 DEF ConfigureFit, Configure, mapVars
  <2>2. Left' = Left
    BY <2>1, LeftKept DEF Inv, RoundInv
  <2> QED BY <2>1, <2>2 DEF DropInv
<1>5. CASE WaitFor \/ Sample \/ ParseClientsRaises \/ SendRequest \/ SendRequestRaises
           \/ RoundExecRaises \/ AggregateFit \/ EvaluateRound \/ Disconnect \/ Simulate
  <2>1. pc' # "training"
    BY <1>5 DEF WaitFor, Sample, ParseClientsRaises, SendRequest, SendRequestRaises,
                RoundExecRaises, AggregateFit, EvaluateRound, EndRound, Disconnect, Simulate,
                Inv, RoundInv
  <2> QED BY <2>1 DEF DropInv
<1>6. CASE Ended \/ UNCHANGED vars
  <2>1. UNCHANGED <<pc, participants, ns3_res, fit_clients, response, cid_to_index>>
    BY <1>6 DEF Ended, vars, fitVars, ns3Vars, mapVars
  <2> QED BY <1>1, <2>1 DEF DropInv
<1> QED BY <1>2, <1>3, <1>4, <1>5, <1>6 DEF Next, Server

LEMMA DropInvHolds == Spec => [](Inv /\ DropInv)
<1>1. Init => DropInv
  BY DEF Init, DropInv
<1>2. Inv /\ DropInv /\ [Next]_vars => DropInv'
  BY DropInvKept
<1> QED BY <1>1, <1>2, InvHolds, PTL DEF Spec

\* A dropout that trains was shielded by a dropout in front of it in the list,
\* however long the list is.
THEOREM TrainingDropoutsAreShielded == Spec => []DropoutsTrainBehindDropouts
<1>1. Inv /\ DropInv => DropoutsTrainBehindDropouts
  <2> SUFFICES ASSUME Inv, DropInv, pc = "training",
                      NEW c \in participants, Dropped(c)
               PROVE  \E i \in 2..Len(fit_clients) :
                        fit_clients[i] = c /\ Dropped(fit_clients[i - 1])
    BY DEF DropoutsTrainBehindDropouts
  <2>1. participants = Left /\ ns3_res = response /\ Len(fit_clients) \in Nat
    BY DEF DropInv, Inv, RoundInv
  <2>2. PICK i \in 1..Len(fit_clients) : ~Pops(i) /\ fit_clients[i] = c
    BY <2>1 DEF Left
  <2>3. DropsOut(i)
    BY <2>1, <2>2 DEF DropsOut, Dropped
  <2>4. i # 1 /\ Pops(i - 1) /\ i - 1 \in Nat
    BY <2>1, <2>2, <2>3, PopsRecurrence
  <2>5. DropsOut(i - 1)
    BY <2>4, PopsOnlyDropouts
  <2>6. Dropped(fit_clients[i - 1])
    BY <2>1, <2>5 DEF DropsOut, Dropped
  <2> QED BY <2>1, <2>2, <2>4, <2>6
<1> QED BY <1>1, DropInvHolds, PTL

\* The sentence of configure_fit's documentation holds in every round without two
\* dropouts next to each other in the list.
COROLLARY DropoutsStayOutIfApart ==
    Spec => []((\A i \in 2..Len(fit_clients) :
                  ~(Dropped(fit_clients[i]) /\ Dropped(fit_clients[i - 1])))
               => DropoutsDontTrain)
<1>1. DropoutsTrainBehindDropouts =>
        ((\A i \in 2..Len(fit_clients) :
            ~(Dropped(fit_clients[i]) /\ Dropped(fit_clients[i - 1])))
         => DropoutsDontTrain)
  BY DEF DropoutsTrainBehindDropouts, DropoutsDontTrain
<1> QED BY <1>1, TrainingDropoutsAreShielded, PTL
=============================================================================
