----------------------- MODULE DatasetPartitionProofs ------------------------
(***************************************************************************)
(* What the partitions of geom/utils/dataset.py give a client, for arrays    *)
(* and numbers of clients of every size.                                    *)
(***************************************************************************)
EXTENDS DatasetPartition, FiniteSetTheorems, TLAPS

LEMMA Quotient ==
    ASSUME NEW a \in Nat, NEW b \in Nat \ {0}
    PROVE  /\ a \div b \in Nat
           /\ (a \div b) * b <= a /\ a < (a \div b) * b + b
OBVIOUS

LEMMA Remainder ==
    ASSUME NEW a \in Nat, NEW b \in Nat \ {0}
    PROVE  /\ a % b \in 0..(b - 1)
           /\ b <= a => a % b <= a - b
           /\ b <= a /\ a < 2 * b => a % b = a - b
OBVIOUS

\* Parts of q samples do not overlap.
LEMMA PartsInOrder ==
    ASSUME NEW i \in Nat, NEW j \in Nat, NEW q \in Nat, i < j
    PROVE  i * q \in Nat /\ i * q + q <= j * q
OBVIOUS

\* Every sample of an even split is in one part, and in no other: also when there
\* are more clients than samples (_partition_data).
THEOREM EvenPartsPartition ==
    ASSUME NEW len \in Nat, NEW n \in Nat \ {0}, NEW x \in 0..(len - 1)
    PROVE  \E k \in 0..(n - 1) :
             \A i \in 0..(n - 1) : x \in EvenPart(len, n, i) <=> i = k
<1> DEFINE q == len \div n
<1>1. q \in Nat
    BY Quotient
<1> HIDE DEF q
<1>2. \A i \in 0..(n - 1) :
        x \in EvenPart(len, n, i) <=> i * q <= x /\ (i < n - 1 => x < i * q + q)
    BY DEF EvenPart, q
<1>3. \E k \in 0..(n - 1) : k * q <= x /\ (k < n - 1 => x < k * q + q)
  <2>1. CASE (n - 1) * q <= x
      BY <2>1
  <2>2. CASE x < (n - 1) * q
    <3>1. q # 0
        BY <2>2
    <3>2. /\ x \div q \in Nat /\ (x \div q) * q <= x
          /\ x < (x \div q) * q + q
        BY <1>1, <3>1, Quotient
    <3>3. x \div q < n - 1
        BY <1>1, <2>2, <3>2
    <3>4. QED
        BY <3>2, <3>3
  <2>3. QED
      BY <1>1, <2>1, <2>2
<1>4. PICK k \in 0..(n - 1) : k * q <= x /\ (k < n - 1 => x < k * q + q)
    BY <1>3
<1>5. ASSUME NEW i \in 0..(n - 1), i * q <= x, i < n - 1 => x < i * q + q
      PROVE  i = k
  <2>1. ~(i < k)
      BY <1>1, <1>4, <1>5, PartsInOrder
  <2>2. ~(k < i)
      BY <1>1, <1>4, <1>5, PartsInOrder
  <2>3. QED
      BY <2>1, <2>2
<1>6. QED
    BY <1>2, <1>4, <1>5

\* A place to start from is in the array.
LEMMA StartInArray ==
    ASSUME NEW len \in Nat \ {0}, NEW size \in Nat, NEW i \in Nat
    PROVE  Start(len, size, i) \in 0..(len - 1)
<1>1. size * i \in Nat
    OBVIOUS
<1>2. QED
    BY <1>1, Remainder DEF Start

LEMMA SliceSizes ==
    ASSUME NEW len \in Nat \ {0}, NEW start \in 0..(len - 1), NEW num \in Nat
    PROVE  /\ start + num <= len =>
                /\ Wrapped(len, start, num) = {}
                /\ NumSelected(len, start, num) = num
           /\ start + num > len =>
                NumSelected(len, start, num) = (len - start) + ((start + num) % len)
<1>1. CASE start + num <= len
  <2>1. Unwrapped(len, start, num) = start..(start + num - 1)
      BY <1>1 DEF Unwrapped
  <2>2. Cardinality(start..(start + num - 1)) = num
      BY FS_Interval
  <2>3. Wrapped(len, start, num) = {}
      BY <1>1 DEF Wrapped
  <2>4. QED
      BY <1>1, <2>1, <2>2, <2>3, FS_EmptySet DEF NumSelected
<1>2. CASE start + num > len
  <2>1. Unwrapped(len, start, num) = start..(len - 1)
      BY <1>2 DEF Unwrapped
  <2>2. Cardinality(start..(len - 1)) = len - start
      BY FS_Interval
  <2>3. (start + num) % len \in Nat
      BY Remainder
  <2>4. Wrapped(len, start, num) = 0..(((start + num) % len) - 1)
      BY <1>2 DEF Wrapped
  <2>5. Cardinality(0..(((start + num) % len) - 1)) = (start + num) % len
      BY <2>3, FS_Interval
  <2>6. QED
      BY <1>2, <2>1, <2>2, <2>4, <2>5 DEF NumSelected
<1>3. QED
    BY <1>1, <1>2

\* A class that is large enough gives what it is to give, and no sample twice,
\* also where its slice wraps around (_partition_data_with_bias).
THEOREM WholeShare ==
    ASSUME NEW len \in Nat \ {0}, NEW start \in 0..(len - 1), NEW num \in 0..len
    PROVE  /\ NumSelected(len, start, num) = num
           /\ Unwrapped(len, start, num) \cap Wrapped(len, start, num) = {}
<1>1. CASE start + num <= len
    BY <1>1, SliceSizes
<1>2. CASE start + num > len
  <2>1. (start + num) % len = start + num - len
    <3> DEFINE a == start + num
    <3>1. a \in Nat /\ len <= a /\ a < 2 * len
        BY <1>2
    <3> HIDE DEF a
    <3>2. a % len = a - len
        BY <3>1, Remainder
    <3>3. QED
        BY <3>2 DEF a
  <2>2. NumSelected(len, start, num) = num
    <3>1. NumSelected(len, start, num) = (len - start) + ((start + num) % len)
        BY <1>2, SliceSizes
    <3>2. QED
        BY <2>1, <3>1
  <2>3. Unwrapped(len, start, num) \cap Wrapped(len, start, num) = {}
      BY <1>2, <2>1 DEF Unwrapped, Wrapped
  <2>4. QED
      BY <2>2, <2>3
<1>3. QED
    BY <1>1, <1>2

\* No class gives more than it is to give, however small it is: a part is filled
\* up and never cut (_partition_data_with_bias).
THEOREM NoExcess ==
    ASSUME NEW len \in Nat \ {0}, NEW start \in 0..(len - 1), NEW num \in Nat
    PROVE  NumSelected(len, start, num) <= num
<1>1. CASE start + num <= len
    BY <1>1, SliceSizes
<1>2. CASE start + num > len
  <2>1. (start + num) % len <= start + num - len
    <3> DEFINE a == start + num
    <3>1. a \in Nat /\ len <= a
        BY <1>2
    <3> HIDE DEF a
    <3>2. a % len <= a - len
        BY <3>1, Remainder
    <3>3. QED
        BY <3>2 DEF a
  <2>2. (start + num) % len \in Nat
      BY Remainder
  <2>3. QED
      BY <1>2, <2>1, <2>2, SliceSizes
<1>3. QED
    BY <1>1, <1>2
=============================================================================
