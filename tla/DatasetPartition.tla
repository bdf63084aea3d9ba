--------------------------- MODULE DatasetPartition ---------------------------
(***************************************************************************)
(* How a client cuts its part out of the training data                      *)
(* (geom/utils/dataset.py).  A sample is its place in its array, or in that   *)
(* of its class.  Every client's process computes its own part.              *)
(***************************************************************************)
EXTENDS Integers, FiniteSets

-----------------------------------------------------------------------------
(***************************************************************************)
(* _partition_data: part i of n parts of len samples, which every process    *)
(* has shuffled with the same seed.                                         *)
(***************************************************************************)

\* (mutant) Every part takes partition_size samples.
EvenPartTruncated(len, n, i) ==
    {x \in 0..(len - 1) : i * (len \div n) <= x /\ x < (i + 1) * (len \div n)}

\* The last part takes what the division leaves over.
EvenPart(len, n, i) ==
    {x \in 0..(len - 1) : /\ i * (len \div n) <= x
                          /\ i < n - 1 => x < i * (len \div n) + len \div n}

-----------------------------------------------------------------------------
(***************************************************************************)
(* _partition_data_with_bias: of a class of len samples, num are wanted, for  *)
(* part i; size is the size of a part.                                      *)
(***************************************************************************)

\* (mutant) A part's place in the class is taken without the class's length.
StartUnwrapped(len, size, i) == size * i

Start(len, size, i) == (size * i) % len

\* (mutant) The second slice goes up to the end index.
WrappedToEnd(len, start, num) ==
    IF start + num <= len THEN {} ELSE {x \in 0..(start + num - 1) : x < len}

\* The second slice, from the beginning of the class, if the end is exceeded.
Wrapped(len, start, num) ==
    IF start + num <= len THEN {} ELSE 0..(((start + num) % len) - 1)

\* The first slice.
Unwrapped(len, start, num) ==
    {x \in start..(start + num - 1) : x < len}

\* Samples that both slices hold are in the part twice.
NumSelected(len, start, num) ==
    Cardinality(Unwrapped(len, start, num)) + Cardinality(Wrapped(len, start, num))
=============================================================================
