------------------------- MODULE ClientTrainingProofs -------------------------
(***************************************************************************)
(* Type correctness of ClientTraining and the promises of its client, for    *)
(* all bounds: any number of calls, batches and epochs, data of any size.    *)
(***************************************************************************)
EXTENDS ClientTraining, DatasetPartitionProofs

-----------------------------------------------------------------------------
(***************************************************************************)
(* The inductive invariant                                                  *)
(***************************************************************************)

\* The global model of the fit that runs, and the weights it has got to.
FitModel == [model |-> calls, steps |-> 0]
FitWeights == [model |-> calls, steps |-> batches_in_epoch]

InFit == pc \in {"training", "calling"}

\* The weights of a fit, those it measures from, and its place in the stream.
\* Only the first epoch trains: the flag that ends it ends the others at once.
FitInv ==
    InFit =>
        /\ weights = FitWeights
        /\ initial_weights = FitModel
        /\ pointer = batch_pointer + batches_in_epoch
        /\ ~stop_training => epoch = 1 /\ skipped + step = pointer
        /\ epochs \in 1..MaxEpochs /\ epoch \in 1..epochs

\* The norm of the last batch, in the metric until the answer is there, and in
\* fit's own variable until the next epoch begins.
NormInv ==
    /\ pc = "calling" =>
         /\ ~stop_training
         /\ batches_in_epoch > 0
         /\ l2_norm = <<FitModel, FitWeights>>
    /\ InFit /\ epoch = 1 /\ batches_in_epoch > 0 =>
         l2_norm_val = <<FitModel, FitWeights>>
    /\ InFit /\ epoch > 1 => l2_norm_val = Zero

IInv ==
    /\ TypeOK
    /\ FitInv
    /\ NormInv
    /\ EveryFitTrains
    /\ batch_pointer = trained
    /\ ReturnedNormIsLast

-----------------------------------------------------------------------------
(***************************************************************************)
(* Every step keeps it                                                      *)
(***************************************************************************)

LEMMA Bounds ==
    /\ MaxCalls \in Nat \ {0} /\ MaxBatches \in Nat \ {0}
    /\ MaxEpochs \in Nat \ {0}
BY BoundsPositive

LEMMA ZeroIsANorm == Zero \in Norms
BY DEF Norms

LEMMA InitInv == Init => IInv
<1> SUFFICES ASSUME Init PROVE IInv
    OBVIOUS
<1> USE Bounds
<1>1. weights \in Weights
    BY DEF Init, Weights
<1>2. TypeOK
  <2>1. /\ returned \in [weights : Weights, norm : Norms, epochs : Nat]
        /\ weights \in Weights /\ initial_weights \in Weights
        /\ l2_norm \in Norms /\ l2_norm_val \in Norms
      BY <1>1, ZeroIsANorm DEF Init
  <2>2. /\ data \in Data \cup {NoData}
        /\ pc \in {"setup", "idle", "training", "calling"}
      BY DEF Init
  <2>3. batch_pointer \in Nat /\ {skipped, step, pointer, trained} \subseteq Nat
      BY DEF Init
  <2>4. /\ epochs \in 0..MaxEpochs /\ epoch \in 0..MaxEpochs
        /\ batches_in_epoch \in 0..MaxBatches /\ calls \in 0..MaxCalls
      BY DEF Init
  <2>5. stop_training \in BOOLEAN
      BY Zenon DEF Init
  <2>6. QED
      BY <2>1, <2>2, <2>3, <2>4, <2>5, Zenon DEF TypeOK
<1>3. returned.epochs = 0
    BY DEF Init
<1>4. ReturnedNormIsLast
    BY <1>3 DEF ReturnedNormIsLast
<1>5. QED
    BY <1>2, <1>4 DEF Init, IInv, FitInv, NormInv, InFit, EveryFitTrains

LEMMA StepInv == IInv /\ [Next]_vars => IInv'
<1> SUFFICES ASSUME IInv, [Next]_vars PROVE IInv'
    OBVIOUS
<1> USE Bounds DEF IInv
<1>1. CASE SetUp
    BY <1>1 DEF SetUp, TypeOK, FitInv, NormInv, InFit, FitModel, FitWeights,
                EveryFitTrains, ReturnedNormIsLast, modelVars, fitVars, flowerVars
<1>2. CASE Fit
  <2>1. /\ calls \in Nat /\ calls + 1 \in 0..MaxCalls
        /\ Received \in Weights
        /\ Received = [model |-> calls + 1, steps |-> 0]
      BY <1>2 DEF Fit, TypeOK, Received, Weights
  <2>2. /\ data' \in Data \cup {NoData}
        /\ batch_pointer' \in Nat
        /\ {skipped', step', pointer', trained'} \subseteq Nat
      BY <1>2 DEF Fit, TypeOK
  <2>3. /\ pc' \in {"setup", "idle", "training", "calling"}
        /\ stop_training' \in BOOLEAN
      BY <1>2 DEF Fit
  <2>4. /\ epochs' \in 0..MaxEpochs /\ epoch' \in 0..MaxEpochs
        /\ batches_in_epoch' \in 0..MaxBatches /\ calls' \in 0..MaxCalls
      BY <1>2, <2>1 DEF Fit
  <2>5. /\ weights' \in Weights /\ initial_weights' \in Weights
        /\ l2_norm' \in Norms /\ l2_norm_val' \in Norms
        /\ returned' \in [weights : Weights, norm : Norms, epochs : Nat]
      BY <1>2, <2>1, ZeroIsANorm DEF Fit, TypeOK
  <2>6. TypeOK'
      BY <2>2, <2>3, <2>4, <2>5, Zenon DEF TypeOK
  <2>7. QED
      BY <1>2, <2>1, <2>6 DEF Fit, TypeOK, FitInv, NormInv, InFit, FitModel, FitWeights,
                EveryFitTrains, ReturnedNormIsLast
<1>3. CASE TrainBatch
  <2>1. /\ weights' = [model |-> calls, steps |-> batches_in_epoch + 1]
        /\ batches_in_epoch + 1 \in 1..MaxBatches
      BY <1>3 DEF TrainBatch, TypeOK, FitInv, InFit, FitWeights, Weights
  <2>2. weights' \in Weights /\ l2_norm' \in Norms
      BY <1>3, <2>1 DEF TrainBatch, TypeOK, Weights, Norms
  <2>3. TypeOK'
      BY <1>3, <2>1, <2>2 DEF TrainBatch, TypeOK, flowerVars
  <2>4. QED
      BY <1>3, <2>1, <2>3 DEF TrainBatch, TypeOK, FitInv, NormInv, InFit, FitModel, FitWeights,
                EveryFitTrains, ReturnedNormIsLast, flowerVars
<1>4. CASE OnTrainBatchEnd
    BY <1>4 DEF OnTrainBatchEnd, TypeOK, FitInv, NormInv, InFit, FitModel, FitWeights,
                EveryFitTrains, ReturnedNormIsLast, fitVars, flowerVars
<1>5. CASE RpcError
    BY <1>5 DEF RpcError, TypeOK, FitInv, NormInv, InFit, FitModel, FitWeights,
                EveryFitTrains, ReturnedNormIsLast, modelVars, fitVars, flowerVars
<1>6. CASE NextEpoch
    BY <1>6 DEF NextEpoch, TypeOK, FitInv, NormInv, InFit, FitModel, FitWeights, Norms,
                EveryFitTrains, ReturnedNormIsLast, flowerVars
<1>7. CASE Return
  <2>1. returned'.weights = weights /\ returned'.norm = l2_norm_val
        /\ returned'.epochs = epochs
      BY <1>7 DEF Return
  <2>2. l2_norm_val = IF epochs = 1
                      THEN <<[weights EXCEPT !.steps = 0], weights>> ELSE Zero
      BY <1>7 DEF Return, FitInv, NormInv, InFit, FitModel, FitWeights, EveryFitTrains, TypeOK
  <2>3. ReturnedNormIsLast'
      BY <2>1, <2>2 DEF ReturnedNormIsLast
  <2>4. TypeOK'
      BY <1>7 DEF Return, TypeOK, Norms, fitVars
  <2>5. batch_pointer' = trained'
      BY <1>7 DEF Return, FitInv, InFit
  <2>6. QED
      BY <1>7, <2>3, <2>4, <2>5 DEF Return, FitInv, NormInv, InFit, EveryFitTrains
<1>8. CASE Evaluate
    BY <1>8 DEF Evaluate, TypeOK, FitInv, NormInv, InFit, EveryFitTrains, Weights, Received,
                ReturnedNormIsLast, fitVars
<1>9. CASE UNCHANGED vars
    BY <1>9 DEF vars, TypeOK, FitInv, NormInv, InFit, FitModel, FitWeights,
                EveryFitTrains, ReturnedNormIsLast, modelVars, fitVars, flowerVars
<1>10. QED
    BY <1>1, <1>2, <1>3, <1>4, <1>5, <1>6, <1>7, <1>8, <1>9 DEF Next, Finished

LEMMA Invariance == Spec => []IInv
<1>1. QED
    BY InitInv, StepInv, PTL DEF Spec

-----------------------------------------------------------------------------
(***************************************************************************)
(* The theorems                                                             *)
(***************************************************************************)

\* Every variable of the client keeps its type: no fit trains more batches or
\* epochs than it may.
THEOREM TypeCorrect == Spec => []TypeOK
<1>1. IInv => TypeOK
    BY DEF IInv
<1>2. QED
    BY <1>1, Invariance, PTL

\* The norm sent to the metric server is the drift of this very fit, whatever
\* fits, failures and evaluations came before (CustomModel.train_step).
THEOREM DriftIsOfThisFit == Spec => []NormIsDrift
<1>1. IInv => NormIsDrift
    BY DEF IInv, NormIsDrift, NormInv, FitInv, InFit, FitModel, FitWeights
<1>2. QED
    BY <1>1, Invariance, PTL

\* No fit ends before its first batch on a flag left by another one
\* (FlexibleClient.fit, resume_train).
THEOREM FlagIsReset == Spec => []EveryFitTrains
<1>1. IInv => EveryFitTrains
    BY DEF IInv
<1>2. QED
    BY <1>1, Invariance, PTL

\* A fit trains the batches after those of the fits that have returned, in any
\* number of epochs (CustomModel.fit, batch_pointer).
THEOREM TrainingResumes == Spec => []ResumesWhereItStopped
<1>1. IInv => ResumesWhereItStopped
  <2> SUFFICES ASSUME IInv PROVE ResumesWhereItStopped
      OBVIOUS
  <2>1. pc = "calling" => skipped + step = trained + batches_in_epoch
      BY DEF IInv, NormInv, FitInv, InFit
  <2>2. QED
      BY <2>1 DEF IInv, ResumesWhereItStopped
<1>2. QED
    BY <1>1, Invariance, PTL

\* The result of a fit of one epoch has the norm of its weights, though the
\* metric is reset before it is returned; that of a longer fit has the norm 0
\* (CustomModel.fit).
THEOREM NormIsReturned == Spec => []ReturnedNormIsLast
<1>1. IInv => ReturnedNormIsLast
    BY DEF IInv
<1>2. QED
    BY <1>1, Invariance, PTL

-----------------------------------------------------------------------------
(***************************************************************************)
(* The data a client is set up with                                         *)
(***************************************************************************)

DataInv == pc = "setup" => data \in Data

LEMMA DataTyped ==
    ASSUME DataInv, pc = "setup"
    PROVE  /\ data.len \in Nat \ {0} /\ data.parts \in Nat \ {0}
           /\ data.size \in Nat /\ data.num \in Nat
<1>1. MaxSamples \in Nat /\ MaxParts \in Nat
    BY BoundsPositive
<1>2. QED
    BY <1>1 DEF DataInv, Data

LEMMA DataInvariance == Spec => []DataInv
<1>1. Init => DataInv
    BY DEF Init, DataInv
<1>2. DataInv /\ [Next]_vars => DataInv'
    BY DEF DataInv, Next, vars, SetUp, Fit, TrainBatch, OnTrainBatchEnd, RpcError,
           NextEpoch, Return, Evaluate, Finished
<1>3. QED
    BY <1>1, <1>2, PTL DEF Spec

\* No sample of an even split is lost or given to two clients, whatever the sizes
\* (_partition_data).
THEOREM EverySampleHasAClient == Spec => []EvenSplitCovers
<1>1. DataInv => EvenSplitCovers
  <2> SUFFICES ASSUME DataInv, pc = "setup", NEW x \in 0..(data.len - 1)
               PROVE  Cardinality({i \in 0..(data.parts - 1) :
                                     x \in EvenPart(data.len, data.parts, i)}) = 1
      BY DEF EvenSplitCovers
  <2>1. PICK k \in 0..(data.parts - 1) :
          \A i \in 0..(data.parts - 1) :
              x \in EvenPart(data.len, data.parts, i) <=> i = k
      BY DataTyped, EvenPartsPartition
  <2>2. {i \in 0..(data.parts - 1) : x \in EvenPart(data.len, data.parts, i)} = {k}
      BY <2>1
  <2>3. QED
      BY <2>2, FS_Singleton
<1>2. QED
    BY <1>1, DataInvariance, PTL

\* What a class gives to a client's biased part is all it has to give, each sample
\* once, whatever the sizes (_partition_data_with_bias).
THEOREM ShareIsWhole == Spec => []ShareIsTaken
<1>1. DataInv => ShareIsTaken
  <2> SUFFICES ASSUME DataInv, pc = "setup", data.num <= data.len,
                      NEW i \in 0..(data.parts - 1)
               PROVE  LET start == Start(data.len, data.size, i) IN
                      /\ NumSelected(data.len, start, data.num) = data.num
                      /\ Unwrapped(data.len, start, data.num)
                            \cap Wrapped(data.len, start, data.num) = {}
      BY DEF ShareIsTaken
  <2>1. /\ data.len \in Nat \ {0} /\ data.size \in Nat /\ data.num \in 0..data.len
        /\ i \in Nat
      BY DataTyped
  <2>2. Start(data.len, data.size, i) \in 0..(data.len - 1)
      BY <2>1, StartInArray
  <2>3. QED
      BY <2>1, <2>2, WholeShare
<1>2. QED
    BY <1>1, DataInvariance, PTL

\* A client never has to throw samples away: parts only fall short
\* (_partition_data_with_bias).
THEOREM PartsOnlyFallShort == Spec => []NeverTooMany
<1>1. DataInv => NeverTooMany
  <2> SUFFICES ASSUME DataInv, pc = "setup", NEW i \in 0..(data.parts - 1)
               PROVE  NumSelected(data.len, Start(data.len, data.size, i), data.num)
                        <= data.num
      BY DEF NeverTooMany
  <2>1. /\ data.len \in Nat \ {0} /\ data.size \in Nat /\ data.num \in Nat
        /\ i \in Nat
      BY DataTyped
  <2>2. Start(data.len, data.size, i) \in 0..(data.len - 1)
      BY <2>1, StartInArray
  <2>3. QED
      BY <2>1, <2>2, NoExcess
<1>2. QED
    BY <1>1, DataInvariance, PTL
=============================================================================
