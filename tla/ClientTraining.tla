---------------------------- MODULE ClientTraining ----------------------------
(***************************************************************************)
(* One Flower client: its set-up with a part of the data, and its calls of   *)
(* fit and evaluate (geom/client/client.py, geom/utils/model.py,             *)
(* geom/utils/l2_norm.py, geom/client/callback.py, geom/utils/dataset.py).   *)
(* Flower makes one call at a time, with the global model of the moment.     *)
(*                                                                         *)
(* Weights are the number of the global model they come from and the number  *)
(* of training steps since; a norm is the weights it was taken from and to.  *)
(***************************************************************************)
EXTENDS DatasetPartition, Sequences

CONSTANTS
    MaxSamples,   \* bound on the samples of a class
    MaxParts,     \* bound on the number of clients
    MaxCalls,     \* bound on the calls Flower makes
    MaxBatches,   \* bound on the batches of a fit
    MaxEpochs     \* bound on fit_cfg.epochs

ASSUME BoundsPositive ==
    \A b \in {MaxSamples, MaxParts, MaxCalls, MaxBatches, MaxEpochs} : b \in Nat \ {0}

VARIABLES
    \* locals of get_dataset, gone when the client is set up
    data,
    \* the client and its model
    pc, batch_pointer, weights, initial_weights, l2_norm, stop_training,
    \* locals of fit
    epochs, epoch, skipped, step, batches_in_epoch, pointer, l2_norm_val,
    \* the calls Flower has made, what the last fit has returned, and, for the
    \* properties, the batches trained in all the fits that have returned
    calls, returned, trained

modelVars == <<weights, initial_weights, l2_norm, stop_training>>
fitVars == <<epochs, epoch, skipped, step, batches_in_epoch, pointer, l2_norm_val>>
flowerVars == <<calls, returned, trained>>
vars == <<data, pc, batch_pointer, modelVars, fitVars, flowerVars>>

Weights == [model : 0..MaxCalls, steps : 0..MaxBatches]
Zero == <<>>
Norms == {Zero} \cup (Weights \X Weights)

\* The arrays of get_dataset: a class, or all samples of an even split, has len
\* samples, and the class is to give num of the size samples of a part.
NoData == [parts |-> 0]
Data ==
    {d \in [parts : 1..MaxParts, len : 1..MaxSamples, size : 0..(2 * MaxSamples),
            num : 0..(2 * MaxSamples)] : d.num <= d.size}

TypeOK ==
    /\ data \in Data \cup {NoData}
    /\ pc \in {"setup", "idle", "training", "calling"}
    /\ batch_pointer \in Nat
    /\ weights \in Weights
    /\ initial_weights \in Weights
    /\ l2_norm \in Norms
    /\ stop_training \in BOOLEAN
    /\ epochs \in 0..MaxEpochs
    /\ epoch \in 0..MaxEpochs
    /\ {skipped, step, pointer, trained} \subseteq Nat
    /\ batches_in_epoch \in 0..MaxBatches
    /\ l2_norm_val \in Norms
    /\ calls \in 0..MaxCalls
    /\ returned \in [weights : Weights, norm : Norms, epochs : Nat]

Init ==
    /\ data \in Data
    /\ pc = "setup" /\ batch_pointer = 0
    /\ weights = [model |-> 0, steps |-> 0] /\ initial_weights = weights
    /\ l2_norm = Zero /\ stop_training = FALSE
    /\ epochs = 0 /\ epoch = 0 /\ skipped = 0 /\ step = 0 /\ batches_in_epoch = 0
    /\ pointer = 0 /\ l2_norm_val = Zero
    /\ calls = 0 /\ trained = 0
    /\ returned = [weights |-> weights, norm |-> Zero, epochs |-> 0]

\* get_dataset returns: from here on the part is a stream of batches that has no
\* end, and nothing asks which samples they are.
SetUp ==
    /\ pc = "setup"
    /\ data' = NoData
    /\ pc' = "idle"
    /\ UNCHANGED <<batch_pointer, modelVars, fitVars, flowerVars>>

Received == [model |-> calls + 1, steps |-> 0]

\* (mutant) The weights to measure from are taken before the new ones are set.
FitMeasuresFromOld ==
    /\ pc = "idle" /\ calls < MaxCalls
    /\ weights' = Received /\ initial_weights' = weights
    /\ stop_training' = FALSE /\ l2_norm_val' = Zero
    /\ epochs' \in 1..MaxEpochs /\ epoch' = 1
    /\ pointer' = batch_pointer /\ skipped' = batch_pointer
    /\ step' = 0 /\ batches_in_epoch' = 0
    /\ calls' = calls + 1 /\ pc' = "training"
    /\ UNCHANGED <<data, batch_pointer, l2_norm, returned, trained>>

\* (mutant) The global model is not loaded.
FitKeepsWeights ==
    /\ pc = "idle" /\ calls < MaxCalls
    /\ initial_weights' = weights
    /\ stop_training' = FALSE /\ l2_norm_val' = Zero
    /\ epochs' \in 1..MaxEpochs /\ epoch' = 1
    /\ pointer' = batch_pointer /\ skipped' = batch_pointer
    /\ step' = 0 /\ batches_in_epoch' = 0
    /\ calls' = calls + 1 /\ pc' = "training"
    /\ UNCHANGED <<data, batch_pointer, weights, l2_norm, returned, trained>>

\* (mutant) resume_train is not called.
FitStaysStopped ==
    /\ pc = "idle" /\ calls < MaxCalls
    /\ weights' = Received /\ initial_weights' = Received
    /\ l2_norm_val' = Zero
    /\ epochs' \in 1..MaxEpochs /\ epoch' = 1
    /\ pointer' = batch_pointer /\ skipped' = batch_pointer
    /\ step' = 0 /\ batches_in_epoch' = 0
    /\ calls' = calls + 1 /\ pc' = "training"
    /\ UNCHANGED <<data, batch_pointer, l2_norm, stop_training, returned, trained>>

\* fit, up to the first turn of the loop over the batches.
Fit ==
    /\ pc = "idle" /\ calls < MaxCalls
    /\ weights' = Received /\ initial_weights' = Received
    /\ stop_training' = FALSE /\ l2_norm_val' = Zero
    /\ epochs' \in 1..MaxEpochs /\ epoch' = 1
    /\ pointer' = batch_pointer /\ skipped' = batch_pointer
    /\ step' = 0 /\ batches_in_epoch' = 0
    /\ calls' = calls + 1 /\ pc' = "training"
    /\ UNCHANGED <<data, batch_pointer, l2_norm, returned, trained>>

\* A turn of the loop, up to the callback's call of SendMetricAndWait.
TrainBatch ==
    /\ pc = "training" /\ ~stop_training
    /\ batches_in_epoch < MaxBatches
    /\ weights' = [weights EXCEPT !.steps = @ + 1]
    /\ l2_norm' = <<initial_weights, weights'>>
    /\ l2_norm_val' = l2_norm'
    /\ batches_in_epoch' = batches_in_epoch + 1
    /\ pointer' = pointer + 1 /\ step' = step + 1
    /\ pc' = "calling"
    /\ UNCHANGED <<data, batch_pointer, initial_weights, stop_training, epochs,
                   epoch, skipped, flowerVars>>

\* The metric server's answer.  Batch MaxBatches is always the last.
OnTrainBatchEnd ==
    /\ pc = "calling"
    /\ \E stop_round \in BOOLEAN :
         /\ batches_in_epoch = MaxBatches => stop_round
         /\ stop_training' = (stop_training \/ stop_round)
    /\ pc' = "training"
    /\ UNCHANGED <<data, batch_pointer, weights, initial_weights, l2_norm, fitVars,
                   flowerVars>>

\* The call of the metric server raises, and so does fit: nothing is reset.
RpcError ==
    /\ pc = "calling"
    /\ pc' = "idle"
    /\ UNCHANGED <<data, batch_pointer, modelVars, fitVars, flowerVars>>

\* (mutant) stop_training is reset at the start of every epoch, not of every fit.
NextEpochResumes ==
    /\ pc = "training" /\ stop_training
    /\ epoch < epochs
    /\ epoch' = epoch + 1
    /\ l2_norm' = Zero /\ l2_norm_val' = Zero
    /\ skipped' = skipped + pointer /\ step' = 0
    /\ stop_training' = FALSE
    /\ UNCHANGED <<data, pc, batch_pointer, weights, initial_weights,
                   epochs, batches_in_epoch, pointer, flowerVars>>

\* The loop finds stop_training set: the epoch ends, and the metrics are reset.
\* The next epoch sets the norm to 0, skips again, in what the last one has left of
\* the stream, and finds the flag still set before its first batch.
NextEpoch ==
    /\ pc = "training" /\ stop_training
    /\ epoch < epochs
    /\ epoch' = epoch + 1
    /\ l2_norm' = Zero /\ l2_norm_val' = Zero
    /\ skipped' = skipped + pointer /\ step' = 0
    /\ UNCHANGED <<data, pc, batch_pointer, weights, initial_weights,
                   stop_training, epochs, batches_in_epoch, pointer, flowerVars>>

\* (mutant) The norm that is returned is read from the metric that was reset.
ReturnReadsMetric ==
    /\ pc = "training" /\ stop_training
    /\ epoch = epochs
    /\ l2_norm' = Zero
    /\ batch_pointer' = pointer
    /\ returned' = [weights |-> weights, norm |-> l2_norm', epochs |-> epochs]
    /\ trained' = trained + batches_in_epoch
    /\ pc' = "idle"
    /\ UNCHANGED <<data, weights, initial_weights, stop_training, fitVars, calls>>

\* The last epoch ends: CustomModel.fit returns its three values, of which the
\* client keeps the pointer and passes the norm on.  (The number of samples it
\* reports, batches_in_epoch * batch_pointer, is data of Flower's average.)
Return ==
    /\ pc = "training" /\ stop_training
    /\ epoch = epochs
    /\ l2_norm' = Zero
    /\ batch_pointer' = pointer
    /\ returned' = [weights |-> weights, norm |-> l2_norm_val, epochs |-> epochs]
    /\ trained' = trained + batches_in_epoch
    /\ pc' = "idle"
    /\ UNCHANGED <<data, weights, initial_weights, stop_training, fitVars, calls>>

\* evaluate overwrites the weights, and leaves the rest alone.
Evaluate ==
    /\ pc = "idle" /\ calls < MaxCalls
    /\ weights' = Received
    /\ calls' = calls + 1
    /\ UNCHANGED <<data, pc, batch_pointer, initial_weights, l2_norm,
                   stop_training, fitVars, returned, trained>>

\* Flower has no more calls to make.
Finished == pc = "idle" /\ calls = MaxCalls /\ UNCHANGED vars

Next ==
    \/ SetUp \/ Fit \/ TrainBatch \/ OnTrainBatchEnd \/ RpcError
    \/ NextEpoch \/ Return \/ Evaluate \/ Finished

Spec == Init /\ [][Next]_vars

-----------------------------------------------------------------------------
(***************************************************************************)
(* Properties                                                               *)
(***************************************************************************)

\* The norm a client sends is the drift from the global model this fit was
\* called with to the weights just trained, whatever calls came before, also
\* those that failed half way.
NormIsDrift ==
    pc = "calling" =>
        /\ l2_norm = <<[model |-> calls, steps |-> 0], weights>>
        /\ weights = [model |-> calls, steps |-> batches_in_epoch]

\* No fit returns without having trained: the flag that ended the last one, or
\* was left by a fit that failed, does not end it.
EveryFitTrains == pc = "training" /\ stop_training => batches_in_epoch > 0

\* Every batch trained is the one that follows, in the stream, those of the fits
\* that have returned and of this fit: batches of a fit that failed are trained
\* again, and the skip of a later epoch, which would leave batches out, never
\* comes before a batch that is trained.
ResumesWhereItStopped ==
    /\ batch_pointer = trained
    /\ pc = "calling" =>
         skipped + step = trained + batches_in_epoch

\* The norm in the result of a fit is that of the weights in it if the fit has one
\* epoch, though the metric has been reset; with more epochs it is always zero, as
\* the flag that has ended the first one keeps the last one from training.
ReturnedNormIsLast ==
    returned.epochs > 0 =>
        returned.norm = IF returned.epochs = 1
                        THEN <<[returned.weights EXCEPT !.steps = 0], returned.weights>>
                        ELSE Zero

\* An even split gives every sample to exactly one client.
EvenSplitCovers ==
    pc = "setup" =>
        \A x \in 0..(data.len - 1) :
            Cardinality({i \in 0..(data.parts - 1) :
                           x \in EvenPart(data.len, data.parts, i)}) = 1

\* A class that has as many samples as it is to give gives as many, and none
\* twice, at whatever place in it the client's part begins and wraps around.
ShareIsTaken ==
    pc = "setup" /\ data.num <= data.len =>
        \A i \in 0..(data.parts - 1) :
            LET start == Start(data.len, data.size, i) IN
            /\ NumSelected(data.len, start, data.num) = data.num
            /\ Unwrapped(data.len, start, data.num)
                  \cap Wrapped(data.len, start, data.num) = {}

\* No class gives more than it is to give, even one that is too small, so that a
\* part has a shortfall to be filled up and never too many samples.
NeverTooMany ==
    pc = "setup" =>
        \A i \in 0..(data.parts - 1) :
            NumSelected(data.len, Start(data.len, data.size, i), data.num) <= data.num
=============================================================================
