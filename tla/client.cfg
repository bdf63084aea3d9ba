\* Four calls, fits of up to three batches and two epochs; all small data sets.
CONSTANTS
    MaxSamples = 6
    MaxParts = 4
    MaxCalls = 4
    MaxBatches = 3
    MaxEpochs = 2
SPECIFICATION Spec
INVARIANTS
    TypeOK
    NormIsDrift
    EveryFitTrains
    ResumesWhereItStopped
    ReturnedNormIsLast
    EvenSplitCovers
    ShareIsTaken
    NeverTooMany
