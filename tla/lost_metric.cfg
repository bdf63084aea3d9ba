\* Two clients are enough for a call that overtakes a woken handler to lose its metric.
CONSTANTS
    Clients = {c1, c2}
    Workers = 2
    Norms = {0, 1, 2}
    MaxBatch = 3
    MaxRounds = 1
    MaxCrashes = 0
SPECIFICATION Spec
INVARIANT WaitingIsCounted
CHECK_DEADLOCK FALSE
