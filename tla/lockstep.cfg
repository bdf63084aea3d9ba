\* Three clients, a worker for each, nobody dies.
CONSTANTS
    Clients = {c1, c2, c3}
    Workers = 3
    Norms = {0, 1, 2}
    MaxBatch = 2
    MaxRounds = 2
    MaxCrashes = 0
SPECIFICATION FairSpec
INVARIANTS
    DecisionSound
    RoundStartsClean
    SomebodyCanGoOn
PROPERTIES
    OvertakersHang
    RoundCompletes
    ImplementsBarrier
CHECK_DEADLOCK FALSE
