\* Any client may die at any point of one round; the survivors may wait for ever.
CONSTANTS
    Clients = {c1, c2, c3}
    Workers = 3
    Norms = {0, 1, 2}
    MaxBatch = 2
    MaxRounds = 1
    MaxCrashes = 3
SPECIFICATION Spec
SYMMETRY Symmetry
INVARIANTS
    NoEarlyAnswer
    SomebodyCanGoOn
    DecisionSound
PROPERTIES
    OvertakersHang
CHECK_DEADLOCK FALSE
