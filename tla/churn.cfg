\* Four nodes, three clients a round; a client may leave and another one come.
CONSTANTS
    Clients = {c1, c2, c3, c4, c5}
    Total = 4
    ForFit = 3
    NumRounds = 2
    MaxLeaves = 1
SPECIFICATION Spec
SYMMETRY Symmetry
INVARIANTS
    TypeOK
    StatsAreOwn
    MappingsAgree
PROPERTIES
    CallsTheService
CHECK_DEADLOCK FALSE
