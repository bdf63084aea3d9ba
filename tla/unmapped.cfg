\* The last client to register wakes the server before it is mapped.
CONSTANTS
    Clients = {c1, c2, c3}
    Total = 3
    ForFit = 3
    NumRounds = 1
    MaxLeaves = 0
SPECIFICATION Spec
INVARIANT SampledAreMapped
CHECK_DEADLOCK FALSE
