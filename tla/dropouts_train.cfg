\* Two clients next to each other in the list drop out.
CONSTANTS
    Clients = {c1, c2, c3}
    Total = 3
    ForFit = 3
    NumRounds = 1
    MaxLeaves = 0
SPECIFICATION Spec
INVARIANT DropoutsDontTrain
CHECK_DEADLOCK FALSE
