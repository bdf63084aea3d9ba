\* Nobody leaves; every client may drop out of every simulated round.
CONSTANTS
    Clients = {c1, c2, c3, c4}
    Total = 4
    ForFit = 4
    NumRounds = 2
    MaxLeaves = 0
SPECIFICATION FairSpec
INVARIANTS
    SurvivorsTrain
    LeftIsWhatTheLoopLeaves
    DropoutsTrainBehindDropouts
 
