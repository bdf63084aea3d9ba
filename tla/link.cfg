\* Three nodes, two requests; reads come short and processes are killed anywhere.
CONSTANTS
    NumClients = 3
    NumRounds = 2
SPECIFICATION FairSpec
INVARIANTS
    TypeOK
    SimulatesTheRequest
    NeverBothWait
PROPERTIES
    EveryCallEnds
    Ns3Leaves
    ImplementsService
