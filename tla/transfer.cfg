\* Two clients, links that break, rounds of both kinds.
CONSTANTS
    Clients = {c1, c2}
    NoEvent = NoEvent
    Model = 3
    Buffer = 1
SPECIFICATION FairSpec
INVARIANTS
    TypeOK
    NothingLostOrDoubled
    StatsTellTheTruth
    UplinkNeverStalls
    NotAllStarve
PROPERTY SomebodyServed
