\* Two clients, one packet of room in each socket.
CONSTANTS
    Clients = {c1, c2}
    NoEvent = NoEvent
    Model = 3
    Buffer = 1
SPECIFICATION FairSpec
PROPERTY AllSent
