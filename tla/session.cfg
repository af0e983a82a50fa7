\* Two clients over a perfect network and over networks that lose or overtake
\* datagrams, or one that connects twice; two on the way in each direction.
SPECIFICATION SessionLiveSpec
CONSTANTS
    Clients = {c1, c2}
    Attempts = 2
    MaxTick = 2
    MaxNet = 2
    Networks = {{}, {"loses"}, {"reorders"}}
INVARIANTS
    SessionAgreed
PROPERTIES
    
    HandshakeEnds
