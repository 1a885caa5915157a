CONSTANTS
    Type = {1, 2}
    Data = {d}
    NoData = NoData
    Peer = {p}
    MaxLocal = 2
    Lag = 2
    Window = 3
    MaxResends = 1
    Scenario <- MCState
    MaxQueue = 2
    Lossy = {"notification", "response", "request", "claim"}
SPECIFICATION FairSpec
INVARIANT AcknowledgedMeansHeld
PROPERTY StateConverges
PROPERTY TrafficEnds
