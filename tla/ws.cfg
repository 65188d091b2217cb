SPECIFICATION FairSpec
CHECK_DEADLOCK FALSE
CONSTANTS
    Hosts <- AllHosts
    Payloads <- PeerPayloads
    Readers = {"handler"}
    AppCodes = {1005, 4000}
    MaxFrames <- PeerFrames
    QueueMax = 1
    MaxMessage = 3
INVARIANTS NothingLostWhileOpen
PROPERTIES HandlerUnwinds
