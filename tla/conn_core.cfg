SPECIFICATION FairSpec
CHECK_DEADLOCK FALSE
CONSTANTS
    HighWater = 2
    LowWater = 0
    MaxContentLength = 2
    MaxMsgs = 2
    MaxBody = 3
    MaxPipelined = 2
    Kinds <- StreamKinds
    Responses = {"plain", "streamed"}
    Expects = {FALSE}
    Upgrades <- NoUpgrades
    RefusalAwaits = FALSE
    HandlerMayCancel = FALSE
    Recycles = TRUE
INVARIANTS BodiesAreDrained
PROPERTIES QuietClientIsDropped
