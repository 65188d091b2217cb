SPECIFICATION Spec
CONSTANTS
    HighWater = 1
    LowWater = 0
    MaxContentLength = 1
    MaxMsgs = 2
    MaxBody = 2
    MaxPipelined = 1
    Kinds <- Kind
    Responses = {"plain", "streamed", "sse"}
    Expects = {TRUE, FALSE}
    Upgrades = {"accepted", "refused", "notWebSocket"}
    RefusalAwaits = TRUE
    HandlerMayCancel = TRUE
    Recycles = TRUE
CHECK_DEADLOCK FALSE
INVARIANTS TypeOK ResponsesInOrder TimersExclusive
