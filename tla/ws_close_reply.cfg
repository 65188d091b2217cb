SPECIFICATION Spec
CHECK_DEADLOCK FALSE
CONSTANTS
    Hosts = {"native"}
    Payloads <- NativePayloads
    Readers = {"handler"}
    AppCodes = {1005, 4000}
    MaxFrames <- NativeFrames
    QueueMax = 1
    MaxMessage = 3
INVARIANTS ReplyEndsWait
