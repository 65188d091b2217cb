SPECIFICATION FairHandlersSpec
CHECK_DEADLOCK FALSE
CONSTANTS
    Modes <- Deployments
    Conns = {c1, c2, c3}
    Cap = 2
    MaxHandled = 1
    MaxQueue = 1
    MaxRequests = 2
INVARIANTS AdmissionExact OneMoreRequest
PROPERTIES Stops
