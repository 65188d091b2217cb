SPECIFICATION Spec
CHECK_DEADLOCK FALSE
CONSTANTS
    Requests = {r1, r2}
    Own = r1
    Threading = {TRUE, FALSE}
    Middlewares <- TwoMiddlewares
    Dropped = {"m2"}
    MaxYields = 2
INVARIANTS HeldAreTornDown FirstHooksOnce ResponseThroughChain
