SPECIFICATION FairSpec
CONSTANTS
    None = None
    Tasks = {t1, t2}
    Names = {n1}
    Lifespans = 2
    Subs = 2
    Handlers = 2
    Watchdog = TRUE
    Native = TRUE
INVARIANTS NoTeardownSkipped
PROPERTIES EngineSettles
