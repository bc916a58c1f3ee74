CONSTANTS
    TickMod = 8
    Timers = {"a", "b"}
    Periodic = {"a"}
    Periods = {1, 2}
    NoTimer = "none"
    MaxLag = 1
    CallbackMayYield = TRUE
SPECIFICATION FairSpec
INVARIANT TimersSound
PROPERTIES FiringRules Fires
