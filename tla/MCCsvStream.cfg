CONSTANTS
    TickMod = 8
    Timers = {"csv"}
    Periodic = {"csv"}
    Periods = {0}
    NoTimer = "none"
    MaxLag = 1
    CallbackMayYield = FALSE
    csv = "csv"
    Args <- MCArgs
    DefaultMs = 2
    MinMs = 1
    RT_TICK_PER_SECOND = 1000
SPECIFICATION CsvFairSpec
CHECK_DEADLOCK FALSE
INVARIANT CsvAsAsked
PROPERTIES RowTiming StreamFlows
