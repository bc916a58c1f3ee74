CONSTANTS
    Threads = {"timer", "shell", "ui", "led"}
    NoThread = "none"
    init_priority <- MCPriority
    HoldMax = 1
    MaxOps = 8
    MAX_LAPS = 1
    MaxMs = 1
SPECIFICATION ThreadsSpec
INVARIANT RowTotalCoversLap
