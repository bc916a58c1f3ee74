\* The mutex may be held twice, so its limit is met; two retained laps, so the
\* table fills and shifts; no activation needs more than five acquisitions.
CONSTANTS
    Threads = {"timer", "shell", "ui", "led"}
    NoThread = "none"
    init_priority <- MCPriority
    HoldMax = 2
    MaxOps = 5
    MAX_LAPS = 2
    MaxMs = 1
SPECIFICATION LiveSpec
INVARIANTS BoundedInversion MutualExclusion ReadersExact MutexSound
PROPERTIES AtomicCalls FairCallsReturn FairNoStarvation
