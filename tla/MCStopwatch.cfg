CONSTANTS
    CpuHz = 3
    UsPerSec = 2
    TicksPerSec = 1
    CycMod = 8
    TickMod = 64
    U64Mod = 64
    MaxClk = 14
    MAX_LAPS = 2
    UsPerMs = 2
    MsMod = 16
    Steps = {1, 4}
    MaxSegs = 2
    MaxMarks = 4
SPECIFICATION Spec
INVARIANTS TypeOK LapsTile Accurate NeverAhead
PROPERTY LapTimerSpec
