\* Running with no query for a full turn of CYCCNT, as on the laps page.
CONSTANTS
    CpuHz = 3
    UsPerSec = 2
    TicksPerSec = 1
    CycMod = 8
    TickMod = 64
    U64Mod = 64
    MaxClk = 20
    MAX_LAPS = 1
    UsPerMs = 2
    MsMod = 16
    Steps = {1, 4}
    MaxSegs = 1
    MaxMarks = 1
SPECIFICATION Spec
INVARIANT AccurateUnpolled
