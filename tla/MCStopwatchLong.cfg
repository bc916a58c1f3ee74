\* Enough cycles for the 64-bit product to wrap.
CONSTANTS
    CpuHz = 3
    UsPerSec = 2
    TicksPerSec = 1
    CycMod = 8
    TickMod = 64
    U64Mod = 32
    MaxClk = 20
    MAX_LAPS = 1
    UsPerMs = 2
    MsMod = 16
    Steps = {1, 4}
    MaxSegs = 1
    MaxMarks = 1
SPECIFICATION Spec
PROPERTY MonotonicUs
