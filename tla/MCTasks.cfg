\* LightLink: counters wrap after 5 samples; one rate below the minimum, one
\* ordinary, one that does not fit 16 bits.
\* Indicators: the LED thread may be 100 ms late; ages are told apart to 800 ms.
\* OledUi: two pages of two laps; two durations whose mean is not always whole.
\* SerialRx: the ring fills, wraps and overflows while the shell is busy.
\* MshSplit: every line of up to seven characters, at most three arguments.
CONSTANTS
    CntMod = 5
    Rates = {0, 20, 403}
    RateMod = 400
    MaxRun = 6
    MaxLate = 2
    MaxAge = 16
    PageRows = 2
    MAX_LAPS = 4
    LapValues = {1, 2}
    MaxMs = 9
    MaxCmds = 4
    Byte = {n, a, b}
    Nul = n
    RT_SERIAL_RB_BUFSZ = 4
    RT_SEM_VALUE_MAX = 3
    FINSH_ARG_MAX = 3
    MaxLength = 7
    Known <- MCKnown
SPECIFICATION Spec
CHECK_DEADLOCK FALSE
INVARIANTS
    TasksTypeOK HysteresisExact BuzzerObeys LedsRight MainClean NoLostWakeUp DispatchExact
PROPERTIES
    SwitchJustified LightConverges ListExact DisplaySettles ImplementsQueue ByteArrives
