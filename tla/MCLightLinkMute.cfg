\* Counters wrap after 5 samples; one rate below the minimum, one ordinary,
\* one that does not fit 16 bits.
CONSTANTS
    CntMod = 5
    Rates = {0, 20, 403}
    RateMod = 400
    MaxRun = 6
SPECIFICATION LightSpec
INVARIANT MuteKept
