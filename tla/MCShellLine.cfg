\* A line of three places: three characters fill it.
CONSTANTS
    FINSH_CMD_SIZE = 3
    FINSH_HISTORY_LINES = 2
    Plain = {"A", "B"}
    Commands <- MCCommands
SPECIFICATION LineSpec
CHECK_DEADLOCK FALSE
INVARIANT DiscardedHarmless
