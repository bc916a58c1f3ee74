\* ShellLine: a line of three places and a history of two lines.
\* Console: texts of one or two characters in a buffer of four.
\* SmallMem: a header and the least block are 3 units each, as on the target (12
\* bytes, 4 bytes aligned): room for up to four blocks.
\* OledPanel: pages of two pixels; a glyph lies in one page or across two.
\* LapReport: laps shorter and longer than 100 s, and one long enough for the
\* total to wrap.
CONSTANTS
    FINSH_CMD_SIZE = 3
    FINSH_HISTORY_LINES = 2
    Plain = {"A", "B"}
    Commands <- MCCommands
    Printer = {"isr", "timer", "shell", "light"}
    Isr = "isr"
    Row = "timer"
    Urgency <- MCUrgency
    Calls <- MCCalls
    RT_CONSOLEBUF_SIZE = 4
    SIZEOF_STRUCT_MEM = 3
    MIN_SIZE = 3
    mem_size_aligned = 21
    Sizes = {1, 3, 4, 12, 21, 22}
    MaxMoves = 1
    Cols = 3
    Pages = 2
    Bits = 2
    GlyphWidth = 2
    Glyphs <- MCGlyphs
    MaxDraws = 2
    U32 = 1000000000
    MaxLaps = 3
    Columns = 128
    Buffer = 24
    TimeBuffer = 16
    Steps = {7, 99999, 654321, 999000000}
    MaxSteps = 4
SPECIFICATION Spec
CHECK_DEADLOCK FALSE
INVARIANTS LineSound ConsoleSound HeapSound PanelExact ReportSound
PROPERTY ImplementsEditor
