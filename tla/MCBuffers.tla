----------------------------- MODULE MCBuffers -----------------------------
(***************************************************************************)
(* Five data structures that share no state: the shell's line with its     *)
(* history, the console's print buffer, the heap, the OLED frame buffer    *)
(* and the lap table as it is reported.  A behaviour works on one of them  *)
(* while the others rest: nothing that is done to one enables, disables or *)
(* changes a step on another.                                              *)
(***************************************************************************)
EXTENDS MCShellLine, Console, SmallMem, OledPanel, LapReport

VARIABLE part   \* the structure that is worked on in this behaviour

\* The interrupt, the timer thread, the shell and the light thread; the light
\* thread prints a line with several calls.
MCUrgency == ("isr" :> 0) @@ ("timer" :> 4) @@ ("shell" :> 20) @@ ("light" :> 29)
MCCalls == ("isr" :> <<1>>) @@ ("timer" :> <<2>>) @@ ("shell" :> <<2>>) @@ ("light" :> <<1, 1>>)

\* Two glyphs without symmetry.
MCGlyphs == {[c \in 0..1 |-> IF c = 0 THEN {0, 1} ELSE {0}],
             [c \in 0..1 |-> IF c = 0 THEN {1} ELSE {}]}

At(p) == part = p

Init ==
    /\ part \in {"line", "console", "heap", "panel", "report"}
    /\ LineInit /\ (At("console") \/ stream = TRUE) /\ ConsoleInit
    /\ HeapInit /\ PanelInit /\ ReportInit

LineMoves ==
    At("line") /\ LineNext /\ UNCHANGED <<consolevars, heapvars, panelvars, reportvars, part>>
ConsoleMoves ==
    At("console") /\ ConsoleNext /\ UNCHANGED <<linevars, heapvars, panelvars, reportvars, part>>
HeapMoves ==
    At("heap") /\ HeapNext /\ UNCHANGED <<linevars, consolevars, panelvars, reportvars, part>>
PanelMoves ==
    At("panel") /\ PanelNext /\ UNCHANGED <<linevars, consolevars, heapvars, reportvars, part>>
ReportMoves ==
    At("report") /\ ReportNext /\ UNCHANGED <<linevars, consolevars, heapvars, panelvars, part>>

Next == LineMoves \/ ConsoleMoves \/ HeapMoves \/ PanelMoves \/ ReportMoves

vars == <<linevars, consolevars, heapvars, panelvars, reportvars, part>>

Spec == Init /\ [][Next]_vars
=============================================================================
