------------------------------- MODULE OledUi -------------------------------
(***************************************************************************)
(* applications/ui_oled.c: the thread that draws the two OLED pages, and   *)
(* the shell commands that switch and scroll them or change the laps.      *)
(*                                                                         *)
(* s_page, s_page_drawn and s_laps_offset are shared without a lock.  The  *)
(* shell is more urgent than the OLED thread: a command is one step and    *)
(* may come between any two reads of a frame.  The frame buffer belongs to *)
(* the OLED thread, so what it does there between two reads of shared      *)
(* state is one step, and screen is what the last updates transferred.     *)
(* The running time itself is left out.                                    *)
(***************************************************************************)
EXTENDS Integers, Sequences, FiniteSetsExt, Functions

CONSTANTS
    PageRows,   \* laps on one page of the list (6)
    MAX_LAPS,   \* STOPWATCH_MAX_LAPS (20)
    LapValues,  \* lap durations
    MaxMs,      \* initial min_ms (0xFFFFFFFF)
    MaxCmds     \* bound: commands given

ASSUME UiConstants ==
    /\ PageRows \in Nat \ {0}
    /\ MAX_LAPS \in Nat \ {0}
    /\ MaxMs \in Nat
    /\ LapValues \subseteq 0..MaxMs
    /\ MaxCmds \in Nat

VARIABLES
    laps,           \* the lap table of the service
    s_page, s_page_drawn, s_laps_offset,
    ui_pc,          \* where the OLED thread is
    cnt, i,         \* locals of the drawing functions
    rows,           \* the list drawn so far, as <<index, duration>>
    stat,           \* min_ms, max_ms and sum_ms of draw_laps_page
    screen,
    cmds,           \* commands given so far
    touched         \* history: a command came since the frame began

shared == <<laps, s_page, s_page_drawn, s_laps_offset>>
frame == <<cnt, i, rows, stat>>
uivars == <<shared, ui_pc, frame, screen, cmds, touched>>

Tables == UNION {[1..n -> LapValues] : n \in 0..MAX_LAPS}
NoStat == [min |-> MaxMs, max |-> 0, sum |-> 0]
\* Labels of a page; time and lap: the two areas of the main page that are
\* drawn over it (lap is <<>> if empty); the list and its bottom line.
Blank == [page |-> "boot", time |-> FALSE, lap |-> <<>>, rows |-> <<>>, stat |-> <<>>]

\* Page, offset and the indices draw_laps_page reads with stay in range.
UiTypeOK ==
    /\ laps \in Tables
    /\ s_page \in {"main", "laps"} /\ s_page_drawn \in BOOLEAN
    /\ s_laps_offset \in {k \in 0..MAX_LAPS-1 : k % PageRows = 0}
    /\ ui_pc \in {"delay", "main", "drawn", "time", "lap",
                  "laps", "clamp", "rows", "stat", "update"}
    /\ cnt \in 0..MAX_LAPS /\ i \in 0..MAX_LAPS
    /\ Len(rows) <= PageRows
    /\ stat.min \in 0..MaxMs /\ stat.max \in 0..MaxMs /\ stat.sum \in 0..MAX_LAPS*MaxMs
    /\ screen.page \in {"boot", "main", "laps"}
    /\ cmds \in 0..MaxCmds /\ touched \in BOOLEAN

\* Laps may have been taken before the OLED thread first gets the core.
UiInit ==
    /\ laps \in Tables
    /\ s_page = "main" /\ s_page_drawn = FALSE /\ s_laps_offset = 0
    /\ ui_pc = "delay"
    /\ cnt = 0 /\ i = 0 /\ rows = <<>> /\ stat = NoStat
    /\ screen = Blank
    /\ cmds = 0 /\ touched = FALSE

\* stopwatch_get_lap_ms(index) and stopwatch_get_latest_lap_ms().
LapMs(index) == IF index < Len(laps) THEN laps[index + 1] ELSE 0
LatestLapMs == IF laps # <<>> THEN laps[Len(laps)] ELSE 0

-----------------------------------------------------------------------------
(* draw_main_page.                                                         *)

\* ui_entry picks the page.
FrameBegin ==
    /\ ui_pc = "delay"
    /\ ui_pc' = s_page
    /\ touched' = FALSE
    /\ UNCHANGED <<shared, frame, screen, cmds>>

\* The labels are drawn, over a cleared screen, if the flag is clear ...
MainLabels ==
    /\ ui_pc = "main"
    /\ IF s_page_drawn THEN ui_pc' = "time" /\ UNCHANGED screen
                       ELSE ui_pc' = "drawn" /\ screen' = [Blank EXCEPT !.page = "main"]
    /\ UNCHANGED <<shared, frame, cmds, touched>>

\* ... which is set afterwards.
MainDrawn ==
    /\ ui_pc = "drawn"
    /\ s_page_drawn' = TRUE
    /\ ui_pc' = "time"
    /\ UNCHANGED <<laps, s_page, s_laps_offset, frame, screen, cmds, touched>>

\* The time is drawn and the lap count asked for.
MainTime ==
    /\ ui_pc = "time"
    /\ screen' = [screen EXCEPT !.time = TRUE]
    /\ cnt' = Len(laps)
    /\ ui_pc' = "lap"
    /\ UNCHANGED <<shared, i, rows, stat, cmds, touched>>

\* The latest lap, if there was one.
MainLap ==
    /\ ui_pc = "lap"
    /\ screen' = [screen EXCEPT !.lap = IF cnt > 0 THEN <<LatestLapMs>> ELSE <<>>]
    /\ ui_pc' = "delay"
    /\ UNCHANGED <<shared, frame, cmds, touched>>

-----------------------------------------------------------------------------
(* draw_laps_page.                                                         *)

\* An offset beyond the count is found ...
LapsCount ==
    /\ ui_pc = "laps"
    /\ cnt' = Len(laps)
    /\ i' = 0 /\ rows' = <<>> /\ stat' = NoStat
    /\ ui_pc' = IF s_laps_offset >= Len(laps) THEN "clamp" ELSE "rows"
    /\ UNCHANGED <<shared, screen, cmds, touched>>

\* Mutant: an offset beyond the count is left alone.
LapsClampNot ==
    /\ ui_pc = "clamp"
    /\ ui_pc' = "rows"
    /\ UNCHANGED <<shared, frame, screen, cmds, touched>>

\* ... and reset.
LapsClamp ==
    /\ ui_pc = "clamp"
    /\ s_laps_offset' = 0
    /\ ui_pc' = "rows"
    /\ UNCHANGED <<laps, s_page, s_page_drawn, frame, screen, cmds, touched>>

\* One row: the offset is read again for every row, the count is not.
LapsRow ==
    /\ ui_pc = "rows"
    /\ LET idx == s_laps_offset + i
       IN  IF i < PageRows /\ idx < cnt
             THEN /\ rows' = Append(rows, <<idx, LapMs(idx)>>)
                  /\ i' = i + 1
                  /\ UNCHANGED ui_pc
             ELSE /\ i' = 0
                  /\ ui_pc' = IF cnt > 0 THEN "stat" ELSE "update"
                  /\ UNCHANGED rows
    /\ UNCHANGED <<shared, cnt, stat, screen, cmds, touched>>

\* Mutant: the statistics stop one lap early.
LapsStatShort ==
    /\ ui_pc = "stat"
    /\ IF i < cnt - 1
         THEN LET v == LapMs(i)
              IN  /\ stat' = [min |-> IF v < stat.min THEN v ELSE stat.min,
                              max |-> IF v > stat.max THEN v ELSE stat.max,
                              sum |-> stat.sum + v]
                  /\ i' = i + 1
                  /\ UNCHANGED ui_pc
         ELSE ui_pc' = "update" /\ UNCHANGED <<stat, i>>
    /\ UNCHANGED <<shared, cnt, rows, screen, cmds, touched>>

\* One lap of the statistics.
LapsStat ==
    /\ ui_pc = "stat"
    /\ IF i < cnt
         THEN LET v == LapMs(i)
              IN  /\ stat' = [min |-> IF v < stat.min THEN v ELSE stat.min,
                              max |-> IF v > stat.max THEN v ELSE stat.max,
                              sum |-> stat.sum + v]
                  /\ i' = i + 1
                  /\ UNCHANGED ui_pc
         ELSE ui_pc' = "update" /\ UNCHANGED <<stat, i>>
    /\ UNCHANGED <<shared, cnt, rows, screen, cmds, touched>>

\* OLED_Update transfers the whole frame.
LapsUpdate ==
    /\ ui_pc = "update"
    /\ screen' = [page |-> "laps", time |-> FALSE, lap |-> <<>>, rows |-> rows,
                  stat |-> IF cnt > 0 THEN <<stat.min, stat.max, stat.sum \div cnt>> ELSE <<>>]
    /\ ui_pc' = "delay"
    /\ UNCHANGED <<shared, frame, cmds, touched>>

UiStep ==
    \/ FrameBegin \/ MainLabels \/ MainDrawn \/ MainTime \/ MainLap
    \/ LapsCount \/ LapsClamp \/ LapsRow \/ LapsStat \/ LapsUpdate

-----------------------------------------------------------------------------
(* The shell.                                                              *)

Command ==
    /\ cmds < MaxCmds
    /\ cmds' = cmds + 1
    /\ touched' = TRUE
    /\ UNCHANGED <<ui_pc, frame, screen>>

\* Mutant: labels are only redrawn after a visit to the list.
ui_oled_set_page_leaving(page) ==
    /\ Command
    /\ s_page' = page
    /\ s_page_drawn' = IF page = "laps" THEN FALSE ELSE s_page_drawn
    /\ UNCHANGED <<laps, s_laps_offset>>

\* sw_page main|laps.
ui_oled_set_page(page) ==
    /\ Command
    /\ s_page' = page
    /\ s_page_drawn' = FALSE
    /\ UNCHANGED <<laps, s_laps_offset>>

\* sw_laps_prev.
ui_oled_laps_prev ==
    /\ Command
    /\ s_laps_offset' = IF s_laps_offset >= PageRows THEN s_laps_offset - PageRows ELSE 0
    /\ UNCHANGED <<laps, s_page, s_page_drawn>>

\* sw_laps_next.
ui_oled_laps_next ==
    /\ Command
    /\ s_laps_offset' = IF s_laps_offset + PageRows < Len(laps) THEN s_laps_offset + PageRows
                                                              ELSE s_laps_offset
    /\ UNCHANGED <<laps, s_page, s_page_drawn>>

\* sw_lap.
Lap(v) ==
    /\ Command
    /\ laps' = Append(IF Len(laps) < MAX_LAPS THEN laps ELSE Tail(laps), v)
    /\ UNCHANGED <<s_page, s_page_drawn, s_laps_offset>>

\* sw_clear_laps and sw_reset.
ClearLaps ==
    /\ Command
    /\ laps' = <<>>
    /\ UNCHANGED <<s_page, s_page_drawn, s_laps_offset>>

UiShellStep ==
    \/ \E page \in {"main", "laps"} : ui_oled_set_page(page)
    \/ ui_oled_laps_prev \/ ui_oled_laps_next
    \/ \E v \in LapValues : Lap(v)
    \/ ClearLaps

UiNext == UiStep \/ UiShellStep

\* rt_thread_mdelay returns and the shell waits for input between commands.
UiSpec == UiInit /\ [][UiNext]_uivars /\ WF_uivars(UiStep)

-----------------------------------------------------------------------------
\* The time and the latest lap are only ever drawn over the labels of the main
\* page: however page switches fall into a frame, the flag never says that the
\* labels are there when they are not.
MainClean == screen.time \/ screen.lap # <<>> => screen.page = "main"

\* The page of the list that starts at offset, and the statistics, of a table.
PageOf(s, offset) ==
    [k \in {k \in 1..PageRows : offset + k <= Len(s)} |-> <<offset + k - 1, s[offset + k]>>]
Sums(s) ==
    LET Sum[k \in 0..Len(s)] == IF k = 0 THEN 0 ELSE Sum[k - 1] + s[k]
    IN  Sum
StatOf(s) ==
    IF s = <<>> THEN <<>> ELSE <<Min(Range(s)), Max(Range(s)), Sums(s)[Len(s)] \div Len(s)>>

\* A list drawn without a command falling into it shows consecutive laps from
\* the offset on and the statistics of all of them, although every entry is read
\* in a call of its own.
ListExact ==
    [][ui_pc = "update" /\ ui_pc' = "delay" /\ ~touched
       => screen'.rows = PageOf(laps, s_laps_offset) /\ screen'.stat = StatOf(laps)]_uivars

\* What the display should show.
Current ==
    IF s_page = "main"
      THEN /\ screen.page = "main" /\ screen.time
           /\ screen.lap = IF laps = <<>> THEN <<>> ELSE <<LatestLapMs>>
      ELSE /\ screen.page = "laps"
           /\ screen.rows = PageOf(laps, s_laps_offset)
           /\ laps # <<>> => screen.rows # <<>>
           /\ screen.stat = StatOf(laps)

\* Once the commands stop, the display comes to show the page asked for with
\* the laps there are, and keeps doing so: no race leaves it torn for good.
Settles == <>[]Current
=============================================================================
