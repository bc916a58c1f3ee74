------------------------------ MODULE Stopwatch ------------------------------
(***************************************************************************)
(* applications/stopwatch.c: the stopwatch service.                        *)
(*                                                                         *)
(* Every operation takes the mutex g_sw.lock first and releases it last,   *)
(* so each is one atomic step here; StopwatchThreads shows the lock does   *)
(* that.  g_sw.state_start_tick is written by start and reset and never    *)
(* read, so it is left out.                                                *)
(***************************************************************************)
EXTENDS Timebase

CONSTANTS
    MAX_LAPS,   \* STOPWATCH_MAX_LAPS (20)
    UsPerMs,    \* 1000
    MsMod,      \* 2^32, range of the rt_uint32_t millisecond counts
    Steps       \* cycle counts by which real time advances between two events

ASSUME StopwatchConstants ==
    /\ MAX_LAPS \in Nat \ {0}
    /\ UsPerMs \in Nat \ {0}
    /\ MsMod \in Nat \ {0, 1}
    /\ Steps \subseteq Nat \ {0}

VARIABLES
    g_inited,
    state,
    state_start_us,     \* base of the running segment; 0 means "none"
    accumulated_ms,     \* milliseconds of the finished segments
    last_lap_total_ms,  \* total at the last lap
    lap_durations_ms,   \* the retained laps, oldest first
    lap_count

lapvars == <<last_lap_total_ms, lap_durations_ms, lap_count>>
swvars == <<g_inited, state, state_start_us, accumulated_ms, lapvars>>

States == {"IDLE", "RUNNING", "PAUSED"}
LapIndex == 0..MAX_LAPS-1
Millis == 0..MsMod-1
NoLaps == [i \in LapIndex |-> 0]

\* The fields of g_sw stay within their widths and the lap count within the table.
StopwatchTypeOK ==
    /\ TimebaseTypeOK
    /\ g_inited \in BOOLEAN
    /\ state \in States
    /\ state_start_us \in 0..U64Mod-1
    /\ accumulated_ms \in Millis
    /\ last_lap_total_ms \in Millis
    /\ lap_durations_ms \in [LapIndex -> Millis]
    /\ lap_count \in 0..MAX_LAPS

StopwatchBoot ==
    /\ TimebaseBoot
    /\ g_inited = FALSE
    /\ state = "IDLE"
    /\ state_start_us = 0
    /\ accumulated_ms = 0
    /\ last_lap_total_ms = 0
    /\ lap_durations_ms = NoLaps
    /\ lap_count = 0

-----------------------------------------------------------------------------
(* Reading the total.                                                      *)

\* (rt_uint32_t)((now_us - start_us) / 1000) of the running segment.
SegmentMs == (((timebase_get_us - state_start_us) % U64Mod) \div UsPerMs) % MsMod

\* The condition under which the clock is consulted at all.
HasBase == state = "RUNNING" /\ state_start_us # 0

\* Mutant: a segment replaces the ones before it instead of adding to them.
NowTotalForgets == IF HasBase THEN SegmentMs ELSE accumulated_ms

\* get_now_total_ms_unsafe: its value when called now ...
NowTotalMs ==
    IF HasBase THEN (accumulated_ms + SegmentMs) % MsMod ELSE accumulated_ms

\* ... and its effect on the timebase.
ReadTotal == IF HasBase THEN ReadTimebase
                        ELSE UNCHANGED <<cyccnt, dwt_ok, last_cyc, total_cyc>>

-----------------------------------------------------------------------------
(* Operations.                                                             *)

\* stopwatch_init: called by main at boot, and again by every mutator as long
\* as it has not succeeded.  rt_mutex_create may run out of memory, which
\* leaves g_inited clear.
stopwatch_init ==
    /\ ~g_inited
    /\ state' = "IDLE"
    /\ state_start_us' = 0
    /\ accumulated_ms' = 0
    /\ last_lap_total_ms' = 0
    /\ lap_durations_ms' = NoLaps
    /\ lap_count' = 0
    /\ \/ timebase_init /\ g_inited' = TRUE
       \/ UNCHANGED <<cyccnt, dwt_ok, last_cyc, total_cyc, g_inited>>
    /\ UNCHANGED clk

\* stopwatch_start: ignored while running.
stopwatch_start ==
    /\ g_inited
    /\ state # "RUNNING"
    /\ state_start_us' = timebase_get_us
    /\ ReadTimebase
    /\ state' = "RUNNING"
    /\ UNCHANGED <<clk, g_inited, accumulated_ms, lapvars>>

\* stopwatch_stop: ignored unless running.
stopwatch_stop ==
    /\ g_inited
    /\ state = "RUNNING"
    /\ accumulated_ms' = NowTotalMs
    /\ ReadTotal
    /\ state_start_us' = 0
    /\ state' = "PAUSED"
    /\ UNCHANGED <<clk, g_inited, lapvars>>

\* stopwatch_reset: a running stopwatch keeps running from zero.
stopwatch_reset ==
    /\ g_inited
    /\ accumulated_ms' = 0
    /\ last_lap_total_ms' = 0
    /\ lap_count' = 0
    /\ lap_durations_ms' = NoLaps
    /\ IF state = "RUNNING"
         THEN /\ state_start_us' = timebase_get_us
              /\ ReadTimebase
              /\ UNCHANGED state
         ELSE /\ state' = "IDLE"
              /\ state_start_us' = 0
              /\ UNCHANGED <<cyccnt, dwt_ok, last_cyc, total_cyc>>
    /\ UNCHANGED <<clk, g_inited>>

\* Mutant: a full array overwrites its last entry without shifting.
PushLapUnshifted(laps, n, lap_ms) ==
    IF n < MAX_LAPS THEN [laps EXCEPT ![n] = lap_ms]
                    ELSE [laps EXCEPT ![MAX_LAPS - 1] = lap_ms]

\* The array after one more lap: appended, or shifted over the oldest.
PushLap(laps, n, lap_ms) ==
    IF n < MAX_LAPS
      THEN [laps EXCEPT ![n] = lap_ms]
      ELSE [i \in LapIndex |-> IF i < MAX_LAPS - 1 THEN laps[i + 1] ELSE lap_ms]

\* Mutant: the count is not capped.
NextLapCountUncapped == lap_count + 1

\* lap_count after one more lap.
NextLapCount == IF lap_count < MAX_LAPS THEN lap_count + 1 ELSE lap_count

\* stopwatch_lap: possible in every state.
stopwatch_lap ==
    /\ g_inited
    /\ lap_durations_ms' = PushLap(lap_durations_ms, lap_count,
                                   (NowTotalMs - last_lap_total_ms) % MsMod)
    /\ lap_count' = NextLapCount
    /\ last_lap_total_ms' = NowTotalMs
    /\ ReadTotal
    /\ UNCHANGED <<clk, g_inited, state, state_start_us, accumulated_ms>>

\* stopwatch_clear_laps: the next lap is measured from here.
stopwatch_clear_laps ==
    /\ g_inited
    /\ lap_count' = 0
    /\ last_lap_total_ms' = NowTotalMs
    /\ lap_durations_ms' = NoLaps
    /\ ReadTotal
    /\ UNCHANGED <<clk, g_inited, state, state_start_us, accumulated_ms>>

\* stopwatch_get_total_ms: the query that moves the timebase on.
stopwatch_get_total_ms ==
    /\ g_inited
    /\ ReadTotal
    /\ UNCHANGED <<clk, swvars>>

\* stopwatch_get_lap_ms, a query that only reads, as the value it returns.
stopwatch_get_lap_ms(index) == IF index < lap_count THEN lap_durations_ms[index] ELSE 0

\* Real time goes by between two operations.
Elapse == \E d \in Steps : ElapseCycles(d) /\ UNCHANGED swvars
=============================================================================
