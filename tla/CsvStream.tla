----------------------------- MODULE CsvStream -----------------------------
(***************************************************************************)
(* The CSV stream of applications/stopwatch_cli.c: one periodic soft timer *)
(* whose callback csv_timer_cb prints a row, and the shell commands        *)
(* sw_csv, sw_csv_header and sw_timefmt.  The timer thread and its list    *)
(* are those of SoftTimers; the shell takes the place of the caller.  What *)
(* a row contains is the subject of StopwatchThreads.                      *)
(***************************************************************************)
EXTENDS SoftTimers

CONSTANTS
    csv,                \* the timer csv_timer points to
    Args,               \* what atoi makes of the period argument
    DefaultMs, MinMs,   \* 200 and 10
    RT_TICK_PER_SECOND

ASSUME CsvConstants ==
    /\ Args \subseteq -(TickMod \div 2)..(TickMod \div 2 - 1)
    /\ DefaultMs \in 1..TickMod-1 /\ MinMs \in 1..TickMod-1
    /\ RT_TICK_PER_SECOND \in 1..1000

\* The firmware creates no other soft timer, and while csv_timer_cb waits for swlock
\* the owner has the timer thread's priority, so the shell waits too.
OneTimer ==
    /\ Timers = {csv} /\ Periodic = {csv}
    /\ ~CallbackMayYield

VARIABLES
    csv_timer,      \* has the timer been created?
    csv_period_ms,
    csv_header,
    csv_human,
    cmd,            \* what the shell still has to do of a command
    off,            \* history: the last sw_csv command to finish was "off"
    gap, armed      \* history: ticks since the last callback began (capped); the
                    \* delay the timer was last started with, 0 if by the shell

csvvars == <<csv_timer, csv_period_ms, csv_header, csv_human, cmd, off>>
allvars == <<vars, csvvars, gap, armed>>

\* The settings of stopwatch_cli.c and the timer stay within their types and widths.
CsvTypeOK ==
    /\ TypeOK
    /\ csv_timer \in BOOLEAN
    /\ csv_period_ms \in Ticks
    /\ csv_header \in BOOLEAN
    /\ csv_human \in BOOLEAN
    /\ cmd \in {"none", "arm", "start", "off"}
    /\ off \in BOOLEAN
    /\ gap \in Ticks
    /\ armed \in Ticks

CsvInit ==
    /\ Init
    /\ csv_timer = FALSE
    /\ csv_period_ms = DefaultMs
    /\ csv_header = FALSE
    /\ csv_human = FALSE
    /\ cmd = "none"
    /\ off = TRUE
    /\ gap = RT_TICK_MAX
    /\ armed = 0

-----------------------------------------------------------------------------
\* The product is 64 bits wide; at least one tick; the result is narrowed.
ms_to_ticks(ms) ==
    LET ticks == (ms * RT_TICK_PER_SECOND + 999) \div 1000
    IN  IF ticks = 0 THEN 1 ELSE ticks % TickMod

\* (rt_uint32_t)atoi(argv[2]), and the lower limit.
PeriodOf(arg) == IF arg % TickMod < MinMs THEN MinMs ELSE arg % TickMod

\* sw_csv on [period_ms], up to the choice between create and control.
CsvOn ==
    /\ CallerRuns
    /\ cmd = "none"
    /\ caller.at = "idle"
    /\ csv_period_ms' \in {csv_period_ms} \cup {PeriodOf(a) : a \in Args}
    /\ cmd' = "arm"
    /\ off' = FALSE
    /\ UNCHANGED <<vars, csv_timer, csv_header, csv_human, gap, armed>>

\* rt_timer_create the first time, rt_timer_control(SET_TIME) afterwards.
CsvArm ==
    /\ CallerRuns
    /\ cmd = "arm"
    /\ cmd' = "start"
    /\ csv_timer' = TRUE
    /\ init_tick' = [init_tick EXCEPT ![csv] = ms_to_ticks(csv_period_ms)]
    /\ UNCHANGED <<tick, soft_list, activated, timeout_tick, thread, caller, lag, halted, missed,
                   csv_period_ms, csv_header, csv_human, off, gap, armed>>

\* rt_timer_create finds no memory: nothing is started.
CsvCreateFails ==
    /\ CallerRuns
    /\ cmd = "arm"
    /\ ~csv_timer
    /\ cmd' = "none"
    /\ off' = TRUE
    /\ UNCHANGED <<vars, csv_timer, csv_period_ms, csv_header, csv_human, gap, armed>>

\* rt_timer_start(csv_timer), and the rest of that call.
CsvStart ==
    /\ cmd = "start"
    /\ rt_timer_start(csv)
    /\ cmd' = "none"
    /\ armed' = 0
    /\ UNCHANGED <<csv_timer, csv_period_ms, csv_header, csv_human, off, gap>>

CsvStartRest ==
    /\ StartCheck \/ StartResume
    /\ UNCHANGED <<csvvars, gap, armed>>

\* sw_csv off.  rt_timer_stop is called if there is a timer, and returns at once
\* if that is not active.
CsvOff ==
    /\ CallerRuns
    /\ cmd = "none"
    /\ caller.at = "idle"
    /\ IF csv_timer /\ csv \in activated
         THEN rt_timer_stop(csv) /\ cmd' = "off" /\ UNCHANGED off
         ELSE UNCHANGED <<vars, cmd>> /\ off' = TRUE
    /\ UNCHANGED <<csv_timer, csv_period_ms, csv_header, csv_human, gap, armed>>

CsvStopped ==
    /\ StopRemove
    /\ cmd' = "none"
    /\ off' = TRUE
    /\ UNCHANGED <<csv_timer, csv_period_ms, csv_header, csv_human, gap, armed>>

cmd_sw_csv_header(on) ==
    /\ CallerRuns /\ cmd = "none" /\ caller.at = "idle"
    /\ csv_header' = on
    /\ UNCHANGED <<vars, csv_timer, csv_period_ms, csv_human, cmd, off, gap, armed>>

cmd_sw_timefmt(human) ==
    /\ CallerRuns /\ cmd = "none" /\ caller.at = "idle"
    /\ csv_human' = human
    /\ UNCHANGED <<vars, csv_timer, csv_period_ms, csv_header, cmd, off, gap, armed>>

-----------------------------------------------------------------------------
\* The timer thread up to a callback.
StreamThread ==
    /\ ThreadNext \/ ThreadSuspend \/ ThreadDelta \/ ThreadSleep \/ CheckDone
    /\ UNCHANGED <<csvvars, gap, armed>>

StreamFire ==
    /\ CheckFire
    /\ gap' = 0
    /\ UNCHANGED <<csvvars, armed>>

\* csv_timer_cb waits for swlock.
csv_timer_cb_waits ==
    /\ CallbackWait \/ CallbackWoken
    /\ UNCHANGED <<csvvars, gap, armed>>

\* csv_timer_cb prints the header if it is asked for, once, and the row, and
\* returns to rt_soft_timer_check.
csv_timer_cb ==
    /\ CallbackReturn
    /\ csv_header' = FALSE
    /\ armed' = IF Restarts(csv) THEN init_tick[csv] ELSE armed
    /\ UNCHANGED <<csv_timer, csv_period_ms, csv_human, cmd, off, gap>>

StreamTick ==
    /\ Tick
    /\ gap' = IF gap = RT_TICK_MAX THEN gap ELSE gap + 1
    /\ UNCHANGED <<csvvars, armed>>

Shell ==
    \/ CsvOn \/ CsvArm \/ CsvCreateFails \/ CsvStart \/ CsvStartRest \/ CsvOff \/ CsvStopped
    \/ \E b \in BOOLEAN : cmd_sw_csv_header(b) \/ cmd_sw_timefmt(b)

CsvNext == StreamThread \/ StreamFire \/ csv_timer_cb_waits \/ csv_timer_cb \/ StreamTick \/ Shell

\* As in SoftTimers; swlock is handed to the callback in the end (NoStarvation),
\* and the shell finishes the commands it begins.
CsvFairness ==
    /\ WF_allvars(StreamThread \/ StreamFire)
    /\ SF_allvars(csv_timer_cb)
    /\ WF_allvars(CallbackWoken /\ UNCHANGED <<csvvars, gap, armed>>)
    /\ WF_allvars(StreamTick)
    /\ SF_allvars(CsvArm \/ CsvStart \/ CsvStartRest \/ CsvStopped)

CsvSpec == CsvInit /\ [][CsvNext]_allvars
CsvFairSpec == CsvSpec /\ CsvFairness

-----------------------------------------------------------------------------
\* After "sw_csv off" has returned no row is begun and none is in progress,
\* wherever in the timer thread's work the command fell.
NoRowAfterOff == off => csv \notin activated /\ pc # "callback"

\* Between commands the timer runs with the period the user was told, whatever
\* the order of periods, failures and restarts.
PeriodAsAnnounced ==
    csv_timer /\ cmd = "none" => init_tick[csv] = ms_to_ticks(csv_period_ms)

\* Rows of an undisturbed stream begin at least one period apart: a late row
\* delays the following ones and never bunches with them.
RowSpacing == [][ pc' = "callback" /\ pc # "callback" => gap >= armed ]_allvars

\* rt_timer_start wakes the timer thread only where it sleeps for its list.  It
\* tests that, and resumes the thread later; in between csv_timer_cb may have
\* begun to wait for swlock, and waking it there would let it in without the lock.
WaitNotCutShort == [][ thread_stat = "wait" /\ thread_stat' = "run" => caller' = caller ]_allvars

\* A stream that was switched on produces its next row, unless a command
\* intervenes, a timeout fell on the sentinel or the assertion failed.
StreamFlows ==
    csv \in activated ~> pc = "callback" \/ cmd # "none" \/ caller.at # "idle" \/ missed \/ halted

\* The assertion of rt_timer_start fails, and stops the firmware, only for a
\* period no user means: one that is negative, or the largest atoi can return.
\* No period below lets a restart inside the callback or a change reach it.
OnlyHugePeriodHalts == halted => csv_period_ms >= TickMod \div 2 - 1

\* The stream obeys sw_csv: off means off, the period is the one announced, and
\* only an absurd one stops the firmware.
CsvAsAsked == CsvTypeOK /\ NoRowAfterOff /\ PeriodAsAnnounced /\ OnlyHugePeriodHalts

\* Neither the timer thread nor rt_timer_start hurries a row: not before its time,
\* and not past the lock.
RowTiming == RowSpacing /\ WaitNotCutShort
=============================================================================
