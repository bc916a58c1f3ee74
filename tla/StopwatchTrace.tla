--------------------------- MODULE StopwatchTrace ---------------------------
(***************************************************************************)
(* The stopwatch of Stopwatch.tla together with a record of what really    *)
(* happened, against which its answers are judged.  The history variables  *)
(* never enable, disable or influence an operation, except that MaxSegs    *)
(* and MaxMarks bound the instance.                                        *)
(***************************************************************************)
EXTENDS Stopwatch, Sequences

CONSTANTS
    MaxSegs,    \* bound: finished running segments between two resets
    MaxMarks    \* bound: marks between two resets or clears

ASSUME TraceConstants == MaxSegs \in Nat /\ MaxMarks \in Nat \ {0}

VARIABLES
    last_read,  \* clk at the last timebase_get_us
    seg_start,  \* clk at the base of the current running segment
    ran,        \* real cycles of the finished segments since the last reset
    segs,       \* number of those segments
    faults,     \* what has spoilt the count since the last reset
    seen,       \* the last total computed for anybody
    marks       \* totals that delimit laps since the last reset or clear

hist == <<last_read, seg_start, ran, segs, faults, seen, marks>>
vars == <<tbvars, swvars, hist>>

\* "skip": CYCCNT went round at least once between two reads of a running
\* segment.  "zero": a segment started at a clock reading of 0, the value the
\* code uses for "no base".
FaultKinds == {"skip", "zero"}

\* The fields of g_sw and the history of what really happened stay in range.
TypeOK ==
    /\ StopwatchTypeOK
    /\ last_read \in 0..MaxClk
    /\ seg_start \in 0..MaxClk
    /\ ran \in 0..MaxClk
    /\ segs \in 0..MaxSegs
    /\ faults \subseteq FaultKinds
    /\ seen \in Millis
    /\ marks \in Seq(Millis) /\ Len(marks) \in 1..MaxMarks

Init ==
    /\ StopwatchBoot
    /\ last_read = 0 /\ seg_start = 0 /\ ran = 0 /\ segs = 0
    /\ faults = {} /\ seen = 0 /\ marks = <<0>>

-----------------------------------------------------------------------------
(* Recording.                                                              *)

\* More than a full turn of CYCCNT since the last read.
Skipped == dwt_ok /\ clk - last_read >= CycMod

FaultsWhenRead == IF HasBase /\ Skipped THEN faults \cup {"skip"} ELSE faults
FaultsOfBase == IF timebase_get_us = 0 THEN {"zero"} ELSE {}

\* An operation that computes the total.
RecordTotal ==
    /\ last_read' = IF HasBase THEN clk ELSE last_read
    /\ faults' = FaultsWhenRead
    /\ seen' = NowTotalMs

\* An operation that rebases the running segment.
RecordBase == last_read' = clk /\ seg_start' = clk

Boot ==
    /\ stopwatch_init
    /\ last_read' = clk
    /\ UNCHANGED <<seg_start, ran, segs, faults, seen, marks>>

Start ==
    /\ segs < MaxSegs
    /\ stopwatch_start
    /\ RecordBase
    /\ faults' = faults \cup FaultsOfBase
    /\ UNCHANGED <<ran, segs, seen, marks>>

Stop ==
    /\ stopwatch_stop
    /\ RecordTotal
    /\ ran' = ran + (clk - seg_start)
    /\ segs' = segs + 1
    /\ UNCHANGED <<seg_start, marks>>

Reset ==
    /\ stopwatch_reset
    /\ ran' = 0 /\ segs' = 0 /\ seen' = 0 /\ marks' = <<0>>
    /\ IF state = "RUNNING" THEN RecordBase /\ faults' = FaultsOfBase
                            ELSE faults' = {} /\ UNCHANGED <<last_read, seg_start>>

Lap ==
    /\ Len(marks) < MaxMarks
    /\ stopwatch_lap
    /\ RecordTotal
    /\ marks' = Append(marks, NowTotalMs)
    /\ UNCHANGED <<seg_start, ran, segs>>

ClearLaps ==
    /\ stopwatch_clear_laps
    /\ RecordTotal
    /\ marks' = <<NowTotalMs>>
    /\ UNCHANGED <<seg_start, ran, segs>>

Query ==
    /\ stopwatch_get_total_ms
    /\ RecordTotal
    /\ UNCHANGED <<seg_start, ran, segs, marks>>

Wait == Elapse /\ UNCHANGED hist

Next == \/ Boot \/ Start \/ Stop \/ Reset \/ Lap \/ ClearLaps \/ Query \/ Wait

Spec == Init /\ [][Next]_vars

-----------------------------------------------------------------------------
(* Real time.                                                              *)

Running == state = "RUNNING"
TrueCycles == ran + IF Running THEN clk - seg_start ELSE 0
Segments == segs + IF Running THEN 1 ELSE 0

\* What keeps the record inside its types: nothing is dated in the future and
\* the watch cannot have run for longer than there has been time.
Recorded ==
    /\ last_read <= clk
    /\ seg_start <= clk
    /\ TrueCycles <= clk
    /\ Segments <= MaxSegs

-----------------------------------------------------------------------------
(* Laps.                                                                   *)

\* The number of laps taken, and the index in marks at which the retained
\* ones begin.
Taken == Len(marks) - 1
Oldest == Taken - lap_count + 1

\* The retained laps are the latest ones, in order, and they tile the time
\* line: each runs exactly from the end of the one before to its own mark,
\* across pauses, resumptions, queries, and the shift that drops the oldest
\* lap.  Entries the queries do not reach are zero.
LapsTile ==
    /\ lap_count = IF Taken <= MAX_LAPS THEN Taken ELSE MAX_LAPS
    /\ last_lap_total_ms = marks[Len(marks)]
    /\ \A i \in LapIndex :
         /\ stopwatch_get_lap_ms(i) =
              IF i < lap_count THEN (marks[Oldest + i + 1] - marks[Oldest + i]) % MsMod
                               ELSE 0
         /\ lap_durations_ms[i] = stopwatch_get_lap_ms(i)

-----------------------------------------------------------------------------
(* Accuracy.                                                               *)

\* Resolution of timebase_get_us in microseconds.
Quantum == IF dwt_ok THEN 1 ELSE UsPerSec \div TicksPerSec

\* No counter has reached its width: the 64-bit product of total_cyc, the
\* 32-bit tick, the 32-bit millisecond total.
InRange ==
    /\ clk * UsPerSec < U64Mod
    /\ dwt_ok \/ clk * TicksPerSec < TickMod * CpuHz
    /\ TrueCycles * UsPerSec + Segments * Quantum * CpuHz < MsMod * UsPerMs * CpuHz

\* The total shown now is at most one quantum too much for each running segment.
NotAhead ==
    NowTotalMs * UsPerMs * CpuHz <= TrueCycles * UsPerSec + Segments * Quantum * CpuHz

\* The total shown now agrees with the real running time since the last reset,
\* in units of 1/(CpuHz * UsPerSec) s: at most one quantum too much for each
\* running segment, and at most one quantum and one millisecond too little.
Agrees ==
    LET shown == NowTotalMs * UsPerMs * CpuHz
        real == TrueCycles * UsPerSec
    IN  /\ NotAhead
        /\ real <= shown + Segments * (UsPerMs + Quantum) * CpuHz

\* However long the watch sat idle or paused, and in whatever order it was
\* started, stopped, reset and queried, the total is accurate as long as no
\* running segment went a full turn of CYCCNT without a query and none began
\* at clock reading 0.
Accurate ==
    g_inited /\ InRange /\ faults = {} /\ ~(HasBase /\ Skipped) => Agrees

\* What spoils the count only ever loses time: a segment that began at clock
\* reading 0, which the code takes for "no base" and does not count, or turns of
\* CYCCNT that nobody saw.  The watch never shows time it did not run, and a
\* reset ends the damage (Accurate speaks of the time since the last reset).
NeverAhead == g_inited /\ InRange => NotAhead

\* The same without the proviso on polling: what the 64-bit accumulation of
\* timebase.c:10 is there to ensure.
AccurateUnpolled == g_inited /\ InRange /\ "zero" \notin faults => Agrees

\* timebase.h:14 promises a monotonic clock: a later reading of CYCCNT's
\* extension is never smaller than an earlier one.  (In dwt mode the last value
\* returned is the conversion of total_cyc.)
MonotonicUs ==
    [][g_inited /\ dwt_ok => CycToUs(total_cyc') >= CycToUs(total_cyc)]_vars

-----------------------------------------------------------------------------
(* What the user sees.                                                     *)

RetainedLaps == [i \in 1..lap_count |-> lap_durations_ms[i - 1]]

Ideal == INSTANCE LapTimer WITH
    Window <- MAX_LAPS, MaxTotal <- MsMod - 1,
    mode <- state, mark <- last_lap_total_ms, laps <- RetainedLaps

\* Every operation of the firmware is an operation of the ideal lap timer:
\* totals shown never decrease except to zero by a reset, stand still unless
\* running, and laps are differences of totals that were current.
LapTimerSpec == Ideal!Spec
=============================================================================
