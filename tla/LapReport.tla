------------------------------ MODULE LapReport ------------------------------
(***************************************************************************)
(* The numbers and texts made from the lap table: the statistics of        *)
(* cmd_sw_status and of draw_laps_page, the line "m%u M%u a%u" at the      *)
(* bottom of the laps page, and the times format_time_ms writes.  The      *)
(* width of rt_uint32_t is U32; texts are reduced to their lengths.        *)
(*                                                                         *)
(* The lap table appears as its operations leave it; a report is one step, *)
(* the interleavings of its queries are in StopwatchThreads and OledUi.    *)
(***************************************************************************)
EXTENDS Integers, Sequences, Functions, FiniteSets

CONSTANTS
    U32,         \* 2^32 (10^9 for TLC, whose integers are narrower)
    MaxLaps,     \* STOPWATCH_MAX_LAPS
    Columns,     \* of the panel: 128
    Buffer,      \* sizeof(stat), sizeof(line) and sizeof(buf)
    TimeBuffer,  \* sizeof(tbuf)
    Steps,       \* bound: milliseconds that pass between two operations
    MaxSteps     \* bound: how often they pass

ASSUME ReportAssumption ==
    /\ {U32, MaxLaps, Columns, Buffer, TimeBuffer} \subseteq Nat \ {0}
    /\ Steps \subseteq 0..U32-1
    /\ MaxSteps \in Nat
    \* The sizes of the code leave room: minutes of a word have at most five digits,
    \* and indices at most two.
    /\ (U32 - 1) \div 60000 < 100000 /\ MaxLaps < 100
    /\ Columns >= 120 /\ Buffer > 20 /\ TimeBuffer > 11

VARIABLES
    total,   \* what get_now_total_ms_unsafe returns
    mark,    \* last_lap_total_ms
    laps,    \* the laps that are kept
    report,  \* minimum, maximum and sum of the last report, and its number of laps
    steps,   \* how often time has passed
    turned   \* history: total has wrapped since the last reset

reportvars == <<total, mark, laps, report, steps, turned>>

Words == 0..U32-1
None == [min |-> U32 - 1, max |-> 0, sum |-> 0, cnt |-> 0]

\* Totals, laps and sums are 32-bit words, and the table keeps its limit.
ReportTypeOK ==
    /\ total \in Words /\ mark \in Words
    /\ laps \in Seq(Words) /\ Len(laps) <= MaxLaps
    /\ report \in [min: Words, max: Words, sum: Words, cnt: 0..MaxLaps]
    /\ steps \in 0..MaxSteps
    /\ turned \in BOOLEAN

ReportInit ==
    /\ total = 0 /\ mark = 0
    /\ laps = <<>>
    /\ report = None
    /\ steps = 0
    /\ turned = FALSE

-----------------------------------------------------------------------------
Elapse(ms) ==
    /\ steps < MaxSteps
    /\ total' = (total + ms) % U32
    /\ turned' = (turned \/ total + ms >= U32)
    /\ steps' = steps + 1
    /\ report' = None
    /\ UNCHANGED <<mark, laps>>

LapMs == (total - mark) % U32

stopwatch_lap ==
    /\ laps' = Append(IF Len(laps) < MaxLaps THEN laps ELSE Tail(laps), LapMs)
    /\ mark' = total
    /\ report' = None
    /\ UNCHANGED <<total, steps, turned>>

stopwatch_clear_laps ==
    /\ laps' = <<>>
    /\ mark' = total
    /\ report' = None
    /\ UNCHANGED <<total, steps, turned>>

stopwatch_reset ==
    /\ total' = 0 /\ mark' = 0
    /\ laps' = <<>>
    /\ report' = None
    /\ turned' = FALSE
    /\ UNCHANGED steps

\* Mutant: the maximum is looked for only where there is no new minimum.
TallyElse(r, v) ==
    [min |-> IF v < r.min THEN v ELSE r.min,
     max |-> IF v >= r.min /\ v > r.max THEN v ELSE r.max,
     sum |-> (r.sum + v) % U32,
     cnt |-> r.cnt + 1]

\* The body of the loop over the laps.
Tally(r, v) ==
    [min |-> IF v < r.min THEN v ELSE r.min,
     max |-> IF v > r.max THEN v ELSE r.max,
     sum |-> (r.sum + v) % U32,
     cnt |-> r.cnt + 1]

\* The numbers after n laps.
Tallied[n \in 0..Len(laps)] == IF n = 0 THEN None ELSE Tally(Tallied[n - 1], laps[n])

\* cmd_sw_status, and the last part of draw_laps_page.
Report ==
    /\ laps # <<>>
    /\ report' = Tallied[Len(laps)]
    /\ UNCHANGED <<total, mark, laps, steps, turned>>

avg_ms == report.sum \div report.cnt

ReportNext ==
    \/ \E ms \in Steps : Elapse(ms)
    \/ stopwatch_lap \/ stopwatch_clear_laps \/ stopwatch_reset
    \/ Report

ReportSpec == ReportInit /\ [][ReportNext]_reportvars

-----------------------------------------------------------------------------
\* Characters of n in "%u", and in "%02u".
Tens == <<10, 100, 1000, 10000, 100000, 1000000, 10000000, 100000000, 1000000000>>
Digits(n) == 1 + Cardinality({k \in DOMAIN Tens : n >= Tens[k]})
AtLeastTwo(n) == IF n < 10 THEN 2 ELSE Digits(n)

\* "m%u M%u a%u"
StatLength == 5 + Digits(report.min) + Digits(report.max) + Digits(avg_ms)

\* format_time_ms: "%02u:%02u.%02u", minutes not reduced
TimeLength(ms) == AtLeastTwo(ms \div 60000) + 6

\* "#%u %s"
RowLength(idx) == 2 + Digits(idx) + TimeLength(laps[idx])

\* A text of n characters comes out whole from a buffer and on the panel, in a
\* font of that width and starting at column x.
Whole(n, size, width, x) == n < size /\ x + width * n <= Columns
OLED_6X8 == 6
OLED_8X16 == 8

\* The sum of the first n laps, however large.
LapSums[n \in 0..Len(laps)] == IF n = 0 THEN 0 ELSE LapSums[n - 1] + laps[n]

\* The statistics are those of the laps that are kept: the sum does not
\* overflow, because laps adjoin, so that all of them together are at most the
\* total.  (A total beyond 32 bits, after 49 days, is left aside.)
ReportExact ==
    report.cnt > 0 /\ ~turned =>
        LET reals == LapSums[Len(laps)]
        IN  /\ report.cnt = Len(laps)
            /\ report.min \in Range(laps) /\ report.max \in Range(laps)
            /\ \A i \in DOMAIN laps : report.min <= laps[i] /\ laps[i] <= report.max
            /\ report.sum = reals
            /\ report.min <= avg_ms /\ avg_ms <= report.max
            /\ reals <= total

\* Times come out whole wherever they are shown, for every total: in the table
\* row, in the large time at the left edge, behind the label of the latest lap.
TimesWhole ==
    /\ Whole(TimeLength(total), Buffer, OLED_8X16, 0)
    /\ \A i \in DOMAIN laps :
         /\ TimeLength(laps[i]) < TimeBuffer
         /\ Whole(RowLength(i), Buffer, OLED_6X8, 0)
         /\ Whole(TimeLength(laps[i]), Buffer, OLED_6X8, 30)

\* The line of statistics comes out whole as long as every lap is shorter than
\* 100 s: it takes 20 of the 21 characters the panel has in a row.
StatWhole == report.cnt > 0 /\ report.max < 100000 => Whole(StatLength, Buffer, OLED_6X8, 0)

\* The lap statistics are right and what is shown of laps and times is not cut.
ReportSound == ReportTypeOK /\ ReportExact /\ TimesWhole /\ StatWhole
=============================================================================
