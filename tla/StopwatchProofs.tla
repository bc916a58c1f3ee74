--------------------------- MODULE StopwatchProofs ---------------------------
(***************************************************************************)
(* Proofs about StopwatchTrace for every lap capacity, clock frequency,    *)
(* register width and bound.                                               *)
(***************************************************************************)
EXTENDS StopwatchTrace, SequenceTheorems, TLAPS

-----------------------------------------------------------------------------
(* Arithmetic.                                                             *)

\* A remainder is smaller than its modulus.
LEMMA ModRange ==
    ASSUME NEW a \in Int, NEW m \in Nat \ {0}
    PROVE  a % m \in 0..m-1
  OBVIOUS

\* Integer division of a natural does not make it larger.
LEMMA DivRange ==
    ASSUME NEW a \in Nat, NEW b \in Nat \ {0}
    PROVE  a \div b \in 0..a
  OBVIOUS

\* Division of the u64 range stays in the u64 range.
LEMMA DivBelow ==
    ASSUME NEW m \in Nat \ {0}, NEW a \in 0..m-1, NEW b \in Nat \ {0}
    PROVE  a \div b \in 0..m-1
  BY DivRange

\* What integer division means.
LEMMA DivMeans ==
    ASSUME NEW a \in Nat, NEW b \in Nat \ {0}
    PROVE  /\ b * (a \div b) <= a
           /\ a < b * (a \div b) + b
  OBVIOUS

\* Multiplication keeps order.
LEMMA MulMono ==
    ASSUME NEW a \in Int, NEW b \in Int, NEW c \in Nat, a <= b
    PROVE  a * c <= b * c
  OBVIOUS

\* Order of multiples is order of what is multiplied.
LEMMA MulLess ==
    ASSUME NEW a \in Int, NEW b \in Int, NEW c \in Nat, a * c < b * c
    PROVE  a < b
  BY MulMono

\* A number within its range is its own remainder; a remainder is never larger.
LEMMA ModSmall ==
    ASSUME NEW m \in Nat \ {0}, NEW a \in 0..m-1
    PROVE  a % m = a
  OBVIOUS
LEMMA ModAtMost ==
    ASSUME NEW m \in Nat \ {0}, NEW a \in Nat
    PROVE  a % m <= a
  OBVIOUS

\* The only multiple of m closer to zero than m is zero.
LEMMA MulSmall ==
    ASSUME NEW m \in Nat \ {0}, NEW j \in Int, m * j < m, -m < m * j
    PROVE  j = 0
<1>1. ASSUME j >= 1 PROVE FALSE
  BY <1>1
<1>2. ASSUME j <= -1 PROVE FALSE
  BY <1>2
<1>. QED BY <1>1, <1>2

\* A remainder is the only number of its range that differs by a multiple of m.
LEMMA ModUnique ==
    ASSUME NEW m \in Nat \ {0}, NEW k \in Int, NEW r \in 0..m-1
    PROVE  (m * k + r) % m = r
<1>. DEFINE x == m * k + r
            q == x \div m
            s == x % m
<1>1. x \in Int /\ x = m * k + r
  OBVIOUS
<1>. HIDE DEF x
<1>2. q \in Int /\ s \in 0..m-1 /\ x = m * q + s
  BY <1>1
<1>. HIDE DEF q, s
<1>3. m * (k - q) = s - r
  BY <1>1, <1>2
<1>4. k - q = 0
  <2>. DEFINE j == k - q
  <2>1. j \in Int /\ m * j < m /\ -m < m * j
    BY <1>2, <1>3
  <2>. HIDE DEF j
  <2>2. j = 0
    BY <2>1, MulSmall
  <2>. QED BY <2>2 DEF j
<1>5. s = r
  BY <1>2, <1>3, <1>4
<1>. QED BY <1>5 DEF s, x

\* A remainder may be taken before or after adding or subtracting.
LEMMA ModAdd ==
    ASSUME NEW m \in Nat \ {0}, NEW a \in Int, NEW b \in Int
    PROVE  ((a % m) + b) % m = (a + b) % m
<1>. DEFINE q == a \div m
            r == a % m
            u == (r + b) \div m
            v == (r + b) % m
<1>1. q \in Int /\ r \in Int /\ a = m * q + r
  OBVIOUS
<1>. HIDE DEF q, r
<1>2. u \in Int /\ v \in 0..m-1 /\ r + b = m * u + v
  BY <1>1
<1>. HIDE DEF u, v
<1>3. a + b = m * (q + u) + v
  BY <1>1, <1>2
<1>4. (a + b) % m = v
  <2>. DEFINE k == q + u
  <2>1. k \in Int /\ a + b = m * k + v
    BY <1>1, <1>2, <1>3
  <2>. HIDE DEF k
  <2>2. (m * k + v) % m = v
    BY <1>2, <2>1, ModUnique
  <2>. QED BY <2>1, <2>2
<1>. QED BY <1>4 DEF v, r

\* The distance to a register that counts modulo m follows the distance in time.
LEMMA DistanceFollows ==
    ASSUME NEW m \in Nat \ {0}, NEW a \in Int, NEW b \in Int, NEW x \in Int, NEW y \in Int,
           NEW d \in Int, (a - b) % m = (x - y) % m
    PROVE  (((a + d) % m) - b) % m = (x + d - y) % m
<1>. DEFINE e == a + d
            f == -b
            g == a - b
            h == x - y
            r == e % m
<1>1. e \in Int /\ f \in Int /\ g \in Int /\ h \in Int /\ r \in Int
  OBVIOUS
<1>2. e + f = g + d /\ x + d - y = h + d /\ r - b = r + f
  BY <1>1
<1>3. g % m = h % m
  OBVIOUS
<1>4. (r - b) % m = (r + f) % m
  BY <1>2
<1>. HIDE DEF e, f, g, h
<1>5. (r + f) % m = (e + f) % m
  BY <1>1, ModAdd
<1>6. ((g % m) + d) % m = (g + d) % m
  BY <1>1, ModAdd
<1>7. ((h % m) + d) % m = (h + d) % m
  BY <1>1, ModAdd
<1>8. (r - b) % m = (x + d - y) % m
  BY <1>2, <1>3, <1>4, <1>5, <1>6, <1>7
<1>. QED BY <1>8 DEF r, e

-----------------------------------------------------------------------------
(* Types.                                                                  *)

\* The clock and the total are in range whenever the variables are.
LEMMA ValueTypes ==
    ASSUME TypeOK
    PROVE  /\ ExtendedCyc \in 0..U64Mod-1
           /\ timebase_get_us \in 0..U64Mod-1
           /\ NowTotalMs \in Millis
<1>1. clk \in Nat /\ cyccnt \in Int /\ last_cyc \in Int /\ total_cyc \in Nat
  BY DEF TypeOK, StopwatchTypeOK, TimebaseTypeOK
<1>2. CycDelta \in Nat
  BY <1>1, TimebaseConstants, ModRange DEF CycDelta
<1>3. ExtendedCyc \in 0..U64Mod-1
  BY <1>1, <1>2, TimebaseConstants, ModRange DEF ExtendedCyc
<1>4. CycToUs(ExtendedCyc) \in 0..U64Mod-1
  <2>1. ExtendedCyc * UsPerSec \in Int
    BY <1>3, TimebaseConstants
  <2>2. (ExtendedCyc * UsPerSec) % U64Mod \in 0..U64Mod-1
    BY <2>1, TimebaseConstants, ModRange
  <2>. QED BY <2>2, TimebaseConstants, DivBelow DEF CycToUs
<1>5. TickToUs(rt_tick_get) \in 0..U64Mod-1
  <2>1. (clk * TicksPerSec) \div CpuHz \in Int
    <3>1. clk * TicksPerSec \in Nat
      BY <1>1, TimebaseConstants
    <3>. QED BY <3>1, TimebaseConstants, DivRange
  <2>2. rt_tick_get \in Nat
    <3>. DEFINE q == (clk * TicksPerSec) \div CpuHz
    <3>1. q \in Int  BY <2>1
    <3>2. rt_tick_get = q % TickMod  BY DEF rt_tick_get
    <3>. HIDE DEF q
    <3>. QED BY <3>1, <3>2, TimebaseConstants
  <2>3. rt_tick_get * UsPerSec \in Int
    BY <2>2, TimebaseConstants
  <2>4. (rt_tick_get * UsPerSec) % U64Mod \in 0..U64Mod-1
    BY <2>3, TimebaseConstants, ModRange
  <2>. QED BY <2>4, TimebaseConstants, DivBelow DEF TickToUs
<1>6. timebase_get_us \in 0..U64Mod-1
  BY <1>4, <1>5 DEF timebase_get_us
<1>7. SegmentMs \in Nat
  <2>. DEFINE us == (timebase_get_us - state_start_us) % U64Mod
              ms == us \div UsPerMs
  <2>1. us \in 0..U64Mod-1
    BY <1>6, TimebaseConstants DEF TypeOK, StopwatchTypeOK
  <2>2. SegmentMs = ms % MsMod
    BY DEF SegmentMs
  <2>. HIDE DEF us
  <2>3. ms \in Int
    BY <2>1, StopwatchConstants, TimebaseConstants, DivBelow
  <2>. HIDE DEF ms
  <2>. QED BY <2>2, <2>3, StopwatchConstants
<1>8. NowTotalMs \in Millis
  <2>1. accumulated_ms \in Millis
    BY DEF TypeOK, StopwatchTypeOK
  <2>2. (accumulated_ms + SegmentMs) % MsMod \in Millis
    BY <1>7, <2>1, StopwatchConstants DEF Millis
  <2>. QED BY <2>1, <2>2 DEF NowTotalMs
<1>. QED BY <1>3, <1>6, <1>8

\* A read of the timebase, or of the total, keeps the timebase in its types.
LEMMA ReadTypes ==
    ASSUME TypeOK, ReadTimebase \/ ReadTotal, clk' = clk
    PROVE  TimebaseTypeOK'
<1>1. CASE ReadTimebase
  BY <1>1, ValueTypes DEF ReadTimebase, TypeOK, StopwatchTypeOK, TimebaseTypeOK
<1>2. CASE UNCHANGED <<cyccnt, dwt_ok, last_cyc, total_cyc>>
  BY <1>2 DEF TypeOK, StopwatchTypeOK, TimebaseTypeOK
<1>. QED BY <1>1, <1>2 DEF ReadTotal

\* A lap fits into the array.
LEMMA PushLapType ==
    ASSUME NEW a \in [LapIndex -> Millis], NEW n \in 0..MAX_LAPS, NEW x \in Millis
    PROVE  PushLap(a, n, x) \in [LapIndex -> Millis]
  BY StopwatchConstants DEF PushLap, LapIndex

TypeInv == TypeOK /\ Recorded

\* Power-up leaves every variable, and the record, in range.
LEMMA TypeInvInit == Init => TypeInv
<1>. SUFFICES ASSUME Init PROVE TypeInv
  OBVIOUS
<1>. USE TimebaseConstants, StopwatchConstants, TraceConstants
<1>0. dwt_ok \in BOOLEAN /\ g_inited \in BOOLEAN
  BY Zenon DEF Init, StopwatchBoot, TimebaseBoot
<1>1. TimebaseTypeOK
  BY <1>0 DEF Init, StopwatchBoot, TimebaseBoot, TimebaseTypeOK
<1>2. lap_durations_ms \in [LapIndex -> Millis]
  BY DEF Init, StopwatchBoot, NoLaps, LapIndex, Millis
<1>3. StopwatchTypeOK
  BY <1>0, <1>1, <1>2 DEF Init, StopwatchBoot, StopwatchTypeOK, States, Millis
<1>4. marks \in Seq(Millis) /\ Len(marks) \in 1..MaxMarks
  BY DEF Init, Millis
<1>5. TypeOK
  BY <1>3, <1>4 DEF Init, TypeOK, Millis
<1>6. Recorded
  BY DEF Init, StopwatchBoot, TimebaseBoot, Recorded, TrueCycles, Segments, Running
<1>. QED BY <1>5, <1>6 DEF TypeInv

\* The record of an operation that computes the total.
LEMMA RecordTypes ==
    ASSUME TypeInv, RecordTotal, clk' = clk
    PROVE  /\ last_read' \in 0..MaxClk /\ last_read' <= clk'
           /\ faults' \subseteq FaultKinds
           /\ seen' \in Millis
<1>1. NowTotalMs \in Millis
  BY ValueTypes DEF TypeInv
<1>2. faults' \subseteq FaultKinds
  BY DEF RecordTotal, FaultsWhenRead, TypeInv, TypeOK, FaultKinds
<1>. QED BY <1>1, <1>2 DEF RecordTotal, TypeInv, TypeOK, StopwatchTypeOK, TimebaseTypeOK, Recorded

\* Every operation keeps the types; Recorded bounds the record's arithmetic.
LEMMA TypeInvNext == TypeInv /\ [Next]_vars => TypeInv'
<1>. SUFFICES ASSUME TypeInv, [Next]_vars PROVE TypeInv'
  OBVIOUS
<1>. USE TimebaseConstants, StopwatchConstants, TraceConstants
<1>a. TypeOK /\ Recorded
  BY DEF TypeInv
<1>b. NoLaps \in [LapIndex -> Millis]
  BY DEF NoLaps, LapIndex, Millis
<1>c. NowTotalMs \in Millis /\ timebase_get_us \in 0..U64Mod-1
  BY <1>a, ValueTypes
<1>1. CASE Boot
  <2>1. TimebaseTypeOK'
    BY <1>a, <1>1 DEF Boot, stopwatch_init, timebase_init, TypeOK, StopwatchTypeOK, TimebaseTypeOK
  <2>a. g_inited' \in BOOLEAN
    BY <1>a, <1>1, Zenon DEF Boot, stopwatch_init, TypeOK, StopwatchTypeOK
  <2>2. StopwatchTypeOK'
    BY <1>b, <1>1, <2>1, <2>a DEF Boot, stopwatch_init, StopwatchTypeOK, States, Millis
  <2>3. TypeOK' /\ Recorded'
    BY <1>a, <1>1, <2>1, <2>2 DEF Boot, stopwatch_init, TypeOK, StopwatchTypeOK, TimebaseTypeOK,
       Recorded, TrueCycles, Segments, Running
  <2>. QED BY <2>3 DEF TypeInv
<1>2. CASE Start
  <2>1. TimebaseTypeOK'
    BY <1>a, <1>2, ReadTypes DEF Start, stopwatch_start
  <2>2. StopwatchTypeOK'
    BY <1>a, <1>c, <1>2, <2>1 DEF Start, stopwatch_start, TypeOK, StopwatchTypeOK, States, lapvars
  <2>3. faults' \subseteq FaultKinds
    BY <1>a, <1>2 DEF Start, FaultsOfBase, FaultKinds, TypeOK
  <2>4. TypeOK' /\ Recorded'
    BY <1>a, <1>2, <2>1, <2>2, <2>3 DEF Start, stopwatch_start, RecordBase, TypeOK, StopwatchTypeOK,
       TimebaseTypeOK, Recorded, TrueCycles, Segments, Running
  <2>. QED BY <2>4 DEF TypeInv
<1>3. CASE Stop
  <2>1. TimebaseTypeOK'
    BY <1>a, <1>3, ReadTypes DEF Stop, stopwatch_stop
  <2>2. StopwatchTypeOK'
    BY <1>a, <1>c, <1>3, <2>1 DEF Stop, stopwatch_stop, TypeOK, StopwatchTypeOK, States, lapvars
  <2>3. TypeOK' /\ Recorded'
    BY <1>a, <1>3, <2>1, <2>2, RecordTypes DEF Stop, stopwatch_stop, TypeInv, TypeOK, StopwatchTypeOK,
       TimebaseTypeOK, Recorded, TrueCycles, Segments, Running
  <2>. QED BY <2>3 DEF TypeInv
<1>4. CASE Reset
  <2>1. TimebaseTypeOK'
    BY <1>a, <1>4, ReadTypes DEF Reset, stopwatch_reset, TypeOK, StopwatchTypeOK, TimebaseTypeOK
  <2>2. StopwatchTypeOK'
    BY <1>a, <1>b, <1>c, <1>4, <2>1 DEF Reset, stopwatch_reset, TypeOK, StopwatchTypeOK, States, Millis
  <2>3. faults' \subseteq FaultKinds
    BY <1>a, <1>4 DEF Reset, FaultsOfBase, FaultKinds
  <2>4. TypeOK' /\ Recorded'
    BY <1>a, <1>4, <2>1, <2>2, <2>3 DEF Reset, stopwatch_reset, RecordBase, TypeOK, StopwatchTypeOK,
       TimebaseTypeOK, Recorded, TrueCycles, Segments, Running, Millis
  <2>. QED BY <2>4 DEF TypeInv
<1>5. CASE Lap
  <2>1. TimebaseTypeOK'
    BY <1>a, <1>5, ReadTypes DEF Lap, stopwatch_lap
  <2>2. lap_durations_ms' \in [LapIndex -> Millis]
    <3>1. (NowTotalMs - last_lap_total_ms) % MsMod \in Millis
      BY <1>a, <1>c DEF TypeOK, StopwatchTypeOK, Millis
    <3>. QED BY <1>a, <1>5, <3>1, PushLapType DEF Lap, stopwatch_lap, TypeOK, StopwatchTypeOK
  <2>3. StopwatchTypeOK'
    BY <1>a, <1>c, <1>5, <2>1, <2>2 DEF Lap, stopwatch_lap, NextLapCount, TypeOK, StopwatchTypeOK
  <2>4. marks' \in Seq(Millis) /\ Len(marks') \in 1..MaxMarks
    BY <1>a, <1>c, <1>5 DEF Lap, TypeOK
  <2>5. TypeOK' /\ Recorded'
    BY <1>a, <1>5, <2>1, <2>3, <2>4, RecordTypes DEF Lap, stopwatch_lap, TypeInv, TypeOK, StopwatchTypeOK,
       TimebaseTypeOK, Recorded, TrueCycles, Segments, Running
  <2>. QED BY <2>5 DEF TypeInv
<1>6. CASE ClearLaps
  <2>1. TimebaseTypeOK'
    BY <1>a, <1>6, ReadTypes DEF ClearLaps, stopwatch_clear_laps
  <2>2. StopwatchTypeOK'
    BY <1>a, <1>b, <1>c, <1>6, <2>1 DEF ClearLaps, stopwatch_clear_laps, TypeOK, StopwatchTypeOK
  <2>3. marks' \in Seq(Millis) /\ Len(marks') \in 1..MaxMarks
    BY <1>a, <1>c, <1>6 DEF ClearLaps, TypeOK
  <2>4. TypeOK' /\ Recorded'
    BY <1>a, <1>6, <2>1, <2>2, <2>3, RecordTypes DEF ClearLaps, stopwatch_clear_laps, TypeInv, TypeOK,
       StopwatchTypeOK, TimebaseTypeOK, Recorded, TrueCycles, Segments, Running
  <2>. QED BY <2>4 DEF TypeInv
<1>7. CASE Query
  <2>1. TimebaseTypeOK'
    BY <1>a, <1>7, ReadTypes DEF Query, stopwatch_get_total_ms
  <2>2. StopwatchTypeOK'
    BY <1>a, <1>7, <2>1 DEF Query, stopwatch_get_total_ms, TypeOK, StopwatchTypeOK, swvars, lapvars
  <2>3. TypeOK' /\ Recorded'
    BY <1>a, <1>7, <2>1, <2>2, RecordTypes DEF Query, stopwatch_get_total_ms, TypeInv, TypeOK,
       StopwatchTypeOK, TimebaseTypeOK, Recorded, TrueCycles, Segments, Running, swvars
  <2>. QED BY <2>3 DEF TypeInv
<1>8. CASE Wait
  <2>. PICK d \in Steps : ElapseCycles(d) /\ UNCHANGED swvars
    BY <1>8 DEF Wait, Elapse
  <2>1. d \in Nat
    OBVIOUS
  <2>2. TimebaseTypeOK'
    BY <1>a, <2>1 DEF ElapseCycles, TypeOK, StopwatchTypeOK, TimebaseTypeOK
  <2>3. StopwatchTypeOK'
    BY <1>a, <2>2 DEF TypeOK, StopwatchTypeOK, swvars, lapvars
  <2>4. TypeOK' /\ Recorded'
    BY <1>a, <1>8, <2>1, <2>2, <2>3 DEF Wait, ElapseCycles, TypeOK, StopwatchTypeOK, TimebaseTypeOK,
       Recorded, TrueCycles, Segments, Running, swvars, hist
  <2>. QED BY <2>4 DEF TypeInv
<1>9. CASE UNCHANGED vars
  BY <1>a, <1>9 DEF vars, tbvars, swvars, lapvars, hist, TypeInv, TypeOK, StopwatchTypeOK,
     TimebaseTypeOK, Recorded, TrueCycles, Segments, Running
<1>. QED BY <1>1, <1>2, <1>3, <1>4, <1>5, <1>6, <1>7, <1>8, <1>9 DEF Next

\* Every variable of stopwatch.c and timebase.c stays in the range of its C
\* type, lap_count within the array included, whatever the operations do.
THEOREM TypeCorrect == Spec => []TypeOK
<1>1. Spec => []TypeInv
  BY TypeInvInit, TypeInvNext, PTL DEF Spec
<1>2. TypeInv => TypeOK
  BY DEF TypeInv
<1>. QED BY <1>1, <1>2, PTL
-----------------------------------------------------------------------------
(* Laps.                                                                   *)

\* LapsTile does not survive stopwatch_init by itself: it must be known that no
\* lap was taken before it.
LapInv == TypeInv /\ LapsTile /\ (~g_inited => marks = <<0>>)

\* With no laps in the array and one mark in the record there is nothing to tile.
LEMMA NoLapsTile ==
    ASSUME lap_count = 0, lap_durations_ms = NoLaps,
           Len(marks) = 1, last_lap_total_ms = marks[1]
    PROVE  LapsTile
  BY StopwatchConstants DEF LapsTile, Taken, stopwatch_get_lap_ms, NoLaps, LapIndex

\* No lap has been taken at power-up.
LEMMA LapInvInit == Init => LapInv
<1>. SUFFICES ASSUME Init PROVE LapInv
  OBVIOUS
<1>1. LapsTile
  BY NoLapsTile DEF Init, StopwatchBoot
<1>. QED BY <1>1, TypeInvInit DEF LapInv, Init

\* The retained laps written without the query.
LEMMA TileEntries ==
    ASSUME TypeOK, LapsTile, NEW i \in LapIndex
    PROVE  lap_durations_ms[i] =
             IF i < lap_count THEN (marks[Oldest + i + 1] - marks[Oldest + i]) % MsMod ELSE 0
  BY DEF LapsTile

\* One more lap, appended or shifted in, keeps the tiling.
LEMMA LapStep == LapInv /\ Lap => LapsTile'
<1>. SUFFICES ASSUME LapInv, Lap PROVE LapsTile'
  OBVIOUS
<1>. USE StopwatchConstants, TraceConstants
<1>. DEFINE t == NowTotalMs
            n == Len(marks)
            d == (t - last_lap_total_ms) % MsMod
<1>1. /\ TypeOK /\ LapsTile
      /\ marks \in Seq(Millis) /\ n \in Nat \ {0}
      /\ lap_count \in 0..MAX_LAPS
      /\ lap_durations_ms \in [LapIndex -> Millis]
  BY DEF LapInv, TypeInv, TypeOK, StopwatchTypeOK
<1>2. /\ marks' = Append(marks, t)
      /\ last_lap_total_ms' = t
      /\ lap_durations_ms' = PushLap(lap_durations_ms, lap_count, d)
      /\ lap_count' = IF lap_count < MAX_LAPS THEN lap_count + 1 ELSE lap_count
  BY DEF Lap, stopwatch_lap, NextLapCount
<1>3. t \in Millis
  BY <1>1, ValueTypes
<1>4. /\ lap_count = IF n - 1 <= MAX_LAPS THEN n - 1 ELSE MAX_LAPS
      /\ last_lap_total_ms = marks[n]
      /\ Oldest = n - lap_count
  BY <1>1 DEF LapsTile, Taken, Oldest
<1>. HIDE DEF t
<1>5. /\ Len(marks') = n + 1
      /\ marks'[n + 1] = t
      /\ \A j \in 1..n : marks'[j] = marks[j]
      /\ Oldest' = n + 1 - lap_count'
      /\ Taken' = n
  BY <1>1, <1>2, <1>3 DEF Oldest, Taken
<1>6. d = (marks'[n + 1] - marks'[n]) % MsMod
  BY <1>1, <1>4, <1>5
<1>. HIDE DEF d
<1>7. \A i \in LapIndex : lap_durations_ms'[i] =
        IF i < lap_count' THEN (marks'[Oldest' + i + 1] - marks'[Oldest' + i]) % MsMod ELSE 0
  <2>. SUFFICES ASSUME NEW i \in LapIndex
                PROVE  lap_durations_ms'[i] =
                         IF i < lap_count'
                           THEN (marks'[Oldest' + i + 1] - marks'[Oldest' + i]) % MsMod ELSE 0
    OBVIOUS
  <2>1. CASE lap_count < MAX_LAPS
    <3>1. lap_count = n - 1 /\ lap_count' = n /\ Oldest = 1 /\ Oldest' = 1
      BY <1>1, <1>2, <1>4, <1>5, <2>1
    <3>2. lap_durations_ms' = [lap_durations_ms EXCEPT ![n - 1] = d]
      BY <1>2, <2>1, <3>1 DEF PushLap
    <3>3. CASE i = n - 1
      BY <1>1, <1>5, <1>6, <3>1, <3>2, <3>3 DEF LapIndex
    <3>4. CASE i < n - 1
      <4>1. lap_durations_ms'[i] = (marks[i + 2] - marks[i + 1]) % MsMod
        BY <1>1, <3>1, <3>2, <3>4, TileEntries DEF LapIndex
      <4>. QED BY <1>1, <1>5, <3>1, <3>4, <4>1 DEF LapIndex
    <3>5. CASE i > n - 1
      BY <1>1, <3>1, <3>2, <3>5, TileEntries DEF LapIndex
    <3>. QED BY <1>1, <3>3, <3>4, <3>5 DEF LapIndex
  <2>2. CASE lap_count = MAX_LAPS
    <3>1. lap_count' = MAX_LAPS /\ Oldest' = Oldest + 1 /\ Oldest = n - MAX_LAPS /\ Oldest >= 1
      <4>1. lap_count' = MAX_LAPS
        BY <1>2, <2>2
      <4>2. n - 1 >= MAX_LAPS
        BY <1>1, <1>4, <2>2
      <4>3. Oldest = n - MAX_LAPS
        BY <1>4, <2>2
      <4>4. Oldest' = n + 1 - MAX_LAPS
        BY <1>5, <4>1
      <4>. QED BY <1>1, <4>1, <4>2, <4>3, <4>4
    <3>2. lap_durations_ms'[i] = IF i < MAX_LAPS - 1 THEN lap_durations_ms[i + 1] ELSE d
      BY <1>1, <1>2, <2>2 DEF PushLap
    <3>3. CASE i = MAX_LAPS - 1
      <4>1. Oldest' + i = n /\ Oldest' + i + 1 = n + 1
        BY <1>1, <3>1, <3>3
      <4>2. lap_durations_ms'[i] = d
        BY <3>2, <3>3
      <4>. QED BY <1>6, <3>1, <3>3, <4>1, <4>2
    <3>4. CASE i < MAX_LAPS - 1
      <4>1. lap_durations_ms'[i] = (marks[Oldest + i + 2] - marks[Oldest + i + 1]) % MsMod
        <5>1. i + 1 \in LapIndex /\ i + 1 < lap_count
          BY <2>2, <3>4 DEF LapIndex
        <5>2. lap_durations_ms[i + 1] =
                (marks[Oldest + (i + 1) + 1] - marks[Oldest + (i + 1)]) % MsMod
          BY <1>1, <5>1, TileEntries
        <5>. QED BY <1>1, <3>1, <3>2, <3>4, <5>2 DEF LapIndex
      <4>2. Oldest + i + 1 \in 1..n /\ Oldest + i + 2 \in 1..n
        BY <1>1, <3>1, <3>4 DEF LapIndex
      <4>. QED BY <1>1, <1>5, <3>1, <3>4, <4>1, <4>2 DEF LapIndex
    <3>. QED BY <3>3, <3>4 DEF LapIndex
  <2>. QED BY <1>1, <2>1, <2>2
<1>8. lap_count' = IF Taken' <= MAX_LAPS THEN Taken' ELSE MAX_LAPS
  BY <1>1, <1>2, <1>4, <1>5
<1>. QED BY <1>2, <1>5, <1>7, <1>8 DEF LapsTile, stopwatch_get_lap_ms

\* Every operation keeps the tiling; only a lap, a clear or a reset touches it.
LEMMA LapInvNext == LapInv /\ [Next]_vars => LapInv'
<1>. SUFFICES ASSUME LapInv, [Next]_vars PROVE LapInv'
  OBVIOUS
<1>0. TypeInv' /\ TypeInv /\ LapsTile
  BY TypeInvNext DEF LapInv
<1>1. ASSUME UNCHANGED <<lapvars, marks>> PROVE LapsTile'
  BY <1>0, <1>1 DEF lapvars, LapsTile, Taken, Oldest, stopwatch_get_lap_ms
<1>2. CASE Boot
  <2>1. marks' = <<0>>
    BY <1>2 DEF Boot, stopwatch_init, LapInv
  <2>2. LapsTile'
    BY <1>2, <2>1, NoLapsTile, StopwatchConstants
    DEF Boot, stopwatch_init, LapsTile, Taken, stopwatch_get_lap_ms, NoLaps, LapIndex
  <2>. QED BY <1>0, <2>1, <2>2 DEF LapInv
<1>3. CASE Reset \/ ClearLaps
  <2>1. LapsTile'
    BY <1>3, StopwatchConstants DEF Reset, ClearLaps, stopwatch_reset, stopwatch_clear_laps,
       LapsTile, Taken, stopwatch_get_lap_ms, NoLaps, LapIndex
  <2>2. g_inited'
    BY <1>3 DEF Reset, ClearLaps, stopwatch_reset, stopwatch_clear_laps
  <2>. QED BY <1>0, <2>1, <2>2 DEF LapInv
<1>4. CASE Lap
  <2>1. g_inited'
    BY <1>4 DEF Lap, stopwatch_lap
  <2>. QED BY <1>0, <1>4, <2>1, LapStep DEF LapInv
<1>5. CASE Start \/ Stop \/ Query \/ Wait \/ UNCHANGED vars
  <2>1. UNCHANGED <<lapvars, marks, g_inited>>
    BY <1>5 DEF Start, Stop, Query, Wait, stopwatch_start, stopwatch_stop,
       stopwatch_get_total_ms, Elapse, vars, swvars, hist
  <2>. QED BY <1>0, <1>1, <2>1 DEF LapInv
<1>. QED BY <1>2, <1>3, <1>4, <1>5 DEF Next

\* The lap table is right for every capacity: it holds the latest laps, each the
\* difference of the totals at its two ends, and shifting out the oldest lap
\* neither loses nor duplicates one.
THEOREM LapsCorrect == Spec => []LapsTile
<1>1. Spec => []LapInv
  BY LapInvInit, LapInvNext, PTL DEF Spec
<1>2. LapInv => LapsTile
  BY DEF LapInv
<1>. QED BY <1>1, <1>2, PTL

-----------------------------------------------------------------------------
(* Accuracy: the invariant.                                                *)

\* Neither clock has wrapped: the two conditions of InRange that only get
\* harder to meet as time goes by.
ClockInRange ==
    /\ clk * UsPerSec < U64Mod
    /\ dwt_ok \/ clk * TicksPerSec < TickMod * CpuHz

\* Microseconds up to the last tick before cycle c.
TickUs(c) == (UsPerSec \div TicksPerSec) * ((c * TicksPerSec) \div CpuHz)

\* Before a successful stopwatch_init nothing has run.
Fresh == ~g_inited => state = "IDLE" /\ ran = 0 /\ segs = 0 /\ faults = {}

\* The software extension of CYCCNT: the next 32-bit difference is the time
\* since the last read modulo a turn, and no cycle was counted that did not pass.
Extension ==
    g_inited /\ dwt_ok =>
        /\ CycDelta = (clk - last_read) % CycMod
        /\ total_cyc <= last_read

\* The base of the running segment.  With the cycle counter, the count at the
\* last read lies above the base by no more than the time since the base, give
\* or take the microsecond lost in the conversion, and by no less if no turn was
\* missed.  With the tick, the base is the last tick before it.
CycBase ==
    g_inited /\ dwt_ok /\ HasBase /\ ClockInRange =>
        /\ seg_start <= last_read
        /\ CpuHz * state_start_us <= total_cyc * UsPerSec
        /\ total_cyc * UsPerSec <
             CpuHz * state_start_us + CpuHz + (last_read - seg_start) * UsPerSec
        /\ faults = {} =>
             CpuHz * state_start_us + (last_read - seg_start) * UsPerSec
               <= total_cyc * UsPerSec
TickBase ==
    g_inited /\ ~dwt_ok /\ HasBase /\ ClockInRange => state_start_us = TickUs(seg_start)

\* A running segment without a base has been noted.
BaseNoted == Running /\ faults = {} => HasBase

\* What the finished segments have accumulated.
Finished ==
    g_inited /\ ClockInRange =>
        /\ accumulated_ms * UsPerMs * CpuHz <= ran * UsPerSec + segs * Quantum * CpuHz
        /\ faults = {}
             /\ ran * UsPerSec + segs * Quantum * CpuHz < MsMod * UsPerMs * CpuHz
           => ran * UsPerSec <= accumulated_ms * UsPerMs * CpuHz
                                  + segs * (UsPerMs + Quantum) * CpuHz

AccuracyInv == TypeInv /\ Fresh /\ Extension /\ CycBase /\ TickBase /\ BaseNoted /\ Finished

-----------------------------------------------------------------------------
(* Accuracy: what a reading of the clock says about real time.             *)

\* The numbers the arithmetic is about.
LEMMA Numbers ==
    ASSUME TypeInv
    PROVE  /\ clk \in Nat /\ last_read \in Nat /\ seg_start \in Nat
           /\ ran \in Nat /\ segs \in Nat
           /\ last_read <= clk /\ seg_start <= clk
           /\ total_cyc \in 0..U64Mod-1 /\ state_start_us \in 0..U64Mod-1
           /\ accumulated_ms \in 0..MsMod-1
           /\ dwt_ok \in BOOLEAN /\ g_inited \in BOOLEAN
           /\ timebase_get_us \in 0..U64Mod-1
           /\ cyccnt \in Int /\ last_cyc \in Int /\ CycDelta \in Nat
<1>. USE DEF TypeInv, TypeOK, StopwatchTypeOK, TimebaseTypeOK, Recorded, Millis
<1>1. dwt_ok \in BOOLEAN /\ g_inited \in BOOLEAN
  BY Zenon
<1>2. timebase_get_us \in 0..U64Mod-1
  BY ValueTypes
<1>3. CycDelta \in Nat
  BY TimebaseConstants, ModRange DEF CycDelta
<1>. QED BY <1>1, <1>2, <1>3

\* The cycle counter: what a read would add is at most, and if no turn was
\* missed exactly, the time since the last one; the conversion rounds down.
LEMMA CycRead ==
    ASSUME TypeInv, Extension, g_inited, dwt_ok
    PROVE  /\ CycDelta <= clk - last_read
           /\ ~Skipped => CycDelta = clk - last_read
           /\ total_cyc + CycDelta <= clk
           /\ ClockInRange =>
                /\ ExtendedCyc = total_cyc + CycDelta
                /\ CpuHz * timebase_get_us <= ExtendedCyc * UsPerSec
                /\ ExtendedCyc * UsPerSec < CpuHz * timebase_get_us + CpuHz
<1>. USE TimebaseConstants
<1>1. clk \in Nat /\ last_read \in Nat /\ last_read <= clk /\ total_cyc \in Nat /\ CycDelta \in Nat
  BY Numbers
<1>2. CycDelta = (clk - last_read) % CycMod /\ total_cyc <= last_read
  BY DEF Extension
<1>3. CycDelta <= clk - last_read
  BY <1>1, <1>2, ModAtMost
<1>4. ASSUME ~Skipped PROVE CycDelta = clk - last_read
  <2>1. clk - last_read \in 0..CycMod-1
    BY <1>1, <1>4 DEF Skipped
  <2>. QED BY <1>2, <2>1, ModSmall
<1>5. total_cyc + CycDelta <= clk
  BY <1>1, <1>2, <1>3
<1>6. ASSUME ClockInRange
      PROVE  /\ ExtendedCyc = total_cyc + CycDelta
             /\ CpuHz * timebase_get_us <= ExtendedCyc * UsPerSec
             /\ ExtendedCyc * UsPerSec < CpuHz * timebase_get_us + CpuHz
  <2>. DEFINE e == total_cyc + CycDelta
              p == e * UsPerSec
  <2>1. e \in Nat /\ e <= clk
    BY <1>1, <1>5
  <2>2. ExtendedCyc = e % U64Mod
    BY DEF ExtendedCyc
  <2>. HIDE DEF e
  <2>3. p \in Nat /\ e <= p
    BY <2>1
  <2>4. p < U64Mod
    <3>1. p <= clk * UsPerSec
      BY <1>1, <2>1, MulMono
    <3>2. clk * UsPerSec < U64Mod
      BY <1>6 DEF ClockInRange
    <3>3. clk * UsPerSec \in Nat
      BY <1>1
    <3>. HIDE DEF p
    <3>. QED BY <2>3, <3>1, <3>2, <3>3
  <2>5. ExtendedCyc = e
    <3>. HIDE DEF p
    <3>1. e \in 0..U64Mod-1
      BY <2>1, <2>3, <2>4
    <3>. QED BY <2>2, <3>1, ModSmall
  <2>6. timebase_get_us = p \div CpuHz
    <3>1. timebase_get_us = (p % U64Mod) \div CpuHz
      BY <2>5 DEF timebase_get_us, CycToUs
    <3>. HIDE DEF p
    <3>2. p % U64Mod = p
      BY <2>3, <2>4, ModSmall
    <3>. QED BY <3>1, <3>2
  <2>7. p = ExtendedCyc * UsPerSec
    BY <2>5
  <2>. HIDE DEF p
  <2>8. CpuHz * (p \div CpuHz) <= p /\ p < CpuHz * (p \div CpuHz) + CpuHz
    BY <2>3, DivMeans
  <2>9. ExtendedCyc = total_cyc + CycDelta
    BY <2>5 DEF e
  <2>. QED BY <2>6, <2>7, <2>8, <2>9
<1>. QED BY <1>3, <1>4, <1>5, <1>6

\* The tick as a clock is late by less than a tick, and never goes back.
LEMMA TickMeans ==
    ASSUME NEW c \in Nat
    PROVE  /\ TickUs(c) \in Nat
           /\ CpuHz * TickUs(c) <= c * UsPerSec
           /\ c * UsPerSec < CpuHz * TickUs(c) + CpuHz * (UsPerSec \div TicksPerSec)
           /\ \A b \in Nat : b <= c => TickUs(b) <= TickUs(c)
<1>. USE TimebaseConstants
<1>. DEFINE k == UsPerSec \div TicksPerSec
            Tick(n) == (n * TicksPerSec) \div CpuHz
<1>1. k \in Nat \ {0} /\ UsPerSec = k * TicksPerSec
  OBVIOUS
<1>2. TickUs(c) = k * Tick(c) /\ \A b \in Nat : TickUs(b) = k * Tick(b)
  BY DEF TickUs
<1>. HIDE DEF k
<1>3. \A n \in Nat : /\ Tick(n) \in Nat
                     /\ CpuHz * Tick(n) <= n * TicksPerSec
                     /\ n * TicksPerSec < CpuHz * Tick(n) + CpuHz
  <2>. SUFFICES ASSUME NEW n \in Nat
                PROVE  /\ Tick(n) \in Nat
                       /\ CpuHz * Tick(n) <= n * TicksPerSec
                       /\ n * TicksPerSec < CpuHz * Tick(n) + CpuHz
    OBVIOUS
  <2>1. n * TicksPerSec \in Nat
    OBVIOUS
  <2>. QED BY <2>1, DivMeans, DivRange
<1>. HIDE DEF Tick
<1>4. c * UsPerSec = (c * TicksPerSec) * k
  BY <1>1
<1>5. CpuHz * (k * Tick(c)) = (CpuHz * Tick(c)) * k
  BY <1>1, <1>3
<1>6. (CpuHz * Tick(c)) * k <= (c * TicksPerSec) * k
  BY <1>1, <1>3, MulMono
<1>7. (c * TicksPerSec) * k < (CpuHz * Tick(c)) * k + CpuHz * k
  <2>. DEFINE x == c * TicksPerSec
              y == CpuHz * Tick(c)
  <2>1. x \in Nat /\ y \in Nat /\ x + 1 <= y + CpuHz
    BY <1>3
  <2>. HIDE DEF x, y
  <2>2. (x + 1) * k <= (y + CpuHz) * k
    BY <1>1, <2>1, MulMono
  <2>3. x * k < y * k + CpuHz * k
    BY <1>1, <2>1, <2>2
  <2>. QED BY <2>3 DEF x, y
<1>8. ASSUME NEW b \in Nat, b <= c PROVE TickUs(b) <= TickUs(c)
  <2>1. b * TicksPerSec <= c * TicksPerSec
    BY <1>8, MulMono
  <2>. DEFINE x == Tick(b)
              y == Tick(c)
  <2>2. /\ x \in Nat /\ CpuHz * x <= b * TicksPerSec
        /\ y \in Nat /\ c * TicksPerSec < CpuHz * y + CpuHz
    BY <1>3, <1>8
  <2>3. TickUs(b) = k * x /\ TickUs(c) = k * y
    BY <1>2, <1>8
  <2>. HIDE DEF x, y
  <2>4. x * CpuHz < (y + 1) * CpuHz
    BY <1>8, <2>1, <2>2
  <2>5. x < y + 1
    BY <2>2, <2>4, MulLess
  <2>6. x * k <= y * k
    <3>1. x <= y  BY <2>2, <2>5
    <3>. QED BY <1>1, <2>2, <3>1, MulMono
  <2>. QED BY <1>1, <2>2, <2>3, <2>6
<1>9. TickUs(c) \in Nat
  BY <1>1, <1>2, <1>3
<1>. QED BY <1>1, <1>2, <1>4, <1>5, <1>6, <1>7, <1>8, <1>9 DEF k

\* Until a counter wraps, the fallback clock is that clock.
LEMMA TickRead ==
    ASSUME TypeInv, ~dwt_ok, ClockInRange
    PROVE  timebase_get_us = TickUs(clk)
<1>. USE TimebaseConstants
<1>. DEFINE k == UsPerSec \div TicksPerSec
            c == clk * TicksPerSec
            t == c \div CpuHz
<1>1. k \in Nat \ {0} /\ UsPerSec = k * TicksPerSec
  OBVIOUS
<1>2. clk \in Nat
  BY Numbers
<1>3. c \in Nat /\ c < TickMod * CpuHz
  BY <1>2 DEF ClockInRange
<1>4. c <= clk * CpuHz
  BY <1>2, MulMono
<1>5. /\ timebase_get_us = (((t % TickMod) * UsPerSec) % U64Mod) \div TicksPerSec
      /\ TickUs(clk) = k * t
  BY DEF timebase_get_us, TickToUs, rt_tick_get, TickUs
<1>. HIDE DEF k, c
<1>6. t \in Nat /\ CpuHz * t <= c
  BY <1>3, DivMeans, DivRange
<1>. HIDE DEF t
<1>7. t < TickMod
  <2>1. t * CpuHz < TickMod * CpuHz
    BY <1>3, <1>6
  <2>. QED BY <1>6, <2>1, MulLess
<1>8. t <= clk
  <2>1. t * CpuHz < (clk + 1) * CpuHz
    BY <1>2, <1>3, <1>4, <1>6
  <2>2. t < clk + 1
    BY <1>2, <1>6, <2>1, MulLess
  <2>. QED BY <1>2, <1>6, <2>2
<1>9. t % TickMod = t
  BY <1>6, <1>7, ModSmall
<1>10. t * UsPerSec \in 0..U64Mod-1
  <2>1. t * UsPerSec <= clk * UsPerSec
    BY <1>2, <1>6, <1>8, MulMono
  <2>2. clk * UsPerSec < U64Mod
    BY DEF ClockInRange
  <2>3. t * UsPerSec \in Nat /\ clk * UsPerSec \in Nat
    BY <1>2, <1>6
  <2>. QED BY <2>1, <2>2, <2>3
<1>11. (t * UsPerSec) % U64Mod = t * UsPerSec
  BY <1>10, ModSmall
<1>12. (t * UsPerSec) \div TicksPerSec = k * t
  <2>1. t * UsPerSec = TicksPerSec * (k * t)
    BY <1>1, <1>6
  <2>2. k * t \in Nat
    BY <1>1, <1>6
  <2>. DEFINE x == k * t
              q == (TicksPerSec * x) \div TicksPerSec
  <2>3. TicksPerSec * x \in Nat /\ x \in Nat
    BY <2>2
  <2>. HIDE DEF x
  <2>4. /\ q \in Nat
        /\ TicksPerSec * q <= TicksPerSec * x
        /\ TicksPerSec * x < TicksPerSec * q + TicksPerSec
    BY <2>3, DivMeans, DivRange
  <2>5. (TicksPerSec * x) \div TicksPerSec = q
    OBVIOUS
  <2>. HIDE DEF q
  <2>6. x < q + 1
    BY <2>3, <2>4, MulLess
  <2>7. q < x + 1
    BY <2>3, <2>4, MulLess
  <2>8. q = x
    BY <2>3, <2>4, <2>6, <2>7
  <2>. QED BY <2>1, <2>5, <2>8 DEF x
<1>. QED BY <1>5, <1>9, <1>11, <1>12

\* The resolution is a positive number of microseconds.
LEMMA QuantumNat == Quantum \in Nat \ {0}
  BY TimebaseConstants DEF Quantum

\* The microseconds of the running segment: never more than the time since its
\* base and a quantum, and less by at most that if nothing spoilt the count.
LEMMA SegmentRead ==
    ASSUME AccuracyInv, g_inited, HasBase, ClockInRange
    PROVE  /\ state_start_us <= timebase_get_us
           /\ CpuHz * (timebase_get_us - state_start_us)
                < (clk - seg_start) * UsPerSec + CpuHz * Quantum
           /\ faults = {} /\ ~Skipped =>
                (clk - seg_start) * UsPerSec
                  < CpuHz * (timebase_get_us - state_start_us) + CpuHz * Quantum
<1>. USE TimebaseConstants
<1>. DEFINE us == timebase_get_us
            base == state_start_us
<1>0. TypeInv /\ Extension /\ CycBase /\ TickBase
  BY DEF AccuracyInv
<1>1. /\ clk \in Nat /\ last_read \in Nat /\ seg_start \in Nat
      /\ last_read <= clk /\ seg_start <= clk
      /\ total_cyc \in Nat /\ base \in Nat /\ us \in Nat /\ CycDelta \in Nat
  BY <1>0, Numbers
<1>2. CASE dwt_ok
  <2>1. /\ CpuHz * base <= total_cyc * UsPerSec
        /\ total_cyc * UsPerSec < CpuHz * base + CpuHz + (last_read - seg_start) * UsPerSec
        /\ faults = {} =>
             CpuHz * base + (last_read - seg_start) * UsPerSec <= total_cyc * UsPerSec
    BY <1>0, <1>2 DEF CycBase
  <2>2. /\ CycDelta <= clk - last_read
        /\ ~Skipped => CycDelta = clk - last_read
        /\ CpuHz * us <= (total_cyc + CycDelta) * UsPerSec
        /\ (total_cyc + CycDelta) * UsPerSec < CpuHz * us + CpuHz
    BY <1>0, <1>2, CycRead
  <2>3. Quantum = 1
    BY <1>2 DEF Quantum
  <2>. HIDE DEF us, base
  <2>4. CycDelta * UsPerSec <= (clk - last_read) * UsPerSec
    BY <1>1, <2>2, MulMono
  <2>5. (total_cyc + CycDelta) * UsPerSec = total_cyc * UsPerSec + CycDelta * UsPerSec
    BY <1>1
  <2>6. (clk - seg_start) * UsPerSec
          = (clk - last_read) * UsPerSec + (last_read - seg_start) * UsPerSec
    BY <1>1
  <2>7. CpuHz * (us - base) = CpuHz * us - CpuHz * base
    BY <1>1
  <2>8. base <= us
    <3>1. base * CpuHz < (us + 1) * CpuHz
      <4>1. CycDelta * UsPerSec \in Nat /\ total_cyc * UsPerSec \in Nat
        BY <1>1
      <4>2. CpuHz * base < CpuHz * us + CpuHz
        BY <1>1, <2>1, <2>2, <2>5, <4>1
      <4>. QED BY <1>1, <4>2
    <3>2. base < us + 1
      BY <1>1, <3>1, MulLess
    <3>. QED BY <1>1, <3>2
  <2>9. CpuHz * (us - base) < (clk - seg_start) * UsPerSec + CpuHz * Quantum
    BY <1>1, <2>1, <2>2, <2>3, <2>4, <2>5, <2>6, <2>7
  <2>10. ASSUME faults = {}, ~Skipped
         PROVE  (clk - seg_start) * UsPerSec < CpuHz * (us - base) + CpuHz * Quantum
    BY <1>1, <2>1, <2>2, <2>3, <2>5, <2>6, <2>7, <2>10
  <2>. QED BY <2>8, <2>9, <2>10 DEF us, base
<1>3. CASE ~dwt_ok
  <2>1. us = TickUs(clk) /\ base = TickUs(seg_start)
    BY <1>0, <1>3, TickRead DEF TickBase
  <2>2. Quantum = UsPerSec \div TicksPerSec
    BY <1>3 DEF Quantum
  <2>3. /\ CpuHz * us <= clk * UsPerSec
        /\ clk * UsPerSec < CpuHz * us + CpuHz * Quantum
        /\ base <= us
    BY <1>1, <2>1, <2>2, TickMeans
  <2>4. /\ CpuHz * base <= seg_start * UsPerSec
        /\ seg_start * UsPerSec < CpuHz * base + CpuHz * Quantum
    BY <1>1, <2>1, <2>2, TickMeans
  <2>. HIDE DEF us, base
  <2>5. (clk - seg_start) * UsPerSec = clk * UsPerSec - seg_start * UsPerSec
    BY <1>1
  <2>6. CpuHz * (us - base) = CpuHz * us - CpuHz * base
    BY <1>1
  <2>. DEFINE q == CpuHz * Quantum
  <2>7. q \in Nat
    BY QuantumNat
  <2>8. /\ CpuHz * us <= clk * UsPerSec /\ clk * UsPerSec < CpuHz * us + q
        /\ CpuHz * base <= seg_start * UsPerSec /\ seg_start * UsPerSec < CpuHz * base + q
    BY <2>3, <2>4
  <2>. HIDE DEF q
  <2>9. /\ CpuHz * (us - base) < (clk - seg_start) * UsPerSec + q
        /\ (clk - seg_start) * UsPerSec < CpuHz * (us - base) + q
    BY <1>1, <2>5, <2>6, <2>7, <2>8
  <2>. QED BY <2>3, <2>9 DEF us, base, q
<1>. QED BY <1>2, <1>3

\* The same in milliseconds, for the value stopwatch.c computes.
LEMMA SegmentMeans ==
    ASSUME AccuracyInv, g_inited, HasBase, ClockInRange
    PROVE  /\ SegmentMs \in Nat
           /\ (clk - seg_start) * UsPerSec + Quantum * CpuHz < MsMod * UsPerMs * CpuHz
              => SegmentMs = (timebase_get_us - state_start_us) \div UsPerMs
           /\ SegmentMs * UsPerMs * CpuHz
                <= (clk - seg_start) * UsPerSec + Quantum * CpuHz
           /\ faults = {} /\ ~Skipped
                /\ (clk - seg_start) * UsPerSec + Quantum * CpuHz < MsMod * UsPerMs * CpuHz
              => (clk - seg_start) * UsPerSec
                   <= SegmentMs * UsPerMs * CpuHz + (UsPerMs + Quantum) * CpuHz
<1>. USE TimebaseConstants, StopwatchConstants
<1>. DEFINE sub == timebase_get_us - state_start_us
            ms == sub \div UsPerMs
            real == (clk - seg_start) * UsPerSec
            q == CpuHz * Quantum
<1>0. TypeInv
  BY DEF AccuracyInv
<1>1. sub \in 0..U64Mod-1
  BY <1>0, Numbers, SegmentRead
<1>2. SegmentMs = ms % MsMod
  BY <1>1, ModSmall DEF SegmentMs
<1>3. /\ CpuHz * sub < real + q
      /\ faults = {} /\ ~Skipped => real < CpuHz * sub + q
  BY SegmentRead
<1>4. real \in Nat /\ q \in Nat /\ Quantum \in Nat
  BY <1>0, Numbers, QuantumNat
<1>. HIDE DEF sub, real
<1>5. ms \in Nat /\ UsPerMs * ms <= sub /\ sub < UsPerMs * ms + UsPerMs
  BY <1>1, DivMeans, DivRange
<1>. HIDE DEF ms
<1>6. SegmentMs \in Nat /\ SegmentMs <= ms
  <2>1. ms % MsMod <= ms
    BY <1>5, ModAtMost
  <2>2. ms % MsMod \in 0..MsMod-1
    BY <1>5, ModRange
  <2>. QED BY <1>2, <2>1, <2>2
<1>7. q = Quantum * CpuHz
  BY <1>4
<1>. HIDE DEF q
<1>8. ms * UsPerMs * CpuHz <= CpuHz * sub
  <2>. DEFINE x == UsPerMs * ms
  <2>1. x \in Nat /\ x <= sub /\ ms * UsPerMs = x
    BY <1>5
  <2>. HIDE DEF x
  <2>2. x * CpuHz <= sub * CpuHz
    BY <1>1, <2>1, MulMono
  <2>. QED BY <1>1, <2>1, <2>2
<1>9. CpuHz * sub <= ms * UsPerMs * CpuHz + UsPerMs * CpuHz
  <2>. DEFINE x == UsPerMs * ms
  <2>1. x \in Nat /\ sub <= x + UsPerMs /\ ms * UsPerMs = x
    BY <1>1, <1>5
  <2>. HIDE DEF x
  <2>2. sub * CpuHz <= (x + UsPerMs) * CpuHz
    BY <1>1, <2>1, MulMono
  <2>. QED BY <1>1, <2>1, <2>2
<1>10. SegmentMs * UsPerMs * CpuHz <= ms * UsPerMs * CpuHz
  <2>1. SegmentMs * UsPerMs <= ms * UsPerMs
    BY <1>5, <1>6, MulMono
  <2>2. SegmentMs * UsPerMs \in Int /\ ms * UsPerMs \in Int
    BY <1>5, <1>6
  <2>. QED BY <2>1, <2>2, MulMono
<1>11. SegmentMs * UsPerMs * CpuHz <= real + q
  <2>1. /\ CpuHz * sub \in Int /\ ms * UsPerMs * CpuHz \in Int
        /\ SegmentMs * UsPerMs * CpuHz \in Int
    BY <1>1, <1>5, <1>6
  <2>. QED BY <1>3, <1>4, <1>8, <1>10, <2>1
<1>a. ASSUME real + q < MsMod * UsPerMs * CpuHz PROVE SegmentMs = ms
  <2>1. ms < MsMod
    <3>1. (ms * UsPerMs) * CpuHz < (MsMod * UsPerMs) * CpuHz
      <4>1. CpuHz * sub \in Int /\ ms * UsPerMs * CpuHz \in Int /\ MsMod * UsPerMs * CpuHz \in Int
        BY <1>1, <1>5
      <4>. QED BY <1>3, <1>4, <1>8, <1>a, <4>1
    <3>2. ms * UsPerMs \in Int /\ MsMod * UsPerMs \in Int
      BY <1>5
    <3>3. ms * UsPerMs < MsMod * UsPerMs
      BY <3>1, <3>2, MulLess
    <3>. QED BY <1>5, <3>3, MulLess
  <2>. QED BY <1>2, <1>5, <2>1, ModSmall
<1>12. ASSUME faults = {}, ~Skipped, real + q < MsMod * UsPerMs * CpuHz
       PROVE  real <= SegmentMs * UsPerMs * CpuHz + UsPerMs * CpuHz + q
  <2>1. CpuHz * sub \in Int /\ ms * UsPerMs * CpuHz \in Int /\ UsPerMs * CpuHz \in Int
    BY <1>1, <1>5
  <2>. QED BY <1>3, <1>4, <1>9, <1>12, <1>a, <2>1
<1>13. (UsPerMs + Quantum) * CpuHz = UsPerMs * CpuHz + q
  BY <1>4, <1>7
<1>14. ASSUME faults = {}, ~Skipped, real + q < MsMod * UsPerMs * CpuHz
       PROVE  real <= SegmentMs * UsPerMs * CpuHz + (UsPerMs + Quantum) * CpuHz
  <2>1. SegmentMs * UsPerMs * CpuHz \in Int /\ UsPerMs * CpuHz \in Int
    BY <1>6
  <2>. QED BY <1>4, <1>12, <1>13, <1>14, <2>1
<1>15. ASSUME real + q < MsMod * UsPerMs * CpuHz
       PROVE  SegmentMs = (timebase_get_us - state_start_us) \div UsPerMs
  BY <1>a, <1>15 DEF ms, sub
<1>. QED BY <1>6, <1>7, <1>11, <1>14, <1>15 DEF real

\* The total shown, from the finished segments and the running one.
LEMMA TotalMeans ==
    ASSUME AccuracyInv, g_inited, ClockInRange
    PROVE  /\ NotAhead
           /\ HasBase
                /\ TrueCycles * UsPerSec + Segments * Quantum * CpuHz < MsMod * UsPerMs * CpuHz
              => NowTotalMs = accumulated_ms
                                + ((timebase_get_us - state_start_us) \div UsPerMs)
           /\ faults = {} /\ ~(HasBase /\ Skipped)
                /\ TrueCycles * UsPerSec + Segments * Quantum * CpuHz < MsMod * UsPerMs * CpuHz
              => TrueCycles * UsPerSec
                   <= NowTotalMs * UsPerMs * CpuHz + Segments * (UsPerMs + Quantum) * CpuHz
<1>. USE TimebaseConstants, StopwatchConstants
<1>. DEFINE acc == accumulated_ms
            p == UsPerMs * CpuHz
            q == Quantum * CpuHz
            done == ran * UsPerSec
            real == (clk - seg_start) * UsPerSec
            cap == MsMod * UsPerMs * CpuHz
<1>0. TypeInv /\ Finished /\ BaseNoted
  BY DEF AccuracyInv
<1>1. /\ clk \in Nat /\ seg_start \in Nat /\ seg_start <= clk /\ ran \in Nat /\ segs \in Nat
      /\ acc \in 0..MsMod-1
  BY <1>0, Numbers
<1>2. p \in Nat /\ q \in Nat /\ done \in Nat /\ real \in Nat /\ cap \in Nat /\ Quantum \in Nat
  BY <1>1, QuantumNat
<1>3. /\ acc * p <= done + segs * q
      /\ faults = {} /\ done + segs * q < cap => done <= acc * p + segs * (p + q)
  <2>1. /\ acc * UsPerMs * CpuHz = acc * p
        /\ segs * Quantum * CpuHz = segs * q
        /\ segs * (UsPerMs + Quantum) * CpuHz = segs * (p + q)
    BY <1>1, <1>2
  <2>. QED BY <1>0, <2>1 DEF Finished
<1>4. /\ Segments \in Nat
      /\ Segments * Quantum * CpuHz = Segments * q
      /\ Segments * (UsPerMs + Quantum) * CpuHz = Segments * (p + q)
  <2>1. Segments \in Nat
    BY <1>1 DEF Segments
  <2>. QED BY <1>2, <2>1
<1>5. /\ Running => Segments = segs + 1 /\ TrueCycles * UsPerSec = done + real
      /\ ~Running => Segments = segs /\ TrueCycles * UsPerSec = done
  BY <1>1 DEF Segments, TrueCycles
<1>6. NowTotalMs \in Nat /\ NowTotalMs * UsPerMs * CpuHz = NowTotalMs * p
  <2>1. NowTotalMs \in Nat
    BY <1>0, ValueTypes DEF TypeInv, Millis
  <2>. QED BY <2>1
<1>7. cap = MsMod * p
  OBVIOUS
<1>8. p > 0
  OBVIOUS
<1>9. ASSUME HasBase
      PROVE  /\ SegmentMs \in Nat
             /\ real + q < cap => SegmentMs = (timebase_get_us - state_start_us) \div UsPerMs
             /\ SegmentMs * p <= real + q
             /\ faults = {} /\ ~Skipped /\ real + q < cap => real <= SegmentMs * p + p + q
  <2>1. /\ SegmentMs \in Nat
        /\ real + q < cap => SegmentMs = (timebase_get_us - state_start_us) \div UsPerMs
        /\ SegmentMs * UsPerMs * CpuHz <= real + q
        /\ faults = {} /\ ~Skipped /\ real + q < cap
           => real <= SegmentMs * UsPerMs * CpuHz + (UsPerMs + Quantum) * CpuHz
    BY <1>9, SegmentMeans
  <2>2. SegmentMs * UsPerMs * CpuHz = SegmentMs * p /\ (UsPerMs + Quantum) * CpuHz = p + q
    BY <1>2, <2>1
  <2>3. SegmentMs * p \in Int
    BY <2>1
  <2>. HIDE DEF p, q, real, cap
  <2>. QED BY <1>2, <2>1, <2>2, <2>3
<1>. HIDE DEF p, q, done, real, cap
<1>10. segs * q \in Nat /\ segs * (p + q) = segs * p + segs * q /\ acc * p \in Nat /\ segs * p \in Nat
  BY <1>1, <1>2
<1>11. /\ (segs + 1) * q = segs * q + q
       /\ (segs + 1) * (p + q) = segs * p + segs * q + p + q
  BY <1>1, <1>2
<1>12. ASSUME HasBase
       PROVE  /\ NowTotalMs * p <= done + real + (segs + 1) * q
              /\ done + real + (segs + 1) * q < cap => NowTotalMs = acc + SegmentMs
              /\ faults = {} /\ ~Skipped /\ done + real + (segs + 1) * q < cap
                 => done + real <= NowTotalMs * p + (segs + 1) * (p + q)
  <2>. DEFINE sum == acc + SegmentMs
  <2>1. sum \in Nat /\ NowTotalMs = sum % MsMod /\ sum * p = acc * p + SegmentMs * p
    BY <1>1, <1>2, <1>9, <1>12 DEF NowTotalMs
  <2>2. SegmentMs * p \in Nat
    BY <1>2, <1>9, <1>12
  <2>. HIDE DEF sum
  <2>3. sum * p <= done + real + (segs + 1) * q
    BY <1>2, <1>3, <1>9, <1>10, <1>11, <1>12, <2>1, <2>2
  <2>4. NowTotalMs * p <= sum * p
    BY <1>2, <1>6, <2>1, ModAtMost, MulMono
  <2>5. sum * p \in Int /\ NowTotalMs * p \in Int
    BY <1>2, <1>6, <2>1
  <2>6. NowTotalMs * p <= done + real + (segs + 1) * q
    BY <1>2, <1>10, <1>11, <2>3, <2>4, <2>5
  <2>7. ASSUME done + real + (segs + 1) * q < cap PROVE NowTotalMs = sum
    <3>1. sum * p < MsMod * p
      BY <1>2, <1>7, <1>10, <1>11, <2>3, <2>5, <2>7
    <3>2. sum < MsMod
      BY <1>2, <2>1, <3>1, MulLess
    <3>. QED BY <2>1, <3>2, ModSmall
  <2>8. ASSUME faults = {}, ~Skipped, done + real + (segs + 1) * q < cap
        PROVE  done + real <= NowTotalMs * p + (segs + 1) * (p + q)
    <3>3. real <= SegmentMs * p + p + q
      BY <1>2, <1>9, <1>10, <1>11, <1>12, <2>8
    <3>4. done <= acc * p + segs * p + segs * q
      BY <1>2, <1>3, <1>10, <1>11, <2>8
    <3>5. NowTotalMs = sum
      BY <2>7, <2>8
    <3>. QED BY <1>2, <1>10, <1>11, <2>1, <2>2, <3>3, <3>4, <3>5
  <2>. QED BY <2>6, <2>7, <2>8 DEF sum
<1>13. ASSUME ~HasBase PROVE NowTotalMs = acc
  BY <1>13 DEF NowTotalMs
<1>14. NotAhead
  <2>1. NowTotalMs * p <= TrueCycles * UsPerSec + Segments * q
    <3>1. CASE HasBase
      <4>1. Running
        BY <3>1 DEF HasBase, Running
      <4>2. Segments = segs + 1 /\ TrueCycles * UsPerSec = done + real
        BY <1>5, <4>1
      <4>. QED BY <1>12, <3>1, <4>2
    <3>2. CASE ~HasBase /\ Running
      <4>1. Segments * q = segs * q + q
        BY <1>5, <1>11, <3>2
      <4>2. TrueCycles * UsPerSec = done + real
        BY <1>5, <3>2
      <4>3. NowTotalMs * p = acc * p
        BY <1>13, <3>2
      <4>. QED BY <1>2, <1>3, <1>10, <4>1, <4>2, <4>3
    <3>3. CASE ~HasBase /\ ~Running
      BY <1>3, <1>5, <1>13, <3>3
    <3>. QED BY <3>1, <3>2, <3>3
  <2>. QED BY <1>4, <1>6, <2>1 DEF NotAhead
<1>15. ASSUME faults = {}, ~(HasBase /\ Skipped), TrueCycles * UsPerSec + Segments * q < cap
       PROVE  TrueCycles * UsPerSec <= NowTotalMs * p + Segments * (p + q)
  <2>1. CASE Running
    <3>1. HasBase /\ ~Skipped
      BY <1>0, <1>15, <2>1 DEF BaseNoted
    <3>2. Segments = segs + 1 /\ TrueCycles * UsPerSec = done + real
      BY <1>5, <2>1
    <3>. QED BY <1>12, <1>15, <3>1, <3>2
  <2>2. CASE ~Running
    <3>1. ~HasBase
      BY <2>2 DEF HasBase, Running
    <3>. QED BY <1>3, <1>5, <1>13, <1>15, <2>2, <3>1
  <2>. QED BY <2>1, <2>2
<1>16. ASSUME HasBase, TrueCycles * UsPerSec + Segments * q < cap
       PROVE  NowTotalMs = acc + ((timebase_get_us - state_start_us) \div UsPerMs)
  <2>1. Segments = segs + 1 /\ TrueCycles * UsPerSec = done + real
    BY <1>5, <1>16 DEF HasBase, Running
  <2>2. NowTotalMs = acc + SegmentMs
    BY <1>12, <1>16, <2>1
  <2>3. real + q < cap
    BY <1>2, <1>10, <1>11, <1>16, <2>1
  <2>. QED BY <1>9, <1>16, <2>2, <2>3
<1>. QED BY <1>4, <1>6, <1>14, <1>15, <1>16 DEF q, cap

-----------------------------------------------------------------------------
(* Accuracy: the steps.                                                    *)

\* A read of the timebase that is recorded keeps the extension exact.
LEMMA ExtensionRead ==
    ASSUME AccuracyInv, g_inited, ReadTimebase, clk' = clk, last_read' = clk
    PROVE  Extension'
<1>. USE TimebaseConstants
<1>. SUFFICES ASSUME dwt_ok'
              PROVE  CycDelta' = (clk' - last_read') % CycMod /\ total_cyc' <= last_read'
  BY DEF Extension
<1>0. TypeInv /\ Extension
  BY DEF AccuracyInv
<1>1. dwt_ok /\ last_cyc' = cyccnt' /\ total_cyc' = ExtendedCyc
  BY DEF ReadTimebase
<1>2. clk \in Nat /\ cyccnt \in Int /\ total_cyc \in Nat /\ CycDelta \in Nat
  BY <1>0, Numbers
<1>3. CycDelta' = (clk' - last_read') % CycMod
  <2>1. cyccnt' \in Int /\ cyccnt' - last_cyc' = 0 /\ clk' - last_read' = 0
    BY <1>1, <1>2 DEF ReadTimebase
  <2>. QED BY <2>1 DEF CycDelta
<1>4. ExtendedCyc <= total_cyc + CycDelta
  BY <1>2, ModAtMost DEF ExtendedCyc
<1>5. total_cyc + CycDelta <= clk
  BY <1>0, <1>1, CycRead
<1>6. ExtendedCyc \in Nat
  BY <1>0, ValueTypes DEF TypeInv
<1>. QED BY <1>1, <1>2, <1>3, <1>4, <1>5, <1>6

\* It keeps the relation of the running segment to its base ...
LEMMA BaseRead ==
    ASSUME AccuracyInv, g_inited, HasBase, ReadTimebase, clk' = clk, last_read' = clk,
           faults' = FaultsWhenRead, UNCHANGED <<state_start_us, seg_start>>
    PROVE  CycBase' /\ TickBase'
<1>. USE TimebaseConstants
<1>0. TypeInv /\ Extension /\ CycBase /\ TickBase /\ dwt_ok' = dwt_ok
  BY DEF AccuracyInv, ReadTimebase
<1>1. /\ clk \in Nat /\ last_read \in Nat /\ seg_start \in Nat
      /\ last_read <= clk /\ seg_start <= clk
      /\ total_cyc \in Nat /\ state_start_us \in Nat /\ CycDelta \in Nat
  BY <1>0, Numbers
<1>2. ClockInRange' => ClockInRange
  BY <1>0 DEF ClockInRange
<1>3. TickBase'
  BY <1>0, <1>2 DEF TickBase, TickUs
<1>4. CycBase'
  <2>. SUFFICES ASSUME dwt_ok, ClockInRange
                PROVE  /\ seg_start <= clk
                       /\ CpuHz * state_start_us <= total_cyc' * UsPerSec
                       /\ total_cyc' * UsPerSec <
                            CpuHz * state_start_us + CpuHz + (clk - seg_start) * UsPerSec
                       /\ faults' = {} =>
                            CpuHz * state_start_us + (clk - seg_start) * UsPerSec
                              <= total_cyc' * UsPerSec
    BY <1>0, <1>2 DEF CycBase
  <2>1. /\ CpuHz * state_start_us <= total_cyc * UsPerSec
        /\ total_cyc * UsPerSec <
             CpuHz * state_start_us + CpuHz + (last_read - seg_start) * UsPerSec
        /\ faults = {} =>
             CpuHz * state_start_us + (last_read - seg_start) * UsPerSec
               <= total_cyc * UsPerSec
    BY <1>0 DEF CycBase
  <2>2. /\ total_cyc' = total_cyc + CycDelta
        /\ CycDelta <= clk - last_read
        /\ ~Skipped => CycDelta = clk - last_read
    BY <1>0, CycRead DEF ReadTimebase
  <2>3. faults' = {} => faults = {} /\ ~Skipped
    BY DEF FaultsWhenRead
  <2>4. CycDelta * UsPerSec <= (clk - last_read) * UsPerSec
    BY <1>1, <2>2, MulMono
  <2>5. total_cyc' * UsPerSec = total_cyc * UsPerSec + CycDelta * UsPerSec
    BY <1>1, <2>2
  <2>6. (clk - seg_start) * UsPerSec
          = (clk - last_read) * UsPerSec + (last_read - seg_start) * UsPerSec
    BY <1>1
  <2>. DEFINE b == CpuHz * state_start_us
              t == total_cyc * UsPerSec
              d == CycDelta * UsPerSec
              e == (clk - last_read) * UsPerSec
              f == (last_read - seg_start) * UsPerSec
  <2>7. b \in Int /\ t \in Int /\ d \in Nat /\ e \in Int /\ f \in Int
    BY <1>1
  <2>8. /\ b <= t /\ t < b + CpuHz + f /\ d <= e
        /\ faults' = {} => b + f <= t /\ d = e
    BY <2>1, <2>2, <2>3, <2>4
  <2>. HIDE DEF b, t, d, e, f
  <2>9. /\ b <= t + d
        /\ t + d < b + CpuHz + (e + f)
        /\ faults' = {} => b + (e + f) <= t + d
    BY <2>7, <2>8
  <2>. QED BY <1>1, <2>5, <2>6, <2>9 DEF b, t, d, e, f
<1>. QED BY <1>3, <1>4

\* ... and sets it up when the segment starts now.
LEMMA BaseFresh ==
    ASSUME AccuracyInv, g_inited, ReadTimebase, clk' = clk, last_read' = clk,
           seg_start' = clk, state_start_us' = timebase_get_us
    PROVE  CycBase' /\ TickBase'
<1>. USE TimebaseConstants
<1>0. TypeInv /\ Extension /\ dwt_ok' = dwt_ok
  BY DEF AccuracyInv, ReadTimebase
<1>1. clk \in Nat /\ timebase_get_us \in Nat
  BY <1>0, Numbers
<1>2. ClockInRange' => ClockInRange
  BY <1>0 DEF ClockInRange
<1>3. TickBase'
  <2>. SUFFICES ASSUME ~dwt_ok, ClockInRange PROVE timebase_get_us = TickUs(clk)
    BY <1>0, <1>2 DEF TickBase, TickUs
  <2>. QED BY <1>0, TickRead
<1>4. CycBase'
  <2>1. total_cyc' = IF dwt_ok THEN ExtendedCyc ELSE total_cyc
    BY DEF ReadTimebase
  <2>2. (last_read' - seg_start') * UsPerSec = 0
    BY <1>1
  <2>3. ASSUME dwt_ok, ClockInRange
        PROVE  /\ CpuHz * timebase_get_us <= ExtendedCyc * UsPerSec
               /\ ExtendedCyc * UsPerSec < CpuHz * timebase_get_us + CpuHz
    BY <1>0, <2>3, CycRead
  <2>4. ExtendedCyc \in Nat
    BY <1>0, ValueTypes DEF TypeInv
  <2>5. CpuHz * timebase_get_us \in Int /\ ExtendedCyc * UsPerSec \in Int
    BY <1>1, <2>4
  <2>. QED BY <1>0, <1>1, <1>2, <2>1, <2>2, <2>3, <2>5 DEF CycBase
<1>. QED BY <1>3, <1>4

\* Power-up satisfies the invariant: nothing has been counted.
LEMMA AccuracyInit == Init => AccuracyInv
<1>. SUFFICES ASSUME Init PROVE AccuracyInv
  OBVIOUS
<1>1. ~g_inited /\ state = "IDLE" /\ ran = 0 /\ segs = 0 /\ faults = {}
  BY DEF Init, StopwatchBoot
<1>. QED BY <1>1, TypeInvInit DEF AccuracyInv, Fresh, Extension, CycBase, TickBase, BaseNoted,
        Finished, Running

\* Without a finished segment there is nothing to compare.
LEMMA NothingFinished ==
    ASSUME NEW q \in Nat
    PROVE  /\ 0 * UsPerMs * CpuHz <= 0 * UsPerSec + 0 * q * CpuHz
           /\ 0 * UsPerSec <= 0 * UsPerMs * CpuHz + 0 * (UsPerMs + q) * CpuHz
  BY TimebaseConstants, StopwatchConstants

\* stopwatch_init: whether or not it succeeds, nothing has been counted.
LEMMA AccuracyBoot ==
    ASSUME AccuracyInv, Boot, TypeInv'
    PROVE  AccuracyInv'
<1>. USE TimebaseConstants, StopwatchConstants
<1>1. /\ state' = "IDLE" /\ state_start_us' = 0 /\ accumulated_ms' = 0 /\ clk' = clk
      /\ last_read' = clk /\ ran' = 0 /\ segs' = 0 /\ faults' = {}
  BY DEF Boot, stopwatch_init, AccuracyInv, Fresh
<1>2. clk \in Nat
  BY Numbers DEF AccuracyInv
<1>3. Extension'
  <2>. SUFFICES ASSUME g_inited', dwt_ok'
                PROVE  CycDelta' = (clk' - last_read') % CycMod /\ total_cyc' <= last_read'
    BY DEF Extension
  <2>1. timebase_init
    BY DEF Boot, stopwatch_init
  <2>2. cyccnt' = 0 /\ last_cyc' = 0 /\ total_cyc' = 0
    BY <2>1 DEF timebase_init
  <2>. QED BY <1>1, <1>2, <2>2 DEF CycDelta
<1>4. Fresh' /\ CycBase' /\ TickBase' /\ BaseNoted'
  BY <1>1 DEF Fresh, CycBase, TickBase, BaseNoted, HasBase, Running
<1>5. Finished'
  <2>1. Quantum' \in Nat
    BY DEF Quantum
  <2>. QED BY <1>1, <2>1, NothingFinished DEF Finished
<1>. QED BY <1>3, <1>4, <1>5 DEF AccuracyInv

\* What the finished segments have accumulated does not depend on anything an
\* operation other than stop and reset changes.
LEMMA FinishedKept ==
    ASSUME AccuracyInv, g_inited, UNCHANGED <<clk, dwt_ok, accumulated_ms, ran, segs>>,
           faults \subseteq faults'
    PROVE  Finished'
<1>1. Finished /\ Quantum' = Quantum /\ (ClockInRange' => ClockInRange)
  BY DEF AccuracyInv, Quantum, ClockInRange
<1>2. faults' = {} => faults = {}
  OBVIOUS
<1>. QED BY <1>1, <1>2 DEF Finished

\* stopwatch_start.
LEMMA AccuracyStart ==
    ASSUME AccuracyInv, Start, TypeInv'
    PROVE  AccuracyInv'
<1>1. /\ g_inited /\ g_inited' /\ ReadTimebase /\ clk' = clk /\ last_read' = clk
      /\ seg_start' = clk /\ state_start_us' = timebase_get_us /\ state' = "RUNNING"
      /\ UNCHANGED <<accumulated_ms, ran, segs>> /\ faults' = faults \cup FaultsOfBase
  BY DEF Start, stopwatch_start, RecordBase
<1>2. dwt_ok' = dwt_ok
  BY <1>1 DEF ReadTimebase
<1>3. Extension'
  BY <1>1, ExtensionRead
<1>4. CycBase' /\ TickBase'
  BY <1>1, BaseFresh
<1>5. BaseNoted'
  BY <1>1 DEF BaseNoted, FaultsOfBase, HasBase, Running
<1>6. Finished'
  BY <1>1, <1>2, FinishedKept
<1>. QED BY <1>1, <1>3, <1>4, <1>5, <1>6 DEF AccuracyInv, Fresh

\* An operation that reads the total and leaves the watch as it is.
LEMMA AccuracyRead ==
    ASSUME AccuracyInv, TypeInv', g_inited, ReadTotal, RecordTotal,
           UNCHANGED <<clk, g_inited, state, state_start_us, accumulated_ms, seg_start, ran, segs>>
    PROVE  AccuracyInv'
<1>0. faults \subseteq faults' /\ dwt_ok' = dwt_ok
  BY DEF RecordTotal, FaultsWhenRead, ReadTotal, ReadTimebase
<1>1. Finished'
  BY <1>0, FinishedKept
<1>2. Fresh'
  BY DEF Fresh
<1>3. BaseNoted'
  BY <1>0 DEF BaseNoted, HasBase, Running, AccuracyInv
<1>4. CASE HasBase
  <2>1. ReadTimebase /\ last_read' = clk /\ faults' = FaultsWhenRead
    BY <1>4 DEF ReadTotal, RecordTotal
  <2>2. Extension'
    BY <2>1, ExtensionRead
  <2>3. CycBase' /\ TickBase'
    BY <1>4, <2>1, BaseRead
  <2>. QED BY <1>1, <1>2, <1>3, <2>2, <2>3 DEF AccuracyInv
<1>5. CASE ~HasBase
  <2>1. UNCHANGED <<cyccnt, dwt_ok, last_cyc, total_cyc, last_read>>
    BY <1>5 DEF ReadTotal, RecordTotal
  <2>2. Extension'
    BY <2>1 DEF AccuracyInv, Extension, CycDelta
  <2>3. CycBase' /\ TickBase'
    BY <1>5 DEF CycBase, TickBase, HasBase
  <2>. QED BY <1>1, <1>2, <1>3, <2>2, <2>3 DEF AccuracyInv
<1>. QED BY <1>4, <1>5

\* stopwatch_stop: the running segment becomes a finished one.
LEMMA AccuracyStop ==
    ASSUME AccuracyInv, Stop, TypeInv'
    PROVE  AccuracyInv'
<1>1. /\ g_inited /\ g_inited' /\ ReadTotal /\ clk' = clk /\ state = "RUNNING" /\ state' = "PAUSED"
      /\ accumulated_ms' = NowTotalMs /\ ran' = TrueCycles /\ segs' = Segments
      /\ last_read' = IF HasBase THEN clk ELSE last_read
      /\ faults' = FaultsWhenRead
  BY DEF Stop, stopwatch_stop, RecordTotal, TrueCycles, Segments, Running
<1>2. dwt_ok' = dwt_ok
  BY <1>1 DEF ReadTotal, ReadTimebase
<1>3. Extension'
  <2>1. CASE HasBase
    BY <1>1, <2>1, ExtensionRead DEF ReadTotal
  <2>2. CASE ~HasBase
    BY <1>1, <2>2 DEF ReadTotal, AccuracyInv, Extension, CycDelta
  <2>. QED BY <2>1, <2>2
<1>4. Fresh' /\ CycBase' /\ TickBase' /\ BaseNoted'
  BY <1>1 DEF Fresh, CycBase, TickBase, BaseNoted, HasBase, Running
<1>5. Finished'
  <2>1. Quantum' = Quantum /\ (ClockInRange' => ClockInRange)
    BY <1>1, <1>2 DEF Quantum, ClockInRange
  <2>2. faults' = {} => faults = {} /\ ~(HasBase /\ Skipped)
    BY <1>1 DEF FaultsWhenRead
  <2>3. ASSUME ClockInRange
        PROVE  /\ NowTotalMs * UsPerMs * CpuHz
                    <= TrueCycles * UsPerSec + Segments * Quantum * CpuHz
               /\ faults' = {}
                    /\ TrueCycles * UsPerSec + Segments * Quantum * CpuHz < MsMod * UsPerMs * CpuHz
                  => TrueCycles * UsPerSec
                       <= NowTotalMs * UsPerMs * CpuHz + Segments * (UsPerMs + Quantum) * CpuHz
    BY <1>1, <2>2, <2>3, TotalMeans DEF NotAhead
  <2>. QED BY <1>1, <2>1, <2>3 DEF Finished
<1>. QED BY <1>3, <1>4, <1>5 DEF AccuracyInv

\* stopwatch_reset: everything counted so far is forgotten, damage included.
LEMMA AccuracyReset ==
    ASSUME AccuracyInv, Reset, TypeInv'
    PROVE  AccuracyInv'
<1>. USE TimebaseConstants, StopwatchConstants
<1>1. g_inited /\ g_inited' /\ clk' = clk /\ accumulated_ms' = 0 /\ ran' = 0 /\ segs' = 0
  BY DEF Reset, stopwatch_reset
<1>2. Finished'
  <2>1. Quantum' \in Nat
    BY DEF Quantum
  <2>. QED BY <1>1, <2>1, NothingFinished DEF Finished
<1>3. Fresh'
  BY <1>1 DEF Fresh
<1>4. CASE state = "RUNNING"
  <2>1. /\ ReadTimebase /\ last_read' = clk /\ seg_start' = clk
        /\ state_start_us' = timebase_get_us /\ state' = "RUNNING" /\ faults' = FaultsOfBase
    BY <1>4 DEF Reset, stopwatch_reset, RecordBase
  <2>2. Extension' /\ CycBase' /\ TickBase'
    BY <1>1, <2>1, ExtensionRead, BaseFresh
  <2>3. BaseNoted'
    BY <2>1 DEF BaseNoted, FaultsOfBase, HasBase, Running
  <2>. QED BY <1>2, <1>3, <2>2, <2>3 DEF AccuracyInv
<1>5. CASE state # "RUNNING"
  <2>1. UNCHANGED <<cyccnt, dwt_ok, last_cyc, total_cyc, last_read>> /\ state' = "IDLE"
    BY <1>5 DEF Reset, stopwatch_reset
  <2>2. Extension'
    BY <1>1, <2>1 DEF AccuracyInv, Extension, CycDelta
  <2>3. CycBase' /\ TickBase' /\ BaseNoted'
    BY <2>1 DEF CycBase, TickBase, BaseNoted, HasBase, Running
  <2>. QED BY <1>2, <1>3, <2>2, <2>3 DEF AccuracyInv
<1>. QED BY <1>4, <1>5

\* Time goes by: the counter follows, and the ranges only get narrower.
LEMMA AccuracyWait ==
    ASSUME AccuracyInv, Wait, TypeInv'
    PROVE  AccuracyInv'
<1>. USE TimebaseConstants, StopwatchConstants
<1>. PICK d \in Steps : ElapseCycles(d) /\ UNCHANGED swvars
  BY DEF Wait, Elapse
<1>1. d \in Nat
  OBVIOUS
<1>2. /\ clk' = clk + d /\ cyccnt' = (cyccnt + d) % CycMod
      /\ UNCHANGED <<dwt_ok, last_cyc, total_cyc>>
      /\ UNCHANGED <<g_inited, state, state_start_us, accumulated_ms>>
      /\ UNCHANGED <<last_read, seg_start, ran, segs, faults>>
  BY DEF ElapseCycles, swvars, Wait, hist
<1>3. /\ clk \in Nat /\ cyccnt \in Int /\ last_cyc \in Int /\ last_read \in Nat
  BY Numbers DEF AccuracyInv
<1>4. ClockInRange' => ClockInRange
  <2>1. clk * UsPerSec <= (clk + d) * UsPerSec /\ clk * TicksPerSec <= (clk + d) * TicksPerSec
    BY <1>1, <1>3, MulMono
  <2>2. /\ clk * UsPerSec \in Int /\ (clk + d) * UsPerSec \in Int
        /\ clk * TicksPerSec \in Int /\ (clk + d) * TicksPerSec \in Int
        /\ TickMod * CpuHz \in Int
    BY <1>1, <1>3
  <2>. QED BY <1>2, <2>1, <2>2 DEF ClockInRange
<1>5. Extension'
  <2>. SUFFICES ASSUME g_inited, dwt_ok
                PROVE  CycDelta' = (clk' - last_read') % CycMod /\ total_cyc' <= last_read'
    BY <1>2 DEF Extension
  <2>1. CycDelta = (clk - last_read) % CycMod /\ total_cyc <= last_read
    BY DEF AccuracyInv, Extension
  <2>2. CycDelta' = (((cyccnt + d) % CycMod) - last_cyc) % CycMod
    BY <1>2 DEF CycDelta
  <2>3. (cyccnt - last_cyc) % CycMod = (clk - last_read) % CycMod
    BY <2>1 DEF CycDelta
  <2>4. CycDelta' = (clk + d - last_read) % CycMod
    BY <1>1, <1>3, <2>2, <2>3, DistanceFollows
  <2>5. clk' - last_read' = clk + d - last_read
    BY <1>1, <1>2, <1>3
  <2>6. total_cyc' <= last_read'
    BY <1>2, <2>1
  <2>. QED BY <2>4, <2>5, <2>6
<1>6. CycBase' /\ TickBase'
  BY <1>2, <1>4 DEF AccuracyInv, CycBase, TickBase, HasBase, TickUs
<1>7. BaseNoted' /\ Fresh'
  BY <1>2 DEF AccuracyInv, BaseNoted, HasBase, Running, Fresh
<1>8. Finished'
  BY <1>2, <1>4 DEF AccuracyInv, Finished, Quantum
<1>. QED BY <1>5, <1>6, <1>7, <1>8 DEF AccuracyInv

LEMMA AccuracyNext == AccuracyInv /\ [Next]_vars => AccuracyInv'
<1>. SUFFICES ASSUME AccuracyInv, [Next]_vars PROVE AccuracyInv'
  OBVIOUS
<1>0. TypeInv'
  BY TypeInvNext DEF AccuracyInv
<1>1. CASE Boot
  BY <1>0, <1>1, AccuracyBoot
<1>2. CASE Start
  BY <1>0, <1>2, AccuracyStart
<1>3. CASE Stop
  BY <1>0, <1>3, AccuracyStop
<1>4. CASE Reset
  BY <1>0, <1>4, AccuracyReset
<1>5. CASE Lap \/ ClearLaps \/ Query
  BY <1>0, <1>5, AccuracyRead DEF Lap, ClearLaps, Query, stopwatch_lap, stopwatch_clear_laps,
     stopwatch_get_total_ms, swvars
<1>6. CASE Wait
  BY <1>0, <1>6, AccuracyWait
<1>7. CASE UNCHANGED vars
  BY <1>0, <1>7 DEF vars, tbvars, swvars, hist, AccuracyInv, Fresh, Extension, CycDelta, CycBase,
     TickBase, TickUs, BaseNoted, Finished, HasBase, Running, ClockInRange, Quantum
<1>. QED BY <1>1, <1>2, <1>3, <1>4, <1>5, <1>6, <1>7 DEF Next

\* The watch never shows time it did not run, whatever spoilt the count, for
\* every clock frequency, counter width, tick rate and order of operations.
THEOREM NeverAheadCorrect == Spec => []NeverAhead
<1>1. Spec => []AccuracyInv
  BY AccuracyInit, AccuracyNext, PTL DEF Spec
<1>2. AccuracyInv => NeverAhead
  BY TotalMeans DEF NeverAhead, InRange, ClockInRange
<1>. QED BY <1>1, <1>2, PTL

\* The total agrees with real time within one quantum and one millisecond for
\* each running segment, unless a turn of CYCCNT went unseen, a segment began at
\* clock reading 0 or a counter wrapped.
THEOREM AccurateCorrect == Spec => []Accurate
<1>1. Spec => []AccuracyInv
  BY AccuracyInit, AccuracyNext, PTL DEF Spec
<1>2. AccuracyInv => Accurate
  BY TotalMeans DEF Accurate, Agrees, InRange, ClockInRange
<1>. QED BY <1>1, <1>2, PTL

-----------------------------------------------------------------------------
(* The stopwatch implements the ideal lap timer.                           *)

\* The time explored is so short that no counter of the firmware wraps: 71
\* hours with its constants, bounded by the 64-bit product of the cycle count.
NoWrap ==
    /\ MaxClk * UsPerSec < U64Mod
    /\ MaxClk * TicksPerSec < TickMod * CpuHz
    /\ MaxClk * UsPerSec + MaxSegs * (UsPerSec \div TicksPerSec) * CpuHz
         < MsMod * UsPerMs * CpuHz

\* The last total shown in microseconds of the clock that showed it.
SeenUs == (seen - accumulated_ms) * UsPerMs + state_start_us

\* Nothing was shown that the clock had not reached at its last read, nothing
\* but the accumulated time while no segment is being counted, and no lap was
\* marked later than that.
ShownInv ==
    /\ ~HasBase => seen = accumulated_ms
    /\ HasBase /\ dwt_ok => CpuHz * SeenUs <= total_cyc * UsPerSec
    /\ HasBase /\ ~dwt_ok => SeenUs <= TickUs(last_read)
    /\ last_lap_total_ms <= seen
    /\ ~g_inited => seen = 0 /\ accumulated_ms = 0 /\ last_lap_total_ms = 0 /\ lap_count = 0

TimerInv == AccuracyInv /\ ShownInv

\* Then every state is in range.
LEMMA AlwaysInRange ==
    ASSUME NoWrap, TypeInv
    PROVE  /\ ClockInRange
           /\ TrueCycles * UsPerSec + Segments * Quantum * CpuHz < MsMod * UsPerMs * CpuHz
<1>. USE TimebaseConstants, StopwatchConstants, TraceConstants
<1>. DEFINE k == UsPerSec \div TicksPerSec
<1>1. /\ clk \in Nat /\ clk <= MaxClk
      /\ TrueCycles \in Nat /\ TrueCycles <= MaxClk
      /\ Segments \in Nat /\ Segments <= MaxSegs
  <2>1. clk \in Nat /\ clk <= MaxClk /\ TrueCycles <= clk /\ Segments <= MaxSegs
    BY DEF TypeInv, TypeOK, StopwatchTypeOK, TimebaseTypeOK, Recorded
  <2>2. TrueCycles \in Nat /\ Segments \in Nat
    BY Numbers DEF TrueCycles, Segments
  <2>. QED BY <2>1, <2>2
<1>2. k \in Nat \ {0}
  OBVIOUS
<1>3. Quantum \in Nat /\ Quantum <= k
  BY <1>2 DEF Quantum
<1>4. MaxClk * UsPerSec + MaxSegs * k * CpuHz < MsMod * UsPerMs * CpuHz
  BY DEF NoWrap
<1>. HIDE DEF k
<1>5. ClockInRange
  <2>1. clk * UsPerSec <= MaxClk * UsPerSec /\ clk * TicksPerSec <= MaxClk * TicksPerSec
    BY <1>1, MulMono
  <2>2. MaxClk * UsPerSec < U64Mod /\ MaxClk * TicksPerSec < TickMod * CpuHz
    BY DEF NoWrap
  <2>3. /\ clk * UsPerSec \in Int /\ MaxClk * UsPerSec \in Int /\ TickMod * CpuHz \in Int
        /\ clk * TicksPerSec \in Int /\ MaxClk * TicksPerSec \in Int
    BY <1>1
  <2>. QED BY <2>1, <2>2, <2>3 DEF ClockInRange
<1>6. TrueCycles * UsPerSec <= MaxClk * UsPerSec
  BY <1>1, MulMono
<1>7. Segments * Quantum * CpuHz <= MaxSegs * k * CpuHz
  <2>1. Quantum * Segments <= k * Segments
    BY <1>1, <1>2, <1>3, MulMono
  <2>2. Segments * k <= MaxSegs * k
    BY <1>1, <1>2, MulMono
  <2>3. Segments * Quantum <= MaxSegs * k /\ Segments * Quantum \in Int /\ MaxSegs * k \in Int
    BY <1>1, <1>2, <1>3, <2>1, <2>2
  <2>. QED BY <2>3, MulMono
<1>8. /\ TrueCycles * UsPerSec \in Int /\ MaxClk * UsPerSec \in Int
      /\ Segments * Quantum * CpuHz \in Int /\ MaxSegs * k * CpuHz \in Int
      /\ MsMod * UsPerMs * CpuHz \in Int
  BY <1>1, <1>2, <1>3
<1>9. TrueCycles * UsPerSec + Segments * Quantum * CpuHz < MsMod * UsPerMs * CpuHz
  BY <1>4, <1>6, <1>7, <1>8
<1>. QED BY <1>5, <1>9

\* The total is never smaller than the last one shown, and showing it keeps the
\* clock ahead of what was shown.
LEMMA ShowsMore ==
    ASSUME NoWrap, TimerInv, g_inited
    PROVE  /\ NowTotalMs \in Nat
           /\ seen <= NowTotalMs
           /\ ~HasBase => NowTotalMs = seen
           /\ HasBase => (NowTotalMs - accumulated_ms) * UsPerMs + state_start_us
                           <= timebase_get_us
<1>. USE TimebaseConstants, StopwatchConstants
<1>0. AccuracyInv /\ TypeInv /\ ShownInv /\ Extension
  BY DEF TimerInv, AccuracyInv
<1>1. /\ clk \in Nat /\ last_read \in Nat /\ last_read <= clk /\ total_cyc \in Nat
      /\ state_start_us \in Nat /\ timebase_get_us \in Nat /\ accumulated_ms \in Nat
      /\ CycDelta \in Nat
  BY <1>0, Numbers
<1>2. NowTotalMs \in Nat /\ seen \in Nat
  BY <1>0, ValueTypes DEF TypeInv, TypeOK, Millis
<1>3. ASSUME ~HasBase PROVE NowTotalMs = seen
  BY <1>0, <1>3 DEF ShownInv, NowTotalMs
<1>4. ASSUME HasBase
      PROVE  /\ seen <= NowTotalMs
             /\ (NowTotalMs - accumulated_ms) * UsPerMs + state_start_us <= timebase_get_us
  <2>. DEFINE sub == timebase_get_us - state_start_us
              ms == sub \div UsPerMs
  <2>0. ClockInRange
    BY <1>0, AlwaysInRange
  <2>1. NowTotalMs = accumulated_ms + ms
    BY <1>0, <1>4, AlwaysInRange, TotalMeans
  <2>2. sub \in Nat
    BY <1>0, <1>1, <1>4, <2>0, SegmentRead
  <2>3. SeenUs \in Int
    BY <1>1, <1>2 DEF SeenUs
  <2>4. SeenUs <= timebase_get_us
    <3>1. CASE dwt_ok
      <4>1. CpuHz * SeenUs <= total_cyc * UsPerSec
        BY <1>0, <1>4, <3>1 DEF ShownInv
      <4>2. (total_cyc + CycDelta) * UsPerSec < CpuHz * timebase_get_us + CpuHz
        BY <1>0, <2>0, <3>1, CycRead
      <4>3. total_cyc * UsPerSec <= (total_cyc + CycDelta) * UsPerSec
        BY <1>1, MulMono
      <4>4. SeenUs * CpuHz < (timebase_get_us + 1) * CpuHz
        BY <1>1, <2>3, <4>1, <4>2, <4>3
      <4>5. SeenUs < timebase_get_us + 1
        BY <1>1, <2>3, <4>4, MulLess
      <4>. QED BY <1>1, <2>3, <4>5
    <3>2. CASE ~dwt_ok
      <4>1. SeenUs <= TickUs(last_read)
        BY <1>0, <1>4, <3>2 DEF ShownInv
      <4>2. timebase_get_us = TickUs(clk)
        BY <1>0, <2>0, <3>2, TickRead
      <4>3. TickUs(last_read) <= TickUs(clk) /\ TickUs(last_read) \in Nat
        BY <1>1, TickMeans
      <4>. QED BY <1>1, <2>3, <4>1, <4>2, <4>3
    <3>. QED BY <3>1, <3>2
  <2>5. (seen - accumulated_ms) * UsPerMs <= sub
    BY <1>1, <1>2, <2>4 DEF SeenUs
  <2>6. sub + state_start_us = timebase_get_us
    BY <1>1
  <2>. HIDE DEF sub
  <2>7. ms \in Nat /\ UsPerMs * ms <= sub /\ sub < UsPerMs * ms + UsPerMs
    BY <2>2, DivMeans, DivRange
  <2>. HIDE DEF ms
  <2>8. seen <= NowTotalMs
    <3>. DEFINE x == seen - accumulated_ms
    <3>1. x \in Int /\ x * UsPerMs <= sub
      BY <1>1, <1>2, <2>5
    <3>2. seen = x + accumulated_ms
      BY <1>1, <1>2
    <3>. HIDE DEF x
    <3>3. x * UsPerMs < (ms + 1) * UsPerMs
      BY <2>2, <2>7, <3>1
    <3>4. x < ms + 1
      BY <2>7, <3>1, <3>3, MulLess
    <3>. QED BY <1>1, <2>1, <2>7, <3>1, <3>2, <3>4
  <2>9. NowTotalMs - accumulated_ms = ms
    BY <1>1, <2>1, <2>7
  <2>. QED BY <1>1, <2>2, <2>6, <2>7, <2>8, <2>9
<1>. QED BY <1>2, <1>3, <1>4

\* After a recorded read the clock has reached whatever that read showed.
LEMMA ShownRead ==
    ASSUME NoWrap, TimerInv, g_inited, ReadTimebase, last_read' = clk, NEW x \in Int,
           x <= timebase_get_us
    PROVE  /\ dwt_ok' => CpuHz * x <= total_cyc' * UsPerSec
           /\ ~dwt_ok' => x <= TickUs(last_read')
<1>. USE TimebaseConstants
<1>0. TypeInv /\ Extension /\ dwt_ok' = dwt_ok /\ timebase_get_us \in Nat
  BY Numbers DEF TimerInv, AccuracyInv, ReadTimebase
<1>1. ClockInRange
  BY <1>0, AlwaysInRange
<1>2. ASSUME dwt_ok PROVE CpuHz * x <= total_cyc' * UsPerSec
  <2>1. total_cyc' = ExtendedCyc /\ ExtendedCyc \in Nat
    BY <1>0, <1>2, ValueTypes DEF ReadTimebase, TypeInv
  <2>2. CpuHz * timebase_get_us <= ExtendedCyc * UsPerSec
    BY <1>0, <1>1, <1>2, CycRead
  <2>3. x * CpuHz <= timebase_get_us * CpuHz
    BY <1>0, MulMono
  <2>. QED BY <1>0, <2>1, <2>2, <2>3
<1>3. ASSUME ~dwt_ok PROVE x <= TickUs(clk)
  BY <1>0, <1>1, <1>3, TickRead
<1>4. TickUs(last_read') = TickUs(clk)
  BY DEF TickUs
<1>. QED BY <1>0, <1>2, <1>3, <1>4

LEMMA TimerInit == Init => TimerInv
<1>. SUFFICES ASSUME Init PROVE TimerInv
  OBVIOUS
<1>1. ShownInv
  BY DEF Init, StopwatchBoot, ShownInv, HasBase
<1>. QED BY <1>1, AccuracyInit DEF TimerInv

\* A segment that begins now shows what has been accumulated.
LEMMA ShownBase ==
    ASSUME NoWrap, TimerInv, g_inited, g_inited', ReadTimebase, last_read' = clk,
           state_start_us' = timebase_get_us, seen' = accumulated_ms',
           last_lap_total_ms' <= seen', seen' \in Nat
    PROVE  ShownInv'
<1>1. timebase_get_us \in Nat
  BY Numbers DEF TimerInv, AccuracyInv
<1>2. SeenUs' = timebase_get_us
  <2>1. SeenUs' = (seen' - accumulated_ms') * UsPerMs + state_start_us'
    BY DEF SeenUs
  <2>2. seen' - accumulated_ms' = 0
    <3>1. \A n \in Nat : n - n = 0
      OBVIOUS
    <3>. QED BY <3>1
  <2>3. 0 * UsPerMs + timebase_get_us = timebase_get_us
    BY <1>1, StopwatchConstants
  <2>. QED BY <2>1, <2>2, <2>3
<1>3. /\ dwt_ok' => CpuHz * timebase_get_us <= total_cyc' * UsPerSec
      /\ ~dwt_ok' => timebase_get_us <= TickUs(last_read')
  BY <1>1, ShownRead
<1>4. /\ dwt_ok' => CpuHz * SeenUs' <= total_cyc' * UsPerSec
      /\ ~dwt_ok' => SeenUs' <= TickUs(last_read)'
  BY <1>2, <1>3 DEF TickUs
<1>. QED BY <1>4 DEF ShownInv

\* An operation that shows the total.
LEMMA ShownTotal ==
    ASSUME NoWrap, TimerInv, g_inited, ReadTotal, RecordTotal,
           UNCHANGED <<clk, g_inited, state, state_start_us, accumulated_ms>>,
           last_lap_total_ms' \in {last_lap_total_ms, NowTotalMs}
    PROVE  ShownInv'
<1>. USE StopwatchConstants
<1>0. ShownInv /\ TypeInv
  BY DEF TimerInv, AccuracyInv
<1>1. seen' = NowTotalMs /\ NowTotalMs \in Nat /\ seen <= NowTotalMs
  BY ShowsMore DEF RecordTotal
<1>2. /\ accumulated_ms \in Nat /\ state_start_us \in Nat
      /\ last_lap_total_ms \in Nat /\ seen \in Nat /\ last_lap_total_ms <= seen
  BY <1>0, Numbers DEF ShownInv, TypeInv, TypeOK, StopwatchTypeOK, Millis
<1>3. last_lap_total_ms' <= seen'
  BY <1>1, <1>2
<1>4. CASE ~HasBase
  <2>1. seen' = accumulated_ms' /\ ~HasBase'
    BY <1>4 DEF RecordTotal, NowTotalMs, HasBase
  <2>. QED BY <1>3, <2>1 DEF ShownInv
<1>5. CASE HasBase
  <2>. DEFINE x == (NowTotalMs - accumulated_ms) * UsPerMs + state_start_us
  <2>1. x \in Int /\ x <= timebase_get_us
    BY <1>1, <1>2, <1>5, ShowsMore
  <2>2. SeenUs' = x
    BY <1>1 DEF SeenUs
  <2>3. ReadTimebase /\ last_read' = clk /\ HasBase'
    BY <1>5 DEF ReadTotal, RecordTotal, HasBase
  <2>. HIDE DEF x
  <2>4. /\ dwt_ok' => CpuHz * x <= total_cyc' * UsPerSec
        /\ ~dwt_ok' => x <= TickUs(last_read')
    BY <2>1, <2>3, ShownRead
  <2>5. /\ dwt_ok' => CpuHz * SeenUs' <= total_cyc' * UsPerSec
        /\ ~dwt_ok' => SeenUs' <= TickUs(last_read)'
    BY <2>2, <2>4 DEF TickUs
  <2>. QED BY <1>3, <2>3, <2>5 DEF ShownInv
<1>. QED BY <1>4, <1>5

LEMMA TimerNext ==
    ASSUME NoWrap, TimerInv, [Next]_vars
    PROVE  TimerInv'
<1>. USE StopwatchConstants
<1>0. AccuracyInv' /\ AccuracyInv /\ ShownInv /\ TypeInv
  BY AccuracyNext DEF TimerInv, AccuracyInv
<1>a. accumulated_ms \in Nat /\ last_lap_total_ms \in Nat /\ seen \in Nat
  BY <1>0 DEF TypeInv, TypeOK, StopwatchTypeOK, Millis
<1>. SUFFICES ShownInv'
  BY <1>0 DEF TimerInv
<1>1. CASE Boot
  <2>1. /\ state' = "IDLE" /\ accumulated_ms' = 0 /\ last_lap_total_ms' = 0 /\ lap_count' = 0
        /\ seen' = 0
    BY <1>0, <1>1 DEF Boot, stopwatch_init, ShownInv
  <2>. QED BY <2>1 DEF ShownInv, HasBase
<1>2. CASE Start
  <2>1. /\ g_inited /\ g_inited' /\ ReadTimebase /\ last_read' = clk
        /\ state_start_us' = timebase_get_us
        /\ UNCHANGED <<accumulated_ms, last_lap_total_ms, seen>> /\ state # "RUNNING"
    BY <1>2 DEF Start, stopwatch_start, RecordBase, lapvars
  <2>2. seen' = accumulated_ms' /\ last_lap_total_ms' <= seen' /\ seen' \in Nat
    BY <1>0, <1>a, <2>1 DEF ShownInv, HasBase
  <2>. QED BY <2>1, <2>2, ShownBase
<1>3. CASE Stop
  <2>1. /\ g_inited /\ g_inited' /\ seen' = NowTotalMs /\ accumulated_ms' = NowTotalMs
        /\ state' = "PAUSED" /\ last_lap_total_ms' = last_lap_total_ms
    BY <1>3 DEF Stop, stopwatch_stop, RecordTotal, lapvars
  <2>2. NowTotalMs \in Nat /\ seen <= NowTotalMs /\ last_lap_total_ms <= seen
    BY <1>0, <2>1, ShowsMore DEF ShownInv
  <2>3. last_lap_total_ms' <= seen'
    BY <1>a, <2>1, <2>2
  <2>. QED BY <2>1, <2>3 DEF ShownInv, HasBase
<1>4. CASE Reset
  <2>1. g_inited /\ g_inited' /\ seen' = 0 /\ accumulated_ms' = 0 /\ last_lap_total_ms' = 0
    BY <1>4 DEF Reset, stopwatch_reset
  <2>2. CASE state = "RUNNING"
    <3>1. ReadTimebase /\ last_read' = clk /\ state_start_us' = timebase_get_us
      BY <1>4, <2>2 DEF Reset, stopwatch_reset, RecordBase
    <3>2. seen' \in Nat /\ last_lap_total_ms' <= seen'
      BY <2>1
    <3>. QED BY <2>1, <3>1, <3>2, ShownBase
  <2>3. CASE state # "RUNNING"
    <3>1. state' = "IDLE"
      BY <1>4, <2>3 DEF Reset, stopwatch_reset
    <3>. QED BY <2>1, <3>1 DEF ShownInv, HasBase
  <2>. QED BY <2>2, <2>3
<1>5. CASE Lap \/ ClearLaps \/ Query
  BY <1>5, ShownTotal DEF Lap, ClearLaps, Query, stopwatch_lap, stopwatch_clear_laps,
     stopwatch_get_total_ms, swvars, lapvars
<1>6. CASE Wait \/ UNCHANGED vars
  <2>1. UNCHANGED <<g_inited, state, state_start_us, accumulated_ms, last_lap_total_ms, lap_count,
                    seen, last_read, dwt_ok, total_cyc>>
    BY <1>6 DEF Wait, Elapse, ElapseCycles, vars, tbvars, swvars, lapvars, hist
  <2>. QED BY <1>0, <2>1 DEF ShownInv, SeenUs, HasBase, TickUs
<1>. QED BY <1>1, <1>2, <1>3, <1>4, <1>5, <1>6 DEF Next

-----------------------------------------------------------------------------
(* The laps the user can ask for, as a sequence.                           *)

\* Its length and entries.
LEMMA RetainedSeq ==
    ASSUME TypeInv
    PROVE  /\ RetainedLaps \in Seq(Millis)
           /\ Len(RetainedLaps) = lap_count
           /\ \A i \in 1..lap_count : RetainedLaps[i] = lap_durations_ms[i - 1]
<1>1. lap_count \in 0..MAX_LAPS /\ lap_durations_ms \in [LapIndex -> Millis]
  BY DEF TypeInv, TypeOK, StopwatchTypeOK
<1>2. \A i \in 1..lap_count : lap_durations_ms[i - 1] \in Millis
  BY <1>1, StopwatchConstants DEF LapIndex
<1>. QED BY <1>1, <1>2 DEF RetainedLaps

\* No laps are the empty sequence.
LEMMA RetainedNone ==
    ASSUME TypeInv, lap_count = 0
    PROVE  RetainedLaps = <<>>
  BY RetainedSeq, EmptySeq

\* PushLap on the array is Append on the sequence, the oldest lap dropped from a
\* full one.
LEMMA RetainedPush ==
    ASSUME TypeInv, TypeInv', NEW x \in Millis,
           lap_durations_ms' = PushLap(lap_durations_ms, lap_count, x),
           lap_count' = NextLapCount
    PROVE  RetainedLaps' = Ideal!Latest(Append(RetainedLaps, x))
<1>. USE StopwatchConstants
<1>. DEFINE s == RetainedLaps
            n == lap_count
            a == lap_durations_ms
            t == Append(s, x)
            r == RetainedLaps'
<1>1. /\ s \in Seq(Millis) /\ Len(s) = n /\ \A i \in 1..n : s[i] = a[i - 1]
      /\ n \in 0..MAX_LAPS /\ a \in [LapIndex -> Millis]
  BY RetainedSeq DEF TypeInv, TypeOK, StopwatchTypeOK
<1>2. /\ r \in Seq(Millis) /\ Len(r) = lap_count'
      /\ \A i \in 1..lap_count' : r[i] = lap_durations_ms'[i - 1]
  <2>1. lap_count' \in 0..MAX_LAPS /\ lap_durations_ms' \in [LapIndex -> Millis]
    BY DEF TypeInv, TypeOK, StopwatchTypeOK
  <2>2. \A i \in 1..lap_count' : lap_durations_ms'[i - 1] \in Millis
    BY <2>1 DEF LapIndex
  <2>3. r = [i \in 1..lap_count' |-> lap_durations_ms'[i - 1]]
    BY DEF RetainedLaps
  <2>. QED BY <2>1, <2>2, <2>3
<1>. HIDE DEF s, r
<1>3. /\ t \in Seq(Millis) /\ Len(t) = n + 1 /\ t[n + 1] = x
      /\ \A i \in 1..n : t[i] = a[i - 1]
  BY <1>1
<1>. HIDE DEF t
<1>4. CASE n < MAX_LAPS
  <2>1. lap_count' = n + 1 /\ lap_durations_ms' = [a EXCEPT ![n] = x]
    BY <1>4 DEF NextLapCount, PushLap
  <2>2. \A i \in 1..n + 1 : r[i] = t[i]
    BY <1>1, <1>2, <1>3, <1>4, <2>1 DEF LapIndex
  <2>3. r = t
    BY <1>1, <1>2, <1>3, <2>1, <2>2, SeqEqual
  <2>4. Ideal!Latest(t) = t
    BY <1>1, <1>3, <1>4 DEF Ideal!Latest
  <2>. QED BY <2>3, <2>4 DEF r, t, s
<1>5. CASE n = MAX_LAPS
  <2>1. /\ lap_count' = n
        /\ lap_durations_ms' = [i \in LapIndex |-> IF i < MAX_LAPS - 1 THEN a[i + 1] ELSE x]
    BY <1>5 DEF NextLapCount, PushLap
  <2>2. Ideal!Latest(t) = Tail(t)
    BY <1>1, <1>3, <1>5 DEF Ideal!Latest
  <2>3. t # <<>>
    BY <1>1, <1>3, EmptySeq
  <2>4. Tail(t) \in Seq(Millis) /\ Len(Tail(t)) = n /\ \A i \in 1..n : Tail(t)[i] = t[i + 1]
    BY <1>1, <1>3, <2>3, HeadTailProperties
  <2>5. \A i \in 1..n : r[i] = t[i + 1]
    <3>. SUFFICES ASSUME NEW i \in 1..n PROVE r[i] = t[i + 1]
      OBVIOUS
    <3>1. r[i] = IF i - 1 < MAX_LAPS - 1 THEN a[(i - 1) + 1] ELSE x
      BY <1>1, <1>2, <1>5, <2>1 DEF LapIndex
    <3>2. CASE i < n
      <4>1. t[i + 1] = a[(i + 1) - 1]
        BY <1>1, <1>3, <3>2
      <4>. QED BY <1>1, <1>5, <3>1, <3>2, <4>1
    <3>3. CASE i = n
      BY <1>1, <1>3, <1>5, <3>1, <3>3
    <3>. QED BY <1>1, <3>2, <3>3
  <2>6. r = Tail(t)
    BY <1>1, <1>2, <2>1, <2>4, <2>5, SeqEqual
  <2>. QED BY <2>2, <2>6 DEF r, t, s
<1>. QED BY <1>1, <1>4, <1>5

\* A step of the firmware is a step of the ideal lap timer, or changes nothing
\* its user can see.
LEMMA TimerStep ==
    ASSUME NoWrap, TimerInv, TypeInv', [Next]_vars
    PROVE  [Ideal!Next]_Ideal!vars
<1>. USE StopwatchConstants
<1>0. AccuracyInv /\ ShownInv /\ TypeInv /\ Fresh
  BY DEF TimerInv, AccuracyInv
<1>a. /\ last_lap_total_ms \in Nat /\ seen \in Nat /\ last_lap_total_ms <= seen
      /\ NowTotalMs \in Millis
  <2>1. NowTotalMs \in Millis
    BY <1>0, ValueTypes DEF TypeInv
  <2>. QED BY <1>0, <2>1 DEF ShownInv, TypeInv, TypeOK, StopwatchTypeOK, Millis
<1>b. ASSUME g_inited PROVE NowTotalMs \in Ideal!Shown
  <2>1. NowTotalMs \in Nat /\ seen <= NowTotalMs /\ (~HasBase => NowTotalMs = seen)
    BY <1>b, ShowsMore
  <2>2. state # "RUNNING" => NowTotalMs = seen
    BY <2>1 DEF HasBase
  <2>. QED BY <1>a, <2>1, <2>2 DEF Ideal!Shown, Millis
<1>c. ASSUME UNCHANGED lapvars PROVE RetainedLaps' = RetainedLaps
  BY <1>c DEF lapvars, RetainedLaps
<1>d. ASSUME lap_count' = 0 PROVE RetainedLaps' = <<>>
  <2>1. RetainedLaps' = [i \in 1..0 |-> lap_durations_ms'[i - 1]]
    BY <1>d DEF RetainedLaps
  <2>. QED BY <2>1
<1>1. CASE Boot
  <2>1. /\ state' = state /\ seen' = seen /\ last_lap_total_ms' = last_lap_total_ms
        /\ lap_count' = 0 /\ lap_count = 0
    BY <1>0, <1>1 DEF Boot, stopwatch_init, Fresh, ShownInv
  <2>2. RetainedLaps' = RetainedLaps
    BY <1>0, <1>d, <2>1, RetainedNone
  <2>. QED BY <2>1, <2>2 DEF Ideal!vars
<1>2. CASE Start
  <2>1. Ideal!Start
    BY <1>2, <1>c DEF Start, stopwatch_start, lapvars, Ideal!Start
  <2>. QED BY <2>1 DEF Ideal!Next
<1>3. CASE Stop
  <2>1. Ideal!Stop
    BY <1>3, <1>b, <1>c DEF Stop, stopwatch_stop, RecordTotal, lapvars, Ideal!Stop
  <2>. QED BY <2>1 DEF Ideal!Next
<1>4. CASE Reset
  <2>1. Ideal!Reset
    BY <1>4, <1>d DEF Reset, stopwatch_reset, Ideal!Reset
  <2>. QED BY <2>1 DEF Ideal!Next
<1>5. CASE Lap
  <2>1. /\ g_inited /\ seen' = NowTotalMs /\ last_lap_total_ms' = NowTotalMs /\ state' = state
        /\ lap_durations_ms' = PushLap(lap_durations_ms, lap_count,
                                       (NowTotalMs - last_lap_total_ms) % MsMod)
        /\ lap_count' = NextLapCount
    BY <1>5 DEF Lap, stopwatch_lap, RecordTotal
  <2>2. seen <= NowTotalMs
    BY <2>1, ShowsMore
  <2>3. NowTotalMs - last_lap_total_ms \in Millis
    BY <1>a, <2>2 DEF Millis
  <2>4. (NowTotalMs - last_lap_total_ms) % MsMod = NowTotalMs - last_lap_total_ms
    BY <2>3, ModSmall DEF Millis
  <2>5. RetainedLaps' = Ideal!Latest(Append(RetainedLaps, NowTotalMs - last_lap_total_ms))
    BY <1>0, <2>1, <2>3, <2>4, RetainedPush
  <2>6. Ideal!Lap
    BY <1>b, <2>1, <2>5 DEF Ideal!Lap
  <2>. QED BY <2>6 DEF Ideal!Next
<1>6. CASE ClearLaps
  <2>1. Ideal!ClearLaps
    BY <1>6, <1>b, <1>d DEF ClearLaps, stopwatch_clear_laps, RecordTotal, Ideal!ClearLaps
  <2>. QED BY <2>1 DEF Ideal!Next
<1>7. CASE Query
  <2>1. Ideal!Show
    BY <1>7, <1>b, <1>c DEF Query, stopwatch_get_total_ms, swvars, lapvars, RecordTotal, Ideal!Show
  <2>. QED BY <2>1 DEF Ideal!Next
<1>8. CASE Wait \/ UNCHANGED vars
  <2>1. UNCHANGED <<state, seen, lapvars>>
    BY <1>8 DEF Wait, Elapse, ElapseCycles, vars, swvars, hist
  <2>. QED BY <1>c, <2>1 DEF lapvars, Ideal!vars
<1>. QED BY <1>1, <1>2, <1>3, <1>4, <1>5, <1>6, <1>7, <1>8 DEF Next

\* As long as no counter wraps, the firmware's stopwatch is the ideal lap timer:
\* the totals it shows never go back except to zero by a reset, even when turns
\* of CYCCNT were missed, stand still unless it runs, and the retained laps are
\* the latest differences of totals that were current.
THEOREM LapTimerImplemented ==
    ASSUME NoWrap
    PROVE  Spec => LapTimerSpec
<1>1. Init => Ideal!Init
  <2>1. ASSUME Init PROVE RetainedLaps = <<>>
    BY <2>1, TypeInvInit, RetainedNone DEF Init, StopwatchBoot
  <2>. QED BY <2>1 DEF Init, StopwatchBoot, Ideal!Init
<1>2. TimerInv /\ [Next]_vars => TimerInv'
  BY TimerNext
<1>3. TimerInv /\ TimerInv' /\ [Next]_vars => [Ideal!Next]_Ideal!vars
  BY TimerStep DEF TimerInv, AccuracyInv
<1>. QED BY <1>1, <1>2, <1>3, TimerInit, PTL DEF Spec, LapTimerSpec, Ideal!Spec
=============================================================================
