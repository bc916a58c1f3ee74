------------------------------ MODULE Timebase ------------------------------
(***************************************************************************)
(* applications/timebase.c: the microsecond clock of the stopwatch.        *)
(*                                                                         *)
(* The Cortex-M DWT cycle counter CYCCNT is CycMod (2^32) wide and wraps   *)
(* every 59.65 s at 72 MHz.  timebase_get_us extends it to 64 bits in      *)
(* software: each call adds the distance since the previous call, modulo   *)
(* CycMod, to total_cyc.  If the counter could not be enabled the RTOS     *)
(* tick is used instead.  Nothing else in the firmware calls it, so the    *)
(* extension only advances when the stopwatch reads it.                    *)
(*                                                                         *)
(* clk, the number of core cycles since power-up, is the model's real      *)
(* time.  Both CYCCNT and SysTick are clocked by the core, so both are     *)
(* functions of it.                                                        *)
(***************************************************************************)
EXTENDS Integers

CONSTANTS
    CpuHz,        \* cpu_hz, core cycles per second (72000000)
    UsPerSec,     \* 1000000
    TicksPerSec,  \* RT_TICK_PER_SECOND (1000)
    CycMod,       \* 2^32, range of CYCCNT and of last_cyc
    TickMod,      \* 2^32, range of rt_tick_t
    U64Mod,       \* 2^64, range of total_cyc and of the product with 10^6
    MaxClk        \* bound of the model: core cycles explored

\* A second has at least one cycle, tick and microsecond; a tick takes at least
\* one cycle (72000 of them) and is a whole number of microseconds (1000);
\* registers hold at least two values.
ASSUME TimebaseConstants ==
    /\ CpuHz \in Nat \ {0}
    /\ UsPerSec \in Nat \ {0}
    /\ TicksPerSec \in Nat \ {0}
    /\ TicksPerSec <= CpuHz
    /\ UsPerSec % TicksPerSec = 0
    /\ CycMod \in Nat \ {0, 1}
    /\ TickMod \in Nat \ {0, 1}
    /\ U64Mod \in Nat \ {0, 1}
    /\ MaxClk \in Nat

VARIABLES
    clk,        \* core cycles since power-up
    cyccnt,     \* DWT->CYCCNT
    dwt_ok,     \* CYCCNT could be enabled
    last_cyc,   \* CYCCNT at the previous call
    total_cyc   \* cycles accumulated over the calls

tbvars == <<clk, cyccnt, dwt_ok, last_cyc, total_cyc>>

\* Registers and accumulators of timebase.c stay within their widths.
TimebaseTypeOK ==
    /\ clk \in 0..MaxClk
    /\ cyccnt \in 0..CycMod-1
    /\ dwt_ok \in BOOLEAN
    /\ last_cyc \in 0..CycMod-1
    /\ total_cyc \in 0..U64Mod-1

\* Static storage after power-up; CYCCNT holds whatever it held.
TimebaseBoot ==
    /\ clk = 0
    /\ cyccnt = 0
    /\ dwt_ok = FALSE
    /\ last_cyc = 0
    /\ total_cyc = 0

\* rt_tick_get(): SysTick increments the tick TicksPerSec times a second.
rt_tick_get == ((clk * TicksPerSec) \div CpuHz) % TickMod

\* timebase_init with dwt_init: the counter is zeroed and enabled; whether the
\* enable bit reads back is a property of the chip.
timebase_init ==
    /\ dwt_ok' \in BOOLEAN
    /\ cyccnt' = 0
    /\ last_cyc' = IF dwt_ok' THEN 0 ELSE last_cyc
    /\ total_cyc' = IF dwt_ok' THEN 0 ELSE total_cyc

\* (uint32_t)(cur - last_cyc): the cycles since the previous call as far as a
\* 32-bit difference can tell.
CycDelta == (cyccnt - last_cyc) % CycMod

\* total_cyc after a call made now.
ExtendedCyc == (total_cyc + CycDelta) % U64Mod

\* The two conversions to microseconds, products truncated to 64 bits.
CycToUs(c) == ((c * UsPerSec) % U64Mod) \div CpuHz
TickToUs(t) == ((t * UsPerSec) % U64Mod) \div TicksPerSec

\* The value timebase_get_us returns when called now ...
timebase_get_us == IF dwt_ok THEN CycToUs(ExtendedCyc) ELSE TickToUs(rt_tick_get)

\* Mutant: the previous reading is not remembered.
ReadTimebaseForgets ==
    /\ total_cyc' = IF dwt_ok THEN ExtendedCyc ELSE total_cyc
    /\ UNCHANGED <<cyccnt, dwt_ok, last_cyc>>

\* ... and what the call does to the statics.
ReadTimebase ==
    /\ last_cyc' = IF dwt_ok THEN cyccnt ELSE last_cyc
    /\ total_cyc' = IF dwt_ok THEN ExtendedCyc ELSE total_cyc
    /\ UNCHANGED <<cyccnt, dwt_ok>>

\* The hardware: d core cycles go by.
ElapseCycles(d) ==
    /\ clk + d <= MaxClk
    /\ clk' = clk + d
    /\ cyccnt' = (cyccnt + d) % CycMod
    /\ UNCHANGED <<dwt_ok, last_cyc, total_cyc>>
=============================================================================
