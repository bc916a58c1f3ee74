------------------------------ MODULE LightLink ------------------------------
(***************************************************************************)
(* The light sensor linkage (applications/sensor_light.c), the buzzer      *)
(* (applications/notifier_buzzer.c), the OLED refresh period, and the      *)
(* shell commands that touch them.                                         *)
(*                                                                         *)
(* The shell (priority 20) preempts the light thread (priority 29) between *)
(* any two of its instructions and is never preempted by it, so what the   *)
(* shell does without blocking is one step and apply_state, run by the     *)
(* light thread, is several.  The shell blocks in one place: the delay of  *)
(* notifier_beep_once.  The state starts after main has run the inits.     *)
(***************************************************************************)
EXTENDS Integers

CONSTANTS
    CntMod,     \* 2^8, range of dark_cnt and light_cnt
    Rates,      \* arguments given to sw_oled_rate
    RateMod,    \* 2^16, range of rt_uint16_t
    MaxRun      \* bound: samples counted in the history variable run

MinRate == 10       \* ui_oled_set_refresh_ms and sw_oled_rate clamp to this
DarkRate == 300     \* refresh period in the dark
LightRate == 10     \* and in the light
Debounce == 3       \* samples that must agree

ASSUME LightConstants ==
    /\ CntMod \in Nat /\ CntMod > Debounce
    /\ Rates \subseteq Int
    /\ RateMod \in Nat /\ RateMod > DarkRate
    /\ MaxRun \in Nat /\ MaxRun > Debounce

VARIABLES
    do_pin,         \* level of the sensor's DO pin
    s_enabled, s_dark, s_invert,
    dark_cnt, light_cnt,    \* locals of light_thread_entry
    s_beep_enabled,
    buzzer,         \* BUZZER_PIN is driven low: it sounds
    s_refresh_ms,
    light_pc,       \* where the light thread is
    shell_pc,       \* "prompt", or "beep" in the delay of notifier_beep_once
    sample, run,    \* history: the last sample and how many in a row agreed
    muted           \* history: the last sw_beep command said off

linkvars == <<s_enabled, s_dark, s_invert, dark_cnt, light_cnt>>
outvars == <<s_beep_enabled, buzzer, s_refresh_ms>>
lightvars == <<do_pin, linkvars, outvars, light_pc, shell_pc, sample, run, muted>>

\* Counters and the refresh period of light_thread_entry and ui_oled.c stay in range.
LightTypeOK ==
    /\ do_pin \in BOOLEAN
    /\ s_enabled \in BOOLEAN /\ s_dark \in BOOLEAN /\ s_invert \in BOOLEAN
    /\ dark_cnt \in 0..CntMod-1 /\ light_cnt \in 0..CntMod-1
    /\ s_beep_enabled \in BOOLEAN /\ buzzer \in BOOLEAN
    /\ s_refresh_ms \in MinRate..RateMod-1
    /\ light_pc \in {"delay", "sample", "store", "mute", "rate"}
    /\ shell_pc \in {"prompt", "beep"}
    /\ sample \in BOOLEAN /\ run \in 0..MaxRun
    /\ muted \in BOOLEAN

\* read_do: a low pin means dark, the other way round if inverted.
read_do == do_pin = s_invert

\* The refresh period apply_state asks for.
RateFor(dark) == IF dark THEN DarkRate ELSE LightRate

\* main: notifier_buzzer_init, then sensor_light_init applies what it reads.
LightInit ==
    /\ do_pin \in BOOLEAN
    /\ s_enabled = TRUE /\ s_invert = TRUE
    /\ s_dark = read_do
    /\ dark_cnt = 0 /\ light_cnt = 0
    /\ s_beep_enabled = ~s_dark /\ buzzer = FALSE
    /\ s_refresh_ms = RateFor(s_dark)
    /\ light_pc = "delay" /\ shell_pc = "prompt"
    /\ sample = s_dark /\ run = 0 /\ muted = FALSE

-----------------------------------------------------------------------------
(* The light thread: one iteration every 50 ms.                            *)

\* Mutant: no sampling in the dark.
LightWakeInLight ==
    /\ light_pc = "delay"
    /\ s_enabled /\ ~s_dark
    /\ light_pc' = "sample"
    /\ UNCHANGED <<do_pin, linkvars, outvars, shell_pc, sample, run, muted>>

\* The delay ends; nothing is sampled while the linkage is off.
LightWake ==
    /\ light_pc = "delay"
    /\ s_enabled
    /\ light_pc' = "sample"
    /\ UNCHANGED <<do_pin, linkvars, outvars, shell_pc, sample, run, muted>>

\* Mutants: dark_cnt survives a light sample; one sample more than Debounce.
DarkCountKept(dark_now) == IF dark_now THEN (dark_cnt + 1) % CntMod ELSE dark_cnt
SwitchesLate(d, l) == (~s_dark /\ d > Debounce) \/ (s_dark /\ l > Debounce)

\* The counters after a sample, in 8 bits, and whether they call for a switch.
DarkCount(dark_now) == IF dark_now THEN (dark_cnt + 1) % CntMod ELSE 0
LightCount(dark_now) == IF dark_now THEN 0 ELSE (light_cnt + 1) % CntMod
Switches(d, l) == (~s_dark /\ d >= Debounce) \/ (s_dark /\ l >= Debounce)

\* One sample is counted, and the hysteresis decides.  s_dark is the
\* first thing apply_state sets.
LightSample ==
    /\ light_pc = "sample"
    /\ LET dark_now == read_do
           switch == Switches(DarkCount(dark_now), LightCount(dark_now))
       IN  /\ dark_cnt' = DarkCount(dark_now)
           /\ light_cnt' = LightCount(dark_now)
           /\ s_dark' = IF switch THEN ~s_dark ELSE s_dark
           /\ light_pc' = IF switch THEN "store" ELSE "delay"
           /\ sample' = dark_now
           /\ run' = IF dark_now # sample \/ run = 0 THEN 1
                     ELSE IF run < MaxRun THEN run + 1 ELSE run
    /\ UNCHANGED <<do_pin, s_enabled, s_invert, outvars, shell_pc, muted>>

\* notifier_beep_enable stores the flag ...
LightStore ==
    /\ light_pc = "store"
    /\ s_beep_enabled' = ~s_dark
    /\ light_pc' = "mute"
    /\ UNCHANGED <<do_pin, linkvars, buzzer, s_refresh_ms, shell_pc, sample, run, muted>>

\* ... and silences the buzzer if the flag is clear.  The flag is not volatile
\* and the shell may have changed it since the store: the compiler may test
\* what it stored or what it reads back.
LightMute ==
    /\ light_pc = "mute"
    /\ \E flag \in {~s_dark, s_beep_enabled} : buzzer' = IF flag THEN buzzer ELSE FALSE
    /\ light_pc' = "rate"
    /\ UNCHANGED <<do_pin, linkvars, s_beep_enabled, s_refresh_ms, shell_pc, sample, run, muted>>

\* ui_oled_set_refresh_ms.
LightRateStep ==
    /\ light_pc = "rate"
    /\ s_refresh_ms' = RateFor(s_dark)
    /\ light_pc' = "delay"
    /\ UNCHANGED <<do_pin, linkvars, s_beep_enabled, buzzer, shell_pc, sample, run, muted>>

LightStep == LightWake \/ LightSample \/ LightStore \/ LightMute \/ LightRateStep

-----------------------------------------------------------------------------
(* The shell.                                                              *)

\* sw_start, sw_stop, sw_reset and sw_lap end in notifier_beep_once.
BeepBegin ==
    /\ shell_pc = "prompt"
    /\ s_beep_enabled
    /\ buzzer' = TRUE
    /\ shell_pc' = "beep"
    /\ UNCHANGED <<do_pin, linkvars, s_beep_enabled, s_refresh_ms, light_pc, sample, run, muted>>

\* Mutant: the pin is only reset if the beep is still enabled.
BeepEndIfEnabled ==
    /\ shell_pc = "beep"
    /\ buzzer' = IF s_beep_enabled THEN FALSE ELSE buzzer
    /\ shell_pc' = "prompt"
    /\ UNCHANGED <<do_pin, linkvars, s_beep_enabled, s_refresh_ms, light_pc, sample, run, muted>>

\* The delay is over.
BeepEnd ==
    /\ shell_pc = "beep"
    /\ buzzer' = FALSE
    /\ shell_pc' = "prompt"
    /\ UNCHANGED <<do_pin, linkvars, s_beep_enabled, s_refresh_ms, light_pc, sample, run, muted>>

\* sw_beep on|off.
cmd_sw_beep(on) ==
    /\ shell_pc = "prompt"
    /\ s_beep_enabled' = on
    /\ buzzer' = IF on THEN buzzer ELSE FALSE
    /\ muted' = ~on
    /\ UNCHANGED <<do_pin, linkvars, s_refresh_ms, light_pc, shell_pc, sample, run>>

\* sw_light on|off: the counters of the light thread stay as they are.
cmd_sw_light(on) ==
    /\ shell_pc = "prompt"
    /\ s_enabled' = on
    /\ UNCHANGED <<do_pin, s_dark, s_invert, dark_cnt, light_cnt, outvars, light_pc, shell_pc,
                   sample, run, muted>>

\* sw_light_invert on|off.
cmd_sw_light_invert(on) ==
    /\ shell_pc = "prompt"
    /\ s_invert' = on
    /\ UNCHANGED <<do_pin, s_enabled, s_dark, dark_cnt, light_cnt, outvars, light_pc, shell_pc,
                   sample, run, muted>>

\* sw_oled_rate ms: clamped as an int, narrowed to 16 bits, clamped again.
AtLeast(ms) == IF ms < MinRate THEN MinRate ELSE ms

\* Mutant: not clamped again after the narrowing.
cmd_sw_oled_rate_narrowed(ms) ==
    /\ shell_pc = "prompt"
    /\ s_refresh_ms' = AtLeast(ms) % RateMod
    /\ UNCHANGED <<do_pin, linkvars, s_beep_enabled, buzzer, light_pc, shell_pc,
                   sample, run, muted>>

cmd_sw_oled_rate(ms) ==
    /\ shell_pc = "prompt"
    /\ s_refresh_ms' = AtLeast(AtLeast(ms) % RateMod)
    /\ UNCHANGED <<do_pin, linkvars, s_beep_enabled, buzzer, light_pc, shell_pc,
                   sample, run, muted>>

\* The environment: somebody covers or uncovers the sensor.
Environment ==
    /\ do_pin' = ~do_pin
    /\ UNCHANGED <<linkvars, outvars, light_pc, shell_pc, sample, run, muted>>

ShellStep ==
    \/ BeepBegin \/ BeepEnd
    \/ \E on \in BOOLEAN : cmd_sw_beep(on) \/ cmd_sw_light(on) \/ cmd_sw_light_invert(on)
    \/ \E ms \in Rates : cmd_sw_oled_rate(ms)

LightNext == LightStep \/ ShellStep \/ Environment

LightSpec == LightInit /\ [][LightNext]_lightvars

\* rt_thread_mdelay returns, and the light thread gets the core when the shell
\* waits for input or for a beep to end.
LightFairSpec == LightSpec /\ WF_lightvars(LightStep) /\ WF_lightvars(BeepEnd)

-----------------------------------------------------------------------------
\* The hysteresis neither misses nor anticipates a change: when the thread is
\* between iterations, the last Debounce or more samples agreeing means they
\* have been applied, in spite of 8-bit counters that wrap during a long night
\* and stand still while the linkage is off.
HysteresisExact ==
    light_pc = "delay" /\ run >= Debounce => s_dark = sample

\* What makes it so: the two counters exclude each other, and as long as the
\* samples contradict s_dark their number is small and counted exactly.
Counting ==
    /\ sample => light_cnt = 0
    /\ ~sample => dark_cnt = 0
    /\ run = 0 => s_dark = sample
    /\ sample /\ ~s_dark => run < Debounce /\ dark_cnt = run
    /\ ~sample /\ s_dark => run < Debounce /\ light_cnt = run

\* s_dark only changes to what at least Debounce samples in a row said.
SwitchJustified ==
    [][s_dark' # s_dark => run' >= Debounce /\ s_dark' = sample']_lightvars

\* A muted buzzer is silent, except while the light thread is between clearing
\* the flag and switching the pin: a beep that began before is cut short.
MutedSilent == buzzer /\ ~s_beep_enabled => light_pc = "mute"

\* The buzzer only sounds during the delay of notifier_beep_once.
SoundsInBeep == buzzer => shell_pc = "beep"

\* In a settled environment with the linkage left on, the firmware settles on
\* what the sensor says.
LinkConverges ==
    \A dark \in BOOLEAN :
        <>[](s_enabled /\ read_do = dark) => <>[](s_dark = dark)

\* PROJECT_STOPWATCH.md: sw_beep off turns the beep off; only sw_beep on, the
\* opposite command, is documented to turn it on again.
MuteKept == muted => ~buzzer

\* The buzzer obeys both of its users, notifier_beep_once and the light thread,
\* although they write flag and pin without a lock.
BuzzerObeys == MutedSilent /\ SoundsInBeep
=============================================================================
