----------------------------- MODULE Indicators -----------------------------
(***************************************************************************)
(* The indicator LEDs of applications/indicator_led.c against the shell    *)
(* commands that change the stopwatch's state.  The LED thread reads the   *)
(* state, writes the three pins one after the other and sleeps; the shell  *)
(* is more urgent and may come between any two of these steps.             *)
(* Time passes in units of 50 ms.                                          *)
(***************************************************************************)
EXTENDS Integers

CONSTANTS
    MaxLate,  \* units the LED thread may be kept from running between two sleeps
    MaxAge    \* bound: the age of a state is counted up to here

ASSUME IndicatorAssumption == MaxLate \in Nat /\ MaxAge \in Nat

VARIABLES
    state,  \* g_sw.state
    s,      \* the state the LED thread has read
    at,     \* its next step
    blink,
    lamp,   \* the pins that are high
    left,   \* units of its delay that are left
    late,   \* units it has been ready and not run
    age     \* units since state last changed

thread == <<s, at, blink, lamp, left>>
ledvars == <<state, thread, late, age>>

States == {"IDLE", "RUNNING", "PAUSED"}
Pins == {"RUN", "PAUSE", "ERR"}

\* Pins, the LED thread's place in its loop and its delay stay in range.
LedTypeOK ==
    /\ state \in States /\ s \in States
    /\ at \in {"read", "run", "pause", "err", "delay"}
    /\ blink \in BOOLEAN
    /\ lamp \subseteq Pins
    /\ left \in 0..10
    /\ late \in 0..MaxLate
    /\ age \in 0..MaxAge

\* indicator_led_init
LedInit ==
    /\ state = "IDLE" /\ s = "IDLE"
    /\ at = "read"
    /\ blink = FALSE
    /\ lamp = {}
    /\ left = 0 /\ late = 0
    /\ age = 0

-----------------------------------------------------------------------------
\* led_set
led_set(pin, on) == lamp' = IF on THEN lamp \cup {pin} ELSE lamp \ {pin}

\* rt_thread_mdelay(500) in state RUNNING, rt_thread_mdelay(200) in the others
Delay == IF s = "RUNNING" THEN 10 ELSE 4

Read ==
    /\ at = "read" /\ at' = "run"
    /\ s' = state
    /\ blink' = IF state = "RUNNING" THEN ~blink ELSE blink
    /\ UNCHANGED <<state, lamp, left, late, age>>

SetRun ==
    /\ at = "run" /\ at' = "pause"
    /\ led_set("RUN", s = "RUNNING" /\ blink)
    /\ UNCHANGED <<state, s, blink, left, late, age>>

\* Mutant: the pause LED is not switched off by a start.
SetPauseOnly ==
    /\ at = "pause" /\ at' = "err"
    /\ led_set("PAUSE", s = "PAUSED" \/ (s = "RUNNING" /\ "PAUSE" \in lamp))
    /\ UNCHANGED <<state, s, blink, left, late, age>>

SetPause ==
    /\ at = "pause" /\ at' = "err"
    /\ led_set("PAUSE", s = "PAUSED")
    /\ UNCHANGED <<state, s, blink, left, late, age>>

\* The last pin, and the call of rt_thread_mdelay.
SetErr ==
    /\ at = "err" /\ at' = "delay"
    /\ led_set("ERR", FALSE)
    /\ left' = Delay
    /\ late' = 0
    /\ UNCHANGED <<state, s, blink, age>>

\* The end of rt_thread_mdelay.
Wake ==
    /\ at = "delay" /\ left = 0
    /\ at' = "read"
    /\ UNCHANGED <<state, s, blink, lamp, left, late, age>>

indicator_led_entry == Read \/ SetRun \/ SetPause \/ SetErr \/ Wake

\* The commands: start and stop always lead to RUNNING and, from RUNNING, to
\* PAUSED; reset leaves RUNNING alone.
StateAfter(command) ==
    CASE command = "start" -> "RUNNING"
      [] command = "stop"  -> IF state = "RUNNING" THEN "PAUSED" ELSE state
      [] command = "reset" -> IF state = "RUNNING" THEN "RUNNING" ELSE "IDLE"

StateCommand(command) ==
    /\ state' = StateAfter(command)
    /\ state' # state
    /\ age' = 0
    /\ UNCHANGED <<thread, late>>

\* While the thread is ready, time passes by more urgent threads only.
Pass == IF at = "delay" /\ left > 0 THEN UNCHANGED late ELSE late < MaxLate /\ late' = late + 1

\* 50 ms pass.
Elapse ==
    /\ Pass
    /\ left' = IF left > 0 THEN left - 1 ELSE 0
    /\ age' = IF age < MaxAge THEN age + 1 ELSE age
    /\ UNCHANGED <<state, s, at, blink, lamp>>

LedNext ==
    \/ indicator_led_entry
    \/ \E command \in {"start", "stop", "reset"} : StateCommand(command)
    \/ Elapse

LedSpec == LedInit /\ [][LedNext]_ledvars

-----------------------------------------------------------------------------
\* What the lamps are to show: nothing when idle, the pause lamp steadily when
\* paused, at most the run lamp when running.
Shows(st) ==
    CASE st = "IDLE"    -> lamp = {}
      [] st = "PAUSED"  -> lamp = {"PAUSE"}
      [] st = "RUNNING" -> lamp \subseteq {"RUN"}

\* However commands fall between the thread's steps, and although it may be in
\* the middle of showing an old state, the lamps show a state that has lasted for
\* one whole delay and the time the thread was kept from running before and
\* after it.
ShownInTime == age > 10 + 2 * MaxLate => Shows(state)

\* While the thread sleeps the lamps show one state, the one it read last: no
\* mixture of two states stays on.
NoMixture == at = "delay" => Shows(s)

\* indicator_led_entry shows the stopwatch's state: one state at a time, and
\* soon enough.
LedsRight == NoMixture /\ ShownInTime
=============================================================================
