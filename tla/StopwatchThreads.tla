-------------------------- MODULE StopwatchThreads --------------------------
(***************************************************************************)
(* The threads that share the stopwatch, each call of the service broken   *)
(* into taking swlock, reading or writing the fields of g_sw, and          *)
(* releasing it:                                                           *)
(*   timer  csv_timer_cb, run by the soft-timer thread                     *)
(*   shell  the sw_* commands, the only thread that changes the stopwatch  *)
(*   ui     draw_main_page and draw_laps_page                              *)
(*   led    indicator_led_entry                                            *)
(* A mutator writes its fields in two steps, between which an interrupt    *)
(* may wake any sleeping thread.  The clock is abstracted to now_ms, the   *)
(* total get_now_total_ms_unsafe would compute.                            *)
(***************************************************************************)
EXTENDS RtMutex

CONSTANTS
    MAX_LAPS,   \* STOPWATCH_MAX_LAPS
    MaxMs       \* bound: largest total explored

ASSUME ThreadsConstants ==
    /\ MAX_LAPS \in Nat \ {0}
    /\ MaxMs \in Nat

\* RT_TIMER_THREAD_PRIO is 4 and FINSH_THREAD_PRIORITY 20; the OLED and LED threads
\* are created at RT_THREAD_PRIORITY_MAX - 4 and - 3.
FirmwarePriorities ==
    \A t \in Threads :
        /\ "timer" \in Threads /\ t # "timer" => init_priority["timer"] < init_priority[t]
        /\ "shell" \in Threads /\ t \notin {"timer", "shell"}
             => init_priority["shell"] < init_priority[t]

VARIABLES
    todo,      \* the calls of the service a thread has still to make
    phase,     \* where it is in the first of them
    res,       \* what its calls have returned since it woke
    total_tmp, \* local total_ms of the mutator inside the lock
    sw_state, now_ms, last_lap, lap_ms, lap_count,  \* g_sw
    done       \* history: what the calls that have returned add up to

local == <<todo, phase, res, total_tmp>>
g_sw == <<sw_state, now_ms, last_lap, lap_ms, lap_count>>
tvars == <<vars, local, g_sw, done>>

Mutators == {"start", "stop", "reset", "lap", "clear_laps"}
Queries == {"get_state", "get_total", "get_lap_count", "get_latest_lap", "get_lap"}
NoResult == [state |-> "IDLE", total |-> 0, n |-> 0, laps |-> <<>>]
Slots == 1..MAX_LAPS
NoLaps == [i \in Slots |-> 0]

\* Threads, their calls and what they have read stay in range.
ThreadsTypeOK ==
    /\ TypeOK
    /\ todo \in [Threads -> Seq(Mutators \cup Queries)]
    /\ phase \in [Threads -> {"call", "in", "mid", "out"}]
    /\ \A t \in Threads : /\ res[t].total \in 0..MaxMs /\ res[t].n \in 0..MAX_LAPS
                          /\ Len(res[t].laps) <= MAX_LAPS
    /\ total_tmp \in 0..MaxMs
    /\ sw_state \in {"IDLE", "RUNNING", "PAUSED"}
    /\ now_ms \in 0..MaxMs
    /\ last_lap \in 0..MaxMs
    /\ lap_ms \in [Slots -> 0..MaxMs]
    /\ lap_count \in 0..MAX_LAPS

ThreadsInit ==
    /\ Init
    /\ todo = [t \in Threads |-> <<>>]
    /\ phase = [t \in Threads |-> "call"]
    /\ res = [t \in Threads |-> NoResult]
    /\ total_tmp = 0
    /\ sw_state = "IDLE" /\ now_ms = 0 /\ last_lap = 0
    /\ lap_ms = NoLaps /\ lap_count = 0
    /\ done = [mode |-> "IDLE", mark |-> 0, laps |-> <<>>, seen |-> 0]

-----------------------------------------------------------------------------
(* What each thread does when it wakes.                                    *)

csv_timer_cb == <<"get_total", "get_lap_count", "get_latest_lap">>
sw_status == <<"get_state", "get_total", "get_lap_count", "get_lap">>
draw_main_page == <<"get_total", "get_lap_count", "get_latest_lap">>
draw_laps_page == <<"get_lap_count", "get_lap">>
indicator_led_entry == <<"get_state">>

\* A thread that is not named here reads the state, as the LED thread does.
Programs(t) ==
    CASE t = "timer" -> {csv_timer_cb}
      [] t = "shell" -> {<<m>> : m \in Mutators} \cup {sw_status}
      [] t = "ui"    -> {draw_main_page, draw_laps_page}
      [] OTHER       -> {indicator_led_entry}

\* What is left after the call just made.  Laps are only read if the count
\* returned was not zero; get_lap is called for every index below that count.
Rest(t) ==
    LET call == Head(todo[t])
    IN  IF call = "get_lap_count" /\ res[t].n = 0 THEN <<>>
        ELSE IF call = "get_lap" /\ Len(res[t].laps) < res[t].n THEN todo[t]
        ELSE Tail(todo[t])

\* The tick interrupt ends a delay, or a character ends the shell's wait.
Activate(t) ==
    /\ rt_timer_check({t})
    /\ \E p \in Programs(t) : todo' = [todo EXCEPT ![t] = p]
    /\ UNCHANGED <<phase, res, total_tmp, g_sw, done>>

\* Mutant: a call does not wait for the lock.
EnterUnlocked(t) ==
    /\ Running(t)
    /\ todo[t] # <<>> /\ phase[t] = "call"
    /\ phase' = [phase EXCEPT ![t] = "in"]
    /\ UNCHANGED <<vars, todo, res, total_tmp, g_sw, done>>

\* Every call begins with rt_mutex_take(g_sw.lock, RT_WAITING_FOREVER) ...
Enter(t) ==
    /\ todo[t] # <<>> /\ phase[t] = "call"
    /\ TakeFree(t) \/ TakeHeld(t)
    /\ phase' = [phase EXCEPT ![t] = "in"]
    /\ UNCHANGED <<todo, res, total_tmp, g_sw, done>>

\* What the calls add up to when the current one, made by t, has returned.
Completed(t) ==
    [mode |-> sw_state, mark |-> last_lap, laps |-> SubSeq(lap_ms, 1, lap_count),
     seen |-> CASE Head(todo[t]) = "get_total" -> res[t].total
                [] Head(todo[t]) \in {"stop", "reset", "lap", "clear_laps"} -> total_tmp
                [] OTHER -> done.seen]

\* Mutant: the lock may be released before everything is written.
ReturnEarly(t) ==
    /\ todo[t] # <<>> /\ phase[t] \in {"mid", "out"}
    /\ ReleaseFree(t) \/ ReleaseHandOver(t)
    /\ phase' = [phase EXCEPT ![t] = "call"]
    /\ todo' = [todo EXCEPT ![t] = Rest(t)]
    /\ done' = Completed(t)
    /\ total_tmp' = 0
    /\ UNCHANGED <<res, g_sw>>

\* Mutant: start returns without releasing the lock.
ReturnLeaky(t) ==
    /\ todo[t] # <<>> /\ phase[t] = "out"
    /\ IF Head(todo[t]) = "start" THEN Running(t) /\ UNCHANGED vars
                                  ELSE ReleaseFree(t) \/ ReleaseHandOver(t)
    /\ phase' = [phase EXCEPT ![t] = "call"]
    /\ todo' = [todo EXCEPT ![t] = Rest(t)]
    /\ done' = Completed(t)
    /\ total_tmp' = 0
    /\ UNCHANGED <<res, g_sw>>

\* ... and ends with rt_mutex_release(g_sw.lock), when its effect is complete.
Return(t) ==
    /\ todo[t] # <<>> /\ phase[t] = "out"
    /\ ReleaseFree(t) \/ ReleaseHandOver(t)
    /\ phase' = [phase EXCEPT ![t] = "call"]
    /\ todo' = [todo EXCEPT ![t] = Rest(t)]
    /\ done' = Completed(t)
    /\ total_tmp' = 0
    /\ UNCHANGED <<res, g_sw>>

\* Nothing left to call: the thread prints or draws, and delays again.
Sleep(t) ==
    /\ todo[t] = <<>>
    /\ rt_thread_sleep(t)
    /\ res' = [res EXCEPT ![t] = NoResult]
    /\ UNCHANGED <<todo, phase, total_tmp, g_sw, done>>

-----------------------------------------------------------------------------
(* Inside the lock.  No step here looks at the mutex.                      *)

Inside(t, calls, ph) ==
    /\ Running(t)
    /\ todo[t] # <<>> /\ phase[t] = ph
    /\ Head(todo[t]) \in calls

\* The queries.
Query(t) ==
    /\ Inside(t, Queries, "in")
    /\ LET call == Head(todo[t])
           i == Len(res[t].laps) + 1
           lap == IF i <= lap_count THEN lap_ms[i] ELSE 0
           latest == IF lap_count > 0 THEN lap_ms[lap_count] ELSE 0
       IN  res' = [res EXCEPT ![t] =
             CASE call = "get_state" -> [@ EXCEPT !.state = sw_state]
               [] call = "get_total" -> [@ EXCEPT !.total = now_ms]
               [] call = "get_lap_count" -> [@ EXCEPT !.n = lap_count]
               [] call = "get_latest_lap" -> [@ EXCEPT !.laps = <<latest>>]
               [] call = "get_lap" -> [@ EXCEPT !.laps = Append(@, lap)]]
    /\ phase' = [phase EXCEPT ![t] = "out"]
    /\ UNCHANGED <<vars, todo, total_tmp, g_sw, done>>

\* The first half of a mutator reads the total and writes the lap table ...
BeginWrite(t) ==
    /\ Inside(t, Mutators, "in")
    /\ total_tmp' = now_ms
    /\ CASE Head(todo[t]) = "lap" ->
              /\ IF lap_count < MAX_LAPS
                   THEN /\ lap_ms' = [lap_ms EXCEPT ![lap_count + 1] = now_ms - last_lap]
                        /\ lap_count' = lap_count + 1
                   ELSE /\ lap_ms' = [i \in Slots |-> IF i < MAX_LAPS THEN lap_ms[i + 1]
                                                                     ELSE now_ms - last_lap]
                        /\ UNCHANGED lap_count
              /\ UNCHANGED last_lap
         [] Head(todo[t]) = "reset" -> last_lap' = 0 /\ lap_count' = 0 /\ lap_ms' = NoLaps
         [] Head(todo[t]) = "clear_laps" -> lap_count' = 0 /\ UNCHANGED <<last_lap, lap_ms>>
         [] OTHER -> UNCHANGED <<last_lap, lap_ms, lap_count>>
    /\ phase' = [phase EXCEPT ![t] = "mid"]
    /\ UNCHANGED <<vars, todo, res, sw_state, now_ms, done>>

\* ... and the second half writes the rest.
EndWrite(t) ==
    /\ Inside(t, Mutators, "mid")
    /\ CASE Head(todo[t]) = "lap" ->
              /\ last_lap' = total_tmp
              /\ UNCHANGED <<sw_state, now_ms, total_tmp, lap_ms>>
         [] Head(todo[t]) = "reset" ->
              /\ now_ms' = 0 /\ total_tmp' = 0
              /\ sw_state' = IF sw_state = "RUNNING" THEN "RUNNING" ELSE "IDLE"
              /\ UNCHANGED <<last_lap, lap_ms>>
         [] Head(todo[t]) = "clear_laps" ->
              /\ last_lap' = now_ms /\ total_tmp' = now_ms /\ lap_ms' = NoLaps
              /\ UNCHANGED <<sw_state, now_ms>>
         [] Head(todo[t]) = "start" ->
              /\ sw_state' = "RUNNING"
              /\ UNCHANGED <<now_ms, total_tmp, last_lap, lap_ms>>
         [] Head(todo[t]) = "stop" ->
              /\ now_ms' = total_tmp
              /\ sw_state' = IF sw_state = "RUNNING" THEN "PAUSED" ELSE sw_state
              /\ UNCHANGED <<total_tmp, last_lap, lap_ms>>
    /\ phase' = [phase EXCEPT ![t] = "out"]
    /\ UNCHANGED <<vars, todo, res, lap_count, done>>

\* A millisecond of running time goes by.
Elapse ==
    /\ sw_state = "RUNNING" /\ now_ms < MaxMs
    /\ now_ms' = now_ms + 1
    /\ UNCHANGED <<vars, local, sw_state, last_lap, lap_ms, lap_count, done>>

ThreadStep(t) ==
    Enter(t) \/ Query(t) \/ BeginWrite(t) \/ EndWrite(t) \/ Return(t) \/ Sleep(t)

ThreadsNext == (\E t \in Threads : Activate(t) \/ ThreadStep(t)) \/ Elapse

ThreadsSpec == ThreadsInit /\ [][ThreadsNext]_tvars

\* A thread that gets the core again and again makes progress.
ThreadsFairSpec == ThreadsSpec /\ \A t \in Threads : SF_tvars(ThreadStep(t))

-----------------------------------------------------------------------------
\* At most one thread is inside the service, so timebase_get_us with its
\* static variables is never re-entered.
MutualExclusion ==
    \A t, u \in Threads :
        /\ phase[t] # "call" /\ stat[t] # "waiting"
        /\ phase[u] # "call" /\ stat[u] # "waiting"
        => t = u

Ideal == INSTANCE LapTimer WITH
    Window <- MAX_LAPS, MaxTotal <- MaxMs,
    mode <- done.mode, seen <- done.seen, mark <- done.mark, laps <- done.laps

\* However the threads interleave, each call takes effect as one operation of
\* the ideal lap timer, at the moment it releases the lock.
AtomicCalls == Ideal!Spec

\* sw_status makes 3 + n separate calls, yet the laps it sums up are the lap
\* table: only the shell changes it, and it is the shell that reads.
StatusExact ==
    "shell" \in Threads /\ stat["shell"] = "ready" /\ todo["shell"] = <<>> /\ res["shell"].n > 0
    => res["shell"].laps = SubSeq(lap_ms, 1, lap_count)

\* Every call returns: no thread is left inside the service or waiting for it.
CallsReturn == \A t \in Threads : todo[t] # <<>> ~> todo[t] = <<>>

RowPrinted ==
    /\ "timer" \in Threads
    /\ stat["timer"] = "ready" /\ todo["timer"] = <<>> /\ res["timer"].n > 0

\* csv_timer_cb reads the lap count and the latest lap in two calls, and between
\* them the lock may be handed to another thread; still the two belong together
\* when the row is printed.
RowLapExact ==
    RowPrinted => /\ res["timer"].n = lap_count
                  /\ res["timer"].laps = <<lap_ms[lap_count]>>

\* PROJECT_STOPWATCH.md defines lap_delta_ms as a difference of totals, so in a
\* row it cannot exceed total_ms.
RowTotalCoversLap ==
    RowPrinted => res["timer"].laps[1] <= res["timer"].total

\* What readers of several calls (sw_status, csv_timer_cb) have put together is in
\* range and belongs together.
ReadersExact == ThreadsTypeOK /\ StatusExact /\ RowLapExact
=============================================================================
