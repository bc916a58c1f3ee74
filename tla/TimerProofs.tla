---------------------------- MODULE TimerProofs ----------------------------
(***************************************************************************)
(* Proofs about the soft timers, for every set of timers, every width of   *)
(* the tick counter and every lateness that leaves room in it, and about   *)
(* the CSV stream that one of them drives, for every set of period         *)
(* arguments.                                                              *)
(***************************************************************************)
EXTENDS CsvStream, TimerListProofs

-----------------------------------------------------------------------------
(* What the list, the timer thread and the caller look like between any    *)
(* two steps.                                                              *)

\* The list holds the activated timers but the one whose callback runs.
ListInv ==
    /\ Once(soft_list)
    /\ Members(soft_list) \subseteq activated
    /\ \A t \in activated \ Members(soft_list) : firing = t /\ in_list
    /\ in_list => /\ firing \in Timers \ Members(soft_list)
                  /\ firing \in activated => firing \in Periodic

\* Where the timer thread is agrees with its state, and where the caller is with
\* the timer it was called for.
PlaceInv ==
    /\ pc = "callback" <=> firing \in Timers
    /\ pc = "callback" <=> soft_timer_status = "busy"
    /\ thread_stat \in {"delay", "suspend"} => pc = "check"
    /\ thread_stat = "wait" => pc = "callback"
    /\ caller.at = "stop" => caller.timer \in Timers
    /\ pc = "sleep" => next_timeout < Half
    /\ thread_stat = "delay" => Minus(wake, tick) < Half

Structure == TypeOK /\ ListInv /\ PlaceInv

\* The ages of the timers; a timer that is due has one of at least Half.
Ages == [t \in Timers |-> Age(t)]

\* Nothing in the list is further ahead than the assertion of rt_timer_start lets
\* it be, nor further behind than the thread can have lost: MaxLag ticks before it
\* went to sleep, one in which it slept although nothing was left to wait for, and
\* those since it woke up.
InTime == \A t \in Members(soft_list) : 1 <= Age(t) /\ Age(t) <= Half + MaxLag + 1 + lag

\* Nobody but the timer thread will look at the list.
Alone == caller.at \notin {"check", "resume"}

\* What the timer thread has read of the list still holds; where it sleeps it
\* sleeps until the first timeout, later by at most MaxLag.
Reading ==
    /\ pc = "branch" => /\ next_timeout = NextTimeout(soft_list, timeout_tick)
                        /\ soft_list # <<>> => next_timeout # RT_TICK_MAX
    /\ pc = "sleep" => soft_list # <<>> /\ Age(Head(soft_list)) <= Half - next_timeout + lag
    /\ thread_stat = "suspend" /\ Alone => soft_list = <<>>
    /\ thread_stat = "delay" /\ Alone /\ soft_list # <<>>
         => Age(Head(soft_list)) <= Half + MaxLag - Minus(wake, tick)

Timing == ~missed => Descending(soft_list, Ages) /\ InTime /\ Reading

TimersInv == Structure /\ init_tick \in [Timers -> Periods] /\ Timing

-----------------------------------------------------------------------------
(* The structure.                                                          *)

\* The list is empty and nobody is called at the start.
LEMMA StructureInit == Init => Structure
<1>. SUFFICES ASSUME Init PROVE Structure
  OBVIOUS
<1>. USE SoftTimerConstants, TickModAssumption, HalfRange
<1>1. TypeOK
  <2>1. in_list \in BOOLEAN /\ halted \in BOOLEAN /\ missed \in BOOLEAN
    BY Zenon DEF Init
  <2>2. 0 \in Ticks /\ 0 \in 0..MaxLag
    BY DEF Ticks
  <2>3. init_tick \in [Timers -> Ticks] /\ timeout_tick \in [Timers -> Ticks]
    BY <2>2 DEF Init
  <2>4. caller \in [at : {"idle", "start", "check", "resume", "stop"}, timer : Timers \cup {NoTimer}]
    BY DEF Init, Idle
  <2>5. soft_list \in Seq(Timers) /\ activated \subseteq Timers
    BY DEF Init
  <2>. QED BY <2>1, <2>2, <2>3, <2>4, <2>5 DEF Init, TypeOK, ThreadStats
<1>2. ListInv
  BY DEF Init, ListInv, Once, Members
<1>3. PlaceInv
  BY DEF Init, PlaceInv, Idle
<1>. QED BY <1>1, <1>2, <1>3 DEF Structure

\* Starting a timer puts it into the list once, or takes it out and halts.
LEMMA StartEffect ==
    ASSUME TypeOK, Once(soft_list), NEW t \in Timers, StartTimer(t)
    PROVE  /\ soft_list' \in Seq(Timers) /\ Once(soft_list)'
           /\ timeout_tick' \in [Timers -> Ticks] /\ init_tick' = init_tick
           /\ halted' \in BOOLEAN
           /\ \/ /\ Members(soft_list)' = Members(soft_list) \cup {t}
                 /\ activated' = activated \cup {t}
              \/ /\ Members(soft_list)' = Members(soft_list) \ {t}
                 /\ activated' = activated \ {t}
<1>. DEFINE rest == _rt_timer_remove(soft_list, t)
<1>0. soft_list \in Seq(Timers)
  BY DEF TypeOK
<1>1. rest \in Seq(Timers) /\ Once(rest) /\ Members(rest) = Members(soft_list) \ {t}
  BY <1>0, RemovedMembers
<1>. HIDE DEF rest
<1>2. CASE init_tick[t] < Half
  <2>1. /\ timeout_tick' = [timeout_tick EXCEPT ![t] = Plus(tick, init_tick[t])]
        /\ soft_list' = InsertTimer(rest, timeout_tick', t)
        /\ activated' = activated \cup {t} /\ UNCHANGED <<init_tick, halted>>
    BY <1>2 DEF StartTimer, rest
  <2>2. Plus(tick, init_tick[t]) \in Ticks
    BY TicksClosed DEF TypeOK
  <2>3. /\ soft_list' \in Seq(Timers) /\ Once(soft_list')
        /\ Members(soft_list') = Members(rest) \cup {t}
    BY <1>1, <2>1, PutInMembers
  <2>4. Members(soft_list)' = Members(soft_list) \cup {t}
    BY <1>1, <2>3 DEF Members
  <2>5. timeout_tick' \in [Timers -> Ticks] /\ halted' \in BOOLEAN
    BY <2>1, <2>2 DEF TypeOK
  <2>. QED BY <2>1, <2>3, <2>4, <2>5 DEF Once
<1>3. CASE ~(init_tick[t] < Half)
  <2>1. /\ soft_list' = rest /\ activated' = activated \ {t}
        /\ UNCHANGED <<init_tick, timeout_tick>>
    BY <1>3 DEF StartTimer, rest
  <2>2. halted' \in BOOLEAN
    BY <1>3, Zenon DEF StartTimer
  <2>3. Once(soft_list)' /\ Members(soft_list)' = Members(soft_list) \ {t}
    <3>1. Once(soft_list') /\ Members(soft_list') = Members(soft_list) \ {t}
      BY <1>1, <2>1
    <3>. QED BY <3>1 DEF Once, Members
  <2>. QED BY <1>1, <2>1, <2>2, <2>3 DEF TypeOK
<1>. QED BY <1>2, <1>3

\* ListInv depends on the list, the flags and the callback that runs only.
LEMMA ListKept ==
    ASSUME ListInv, UNCHANGED <<soft_list, activated, firing, in_list>>
    PROVE  ListInv'
  BY DEF ListInv, Once, Members

\* A step of another component leaves all this as it is.
LEMMA StructureKept ==
    ASSUME Structure, UNCHANGED vars
    PROVE  Structure'
  BY DEF Structure, TypeOK, ListInv, PlaceInv, Once, Members, Minus, vars, timers, thread

\* The timer thread on its way round its loop.
LEMMA LoopStructure ==
    ASSUME Structure,
           ThreadNext \/ ThreadSuspend \/ ThreadDelta \/ ThreadSleep \/ CheckDone
             \/ CallbackWait \/ CallbackWoken
    PROVE  Structure'
<1>. USE DEF Structure
<1>. USE SoftTimerConstants, TickModAssumption, HalfRange
<1>1. ListInv'
  BY ListKept DEF ThreadNext, ThreadSuspend, ThreadDelta, ThreadSleep, CheckDone, CallbackWait,
     CallbackWoken, timers
<1>2. CASE ThreadNext
  <2>1. missed' \in BOOLEAN
    BY <1>2 DEF ThreadNext
  <2>2. next_timeout' \in Ticks
    <3>1. soft_list # <<>> => Head(soft_list) \in Timers
      BY DEF TypeOK
    <3>. QED BY <1>2, <3>1 DEF ThreadNext, NextTimeout, TypeOK, Ticks, RT_TICK_MAX
  <2>3. TypeOK'
    BY <1>2, <2>1, <2>2 DEF ThreadNext, TypeOK, timers
  <2>4. PlaceInv'
    BY <1>2 DEF ThreadNext, PlaceInv, ThreadRuns, timers
  <2>. QED BY <1>1, <2>3, <2>4
<1>3. CASE ThreadSuspend
  <2>1. TypeOK'
    BY <1>3 DEF ThreadSuspend, TypeOK, timers, ThreadStats, Ticks
  <2>2. PlaceInv'
    BY <1>3 DEF ThreadSuspend, PlaceInv, ThreadRuns, timers
  <2>. QED BY <1>1, <2>1, <2>2
<1>4. CASE ThreadDelta
  <2>. DEFINE delta == Minus(next_timeout, tick)
  <2>1. delta \in Ticks
    BY TicksClosed DEF TypeOK
  <2>2. \/ delta < Half /\ pc' = "sleep" /\ next_timeout' = delta
        \/ ~(delta < Half) /\ pc' = "check" /\ next_timeout' = 0
    BY <1>4 DEF ThreadDelta
  <2>. HIDE DEF delta
  <2>3. TypeOK'
    BY <1>4, <2>1, <2>2 DEF ThreadDelta, TypeOK, timers, Ticks
  <2>4. PlaceInv'
    BY <1>4, <2>1, <2>2 DEF ThreadDelta, PlaceInv, ThreadRuns, timers
  <2>. QED BY <1>1, <2>3, <2>4
<1>5. CASE ThreadSleep
  <2>1. /\ wake' = Plus(tick, next_timeout) /\ tick' = tick
        /\ tick \in Ticks /\ next_timeout \in Ticks /\ next_timeout < Half
    BY <1>5 DEF ThreadSleep, TypeOK, PlaceInv
  <2>2. wake' \in Ticks
    BY <2>1, TicksClosed
  <2>3. Minus(wake', tick) = next_timeout
    BY <2>1, TicksClosed
  <2>4. TypeOK'
    BY <1>5, <2>2 DEF ThreadSleep, TypeOK, timers, ThreadStats, Ticks
  <2>5. PlaceInv'
    BY <1>5, <2>1, <2>3 DEF ThreadSleep, PlaceInv, ThreadRuns, timers
  <2>. QED BY <1>1, <2>4, <2>5
<1>6. CASE CheckDone
  <2>1. TypeOK' /\ PlaceInv'
    BY <1>6 DEF CheckDone, TypeOK, PlaceInv, ThreadRuns, timers
  <2>. QED BY <1>1, <2>1
<1>7. CASE CallbackWait \/ CallbackWoken
  <2>1. TypeOK' /\ PlaceInv'
    BY <1>7 DEF CallbackWait, CallbackWoken, TypeOK, PlaceInv, ThreadRuns, ThreadStats, timers
  <2>. QED BY <1>1, <2>1
<1>. QED BY <1>2, <1>3, <1>4, <1>5, <1>6, <1>7

\* A callback begins.
LEMMA FireStructure ==
    ASSUME Structure, CheckFire
    PROVE  Structure'
<1>. USE DEF Structure
<1>. DEFINE t == Head(soft_list)
<1>1. soft_list \in Seq(Timers) /\ t \in Timers /\ t \in Members(soft_list)
  <2>1. soft_list \in Seq(Timers) /\ soft_list # <<>>
    BY DEF CheckFire, HeadDue, TypeOK
  <2>2. 1 \in 1..Len(soft_list) /\ t = soft_list[1]
    BY <2>1
  <2>. QED BY <2>1, <2>2 DEF Members
<1>2. /\ soft_list' = _rt_timer_remove(soft_list, t)
      /\ activated' = IF t \in Periodic THEN activated ELSE activated \ {t}
      /\ firing' = t
  BY DEF CheckFire
<1>. HIDE DEF t
<1>3. /\ soft_list' \in Seq(Timers) /\ Once(soft_list')
      /\ Members(soft_list') = Members(soft_list) \ {t}
  BY <1>1, <1>2, RemovedMembers DEF ListInv
<1>4. Once(soft_list)' /\ Members(soft_list)' = Members(soft_list) \ {t}
  BY <1>3 DEF Once, Members
<1>5. pc # "callback" /\ firing \notin Timers /\ ~in_list
  <2>1. pc # "callback"
    BY DEF CheckFire
  <2>2. firing \notin Timers
    BY <2>1 DEF PlaceInv
  <2>. QED BY <2>1, <2>2 DEF ListInv
<1>6. in_list' = TRUE
  BY DEF CheckFire
<1>7. TypeOK'
  <2>1. in_list' \in BOOLEAN
    BY <1>6, Zenon
  <2>2. activated' \subseteq Timers /\ firing' \in Timers \cup {NoTimer}
    BY <1>1, <1>2 DEF TypeOK
  <2>. QED BY <1>3, <2>1, <2>2 DEF TypeOK, CheckFire
<1>8. ListInv'
  <2>1. (Members(soft_list) \subseteq activated)'
    BY <1>2, <1>4 DEF ListInv
  <2>2. ASSUME NEW u \in activated' \ Members(soft_list)' PROVE u = t
    BY <1>2, <1>4, <1>5 DEF ListInv
  <2>3. firing' \in Timers \ Members(soft_list)' /\ (firing' \in activated' => firing' \in Periodic)
    BY <1>1, <1>2, <1>4
  <2>. QED BY <1>2, <1>4, <1>6, <2>1, <2>2, <2>3 DEF ListInv
<1>9. PlaceInv'
  BY <1>1, <1>2 DEF CheckFire, PlaceInv, ThreadRuns
<1>. QED BY <1>7, <1>8, <1>9

\* A callback returns, and its timer is started again if it is to be.
LEMMA ReturnStructure ==
    ASSUME Structure, CallbackReturn
    PROVE  Structure'
<1>. USE SoftTimerConstants DEF Structure
<1>1. /\ firing \in Timers /\ firing' = NoTimer /\ in_list' = FALSE
      /\ pc' = "loop" /\ thread_stat = "run" /\ soft_timer_status' = "idle"
      /\ UNCHANGED <<tick, thread_stat, next_timeout, wake, caller, lag, missed>>
  BY DEF CallbackReturn, PlaceInv, ThreadRuns
<1>2. PlaceInv'
  BY <1>1 DEF PlaceInv
<1>3. in_list' \in BOOLEAN /\ ~in_list'
  BY <1>1, Zenon
<1>4. CASE Restarts(firing)
  <2>1. in_list /\ firing \in activated /\ StartTimer(firing)
    BY <1>4 DEF Restarts, CallbackReturn
  <2>2. /\ soft_list' \in Seq(Timers) /\ Once(soft_list)'
        /\ timeout_tick' \in [Timers -> Ticks] /\ init_tick' = init_tick
        /\ halted' \in BOOLEAN
        /\ \/ /\ Members(soft_list)' = Members(soft_list) \cup {firing}
              /\ activated' = activated \cup {firing}
           \/ /\ Members(soft_list)' = Members(soft_list) \ {firing}
              /\ activated' = activated \ {firing}
    BY <1>1, <2>1, StartEffect DEF ListInv
  <2>3. TypeOK'
    BY <1>1, <1>3, <2>2 DEF TypeOK
  <2>4. ListInv'
    BY <1>3, <2>2 DEF ListInv
  <2>. QED BY <1>2, <2>3, <2>4
<1>5. CASE ~Restarts(firing)
  <2>1. UNCHANGED <<soft_list, activated, init_tick, timeout_tick, halted>>
    BY <1>5 DEF CallbackReturn, timers
  <2>2. TypeOK'
    BY <1>1, <1>3, <2>1 DEF TypeOK
  <2>3. \A t \in activated : t \in Members(soft_list)
    BY <1>5 DEF Restarts, ListInv
  <2>4. ListInv'
    BY <1>3, <2>1, <2>3 DEF ListInv, Once, Members
  <2>. QED BY <1>2, <2>2, <2>4
<1>. QED BY <1>4, <1>5

\* The wake-up time of the sleeping thread comes nearer, or is reached.
LEMMA WakeNears ==
    ASSUME TypeOK, PlaceInv, Tick, thread_stat = "delay"
    PROVE  \/ thread_stat' = "run" /\ wake' = 0 /\ Minus(wake, tick) <= 1
           \/ /\ thread_stat' = "delay" /\ wake' = wake
              /\ Minus(wake, tick') = Minus(wake, tick) - 1
<1>. USE TickModAssumption, HalfRange
<1>1. tick \in Ticks /\ wake \in Ticks /\ tick' = Plus(tick, 1) /\ 1 \in Ticks
  BY DEF TypeOK, Tick, Ticks
<1>2. tick' = (IF tick + 1 < TickMod THEN tick + 1 ELSE tick + 1 - TickMod) /\ tick' \in Ticks
  BY <1>1, PlusWraps, TicksClosed
<1>3. Minus(wake, tick) = IF wake >= tick THEN wake - tick ELSE wake - tick + TickMod
  BY <1>1, MinusWraps
<1>4. Minus(wake, tick') = IF wake >= tick' THEN wake - tick' ELSE wake - tick' + TickMod
  BY <1>1, <1>2, MinusWraps
<1>5. Minus(tick', wake) = IF tick' >= wake THEN tick' - wake ELSE tick' - wake + TickMod
  BY <1>1, <1>2, MinusWraps
<1>6. Minus(wake, tick) < Half
  BY DEF PlaceInv
<1>. USE <1>1, <1>2, <1>3, <1>4, <1>5, <1>6 DEF Ticks
<1>7. CASE Minus(tick', wake) < Half
  <2>1. thread_stat' = "run" /\ wake' = 0
    BY <1>7 DEF Tick, Expired
  <2>2. Minus(wake, tick) <= 1
    BY <1>7
  <2>. QED BY <2>1, <2>2
<1>8. CASE ~(Minus(tick', wake) < Half)
  <2>1. thread_stat' = "delay" /\ wake' = wake
    BY <1>8 DEF Tick, Expired
  <2>2. Minus(wake, tick') = Minus(wake, tick) - 1
    BY <1>8
  <2>. QED BY <2>1, <2>2
<1>. QED BY <1>7, <1>8

\* The tick interrupt.
LEMMA TickStructure ==
    ASSUME Structure, Tick
    PROVE  Structure'
<1>. USE SoftTimerConstants, TickModAssumption, HalfRange DEF Structure
<1>1. UNCHANGED <<soft_list, activated, init_tick, timeout_tick, soft_timer_status, pc,
                  next_timeout, firing, in_list, caller, halted, missed>>
  BY DEF Tick, timers
<1>2. ListInv'
  BY <1>1, ListKept
<1>3. tick' \in Ticks
  <2>1. tick' = Plus(tick, 1) /\ tick \in Ticks /\ 1 \in Ticks
    BY DEF Tick, TypeOK, Ticks
  <2>. QED BY <2>1, TicksClosed
<1>4. lag' \in 0..MaxLag
  BY DEF Tick, TypeOK
<1>5. thread_stat' \in ThreadStats /\ wake' \in Ticks
  BY DEF Tick, TypeOK, ThreadStats, Ticks
<1>6. TypeOK'
  BY <1>1, <1>3, <1>4, <1>5 DEF TypeOK
<1>7. PlaceInv'
  <2>1. CASE thread_stat = "delay"
    <3>1. Minus(wake, tick) \in Ticks /\ Minus(wake, tick') \in Ticks
      BY <1>3, TicksClosed DEF TypeOK
    <3>2. thread_stat' = "delay" => Minus(wake, tick)' < Half
      <4>1. thread_stat' = "delay" => wake' = wake /\ Minus(wake, tick') = Minus(wake, tick) - 1
        BY <2>1, WakeNears
      <4>2. Minus(wake, tick) < Half
        BY <2>1 DEF PlaceInv
      <4>3. thread_stat' = "delay" => Minus(wake', tick') < Half
        BY <3>1, <4>1, <4>2 DEF Ticks
      <4>. QED BY <4>3 DEF Minus
    <3>3. thread_stat' \in {"run", "delay"}
      BY <2>1, WakeNears
    <3>. QED BY <1>1, <2>1, <3>2, <3>3 DEF PlaceInv
  <2>2. CASE thread_stat # "delay"
    <3>1. thread_stat' = thread_stat
      BY <2>2 DEF Tick
    <3>. QED BY <1>1, <2>2, <3>1 DEF PlaceInv
  <2>. QED BY <2>1, <2>2
<1>. QED BY <1>2, <1>6, <1>7

\* The caller's steps that leave the list alone.
LEMMA CallStructure ==
    ASSUME Structure,
           \/ \E t \in Timers, p \in Periods : rt_timer_control(t, p)
           \/ \E t \in Timers : rt_timer_stop(t)
           \/ StartCheck \/ StartResume
    PROVE  Structure'
<1>. USE SoftTimerConstants, TickModAssumption, HalfRange DEF Structure
<1>1. ListInv'
  BY ListKept DEF rt_timer_control, rt_timer_stop, StartCheck, StartResume, thread, timers
<1>2. ASSUME NEW t \in Timers, NEW p \in Periods, rt_timer_control(t, p) PROVE Structure'
  <2>1. TypeOK'
    BY <1>2 DEF rt_timer_control, TypeOK, thread
  <2>2. PlaceInv'
    BY <1>2 DEF rt_timer_control, PlaceInv, thread
  <2>. QED BY <1>1, <2>1, <2>2
<1>3. ASSUME NEW t \in Timers, rt_timer_stop(t) PROVE Structure'
  <2>0. caller' = [at |-> "stop", timer |-> t]
    BY <1>3 DEF rt_timer_stop
  <2>1. TypeOK'
    BY <1>3, <2>0 DEF rt_timer_stop, TypeOK, thread, timers
  <2>2. PlaceInv'
    BY <1>3, <2>0 DEF rt_timer_stop, PlaceInv, thread, timers
  <2>. QED BY <1>1, <2>1, <2>2
<1>4. CASE StartCheck
  <2>0. /\ caller' = [caller EXCEPT !.at = "resume"] \/ caller' = Idle
        /\ caller \in [at : {"idle", "start", "check", "resume", "stop"}, timer : Timers \cup {NoTimer}]
    BY <1>4 DEF StartCheck, CallEnds, TypeOK
  <2>1. /\ caller' \in [at : {"idle", "start", "check", "resume", "stop"},
                        timer : Timers \cup {NoTimer}]
        /\ caller'.at # "stop"
    BY <2>0 DEF Idle
  <2>2. lag' \in 0..MaxLag
    BY <1>4 DEF StartCheck, CallEnds, TypeOK
  <2>3. TypeOK'
    BY <1>4, <2>1, <2>2 DEF StartCheck, TypeOK, thread, timers
  <2>4. PlaceInv'
    BY <1>4, <2>1 DEF StartCheck, PlaceInv, thread, timers
  <2>. QED BY <1>1, <2>3, <2>4
<1>5. CASE StartResume
  <2>0. caller' = Idle
    BY <1>5 DEF StartResume
  <2>1. TypeOK'
    BY <1>5, <2>0 DEF StartResume, TypeOK, timers, Idle, ThreadStats, Ticks
  <2>2. PlaceInv'
    BY <1>5, <2>0 DEF StartResume, PlaceInv, timers, Idle
  <2>. QED BY <1>1, <2>1, <2>2
<1>. QED BY <1>2, <1>3, <1>4, <1>5

\* rt_timer_start by the caller; a callback of that timer that is running is not
\* to start it once more.
LEMMA StartStructure ==
    ASSUME Structure, NEW t \in Timers, rt_timer_start(t)
    PROVE  Structure'
<1>. USE SoftTimerConstants DEF Structure
<1>1. /\ StartTimer(t) /\ caller' = [at |-> "check", timer |-> t]
      /\ in_list' = (in_list /\ firing # t)
      /\ UNCHANGED <<tick, soft_timer_status, thread_stat, pc, next_timeout, wake, firing, lag, missed>>
  BY DEF rt_timer_start
<1>2. /\ soft_list' \in Seq(Timers) /\ Once(soft_list)'
      /\ timeout_tick' \in [Timers -> Ticks] /\ init_tick' = init_tick
      /\ halted' \in BOOLEAN
      /\ \/ /\ Members(soft_list)' = Members(soft_list) \cup {t}
            /\ activated' = activated \cup {t}
         \/ /\ Members(soft_list)' = Members(soft_list) \ {t}
            /\ activated' = activated \ {t}
  BY <1>1, StartEffect DEF ListInv
<1>3. in_list' \in BOOLEAN
  BY <1>1, Zenon
<1>4. TypeOK'
  BY <1>1, <1>2, <1>3 DEF TypeOK
<1>5. ListInv'
  BY <1>1, <1>2 DEF ListInv
<1>6. PlaceInv'
  BY <1>1 DEF PlaceInv
<1>. QED BY <1>4, <1>5, <1>6

\* The second half of rt_timer_stop.
LEMMA StopStructure ==
    ASSUME Structure, StopRemove
    PROVE  Structure'
<1>. USE SoftTimerConstants DEF Structure
<1>. DEFINE t == caller.timer
<1>1. /\ t \in Timers
      /\ soft_list' = _rt_timer_remove(soft_list, t) /\ activated' = activated \ {t}
      /\ in_list' = (in_list /\ firing # t)
      /\ caller' = Idle /\ lag' = IF thread_stat = "wait" THEN lag ELSE 0
      /\ UNCHANGED <<tick, init_tick, timeout_tick, soft_timer_status, thread_stat, pc,
                     next_timeout, wake, firing, halted, missed>>
  BY DEF StopRemove, PlaceInv, CallEnds
<1>. HIDE DEF t
<1>2. /\ soft_list' \in Seq(Timers) /\ Once(soft_list')
      /\ Members(soft_list') = Members(soft_list) \ {t}
  <2>1. soft_list \in Seq(Timers) /\ Once(soft_list)
    BY DEF ListInv, TypeOK
  <2>. QED BY <1>1, <2>1, RemovedMembers
<1>3. Once(soft_list)' /\ Members(soft_list)' = Members(soft_list) \ {t}
  BY <1>2 DEF Once, Members
<1>4. in_list' \in BOOLEAN
  BY <1>1, Zenon
<1>5. TypeOK'
  BY <1>1, <1>2, <1>4 DEF TypeOK, Idle
<1>6. ListInv'
  BY <1>1, <1>3 DEF ListInv
<1>7. PlaceInv'
  BY <1>1 DEF PlaceInv, Idle
<1>. QED BY <1>5, <1>6, <1>7

-----------------------------------------------------------------------------
(* The order of the timeouts, and the sleep of the timer thread.           *)

\* The distance to the farthest timeout that can be set.
LEMMA HalfMinus ==
    ASSUME NEW a \in Ticks, NEW b \in Ticks
    PROVE  Minus(a + Half, b) = IF a + Half < b THEN a + Half - b + TickMod
                                ELSE IF a + Half - b < TickMod THEN a + Half - b
                                ELSE a + Half - b - TickMod
<1>1. a \in 0..TickMod-1 /\ b \in 0..TickMod-1 /\ TickMod \in Nat /\ TickMod >= 8
  BY TickModAssumption DEF Ticks
<1>2. Half \in Nat /\ 2 * Half + 1 <= TickMod
  BY HalfRange
<1>. QED BY <1>1, <1>2 DEF Minus

\* Ages are ticks.
LEMMA AgeIsTick ==
    ASSUME TypeOK, NEW t \in Timers
    PROVE  Age(t) \in Ticks
<1>1. tick \in Ticks /\ timeout_tick[t] \in Ticks
  BY DEF TypeOK
<1>2. Age(t) = IF tick + Half < timeout_tick[t] THEN tick + Half - timeout_tick[t] + TickMod
               ELSE IF tick + Half - timeout_tick[t] < TickMod THEN tick + Half - timeout_tick[t]
               ELSE tick + Half - timeout_tick[t] - TickMod
  BY <1>1, HalfMinus DEF Age
<1>. QED BY <1>1, <1>2, HalfRange, TickModAssumption DEF Ticks

\* Every age goes up by one with the tick, as long as nothing is too late.
LEMMA AgeGrows ==
    ASSUME TypeOK, Tick, NEW t \in Timers, Age(t) < TickMod - 1
    PROVE  Age(t)' = Age(t) + 1
<1>1. tick \in Ticks /\ timeout_tick[t] \in Ticks /\ 1 \in Ticks
  BY TickModAssumption DEF TypeOK, Ticks
<1>2. tick' = Plus(tick, 1) /\ timeout_tick' = timeout_tick
  BY DEF Tick, timers
<1>3. tick' = IF tick + 1 < TickMod THEN tick + 1 ELSE tick + 1 - TickMod
  BY <1>1, <1>2, PlusWraps
<1>4. tick' \in Ticks
  BY <1>1, <1>2, TicksClosed
<1>5. Age(t) = IF tick + Half < timeout_tick[t] THEN tick + Half - timeout_tick[t] + TickMod
               ELSE IF tick + Half - timeout_tick[t] < TickMod THEN tick + Half - timeout_tick[t]
               ELSE tick + Half - timeout_tick[t] - TickMod
  BY <1>1, HalfMinus DEF Age
<1>6. Minus(tick' + Half, timeout_tick[t])
         = IF tick' + Half < timeout_tick[t] THEN tick' + Half - timeout_tick[t] + TickMod
           ELSE IF tick' + Half - timeout_tick[t] < TickMod THEN tick' + Half - timeout_tick[t]
           ELSE tick' + Half - timeout_tick[t] - TickMod
  BY <1>1, <1>4, HalfMinus
<1>7. Minus(tick' + Half, timeout_tick[t]) = Age(t) + 1
  BY <1>1, <1>3, <1>5, <1>6, HalfRange, TickModAssumption DEF Ticks
<1>. QED BY <1>2, <1>7 DEF Age

\* The ages depend on the tick and the timeouts only.
LEMMA AgesKept ==
    ASSUME UNCHANGED <<tick, timeout_tick>>
    PROVE  Ages' = Ages /\ \A t \in Timers : Age(t)' = Age(t)
  BY DEF Ages, Age, Minus

\* Of the timers in the list the first is the oldest.
LEMMA HeadOldest ==
    ASSUME TypeOK, Descending(soft_list, Ages), NEW t \in Members(soft_list)
    PROVE  /\ soft_list # <<>> /\ Head(soft_list) \in Timers /\ t \in Timers
           /\ Head(soft_list) \in Members(soft_list)
           /\ Age(t) <= Age(Head(soft_list))
<1>1. soft_list \in Seq(Timers)
  BY DEF TypeOK
<1>2. PICK i \in 1..Len(soft_list) : t = soft_list[i]
  BY DEF Members
<1>3. soft_list # <<>> /\ 1 \in 1..Len(soft_list) /\ Head(soft_list) = soft_list[1]
  BY <1>1
<1>4. t \in Timers /\ Head(soft_list) \in Timers
  BY <1>1, <1>2, <1>3
<1>5. Age(t) \in Ticks /\ Age(Head(soft_list)) \in Ticks
  BY <1>4, AgeIsTick
<1>6. Ages[Head(soft_list)] = Age(Head(soft_list)) /\ Ages[t] = Age(t)
  BY <1>4 DEF Ages
<1>7. i = 1 \/ 1 < i
  OBVIOUS
<1>8. Age(t) <= Age(Head(soft_list))
  <2>1. CASE i = 1
    BY <1>2, <1>3, <1>5, <2>1 DEF Ticks
  <2>2. CASE 1 < i
    <3>1. Ages[soft_list[1]] >= Ages[soft_list[i]]
      BY <1>3, <2>2 DEF Descending
    <3>. QED BY <1>2, <1>3, <1>5, <1>6, <3>1 DEF Ticks
  <2>. QED BY <1>7, <2>1, <2>2
<1>. QED BY <1>2, <1>3, <1>4, <1>8 DEF Members

\* The search loop of rt_timer_start compares as the ages do: the farthest timeout
\* and the one that is overdue most are less than half the range apart.
LEMMA SearchByAge ==
    ASSUME NEW now \in Ticks, NEW a \in Ticks, NEW p \in Periods, p < Half,
           1 <= Minus(now + Half, a), Minus(now + Half, a) <= Half + 2 * MaxLag + 1
    PROVE  /\ Plus(now, p) \in Ticks
           /\ Minus(now + Half, Plus(now, p)) = Half - p
           /\ StopsSearch(a, Plus(now, p)) <=> Minus(now + Half, a) < Half - p
<1>. DEFINE b == Plus(now, p)
<1>0. p \in Ticks /\ MaxLag \in Nat /\ p + 2 * MaxLag + 1 <= TickMod - Half
  BY SoftTimerConstants, LatenessAssumption
<1>1. b = IF now + p < TickMod THEN now + p ELSE now + p - TickMod
  BY <1>0, PlusWraps
<1>2. b \in Ticks
  BY <1>0, TicksClosed
<1>. HIDE DEF b
<1>3. Minus(now + Half, a) = IF now + Half < a THEN now + Half - a + TickMod
                             ELSE IF now + Half - a < TickMod THEN now + Half - a
                             ELSE now + Half - a - TickMod
  BY HalfMinus
<1>4. Minus(now + Half, b) = IF now + Half < b THEN now + Half - b + TickMod
                             ELSE IF now + Half - b < TickMod THEN now + Half - b
                             ELSE now + Half - b - TickMod
  BY <1>2, HalfMinus
<1>5. Minus(a, b) = IF a >= b THEN a - b ELSE a - b + TickMod
  BY <1>2, MinusWraps
<1>6. Minus(now + Half, b) = Half - p
  BY <1>0, <1>1, <1>2, <1>4, HalfRange, TickModAssumption DEF Ticks
<1>7. \/ Minus(a, b) = Half - p - Minus(now + Half, a)
      \/ Minus(a, b) = Half - p - Minus(now + Half, a) + TickMod
      \/ Minus(a, b) = Half - p - Minus(now + Half, a) - TickMod
  BY <1>0, <1>1, <1>2, <1>3, <1>5, HalfRange, TickModAssumption DEF Ticks
<1>8. Minus(a, b) \in 0..TickMod-1
  BY <1>2, TicksClosed DEF Ticks
<1>9. Minus(a, b) # 0 /\ Minus(a, b) < Half <=> Minus(now + Half, a) < Half - p
  <2>1. Minus(now + Half, a) \in Int
    BY <1>3, HalfRange, TickModAssumption DEF Ticks
  <2>. QED BY <1>0, <1>7, <1>8, <2>1, HalfRange, TickModAssumption DEF Ticks
<1>. QED BY <1>2, <1>6, <1>9 DEF StopsSearch, b

\* rt_timer_start keeps the order and sets no timeout out of reach.
LEMMA StartTiming ==
    ASSUME TypeOK, Once(soft_list), init_tick \in [Timers -> Periods], NEW t \in Timers, StartTimer(t),
           UNCHANGED <<tick, lag>>, Descending(soft_list, Ages), InTime
    PROVE  Descending(soft_list, Ages)' /\ InTime'
<1>. DEFINE rest == _rt_timer_remove(soft_list, t)
            F == [u \in Timers |-> Minus(tick + Half, timeout_tick'[u])]
<1>0. soft_list \in Seq(Timers) /\ tick \in Ticks /\ timeout_tick \in [Timers -> Ticks] /\ lag \in 0..MaxLag
  BY DEF TypeOK
<1>1. rest \in Seq(Timers) /\ Once(rest) /\ Members(rest) = Members(soft_list) \ {t}
  BY <1>0, RemovedMembers
<1>2. \A u \in Timers : Age(u) \in Int
  BY AgeIsTick DEF Ticks
<1>3. Ages \in [Timers -> Int]
  BY <1>2 DEF Ages
<1>4. Descending(rest, Ages)
  BY <1>0, <1>3, RemovedInOrder
<1>. HIDE DEF rest
<1>5. CASE ~(init_tick[t] < Half)
  <2>1. soft_list' = rest /\ UNCHANGED <<tick, timeout_tick, lag>>
    BY <1>5 DEF StartTimer, rest
  <2>2. Ages' = Ages /\ \A u \in Timers : Age(u)' = Age(u)
    BY <2>1, AgesKept
  <2>3. Descending(soft_list, Ages)'
    BY <1>4, <2>1, <2>2 DEF Descending
  <2>4. Members(soft_list)' = Members(soft_list) \ {t} /\ Members(soft_list) \subseteq Timers
    <3>1. Members(soft_list') = Members(soft_list) \ {t}
      BY <1>1, <2>1
    <3>2. Members(soft_list)' = Members(soft_list')
      BY DEF Members
    <3>3. Members(soft_list) \subseteq Timers
      BY <1>0 DEF Members
    <3>. QED BY <3>1, <3>2, <3>3
  <2>5. InTime'
    BY <2>1, <2>2, <2>4 DEF InTime
  <2>. QED BY <2>3, <2>5
<1>6. CASE init_tick[t] < Half
  <2>. DEFINE p == init_tick[t]
  <2>1. /\ timeout_tick' = [timeout_tick EXCEPT ![t] = Plus(tick, p)]
        /\ soft_list' = InsertTimer(rest, timeout_tick', t)
    BY <1>6 DEF StartTimer, rest
  <2>2. p \in Periods /\ p < Half
    BY <1>6
  <2>3. p \in Ticks /\ MaxLag \in Nat
    BY <2>2, SoftTimerConstants
  <2>. HIDE DEF p
  <2>4. timeout_tick'[t] = Plus(tick, p) /\ \A u \in Timers \ {t} : timeout_tick'[u] = timeout_tick[u]
    BY <1>0, <2>1
  <2>5. ASSUME NEW u \in Members(soft_list)
        PROVE  u \in Timers /\ 1 <= Age(u) /\ Age(u) <= Half + 2 * MaxLag + 1
    <3>1. u \in Timers
      BY <1>0 DEF Members
    <3>2. 1 <= Age(u) /\ Age(u) <= Half + MaxLag + 1 + lag
      BY DEF InTime
    <3>. QED BY <1>0, <1>2, <2>3, <3>1, <3>2, HalfRange
  <2>6. Plus(tick, p) \in Ticks /\ Minus(tick + Half, Plus(tick, p)) = Half - p
    <3>1. Plus(tick, p) = IF tick + p < TickMod THEN tick + p ELSE tick + p - TickMod
      BY <1>0, <2>3, PlusWraps
    <3>2. Plus(tick, p) \in Ticks
      BY <1>0, <2>3, TicksClosed
    <3>3. Minus(tick + Half, Plus(tick, p))
            = IF tick + Half < Plus(tick, p) THEN tick + Half - Plus(tick, p) + TickMod
              ELSE IF tick + Half - Plus(tick, p) < TickMod THEN tick + Half - Plus(tick, p)
              ELSE tick + Half - Plus(tick, p) - TickMod
      BY <1>0, <3>2, HalfMinus
    <3>. DEFINE q == Plus(tick, p)
                d == Minus(tick + Half, q)
    <3>4. /\ tick \in Int /\ p \in Int /\ Half \in Int /\ TickMod \in Int
          /\ 0 <= tick /\ tick < TickMod /\ 0 <= p /\ p < Half /\ Half < TickMod
      BY <1>0, <2>2, <2>3, HalfRange, TickModAssumption DEF Ticks
    <3>5. q \in Int
      BY <3>1, <3>4
    <3>. HIDE DEF q, d
    <3>6. CASE tick + p < TickMod
      <4>1. q = tick + p
        BY <3>1, <3>6 DEF q
      <4>. QED BY <3>2, <3>3, <3>4, <4>1 DEF q
    <3>7. CASE ~(tick + p < TickMod)
      <4>1. q = tick + p - TickMod
        BY <3>1, <3>7 DEF q
      <4>. QED BY <3>2, <3>3, <3>4, <3>7, <4>1 DEF q
    <3>. QED BY <3>6, <3>7
  <2>7. ASSUME NEW u \in Members(rest)
        PROVE  /\ u \in Timers \ {t} /\ F[u] = Age(u)
               /\ StopsSearch(timeout_tick'[u], timeout_tick'[t]) <=> F[u] < F[t]
    <3>1. u \in Members(soft_list) /\ u # t
      BY <1>1
    <3>2. u \in Timers /\ 1 <= Age(u) /\ Age(u) <= Half + 2 * MaxLag + 1
      BY <2>5, <3>1
    <3>3. timeout_tick'[u] = timeout_tick[u] /\ timeout_tick[u] \in Ticks
      BY <1>0, <2>4, <3>1, <3>2
    <3>4. StopsSearch(timeout_tick[u], Plus(tick, p)) <=> Age(u) < Half - p
      BY <1>0, <2>2, <3>2, <3>3, SearchByAge DEF Age
    <3>5. F[u] = Age(u) /\ F[t] = Half - p
      BY <2>4, <2>6, <3>2, <3>3 DEF Age
    <3>. QED BY <2>4, <3>1, <3>2, <3>3, <3>4, <3>5
  <2>8. F \in [Timers -> Int] /\ \A u \in Members(rest) : F[u] = Ages[u] /\ u \in Timers
    <3>1. ASSUME NEW u \in Timers PROVE F[u] \in Int
      <4>1. timeout_tick'[u] \in Ticks
        BY <1>0, <2>4, <2>6
      <4>2. TickMod \in Nat /\ TickMod > 0 /\ Half \in Int
        BY TickModAssumption, HalfRange
      <4>. QED BY <1>0, <4>1, <4>2 DEF Minus, Ticks
    <3>. QED BY <2>7, <3>1 DEF Ages
  <2>. HIDE DEF F
  <2>9. Descending(rest, F)
    <3>1. ASSUME NEW i \in 1..Len(rest) PROVE F[rest[i]] = Ages[rest[i]]
      BY <2>8 DEF Members
    <3>. QED BY <1>4, <3>1 DEF Descending
  <2>10. Descending(soft_list', F)
    BY <1>1, <2>1, <2>7, <2>8, <2>9, PutInOrder
  <2>11. Ages' = F /\ \A u \in Timers : Age(u)' = F[u]
    BY DEF Ages, Age, F, Minus
  <2>12. Descending(soft_list, Ages)'
    BY <2>10, <2>11 DEF Descending
  <2>13. Members(soft_list)' = Members(rest) \cup {t}
    <3>1. Members(soft_list') = Members(rest) \cup {t}
      BY <1>1, <2>1, PutInMembers
    <3>. QED BY <3>1 DEF Members
  <2>14. Age(t)' = Half - p
    BY <2>4, <2>6 DEF Age, Minus
  <2>15. ASSUME NEW u \in Members(soft_list)' PROVE 1 <= Age(u)' /\ Age(u)' <= Half + MaxLag + 1 + lag'
    <3>1. CASE u = t
      BY <1>0, <2>2, <2>3, <2>14, <3>1, HalfRange DEF Ticks
    <3>2. CASE u \in Members(rest)
      <4>1. Age(u)' = Age(u) /\ u \in Members(soft_list)
        BY <1>1, <2>7, <2>11, <3>2
      <4>. QED BY <4>1 DEF InTime
    <3>. QED BY <2>13, <3>1, <3>2
  <2>. QED BY <2>12, <2>15 DEF InTime
<1>. QED BY <1>5, <1>6

\* Taking a timer out keeps the order, and leaves no other one later.
LEMMA TakeTiming ==
    ASSUME TypeOK, Once(soft_list), NEW t \in Timers, soft_list' = _rt_timer_remove(soft_list, t),
           UNCHANGED <<tick, timeout_tick>>, Descending(soft_list, Ages)
    PROVE  /\ Descending(soft_list, Ages)'
           /\ Members(soft_list)' = Members(soft_list) \ {t}
           /\ \A u \in Timers : Age(u)' = Age(u)
           /\ soft_list' # <<>> => /\ soft_list # <<>>
                                   /\ Head(soft_list') \in Members(soft_list)
                                   /\ Age(Head(soft_list))' <= Age(Head(soft_list))
<1>0. soft_list \in Seq(Timers)
  BY DEF TypeOK
<1>1. /\ soft_list' \in Seq(Timers) /\ Members(soft_list') = Members(soft_list) \ {t}
  BY <1>0, RemovedMembers
<1>2. Ages \in [Timers -> Int]
  BY AgeIsTick DEF Ages, Ticks
<1>3. Ages' = Ages /\ \A u \in Timers : Age(u)' = Age(u)
  BY AgesKept
<1>4. Descending(soft_list', Ages)
  BY <1>0, <1>2, RemovedInOrder
<1>5. Descending(soft_list, Ages)'
  BY <1>3, <1>4 DEF Descending
<1>6. Members(soft_list)' = Members(soft_list) \ {t}
  BY <1>1 DEF Members
<1>7. ASSUME soft_list' # <<>>
      PROVE  /\ soft_list # <<>> /\ Head(soft_list') \in Members(soft_list)
             /\ Age(Head(soft_list))' <= Age(Head(soft_list))
  <2>. DEFINE h == Head(soft_list')
  <2>1. 1 \in 1..Len(soft_list') /\ h = soft_list'[1]
    BY <1>1, <1>7
  <2>2. h \in Members(soft_list')
    BY <2>1 DEF Members
  <2>3. h \in Members(soft_list)
    BY <1>1, <2>2
  <2>. HIDE DEF h
  <2>4. soft_list # <<>> /\ h \in Timers /\ Age(h) <= Age(Head(soft_list))
    BY <2>3, HeadOldest
  <2>5. Minus(tick + Half, timeout_tick[h]) = Age(h)
    BY DEF Age
  <2>6. Age(Head(soft_list))' = Age(h)
    BY <2>5 DEF Age, h, Minus
  <2>. QED BY <2>3, <2>4, <2>6 DEF h
<1>. QED BY <1>3, <1>5, <1>6, <1>7

\* Timing depends on what is listed, when it is due, and where thread and caller are.
LEMMA TimingKept ==
    ASSUME UNCHANGED <<soft_list, tick, timeout_tick>>
    PROVE  /\ Descending(soft_list, Ages)' = Descending(soft_list, Ages)
           /\ Members(soft_list)' = Members(soft_list)
           /\ soft_list # <<>> => Age(Head(soft_list))' = Age(Head(soft_list))
           /\ \A t \in Timers : Age(t)' = Age(t)
<1>1. Ages' = Ages /\ \A t \in Timers : Age(t)' = Age(t)
  BY AgesKept
<1>2. Descending(soft_list, Ages)' = Descending(soft_list, Ages)
  BY <1>1 DEF Descending
<1>3. Members(soft_list)' = Members(soft_list)
  BY DEF Members
<1>4. soft_list # <<>> => Age(Head(soft_list))' = Age(Head(soft_list))
  BY DEF Age, Minus
<1>. QED BY <1>1, <1>2, <1>3, <1>4

\* The steps of the timer thread that read the list, and those of a callback that waits.
LEMMA LoopTiming ==
    ASSUME Structure, Timing,
           ThreadNext \/ ThreadSuspend \/ ThreadDelta \/ ThreadSleep \/ CheckDone
             \/ CallbackWait \/ CallbackWoken
    PROVE  Timing'
<1>. SUFFICES ASSUME ~missed' PROVE (Descending(soft_list, Ages) /\ InTime /\ Reading)'
  BY DEF Timing
<1>. USE SoftTimerConstants DEF Structure
<1>1. ~missed
  <2>1. CASE ThreadNext
    BY <2>1 DEF ThreadNext
  <2>2. CASE ~ThreadNext
    BY <2>2 DEF ThreadSuspend, ThreadDelta, ThreadSleep, CheckDone, CallbackWait, CallbackWoken
  <2>. QED BY <2>1, <2>2
<1>2. Descending(soft_list, Ages) /\ InTime /\ Reading
  BY <1>1 DEF Timing
<1>3. UNCHANGED <<soft_list, tick, timeout_tick>>
  BY DEF ThreadNext, ThreadSuspend, ThreadDelta, ThreadSleep, CheckDone, CallbackWait,
         CallbackWoken, timers
<1>4. /\ Descending(soft_list, Ages)' /\ Members(soft_list)' = Members(soft_list)
      /\ soft_list # <<>> => Age(Head(soft_list))' = Age(Head(soft_list))
      /\ \A t \in Timers : Age(t)' = Age(t)
  BY <1>2, <1>3, TimingKept
<1>5. /\ soft_list \in Seq(Timers) /\ Members(soft_list) \subseteq Timers
      /\ \A t \in Timers : Age(t) \in Ticks
  <2>1. soft_list \in Seq(Timers)
    BY DEF TypeOK
  <2>. QED BY <2>1, AgeIsTick DEF Members
<1>6. ASSUME UNCHANGED lag PROVE InTime'
  BY <1>2, <1>4, <1>5, <1>6 DEF InTime
<1>7. CASE ThreadNext
  <2>1. /\ pc' = "branch" /\ thread_stat' = "run" /\ UNCHANGED lag
        /\ next_timeout' = NextTimeout(soft_list, timeout_tick)
        /\ missed' = (missed \/ (soft_list # <<>> /\ next_timeout' = RT_TICK_MAX))
    BY <1>7 DEF ThreadNext, ThreadRuns
  <2>2. soft_list # <<>> => next_timeout' # RT_TICK_MAX
    BY <2>1
  <2>3. next_timeout' = NextTimeout(soft_list, timeout_tick)'
    BY <1>3, <2>1 DEF NextTimeout
  <2>4. Reading'
    BY <1>3, <2>1, <2>2, <2>3 DEF Reading
  <2>. QED BY <1>4, <1>6, <2>1, <2>4
<1>8. CASE ThreadSuspend
  <2>1. pc' = "check" /\ thread_stat' = "suspend" /\ pc = "branch" /\ next_timeout = RT_TICK_MAX
    BY <1>8 DEF ThreadSuspend
  <2>2. soft_list = <<>>
    BY <1>2, <2>1 DEF Reading
  <2>3. Members(soft_list)' = {}
    BY <1>3, <2>2 DEF Members
  <2>4. InTime'
    BY <2>3 DEF InTime
  <2>5. Reading'
    BY <1>3, <2>1, <2>2 DEF Reading
  <2>. QED BY <1>4, <2>4, <2>5
<1>9. CASE ThreadDelta
  <2>. DEFINE delta == Minus(next_timeout, tick)
  <2>1. /\ pc = "branch" /\ thread_stat' = "run" /\ UNCHANGED lag /\ next_timeout # RT_TICK_MAX
        /\ \/ delta < Half /\ pc' = "sleep" /\ next_timeout' = delta
           \/ ~(delta < Half) /\ pc' = "check" /\ next_timeout' = 0
    BY <1>9 DEF ThreadDelta, ThreadRuns
  <2>2. next_timeout = NextTimeout(soft_list, timeout_tick)
    BY <1>2, <2>1 DEF Reading
  <2>3. /\ soft_list # <<>> /\ next_timeout = timeout_tick[Head(soft_list)]
    BY <2>1, <2>2 DEF NextTimeout
  <2>4. next_timeout \in Ticks /\ tick \in Ticks /\ lag \in 0..MaxLag
    BY DEF TypeOK
  <2>5. delta = IF next_timeout >= tick THEN next_timeout - tick ELSE next_timeout - tick + TickMod
    BY <2>4, MinusWraps
  <2>6. Age(Head(soft_list))
          = IF tick + Half < next_timeout THEN tick + Half - next_timeout + TickMod
            ELSE IF tick + Half - next_timeout < TickMod THEN tick + Half - next_timeout
            ELSE tick + Half - next_timeout - TickMod
    BY <2>3, <2>4, HalfMinus DEF Age
  <2>. HIDE DEF delta
  <2>7. delta < Half => Age(Head(soft_list)) <= Half - delta + lag
    BY <2>4, <2>5, <2>6, HalfRange, TickModAssumption DEF Ticks
  <2>8. pc' = "sleep" => Age(Head(soft_list))' <= Half - next_timeout' + lag'
    BY <1>4, <2>1, <2>3, <2>7
  <2>9. Reading'
    BY <1>3, <2>1, <2>3, <2>8 DEF Reading
  <2>. QED BY <1>4, <1>6, <2>1, <2>9
<1>10. CASE ThreadSleep
  <2>1. /\ pc = "sleep" /\ pc' = "check" /\ thread_stat' = "delay" /\ lag' = 0
        /\ wake' = Plus(tick, next_timeout)
    BY <1>10 DEF ThreadSleep
  <2>2. next_timeout \in Ticks /\ tick \in Ticks /\ lag \in 0..MaxLag /\ MaxLag \in Nat
    BY DEF TypeOK
  <2>3. Minus(wake', tick) = next_timeout
    BY <2>1, <2>2, TicksClosed
  <2>4. soft_list # <<>> /\ Age(Head(soft_list)) <= Half - next_timeout + lag
    BY <1>2, <2>1 DEF Reading
  <2>5. Head(soft_list) \in Timers
    BY <1>5, <2>4
  <2>6. Age(Head(soft_list)) \in Ticks
    BY <1>5, <2>5
  <2>7. Age(Head(soft_list))' <= Half + MaxLag - Minus(wake', tick)
    BY <1>4, <2>2, <2>3, <2>4, <2>6, HalfRange DEF Ticks
  <2>8. Age(Head(soft_list))' <= Half + MaxLag - Minus(wake, tick)'
    BY <1>3, <2>7 DEF Minus
  <2>9. Reading'
    BY <1>3, <2>1, <2>8 DEF Reading
  <2>10. ASSUME NEW t \in Members(soft_list)
         PROVE  1 <= Age(t)' /\ Age(t)' <= Half + MaxLag + 1 + lag'
    <3>1. t \in Timers /\ Age(t) <= Age(Head(soft_list))
      BY <1>2, HeadOldest
    <3>2. 1 <= Age(t) /\ Age(t) \in Ticks /\ Age(t)' = Age(t)
      BY <1>2, <1>4, <1>5, <3>1 DEF InTime
    <3>. QED BY <2>1, <2>2, <2>4, <2>6, <3>1, <3>2, HalfRange DEF Ticks
  <2>11. InTime'
    BY <1>4, <2>10 DEF InTime
  <2>. QED BY <1>4, <2>9, <2>11
<1>11. CASE CheckDone
  <2>1. pc' = "next" /\ thread_stat' = "run" /\ UNCHANGED lag
    BY <1>11 DEF CheckDone, ThreadRuns
  <2>2. Reading'
    BY <2>1 DEF Reading
  <2>. QED BY <1>4, <1>6, <2>1, <2>2
<1>12. CASE CallbackWait \/ CallbackWoken
  <2>1. pc' = "callback" /\ thread_stat' \in {"run", "wait"} /\ UNCHANGED lag
    BY <1>12 DEF CallbackWait, CallbackWoken, ThreadRuns, PlaceInv
  <2>2. Reading'
    BY <2>1 DEF Reading
  <2>. QED BY <1>4, <1>6, <2>1, <2>2
<1>. QED BY <1>7, <1>8, <1>9, <1>10, <1>11, <1>12

\* A tick that is not counted as lost passes while the timer thread sleeps and
\* nothing is called: what is listed is then not late yet.
LEMMA AgesAtTick ==
    ASSUME Structure, Descending(soft_list, Ages), InTime, Reading, Tick, NEW t \in Members(soft_list)
    PROVE  /\ t \in Timers /\ Age(t) < TickMod - 1
           /\ 1 <= Age(t) + 1 /\ Age(t) + 1 <= Half + MaxLag + 1 + lag'
<1>. USE SoftTimerConstants, LatenessAssumption, HalfRange, TickModAssumption DEF Structure
<1>1. /\ soft_list # <<>> /\ Head(soft_list) \in Timers /\ t \in Timers
      /\ Age(t) <= Age(Head(soft_list))
  BY HeadOldest
<1>2. Age(t) \in Ticks /\ Age(Head(soft_list)) \in Ticks
  BY <1>1, AgeIsTick
<1>3. lag \in 0..MaxLag /\ 1 <= Age(t) /\ Age(t) <= Half + MaxLag + 1 + lag
  BY DEF TypeOK, InTime
<1>4. CASE thread_stat \in {"run", "wait"} \/ caller.at # "idle"
  <2>1. lag < MaxLag /\ lag' = lag + 1
    BY <1>4 DEF Tick
  <2>. QED BY <1>1, <1>2, <1>3, <2>1 DEF Ticks
<1>5. CASE ~(thread_stat \in {"run", "wait"} \/ caller.at # "idle")
  <2>1. lag' = lag /\ Alone /\ thread_stat \in {"delay", "suspend"}
    BY <1>5 DEF Tick, Alone, TypeOK, ThreadStats
  <2>2. thread_stat = "delay"
    BY <1>1, <2>1 DEF Reading
  <2>3. Age(Head(soft_list)) <= Half + MaxLag - Minus(wake, tick)
    BY <1>1, <2>1, <2>2 DEF Reading
  <2>4. Minus(wake, tick) \in Ticks
    BY TicksClosed DEF TypeOK
  <2>. QED BY <1>1, <1>2, <1>3, <2>1, <2>3, <2>4 DEF Ticks
<1>. QED BY <1>4, <1>5

\* The tick interrupt.
LEMMA TickTiming ==
    ASSUME Structure, Timing, Tick
    PROVE  Timing'
<1>. SUFFICES ASSUME ~missed' PROVE (Descending(soft_list, Ages) /\ InTime /\ Reading)'
  BY DEF Timing
<1>. USE SoftTimerConstants, HalfRange, TickModAssumption DEF Structure
<1>1. UNCHANGED <<soft_list, timeout_tick, pc, next_timeout, caller, missed>>
  BY DEF Tick, timers
<1>2. Descending(soft_list, Ages) /\ InTime /\ Reading
  BY <1>1 DEF Timing
<1>3. ASSUME NEW t \in Members(soft_list)
      PROVE  /\ t \in Timers /\ Age(t)' = Age(t) + 1 /\ Age(t) \in Ticks
             /\ 1 <= Age(t)' /\ Age(t)' <= Half + MaxLag + 1 + lag'
             /\ Minus(tick' + Half, timeout_tick[t]) = Age(t) + 1
  <2>1. /\ t \in Timers /\ Age(t) < TickMod - 1
        /\ 1 <= Age(t) + 1 /\ Age(t) + 1 <= Half + MaxLag + 1 + lag'
    BY <1>2, AgesAtTick
  <2>2. Age(t)' = Age(t) + 1 /\ Age(t) \in Ticks
    BY <2>1, AgeGrows, AgeIsTick
  <2>3. Age(t)' = Minus(tick' + Half, timeout_tick[t])
    BY <1>1 DEF Age, Minus
  <2>. QED BY <2>1, <2>2, <2>3
<1>4. Members(soft_list)' = Members(soft_list)
  BY <1>1 DEF Members
<1>5. InTime'
  BY <1>3, <1>4 DEF InTime
<1>6. Descending(soft_list, Ages)'
  <2>1. ASSUME NEW i \in 1..Len(soft_list)
        PROVE  soft_list[i] \in Timers /\ Ages'[soft_list[i]] = Ages[soft_list[i]] + 1
               /\ Ages[soft_list[i]] \in Ticks
    <3>1. soft_list[i] \in Members(soft_list)
      BY DEF Members
    <3>2. /\ soft_list[i] \in Timers /\ Age(soft_list[i]) \in Ticks
          /\ Minus(tick' + Half, timeout_tick[soft_list[i]]) = Age(soft_list[i]) + 1
      BY <1>3, <3>1
    <3>3. Ages'[soft_list[i]] = Minus(tick' + Half, timeout_tick[soft_list[i]])
      BY <1>1, <3>2 DEF Ages, Age, Minus
    <3>. QED BY <3>2, <3>3 DEF Ages
  <2>2. ASSUME NEW i \in 1..Len(soft_list), NEW j \in 1..Len(soft_list), i < j
        PROVE  Ages'[soft_list[i]] >= Ages'[soft_list[j]]
    <3>1. Ages[soft_list[i]] >= Ages[soft_list[j]]
      BY <1>2, <2>2 DEF Descending
    <3>2. /\ Ages'[soft_list[i]] = Ages[soft_list[i]] + 1 /\ Ages[soft_list[i]] \in Ticks
          /\ Ages'[soft_list[j]] = Ages[soft_list[j]] + 1 /\ Ages[soft_list[j]] \in Ticks
      BY <2>1
    <3>. QED BY <3>1, <3>2 DEF Ticks
  <2>. QED BY <1>1, <2>2 DEF Descending
<1>7. Reading'
  <2>1. CASE soft_list = <<>>
    <3>1. pc' # "sleep" /\ soft_list' = <<>>
      BY <1>1, <1>2, <2>1 DEF Reading
    <3>2. pc' = "branch" => next_timeout' = NextTimeout(soft_list, timeout_tick)'
      BY <1>1, <1>2, <2>1 DEF Reading, NextTimeout
    <3>. QED BY <3>1, <3>2 DEF Reading
  <2>2. CASE soft_list # <<>>
    <3>. DEFINE h == Head(soft_list)
    <3>1. h \in Members(soft_list)
      <4>1. soft_list \in Seq(Timers)
        BY DEF TypeOK
      <4>2. 1 \in 1..Len(soft_list) /\ h = soft_list[1]
        BY <2>2, <4>1
      <4>. QED BY <4>2 DEF Members
    <3>2. Age(h)' = Age(h) + 1 /\ Age(h) \in Ticks /\ lag \in 0..MaxLag
      <4>1. Minus(tick' + Half, timeout_tick[h]) = Age(h) + 1 /\ Age(h) \in Ticks
        BY <1>3, <3>1
      <4>2. Age(h)' = Minus(tick' + Half, timeout_tick[h])
        BY <1>1 DEF Age, Minus
      <4>. QED BY <4>1, <4>2 DEF TypeOK
    <3>3. pc' = "branch" => /\ next_timeout' = NextTimeout(soft_list, timeout_tick)'
                            /\ next_timeout' # RT_TICK_MAX
      BY <1>1, <1>2, <2>2 DEF Reading, NextTimeout
    <3>4. pc' = "sleep" => Age(h)' <= Half - next_timeout' + lag'
      <4>. SUFFICES ASSUME pc = "sleep" PROVE Age(h)' <= Half - next_timeout' + lag'
        BY <1>1
      <4>1. thread_stat \in {"run", "wait"}
        BY DEF TypeOK, PlaceInv, ThreadStats
      <4>2. lag' = lag + 1 /\ next_timeout' = next_timeout /\ next_timeout \in Ticks
        BY <1>1, <4>1 DEF Tick, TypeOK
      <4>3. Age(h) <= Half - next_timeout + lag
        BY <1>2 DEF Reading
      <4>. HIDE DEF h
      <4>. QED BY <3>2, <4>2, <4>3 DEF Ticks
    <3>5. ~(thread_stat' = "suspend" /\ Alone')
      BY <1>1, <1>2, <2>2 DEF Reading, Alone, Tick
    <3>6. thread_stat' = "delay" /\ Alone' => Age(h)' <= Half + MaxLag - Minus(wake, tick)'
      <4>. SUFFICES ASSUME thread_stat' = "delay", Alone' PROVE Age(h)' <= Half + MaxLag - Minus(wake, tick)'
        OBVIOUS
      <4>1. thread_stat = "delay" /\ Alone
        BY <1>1 DEF Tick, Alone
      <4>2. Age(h) <= Half + MaxLag - Minus(wake, tick)
        BY <1>2, <2>2, <4>1 DEF Reading
      <4>3. wake' = wake /\ Minus(wake, tick') = Minus(wake, tick) - 1
        BY <4>1, WakeNears
      <4>4. Minus(wake, tick) \in Ticks
        BY TicksClosed DEF TypeOK
      <4>5. Minus(wake, tick)' = Minus(wake, tick) - 1
        BY <4>3 DEF Minus
      <4>. HIDE DEF h
      <4>. QED BY <3>2, <4>2, <4>4, <4>5 DEF Ticks
    <3>7. soft_list' # <<>>
      BY <1>1, <2>2
    <3>. QED BY <3>3, <3>4, <3>5, <3>6, <3>7 DEF Reading
  <2>. QED BY <2>1, <2>2
<1>. QED BY <1>5, <1>6, <1>7

\* A callback begins: the rest of the list is as it was.
LEMMA FireTiming ==
    ASSUME Structure, Timing, CheckFire
    PROVE  Timing'
<1>. SUFFICES ASSUME ~missed' PROVE (Descending(soft_list, Ages) /\ InTime /\ Reading)'
  BY DEF Timing
<1>. USE DEF Structure
<1>. DEFINE t == Head(soft_list)
<1>1. /\ soft_list' = _rt_timer_remove(soft_list, t) /\ soft_list # <<>>
      /\ UNCHANGED <<tick, timeout_tick, lag, missed>>
      /\ pc' = "callback" /\ thread_stat' = "run"
  BY DEF CheckFire, HeadDue, ThreadRuns
<1>2. Descending(soft_list, Ages) /\ InTime
  BY <1>1 DEF Timing
<1>3. soft_list \in Seq(Timers) /\ t \in Timers /\ Once(soft_list)
  BY <1>1 DEF TypeOK, ListInv
<1>. HIDE DEF t
<1>4. /\ Descending(soft_list, Ages)' /\ Members(soft_list)' = Members(soft_list) \ {t}
      /\ \A u \in Timers : Age(u)' = Age(u)
  BY <1>1, <1>2, <1>3, TakeTiming
<1>5. Members(soft_list) \subseteq Timers
  BY <1>3 DEF Members
<1>6. InTime'
  BY <1>1, <1>2, <1>4, <1>5 DEF InTime
<1>7. Reading'
  BY <1>1 DEF Reading
<1>. QED BY <1>4, <1>6, <1>7

\* A callback returns.
LEMMA ReturnTiming ==
    ASSUME Structure, init_tick \in [Timers -> Periods], Timing, CallbackReturn
    PROVE  Timing'
<1>. SUFFICES ASSUME ~missed' PROVE (Descending(soft_list, Ages) /\ InTime /\ Reading)'
  BY DEF Timing
<1>. USE DEF Structure
<1>1. UNCHANGED <<tick, lag, missed>> /\ pc' = "loop" /\ thread_stat' = "run" /\ firing \in Timers
  BY DEF CallbackReturn, ThreadRuns, PlaceInv
<1>2. Descending(soft_list, Ages) /\ InTime
  BY <1>1 DEF Timing
<1>3. Reading'
  BY <1>1 DEF Reading
<1>4. CASE Restarts(firing)
  <2>1. StartTimer(firing)
    BY <1>4 DEF CallbackReturn
  <2>2. Descending(soft_list, Ages)' /\ InTime'
    BY <1>1, <1>2, <2>1, StartTiming DEF ListInv
  <2>. QED BY <1>3, <2>2
<1>5. CASE ~Restarts(firing)
  <2>1. UNCHANGED <<soft_list, tick, timeout_tick>>
    BY <1>1, <1>5 DEF CallbackReturn, timers
  <2>2. /\ Descending(soft_list, Ages)' /\ Members(soft_list)' = Members(soft_list)
        /\ \A u \in Timers : Age(u)' = Age(u)
    BY <1>2, <2>1, TimingKept
  <2>3. Members(soft_list) \subseteq Timers
    BY DEF Members, TypeOK
  <2>4. InTime'
    BY <1>1, <1>2, <2>2, <2>3 DEF InTime
  <2>. QED BY <1>3, <2>2, <2>4
<1>. QED BY <1>4, <1>5

\* A timer is started: the timer thread, if it sleeps, is going to be woken.
LEMMA BeginTiming ==
    ASSUME Structure, init_tick \in [Timers -> Periods], Timing, NEW t \in Timers, rt_timer_start(t)
    PROVE  Timing'
<1>. SUFFICES ASSUME ~missed' PROVE (Descending(soft_list, Ages) /\ InTime /\ Reading)'
  BY DEF Timing
<1>. USE DEF Structure
<1>1. /\ StartTimer(t) /\ UNCHANGED <<tick, lag, missed, pc, thread_stat>>
      /\ thread_stat \in {"delay", "suspend", "wait"}
  BY DEF rt_timer_start, CallerRuns
<1>2. caller'.at = "check"
  BY DEF rt_timer_start
<1>3. Descending(soft_list, Ages) /\ InTime
  BY <1>1 DEF Timing
<1>4. Descending(soft_list, Ages)' /\ InTime'
  BY <1>1, <1>3, StartTiming DEF ListInv
<1>5. pc' \notin {"branch", "sleep"} /\ ~Alone'
  BY <1>1, <1>2 DEF PlaceInv, Alone
<1>6. Reading'
  BY <1>5 DEF Reading
<1>. QED BY <1>4, <1>6

\* The caller's steps that leave the list alone: rt_timer_start ends without a
\* wake-up only while a callback waits.
LEMMA CallTiming ==
    ASSUME Structure, Timing,
           \/ \E t \in Timers, p \in Periods : rt_timer_control(t, p)
           \/ \E t \in Timers : rt_timer_stop(t)
           \/ StartCheck \/ StartResume
    PROVE  Timing'
<1>. SUFFICES ASSUME ~missed' PROVE (Descending(soft_list, Ages) /\ InTime /\ Reading)'
  BY DEF Timing
<1>. USE DEF Structure
<1>1. /\ UNCHANGED <<soft_list, tick, timeout_tick, missed, pc, next_timeout>>
      /\ thread_stat \in {"delay", "suspend", "wait"}
  BY DEF rt_timer_control, rt_timer_stop, StartCheck, StartResume, CallerRuns, timers, thread
<1>2. Descending(soft_list, Ages) /\ InTime /\ Reading
  BY <1>1 DEF Timing
<1>3. /\ Descending(soft_list, Ages)' /\ Members(soft_list)' = Members(soft_list)
      /\ soft_list # <<>> => Age(Head(soft_list))' = Age(Head(soft_list))
      /\ \A t \in Timers : Age(t)' = Age(t)
  BY <1>1, <1>2, TimingKept
<1>4. /\ UNCHANGED lag
      /\ \/ thread_stat' \in {"run", "wait"}
         \/ thread_stat' = thread_stat /\ wake' = wake /\ (Alone' => Alone)
  <2>1. CASE \E t \in Timers, p \in Periods : rt_timer_control(t, p)
    BY <2>1 DEF rt_timer_control, thread, Alone
  <2>2. CASE \E t \in Timers : rt_timer_stop(t)
    BY <2>2 DEF rt_timer_stop, thread, Alone
  <2>3. CASE StartCheck
    <3>1. thread_stat' = thread_stat /\ wake' = wake
      BY <2>3 DEF StartCheck, thread
    <3>2. CASE thread_stat = "wait"
      BY <2>3, <3>1, <3>2 DEF StartCheck, CallEnds
    <3>3. CASE thread_stat # "wait"
      <4>1. soft_timer_status = "idle" /\ thread_stat # "run"
        BY <1>1, <3>3 DEF PlaceInv, TypeOK
      <4>2. caller' = [caller EXCEPT !.at = "resume"] /\ UNCHANGED lag
        BY <2>3, <4>1 DEF StartCheck
      <4>3. caller'.at = "resume"
        BY <4>2 DEF TypeOK
      <4>. QED BY <3>1, <4>2, <4>3 DEF Alone
    <3>. QED BY <3>2, <3>3
  <2>4. CASE StartResume
    BY <2>4 DEF StartResume
  <2>. QED BY <2>1, <2>2, <2>3, <2>4
<1>5. Members(soft_list) \subseteq Timers
  BY DEF Members, TypeOK
<1>6. InTime'
  BY <1>2, <1>3, <1>4, <1>5 DEF InTime
<1>7. pc' \notin {"branch", "sleep"}
  BY <1>1 DEF PlaceInv
<1>8. Reading'
  <2>1. CASE thread_stat' \in {"run", "wait"}
    BY <1>7, <2>1 DEF Reading
  <2>2. CASE thread_stat' = thread_stat /\ wake' = wake /\ (Alone' => Alone)
    <3>1. Minus(wake, tick)' = Minus(wake, tick)
      BY <1>1, <2>2 DEF Minus
    <3>2. thread_stat' = "suspend" /\ Alone' => soft_list' = <<>>
      BY <1>1, <1>2, <2>2 DEF Reading
    <3>3. thread_stat' = "delay" /\ Alone' /\ soft_list' # <<>>
            => Age(Head(soft_list))' <= Half + MaxLag - Minus(wake, tick)'
      BY <1>1, <1>2, <1>3, <2>2, <3>1 DEF Reading
    <3>. QED BY <1>7, <3>2, <3>3 DEF Reading
  <2>. QED BY <1>4, <2>1, <2>2
<1>. QED BY <1>3, <1>6, <1>8

\* A timer is taken out: what is left is due no earlier than what the timer
\* thread sleeps for.
LEMMA StopTiming ==
    ASSUME Structure, Timing, StopRemove
    PROVE  Timing'
<1>. SUFFICES ASSUME ~missed' PROVE (Descending(soft_list, Ages) /\ InTime /\ Reading)'
  BY DEF Timing
<1>. USE SoftTimerConstants, HalfRange DEF Structure
<1>. DEFINE t == caller.timer
<1>1. /\ t \in Timers /\ soft_list' = _rt_timer_remove(soft_list, t)
      /\ lag' = IF thread_stat = "wait" THEN lag ELSE 0
      /\ UNCHANGED <<tick, timeout_tick, thread_stat, pc, next_timeout, wake, missed>>
      /\ thread_stat \in {"delay", "suspend", "wait"}
  BY DEF StopRemove, PlaceInv, CallEnds, CallerRuns
<1>2. Alone
  BY DEF StopRemove, Alone
<1>. HIDE DEF t
<1>3. Descending(soft_list, Ages) /\ InTime /\ Reading
  BY <1>1 DEF Timing
<1>4. /\ Descending(soft_list, Ages)' /\ Members(soft_list)' = Members(soft_list) \ {t}
      /\ \A u \in Timers : Age(u)' = Age(u)
      /\ soft_list' # <<>> => /\ soft_list # <<>> /\ Head(soft_list') \in Members(soft_list)
                              /\ Age(Head(soft_list))' <= Age(Head(soft_list))
  BY <1>1, <1>3, TakeTiming DEF ListInv
<1>5. lag \in 0..MaxLag /\ Minus(wake, tick) \in Ticks /\ Minus(wake, tick)' = Minus(wake, tick)
  <2>1. Minus(wake, tick)' = Minus(wake, tick)
    BY <1>1 DEF Minus
  <2>. QED BY <2>1, TicksClosed DEF TypeOK
<1>6. ASSUME NEW u \in Members(soft_list)
      PROVE  /\ u \in Timers /\ 1 <= Age(u) /\ Age(u) <= Half + MaxLag + 1 + lag'
  <2>1. /\ soft_list # <<>> /\ Head(soft_list) \in Timers /\ u \in Timers
        /\ Age(u) <= Age(Head(soft_list))
    BY <1>3, HeadOldest
  <2>2. 1 <= Age(u) /\ Age(u) <= Half + MaxLag + 1 + lag
    BY <1>3 DEF InTime
  <2>3. Age(u) \in Ticks /\ Age(Head(soft_list)) \in Ticks
    BY <2>1, AgeIsTick
  <2>4. CASE thread_stat = "wait"
    BY <1>1, <2>1, <2>2, <2>4
  <2>5. CASE thread_stat # "wait"
    <3>1. thread_stat = "delay" /\ lag' = 0
      BY <1>1, <1>2, <1>3, <2>1, <2>5 DEF Reading
    <3>2. Age(Head(soft_list)) <= Half + MaxLag - Minus(wake, tick)
      BY <1>2, <1>3, <2>1, <3>1 DEF Reading
    <3>. QED BY <1>5, <2>1, <2>2, <2>3, <3>1, <3>2 DEF Ticks
  <2>. QED BY <2>4, <2>5
<1>7. InTime'
  BY <1>4, <1>6 DEF InTime
<1>8. pc' \notin {"branch", "sleep"}
  BY <1>1 DEF PlaceInv
<1>9. thread_stat' = "suspend" => soft_list' = <<>>
  BY <1>1, <1>2, <1>3, <1>4 DEF Reading
<1>10. ASSUME thread_stat' = "delay", soft_list' # <<>>
       PROVE  Age(Head(soft_list))' <= Half + MaxLag - Minus(wake, tick)'
  <2>1. soft_list # <<>> /\ Age(Head(soft_list))' <= Age(Head(soft_list))
    BY <1>4, <1>10
  <2>2. Age(Head(soft_list)) <= Half + MaxLag - Minus(wake, tick)
    BY <1>1, <1>2, <1>3, <1>10, <2>1 DEF Reading
  <2>3. Head(soft_list) \in Timers /\ Head(soft_list') \in Timers
    BY <1>4, <1>6, <1>10, <2>1 DEF TypeOK
  <2>4. Age(Head(soft_list)) \in Int /\ Age(Head(soft_list))' \in Int
    <3>1. Age(Head(soft_list)) \in Ticks /\ Age(Head(soft_list')) \in Ticks
      BY <2>3, AgeIsTick
    <3>2. Age(Head(soft_list))' = Age(Head(soft_list'))
      BY <1>1 DEF Age, Minus
    <3>. QED BY <3>1, <3>2 DEF Ticks
  <2>. QED BY <1>5, <2>1, <2>2, <2>4 DEF Ticks
<1>11. Reading'
  BY <1>8, <1>9, <1>10 DEF Reading
<1>. QED BY <1>4, <1>7, <1>11

-----------------------------------------------------------------------------
(* The theorems.                                                           *)

\* The caller sets no period but those of Periods.
LEMMA PeriodsKept ==
    ASSUME TypeOK, init_tick \in [Timers -> Periods], [Next]_vars
    PROVE  init_tick' \in [Timers -> Periods]
<1>1. CASE UNCHANGED vars
  BY <1>1 DEF vars, timers
<1>2. ASSUME NEW t \in Timers, NEW p \in Periods, rt_timer_control(t, p)
      PROVE  init_tick' \in [Timers -> Periods]
  BY <1>2 DEF rt_timer_control
<1>3. ASSUME NEW t \in Timers, rt_timer_start(t) \/ rt_timer_stop(t) PROVE init_tick' = init_tick
  BY <1>3 DEF rt_timer_start, StartTimer, rt_timer_stop, timers
<1>4. CASE StartCheck \/ StartResume \/ StopRemove
  BY <1>4 DEF StartCheck, StartResume, StopRemove, timers
<1>5. CASE CallbackReturn
  BY <1>5 DEF CallbackReturn, StartTimer, timers
<1>6. CASE \/ ThreadNext \/ ThreadSuspend \/ ThreadDelta \/ ThreadSleep \/ CheckFire \/ CheckDone
           \/ CallbackWait \/ CallbackWoken \/ Tick
  BY <1>6 DEF ThreadNext, ThreadSuspend, ThreadDelta, ThreadSleep, CheckFire, CheckDone,
     CallbackWait, CallbackWoken, Tick, timers
<1>. QED BY <1>1, <1>2, <1>3, <1>4, <1>5, <1>6 DEF Next, ThreadStep, Caller

\* The invariant holds at the start.
LEMMA TimersInit == Init => TimersInv
<1>. SUFFICES ASSUME Init PROVE TimersInv
  OBVIOUS
<1>1. Structure
  BY StructureInit
<1>2. soft_list = <<>> /\ pc = "next" /\ thread_stat = "run" /\ init_tick \in [Timers -> Periods]
  BY DEF Init
<1>3. Members(soft_list) = {} /\ Descending(soft_list, Ages)
  BY <1>2 DEF Members, Descending
<1>4. Timing
  BY <1>2, <1>3 DEF Timing, InTime, Reading
<1>. QED BY <1>1, <1>2, <1>4 DEF TimersInv

\* Every step keeps it.
LEMMA TimersStep ==
    ASSUME TimersInv, [Next]_vars
    PROVE  TimersInv'
<1>0. Structure /\ init_tick \in [Timers -> Periods] /\ Timing /\ TypeOK
  BY DEF TimersInv, Structure
<1>1. init_tick' \in [Timers -> Periods]
  BY <1>0, PeriodsKept
<1>2. CASE UNCHANGED vars
  <2>1. Structure'
    BY <1>0, <1>2, StructureKept
  <2>2. /\ UNCHANGED <<soft_list, tick, timeout_tick, missed, lag, pc, next_timeout, thread_stat, caller, wake>>
    BY <1>2 DEF vars, timers, thread
  <2>3. /\ Descending(soft_list, Ages)' = Descending(soft_list, Ages)
        /\ Members(soft_list)' = Members(soft_list)
        /\ soft_list # <<>> => Age(Head(soft_list))' = Age(Head(soft_list))
        /\ \A t \in Timers : Age(t)' = Age(t)
    BY <2>2, TimingKept
  <2>4. Members(soft_list) \subseteq Timers
    BY <1>0 DEF Members, TypeOK
  <2>5. InTime => InTime'
    BY <2>2, <2>3, <2>4 DEF InTime
  <2>6. Minus(wake, tick)' = Minus(wake, tick)
    BY <2>2 DEF Minus
  <2>7. Reading => Reading'
    BY <2>2, <2>3, <2>6 DEF Reading, NextTimeout, Alone
  <2>8. Timing'
    BY <1>0, <2>2, <2>3, <2>5, <2>7 DEF Timing
  <2>. QED BY <1>1, <2>1, <2>8 DEF TimersInv
<1>3. CASE ThreadNext \/ ThreadSuspend \/ ThreadDelta \/ ThreadSleep \/ CheckDone
             \/ CallbackWait \/ CallbackWoken
  BY <1>0, <1>1, <1>3, LoopStructure, LoopTiming DEF TimersInv
<1>4. CASE CheckFire
  BY <1>0, <1>1, <1>4, FireStructure, FireTiming DEF TimersInv
<1>5. CASE CallbackReturn
  BY <1>0, <1>1, <1>5, ReturnStructure, ReturnTiming DEF TimersInv
<1>6. CASE Tick
  BY <1>0, <1>1, <1>6, TickStructure, TickTiming DEF TimersInv
<1>7. CASE \/ \E t \in Timers, p \in Periods : rt_timer_control(t, p)
           \/ \E t \in Timers : rt_timer_stop(t)
           \/ StartCheck \/ StartResume
  BY <1>0, <1>1, <1>7, CallStructure, CallTiming DEF TimersInv
<1>8. CASE \E t \in Timers : rt_timer_start(t)
  BY <1>0, <1>1, <1>8, StartStructure, BeginTiming DEF TimersInv
<1>9. CASE StopRemove
  BY <1>0, <1>1, <1>9, StopStructure, StopTiming DEF TimersInv
<1>. QED BY <1>2, <1>3, <1>4, <1>5, <1>6, <1>7, <1>8, <1>9 DEF Next, ThreadStep, Caller

\* The thread that sleeps until a time it read off the list sleeps until the first timeout.
LEMMA SleepIsAttended ==
    ASSUME Structure, ~missed, Timing
    PROVE  Attended
<1>. USE SoftTimerConstants, HalfRange, TickModAssumption DEF Structure
<1>. SUFFICES ASSUME thread_stat \notin {"run", "wait"}, Alone, soft_list # <<>> PROVE Attended
  BY DEF Attended, Alone
<1>. DEFINE first == timeout_tick[Head(soft_list)]
<1>0. Descending(soft_list, Ages) /\ InTime /\ Reading
  BY DEF Timing
<1>1. thread_stat = "delay"
  BY <1>0 DEF TypeOK, ThreadStats, Reading
<1>2. Age(Head(soft_list)) <= Half + MaxLag - Minus(wake, tick)
  BY <1>0, <1>1 DEF Reading
<1>3. Head(soft_list) \in Members(soft_list) /\ Head(soft_list) \in Timers
  <2>1. soft_list \in Seq(Timers)
    BY DEF TypeOK
  <2>2. 1 \in 1..Len(soft_list) /\ Head(soft_list) = soft_list[1]
    BY <2>1
  <2>. QED BY <2>1, <2>2 DEF Members
<1>4. 1 <= Age(Head(soft_list))
  BY <1>0, <1>3 DEF InTime
<1>5. tick \in Ticks /\ wake \in Ticks /\ first \in Ticks
  BY <1>3 DEF TypeOK
<1>6. Minus(wake, tick) < Half
  BY <1>1 DEF PlaceInv
<1>7. Age(Head(soft_list)) = Minus(tick + Half, first)
  BY DEF Age
<1>. HIDE DEF first
<1>8. /\ Minus(wake, tick) = IF wake >= tick THEN wake - tick ELSE wake - tick + TickMod
      /\ Minus(wake, first) = IF wake >= first THEN wake - first ELSE wake - first + TickMod
      /\ Minus(first, wake) = IF first >= wake THEN first - wake ELSE first - wake + TickMod
  BY <1>5, MinusWraps
<1>9. Minus(tick + Half, first)
        = IF tick + Half < first THEN tick + Half - first + TickMod
          ELSE IF tick + Half - first < TickMod THEN tick + Half - first
          ELSE tick + Half - first - TickMod
  BY <1>5, HalfMinus
<1>10. Minus(wake, first) <= MaxLag \/ Minus(first, wake) < Half
  BY <1>2, <1>4, <1>5, <1>6, <1>7, <1>8, <1>9 DEF Ticks
<1>. QED BY <1>1, <1>10 DEF Attended, first

\* The invariant says that the list is exact and no wake-up lost.
LEMMA TimersInvSound == TimersInv => TimersSound
<1>. SUFFICES ASSUME TimersInv PROVE TimersSound
  OBVIOUS
<1>1. Structure /\ Timing /\ TypeOK /\ ListInv /\ soft_list \in Seq(Timers)
  BY DEF TimersInv, Structure, TypeOK
<1>2. DOMAIN soft_list = 1..Len(soft_list) /\ Listed = Members(soft_list)
  <2>1. DOMAIN soft_list = 1..Len(soft_list)
    BY <1>1
  <2>. QED BY <2>1 DEF Listed, Members
<1>3. Cardinality(Listed) = Len(soft_list)
  BY <1>1, <1>2, OnceCounts DEF ListInv
<1>4. Listed \subseteq activated /\ \A t \in activated \ Listed : firing = t /\ in_list
  BY <1>1, <1>2 DEF ListInv
<1>5. ASSUME ~missed, NEW i \in DOMAIN soft_list, NEW j \in DOMAIN soft_list, i < j
      PROVE  Age(soft_list[i]) >= Age(soft_list[j])
  <2>1. Ages[soft_list[i]] >= Ages[soft_list[j]]
    BY <1>1, <1>2, <1>5 DEF Timing, Descending
  <2>2. soft_list[i] \in Timers /\ soft_list[j] \in Timers
    BY <1>1, <1>2
  <2>. QED BY <2>1, <2>2 DEF Ages
<1>6. ListExact
  BY <1>3, <1>4, <1>5 DEF ListExact
<1>7. WakeUpNotLost
  BY <1>1, SleepIsAttended DEF WakeUpNotLost
<1>. QED BY <1>1, <1>6, <1>7 DEF TimersSound

\* The invariant, as a theorem of the specification.
LEMMA TimersInvariant == Spec => []TimersInv
<1>1. Init => TimersInv
  BY TimersInit
<1>2. TimersInv /\ [Next]_vars => TimersInv'
  BY TimersStep
<1>. QED BY <1>1, <1>2, PTL DEF Spec

\* timer.c keeps its list exact and in order across the wrap of the tick counter,
\* whatever is started, stopped or changed while the timer thread looks at the
\* list, sleeps or runs a callback, and the thread never sleeps past a timer.
THEOREM TimersCorrect == Spec => []TimersSound
<1>1. TimersInv => TimersSound
  BY TimersInvSound
<1>. QED BY <1>1, TimersInvariant, PTL

\* rt_soft_timer_check calls back the timer that was due first.
LEMMA FireFirst ==
    ASSUME TimersInv, CheckFire, ~missed
    PROVE  /\ firing' \in activated
           /\ Expired(tick, timeout_tick[firing'])
           /\ \A t \in Listed : Age(t) <= Age(firing')
<1>1. TypeOK /\ ListInv /\ soft_list \in Seq(Timers) /\ Descending(soft_list, Ages)
  BY DEF TimersInv, Structure, TypeOK, Timing
<1>2. firing' = Head(soft_list) /\ HeadDue /\ soft_list # <<>>
  BY DEF CheckFire, HeadDue
<1>3. DOMAIN soft_list = 1..Len(soft_list) /\ Head(soft_list) = soft_list[1] /\ 1 \in 1..Len(soft_list)
  BY <1>1, <1>2
<1>4. Listed = Members(soft_list) /\ Head(soft_list) \in Members(soft_list)
  BY <1>3 DEF Listed, Members
<1>5. \A t \in Listed : Age(t) <= Age(Head(soft_list))
  BY <1>1, <1>4, HeadOldest
<1>6. Head(soft_list) \in activated
  BY <1>1, <1>4 DEF ListInv
<1>. QED BY <1>2, <1>5, <1>6 DEF HeadDue

\* Callbacks come in the order of the timeouts and only for timers that are active
\* and due; the timer thread itself makes no timer active.
THEOREM FiringCorrect == Spec => FiringRules
<1>1. TimersInv /\ [Next]_vars =>
        [ pc' = "callback" /\ pc # "callback" /\ ~missed =>
            /\ firing' \in activated
            /\ Expired(tick, timeout_tick[firing'])
            /\ \A t \in Listed : Age(t) <= Age(firing') ]_vars
  <2>. SUFFICES ASSUME TimersInv, Next, pc' = "callback", pc # "callback", ~missed
                PROVE  /\ firing' \in activated
                       /\ Expired(tick, timeout_tick[firing'])
                       /\ \A t \in Listed : Age(t) <= Age(firing')
    BY DEF vars, thread
  <2>1. thread_stat # "wait"
    BY DEF TimersInv, Structure, PlaceInv
  <2>2. CheckFire
    <3>1. ~(ThreadNext \/ ThreadSuspend \/ ThreadDelta \/ ThreadSleep \/ CheckDone \/ CallbackReturn)
      BY DEF ThreadNext, ThreadSuspend, ThreadDelta, ThreadSleep, CheckDone, CallbackReturn
    <3>2. ~(CallbackWait \/ CallbackWoken \/ Tick)
      BY <2>1 DEF CallbackWait, CallbackWoken, Tick
    <3>3. ~Caller
      BY DEF Caller, rt_timer_control, rt_timer_start, rt_timer_stop, StartCheck, StartResume,
             StopRemove, thread
    <3>. QED BY <3>1, <3>2, <3>3 DEF Next, ThreadStep
  <2>. QED BY <2>2, FireFirst
<1>2. TimersInv /\ [Next]_vars =>
        [ \A t \in activated' \ activated : caller' = [at |-> "check", timer |-> t] ]_vars
  <2>. SUFFICES ASSUME TimersInv, Next, NEW t \in activated' \ activated
                PROVE  caller' = [at |-> "check", timer |-> t]
    BY DEF vars, timers
  <2>1. CASE CallbackReturn
    <3>1. firing \in activated \/ activated' = activated
      BY <2>1 DEF CallbackReturn, Restarts, timers
    <3>2. activated' \subseteq activated \cup {firing}
      BY <2>1 DEF CallbackReturn, StartTimer, timers
    <3>. QED BY <3>1, <3>2
  <2>2. CASE ThreadNext \/ ThreadSuspend \/ ThreadDelta \/ ThreadSleep \/ CheckFire \/ CheckDone
    BY <2>2 DEF ThreadNext, ThreadSuspend, ThreadDelta, ThreadSleep, CheckFire, CheckDone, timers
  <2>3. CASE CallbackWait \/ CallbackWoken \/ Tick
    BY <2>3 DEF CallbackWait, CallbackWoken, Tick, timers
  <2>4. ASSUME NEW u \in Timers, rt_timer_start(u) PROVE caller' = [at |-> "check", timer |-> t]
    BY <2>4 DEF rt_timer_start, StartTimer
  <2>5. ~(\E u \in Timers, p \in Periods : rt_timer_control(u, p))
    BY DEF rt_timer_control
  <2>6. ~(\E u \in Timers : rt_timer_stop(u)) /\ ~StartCheck /\ ~StartResume /\ ~StopRemove
    BY DEF rt_timer_stop, StartCheck, StartResume, StopRemove, timers
  <2>. QED BY <2>1, <2>2, <2>3, <2>4, <2>5, <2>6 DEF Next, ThreadStep, Caller
<1>. QED BY <1>1, <1>2, TimersInvariant, PTL DEF Spec, FiringRules, FiresInOrder, StoppedStays

-----------------------------------------------------------------------------
(* What the stream looks like between any two steps.                       *)

\* The timer runs only once it was created and while it is not switched off, and
\* a callback has its timer on the local list of rt_soft_timer_check.
Obedient ==
    /\ csv_timer \/ csv \notin activated
    /\ NoRowAfterOff
    /\ cmd \in {"arm", "start"} => ~off
    /\ cmd = "start" => csv_timer
    /\ caller.at = "stop" => cmd = "off"
    /\ pc = "callback" => in_list

\* The timer has the period announced, but for the moment before CsvArm, and one
\* that rt_timer_start accepted, but for the moment after.
Paced ==
    /\ csv_timer /\ cmd # "arm" => init_tick[csv] = ms_to_ticks(csv_period_ms)
    /\ csv_period_ms >= 1
    /\ csv \in activated /\ cmd # "start" => init_tick[csv] < Half
    /\ OnlyHugePeriodHalts

\* Ticks until the timer is due.
Left == Minus(timeout_tick[csv], tick)

\* A timer that its own callback restarted is due only when the time it was
\* restarted with has passed since that callback began.
Spaced ==
    csv \in Members(soft_list) /\ armed > 0 =>
      /\ armed < Half
      /\ gap >= armed \/ (1 <= Left /\ Left <= armed /\ gap + Left >= armed)

CsvInv == OneTimer /\ CsvTypeOK /\ Structure /\ Obedient /\ Paced /\ Spaced

-----------------------------------------------------------------------------
(* Periods.                                                                *)

\* A period of at least one millisecond is at least one tick, and not more ticks
\* than milliseconds.
LEMMA TicksOfMs ==
    ASSUME NEW ms \in Ticks, ms >= 1
    PROVE  ms_to_ticks(ms) \in Ticks /\ ms_to_ticks(ms) >= 1 /\ ms_to_ticks(ms) <= ms
<1>. DEFINE x == ms * RT_TICK_PER_SECOND
            ticks == (x + 999) \div 1000
<1>0. ms \in Nat /\ RT_TICK_PER_SECOND \in 1..1000 /\ TickMod \in Nat /\ ms < TickMod
  BY CsvConstants, TickModAssumption DEF Ticks
<1>1. x \in Nat /\ x >= 1 /\ x <= ms * 1000
  <2>1. x \in Nat
    BY <1>0
  <2>2. ms * RT_TICK_PER_SECOND <= ms * 1000
    BY <1>0
  <2>3. ms * RT_TICK_PER_SECOND >= 1
    BY <1>0
  <2>. QED BY <2>1, <2>2, <2>3
<1>. HIDE DEF x
<1>2. ticks \in Nat /\ ticks >= 1 /\ ticks <= ms
  BY <1>0, <1>1
<1>3. ms_to_ticks(ms) = IF ticks = 0 THEN 1 ELSE ticks % TickMod
  BY DEF ms_to_ticks, x
<1>. HIDE DEF ticks
<1>4. ticks % TickMod = ticks
  BY <1>0, <1>2
<1>. QED BY <1>0, <1>2, <1>3, <1>4 DEF Ticks

\* What sw_csv makes of its argument is a period of at least one millisecond.
LEMMA PeriodPositive ==
    ASSUME NEW arg \in Args
    PROVE  PeriodOf(arg) \in Ticks /\ PeriodOf(arg) >= 1
<1>1. arg \in Int /\ MinMs \in 1..TickMod-1 /\ TickMod \in Nat /\ TickMod >= 8
  BY CsvConstants, TickModAssumption
<1>2. arg % TickMod \in 0..TickMod-1
  BY <1>1
<1>. QED BY <1>1, <1>2 DEF PeriodOf, Ticks

-----------------------------------------------------------------------------
(* The timer underneath.                                                   *)

\* The shell runs only while the timer thread sleeps for its list: csv_timer_cb
\* waits for swlock alone, whose owner has then the timer thread's priority.
LEMMA ShellRuns ==
    ASSUME OneTimer, Structure, CallerRuns
    PROVE  ~halted /\ thread_stat \in {"delay", "suspend"} /\ pc = "check" /\ firing \notin Timers
  BY DEF OneTimer, CallerRuns, Structure, PlaceInv

\* The list, the timer thread and the shell fit together.
LEMMA StreamStructure ==
    ASSUME OneTimer, Structure, csv_period_ms \in Ticks, csv_period_ms >= 1, CsvNext
    PROVE  Structure'
<1>0. csv \in Timers
  BY DEF OneTimer
<1>1. CASE StreamThread
  BY <1>1, LoopStructure DEF StreamThread
<1>2. CASE StreamFire
  BY <1>2, FireStructure DEF StreamFire
<1>3. CASE csv_timer_cb_waits
  BY <1>3, LoopStructure DEF csv_timer_cb_waits
<1>4. CASE csv_timer_cb
  BY <1>4, ReturnStructure DEF csv_timer_cb
<1>5. CASE StreamTick
  BY <1>5, TickStructure DEF StreamTick
<1>6. CASE CsvStart
  BY <1>0, <1>6, StartStructure DEF CsvStart
<1>7. CASE CsvStartRest
  BY <1>7, CallStructure DEF CsvStartRest
<1>8. CASE CsvStopped
  BY <1>8, StopStructure DEF CsvStopped
<1>9. CASE CsvOff
  <2>1. CASE csv_timer /\ csv \in activated
    <3>1. rt_timer_stop(csv)
      BY <1>9, <2>1 DEF CsvOff
    <3>. QED BY <1>0, <3>1, CallStructure
  <2>2. CASE ~(csv_timer /\ csv \in activated)
    <3>1. UNCHANGED vars
      BY <1>9, <2>2 DEF CsvOff
    <3>. QED BY <3>1, StructureKept
  <2>. QED BY <2>1, <2>2
<1>10. CASE CsvArm
  <2>1. UNCHANGED <<tick, soft_list, activated, timeout_tick, thread, caller, lag, halted, missed>>
    BY <1>10 DEF CsvArm
  <2>2. init_tick' \in [Timers -> Ticks]
    <3>1. ms_to_ticks(csv_period_ms) \in Ticks
      BY TicksOfMs
    <3>. QED BY <1>10, <3>1 DEF CsvArm, Structure, TypeOK
  <2>3. TypeOK'
    BY <2>1, <2>2 DEF Structure, TypeOK, thread
  <2>4. ListInv'
    BY <2>1, ListKept DEF Structure, thread
  <2>5. PlaceInv'
    BY <2>1 DEF Structure, PlaceInv, thread, Minus
  <2>. QED BY <2>3, <2>4, <2>5 DEF Structure
<1>11. CASE CsvOn \/ CsvCreateFails \/ \E b \in BOOLEAN : cmd_sw_csv_header(b) \/ cmd_sw_timefmt(b)
  <2>1. UNCHANGED vars
    BY <1>11 DEF CsvOn, CsvCreateFails, cmd_sw_csv_header, cmd_sw_timefmt
  <2>. QED BY <2>1, StructureKept
<1>. QED BY <1>1, <1>2, <1>3, <1>4, <1>5, <1>6, <1>7, <1>8, <1>9, <1>10, <1>11 DEF CsvNext, Shell

-----------------------------------------------------------------------------
(* The stream.                                                             *)

\* The invariant depends on little of the timer thread.
LEMMA QuietStep ==
    ASSUME CsvInv, Structure',
           UNCHANGED <<soft_list, activated, init_tick, timeout_tick, tick, halted, in_list>>,
           UNCHANGED <<csv_timer, csv_period_ms, cmd, off, gap, armed>>,
           csv_header' \in BOOLEAN, csv_human' \in BOOLEAN,
           pc' = "callback" => pc = "callback",
           caller'.at = "stop" => caller.at = "stop"
    PROVE  CsvInv'
<1>. USE DEF CsvInv
<1>1. CsvTypeOK'
  BY DEF CsvTypeOK, Structure
<1>2. Obedient'
  BY DEF Obedient, NoRowAfterOff
<1>3. Paced'
  BY DEF Paced, OnlyHugePeriodHalts, ms_to_ticks
<1>4. Left' = Left /\ Members(soft_list)' = Members(soft_list)
  BY DEF Left, Minus, Members
<1>5. Spaced'
  BY <1>4 DEF Spaced
<1>. QED BY <1>1, <1>2, <1>3, <1>5

\* A row begins: the stream is on, and the time has passed.
LEMMA FireStep ==
    ASSUME CsvInv, Structure', StreamFire
    PROVE  CsvInv' /\ gap >= armed
<1>. USE CsvConstants, TickModAssumption, HalfRange DEF CsvInv, OneTimer
<1>1. /\ soft_list \in Seq(Timers) /\ soft_list # <<>> /\ HeadDue
      /\ gap' = 0 /\ armed' = armed /\ pc' = "callback"
      /\ soft_list' = _rt_timer_remove(soft_list, Head(soft_list))
      /\ activated' = IF Head(soft_list) \in Periodic THEN activated ELSE activated \ {Head(soft_list)}
      /\ UNCHANGED <<tick, init_tick, timeout_tick, halted, caller, csvvars>>
  BY DEF StreamFire, CheckFire, HeadDue, Structure, TypeOK
<1>2. in_list'
  BY DEF StreamFire, CheckFire
<1>3. Head(soft_list) = csv /\ csv \in Members(soft_list) /\ activated' = activated
  <2>1. 1 \in 1..Len(soft_list) /\ Head(soft_list) = soft_list[1] /\ Head(soft_list) \in Timers
    BY <1>1
  <2>2. Head(soft_list) = csv
    BY <2>1
  <2>3. csv \in Members(soft_list)
    BY <2>1, <2>2 DEF Members
  <2>. QED BY <1>1, <2>2, <2>3
<1>4. csv \in activated /\ ~off
  BY <1>3 DEF Structure, ListInv, Obedient, NoRowAfterOff
<1>5. csv \notin Members(soft_list)'
  <2>1. Once(soft_list)
    BY DEF Structure, ListInv
  <2>2. csv \notin Members(soft_list')
    BY <1>1, <1>3, <2>1, RemovedMembers
  <2>. QED BY <2>2 DEF Members
<1>6. gap >= armed
  <2>1. gap \in Nat /\ armed \in Nat /\ tick \in Ticks /\ timeout_tick[csv] \in Ticks
    BY DEF CsvTypeOK, TypeOK, Ticks
  <2>2. Minus(tick, timeout_tick[csv]) < Half
    BY <1>1, <1>3 DEF HeadDue, Expired
  <2>3. /\ Minus(tick, timeout_tick[csv])
             = IF tick >= timeout_tick[csv] THEN tick - timeout_tick[csv]
               ELSE tick - timeout_tick[csv] + TickMod
        /\ Left = IF timeout_tick[csv] >= tick THEN timeout_tick[csv] - tick
                  ELSE timeout_tick[csv] - tick + TickMod
    BY <2>1, MinusWraps DEF Left
  <2>4. armed > 0 => /\ armed < Half
                     /\ gap >= armed \/ (1 <= Left /\ Left <= armed /\ gap + Left >= armed)
    BY <1>3 DEF Spaced
  <2>. QED BY <2>1, <2>2, <2>3, <2>4 DEF Ticks
<1>7. CsvTypeOK'
  BY <1>1 DEF CsvTypeOK, Structure, csvvars, Ticks
<1>8. Obedient'
  BY <1>1, <1>2, <1>3, <1>4 DEF Obedient, NoRowAfterOff, csvvars
<1>9. Paced'
  BY <1>1, <1>3 DEF Paced, OnlyHugePeriodHalts, ms_to_ticks, csvvars
<1>10. Spaced'
  BY <1>5 DEF Spaced
<1>. QED BY <1>6, <1>7, <1>8, <1>9, <1>10

\* rt_timer_start halts for a period that is too long, and then leaves the timer out.
LEMMA StartsOrHalts ==
    ASSUME OneTimer, Structure, StartTimer(csv)
    PROVE  \/ /\ init_tick[csv] < Half /\ halted' = halted
              /\ timeout_tick'[csv] = Plus(tick, init_tick[csv])
              /\ activated' = activated \cup {csv}
           \/ /\ ~(init_tick[csv] < Half) /\ halted'
              /\ csv \notin activated' /\ csv \notin Members(soft_list)'
<1>. USE DEF OneTimer, Structure
<1>1. CASE init_tick[csv] < Half
  BY <1>1 DEF StartTimer, TypeOK
<1>2. CASE ~(init_tick[csv] < Half)
  <2>1. halted' /\ csv \notin activated' /\ soft_list' = _rt_timer_remove(soft_list, csv)
    BY <1>2 DEF StartTimer
  <2>2. soft_list \in Seq(Timers) /\ csv \in Timers /\ Once(soft_list)
    BY DEF TypeOK, ListInv
  <2>3. csv \notin Members(soft_list')
    BY <2>1, <2>2, RemovedMembers
  <2>4. csv \notin Members(soft_list)'
    BY <2>3 DEF Members
  <2>. QED BY <1>2, <2>1, <2>4
<1>. QED BY <1>1, <1>2

\* A period rt_timer_start refuses is longer than anyone means.
LEMMA RefusedIsHuge ==
    ASSUME CsvInv, init_tick[csv] = ms_to_ticks(csv_period_ms), ~(init_tick[csv] < Half)
    PROVE  csv_period_ms >= TickMod \div 2 - 1
<1>1. csv_period_ms \in Ticks /\ csv_period_ms >= 1
  BY DEF CsvInv, CsvTypeOK, Paced
<1>2. init_tick[csv] \in Ticks /\ init_tick[csv] <= csv_period_ms
  BY <1>1, TicksOfMs
<1>3. csv_period_ms \in Int /\ Half \in Int /\ csv_period_ms >= Half
  BY <1>1, <1>2, HalfRange, TickModAssumption DEF Ticks
<1>4. Half >= TickMod \div 2 - 1
  BY TickModAssumption DEF Half, RT_TICK_MAX
<1>. QED BY <1>3, <1>4, TickModAssumption

\* The row is printed, and the timer restarted if nobody has stopped it.
LEMMA RowStep ==
    ASSUME CsvInv, Structure', csv_timer_cb
    PROVE  CsvInv'
<1>. USE CsvConstants, TickModAssumption, HalfRange DEF CsvInv, OneTimer
<1>1. /\ pc = "callback" /\ pc' = "loop" /\ tick' = tick
      /\ UNCHANGED <<csv_timer, csv_period_ms, csv_human, cmd, off, gap, caller>>
      /\ armed' = IF Restarts(csv) THEN init_tick[csv] ELSE armed
  BY DEF csv_timer_cb, CallbackReturn
<1>2. in_list /\ firing = csv /\ csv \notin Members(soft_list)
  <2>1. in_list
    BY <1>1 DEF Obedient
  <2>. QED BY <2>1 DEF Structure, ListInv
<1>3. csv_header' \in BOOLEAN
  BY Zenon DEF csv_timer_cb
<1>4. init_tick' = init_tick
  BY DEF csv_timer_cb, CallbackReturn, StartTimer, timers
<1>5. init_tick[csv] \in Ticks /\ armed \in Ticks /\ gap \in Ticks /\ tick \in Ticks
  BY DEF CsvTypeOK, TypeOK
<1>6. CsvTypeOK'
  BY <1>1, <1>3, <1>5 DEF CsvTypeOK, Structure
<1>7. CASE ~Restarts(csv)
  <2>1. UNCHANGED <<soft_list, activated, timeout_tick, halted>>
    BY <1>2, <1>7 DEF csv_timer_cb, CallbackReturn, timers
  <2>2. csv \notin activated
    BY <1>2, <1>7 DEF Restarts
  <2>3. csv \notin Members(soft_list)'
    BY <1>2, <2>1 DEF Members
  <2>4. Obedient'
    BY <1>1, <2>1 DEF Obedient, NoRowAfterOff
  <2>5. Paced'
    BY <1>1, <1>4, <2>1 DEF Paced, OnlyHugePeriodHalts, ms_to_ticks
  <2>. QED BY <1>6, <2>3, <2>4, <2>5 DEF Spaced
<1>8. CASE Restarts(csv)
  <2>1. StartTimer(csv) /\ csv \in activated
    BY <1>2, <1>8 DEF csv_timer_cb, CallbackReturn, Restarts
  <2>2. csv_timer /\ ~off
    BY <2>1 DEF Obedient, NoRowAfterOff
  <2>3. armed' = init_tick[csv]
    BY <1>1, <1>8
  <2>4. Obedient'
    BY <1>1, <2>2 DEF Obedient, NoRowAfterOff
  <2>5. CASE init_tick[csv] < Half
    <3>1. halted' = halted /\ timeout_tick'[csv] = Plus(tick, init_tick[csv])
      BY <2>1, <2>5, StartsOrHalts
    <3>2. Paced'
      BY <1>1, <1>4, <2>5, <3>1 DEF Paced, OnlyHugePeriodHalts, ms_to_ticks
    <3>3. Left' = init_tick[csv]
      <4>1. Minus(Plus(tick, init_tick[csv]), tick) = init_tick[csv]
        BY <1>5, TicksClosed
      <4>. QED BY <1>1, <3>1, <4>1 DEF Left, Minus
    <3>4. Spaced'
      <4>1. /\ init_tick[csv] > 0 => 1 <= init_tick[csv]
            /\ init_tick[csv] <= init_tick[csv] /\ gap + init_tick[csv] >= init_tick[csv]
        BY <1>5 DEF Ticks
      <4>2. gap' = gap /\ Left' = init_tick[csv] /\ armed' = init_tick[csv]
        BY <1>1, <2>3, <3>3
      <4>. QED BY <2>5, <4>1, <4>2 DEF Spaced
    <3>. QED BY <1>6, <2>4, <3>2, <3>4
  <2>6. CASE ~(init_tick[csv] < Half)
    <3>1. csv \notin activated' /\ csv \notin Members(soft_list)'
      BY <2>1, <2>6, StartsOrHalts
    <3>2. cmd = "start"
      BY <2>1, <2>6 DEF Paced
    <3>3. csv_period_ms >= TickMod \div 2 - 1
      BY <2>2, <2>6, <3>2, RefusedIsHuge DEF Paced
    <3>4. Paced'
      BY <1>1, <1>4, <3>1, <3>3 DEF Paced, OnlyHugePeriodHalts, ms_to_ticks
    <3>. QED BY <1>6, <2>4, <3>1, <3>4 DEF Spaced
  <2>. QED BY <2>5, <2>6
<1>. QED BY <1>7, <1>8

\* With every tick the timeout comes nearer by as much as the gap grows.
LEMMA TickStep ==
    ASSUME CsvInv, Structure', StreamTick
    PROVE  CsvInv'
<1>. USE CsvConstants, TickModAssumption, HalfRange DEF CsvInv, OneTimer
<1>1. /\ tick' = Plus(tick, 1) /\ gap' = IF gap = RT_TICK_MAX THEN gap ELSE gap + 1
      /\ UNCHANGED <<soft_list, activated, init_tick, timeout_tick, halted, in_list, pc, caller>>
      /\ UNCHANGED <<csv_timer, csv_period_ms, csv_header, csv_human, cmd, off, armed>>
  BY DEF StreamTick, Tick, timers, csvvars
<1>2. gap \in Ticks /\ armed \in Ticks /\ tick \in Ticks /\ timeout_tick[csv] \in Ticks /\ 1 \in Ticks
  BY DEF CsvTypeOK, TypeOK, Ticks
<1>3. CsvTypeOK'
  <2>1. gap' \in Ticks
    BY <1>1, <1>2 DEF Ticks, RT_TICK_MAX
  <2>. QED BY <1>1, <2>1 DEF CsvTypeOK, Structure
<1>4. Obedient'
  BY <1>1 DEF Obedient, NoRowAfterOff
<1>5. Paced'
  BY <1>1 DEF Paced, OnlyHugePeriodHalts, ms_to_ticks
<1>6. Spaced'
  <2>1. tick' \in Ticks
    BY <1>1, <1>2, TicksClosed
  <2>2. tick' = IF tick + 1 < TickMod THEN tick + 1 ELSE tick + 1 - TickMod
    BY <1>1, <1>2, PlusWraps
  <2>3. Left = IF timeout_tick[csv] >= tick THEN timeout_tick[csv] - tick
               ELSE timeout_tick[csv] - tick + TickMod
    BY <1>2, MinusWraps DEF Left
  <2>4. Minus(timeout_tick[csv], tick')
          = IF timeout_tick[csv] >= tick' THEN timeout_tick[csv] - tick'
            ELSE timeout_tick[csv] - tick' + TickMod
    BY <1>2, <2>1, MinusWraps
  <2>5. Left' = Minus(timeout_tick[csv], tick')
    BY <1>1 DEF Left, Minus
  <2>6. Left >= 1 => Left' = Left - 1 /\ Left \in Nat
    BY <1>2, <2>1, <2>2, <2>3, <2>4, <2>5 DEF Ticks
  <2>7. Members(soft_list)' = Members(soft_list)
    BY <1>1 DEF Members
  <2>. SUFFICES ASSUME csv \in Members(soft_list), armed > 0
                PROVE  /\ armed < Half
                       /\ gap' >= armed \/ (1 <= Left' /\ Left' <= armed /\ gap' + Left' >= armed)
    BY <1>1, <2>7 DEF Spaced
  <2>8. /\ armed < Half
        /\ gap >= armed \/ (1 <= Left /\ Left <= armed /\ gap + Left >= armed)
    BY DEF Spaced
  <2>9. gap >= armed => gap' >= armed
    BY <1>1, <1>2 DEF Ticks
  <2>10. ASSUME 1 <= Left, Left <= armed, gap + Left >= armed
         PROVE  gap' >= armed \/ (1 <= Left' /\ Left' <= armed /\ gap' + Left' >= armed)
    <3>1. Left' = Left - 1 /\ Left \in Nat
      BY <2>6, <2>10, <2>3, <1>2 DEF Ticks
    <3>2. gap' = gap + 1 \/ gap' >= armed
      BY <1>1, <1>2 DEF Ticks, RT_TICK_MAX
    <3>. QED BY <1>2, <2>10, <3>1, <3>2 DEF Ticks
  <2>. QED BY <2>8, <2>9, <2>10
<1>. QED BY <1>3, <1>4, <1>5, <1>6

\* The commands that only change what is to come.
LEMMA SettingStep ==
    ASSUME CsvInv, Structure', CsvOn \/ CsvArm \/ CsvCreateFails
    PROVE  CsvInv'
<1>. USE CsvConstants, TickModAssumption, HalfRange DEF CsvInv, OneTimer
<1>1. /\ UNCHANGED <<soft_list, activated, timeout_tick, tick, halted, in_list, pc, caller>>
      /\ UNCHANGED <<csv_header, csv_human, gap, armed>>
      /\ CallerRuns
  BY DEF CsvOn, CsvArm, CsvCreateFails, vars, timers, thread
<1>2. ~halted /\ pc # "callback"
  BY <1>1, ShellRuns
<1>3. Left' = Left /\ Members(soft_list)' = Members(soft_list)
  BY <1>1 DEF Left, Minus, Members
<1>4. Spaced'
  BY <1>1, <1>3 DEF Spaced
<1>5. csv_period_ms \in Ticks /\ csv_period_ms >= 1
  BY DEF CsvTypeOK, Paced
<1>9. caller.at # "stop"
  BY DEF CsvOn, CsvArm, CsvCreateFails, Obedient
<1>6. CASE CsvOn
  <2>1. /\ csv_period_ms' \in {csv_period_ms} \cup {PeriodOf(a) : a \in Args}
        /\ cmd = "none" /\ cmd' = "arm" /\ csv_timer' = csv_timer /\ init_tick' = init_tick
    BY <1>6 DEF CsvOn, vars, timers
  <2>2. csv_period_ms' \in Ticks /\ csv_period_ms' >= 1
    BY <1>5, <2>1, PeriodPositive
  <2>3. off' = FALSE
    BY <1>6 DEF CsvOn
  <2>4. CsvTypeOK'
    BY <1>1, <2>1, <2>2, <2>3 DEF CsvTypeOK, Structure
  <2>5. Obedient'
    BY <1>1, <1>2, <1>9, <2>1, <2>3 DEF Obedient, NoRowAfterOff
  <2>6. Paced'
    BY <1>1, <1>2, <2>1, <2>2 DEF Paced, OnlyHugePeriodHalts
  <2>. QED BY <1>4, <2>4, <2>5, <2>6
<1>7. CASE CsvArm
  <2>1. /\ cmd = "arm" /\ cmd' = "start" /\ UNCHANGED <<csv_period_ms, off>>
        /\ init_tick' = [init_tick EXCEPT ![csv] = ms_to_ticks(csv_period_ms)]
    BY <1>7 DEF CsvArm
  <2>2. csv_timer' = TRUE
    BY <1>7 DEF CsvArm
  <2>3. CsvTypeOK'
    BY <1>1, <2>1, <2>2 DEF CsvTypeOK, Structure
  <2>4. Obedient'
    BY <1>1, <1>2, <1>9, <2>1, <2>2 DEF Obedient, NoRowAfterOff
  <2>5. init_tick'[csv] = ms_to_ticks(csv_period_ms)
    BY <2>1 DEF Structure, TypeOK
  <2>6. Paced'
    BY <1>1, <1>2, <2>1, <2>5 DEF Paced, OnlyHugePeriodHalts, ms_to_ticks
  <2>. QED BY <1>4, <2>3, <2>4, <2>6
<1>8. CASE CsvCreateFails
  <2>1. cmd' = "none" /\ ~csv_timer /\ UNCHANGED <<csv_timer, csv_period_ms, init_tick>>
    BY <1>8 DEF CsvCreateFails, vars, timers
  <2>2. off' = TRUE
    BY <1>8 DEF CsvCreateFails
  <2>3. CsvTypeOK'
    BY <1>1, <2>1, <2>2 DEF CsvTypeOK, Structure
  <2>4. csv \notin activated
    BY <2>1 DEF Obedient
  <2>5. Obedient'
    BY <1>1, <1>2, <1>9, <2>1, <2>2, <2>4 DEF Obedient, NoRowAfterOff
  <2>6. Paced'
    BY <1>1, <1>2, <2>1, <2>4 DEF Paced, OnlyHugePeriodHalts
  <2>. QED BY <1>4, <2>3, <2>5, <2>6
<1>. QED BY <1>6, <1>7, <1>8

\* The timer is started, or the firmware stops over the period.
LEMMA StartStep ==
    ASSUME CsvInv, Structure', CsvStart
    PROVE  CsvInv'
<1>. USE CsvConstants, TickModAssumption, HalfRange DEF CsvInv, OneTimer
<1>1. /\ StartTimer(csv) /\ CallerRuns /\ cmd = "start" /\ cmd' = "none" /\ armed' = 0
      /\ UNCHANGED <<csv_timer, csv_period_ms, csv_header, csv_human, off, gap, pc>>
  BY DEF CsvStart, rt_timer_start
<1>2. ~halted /\ pc # "callback"
  BY <1>1, ShellRuns
<1>3. csv_timer /\ ~off /\ init_tick' = init_tick
  BY <1>1 DEF Obedient, StartTimer
<1>4. init_tick[csv] = ms_to_ticks(csv_period_ms)
  BY <1>1, <1>3 DEF Paced
<1>9. caller'.at = "check"
  BY DEF CsvStart, rt_timer_start
<1>5. CsvTypeOK'
  BY <1>1 DEF CsvTypeOK, Structure, Ticks
<1>6. Obedient'
  BY <1>1, <1>2, <1>3, <1>9 DEF Obedient, NoRowAfterOff
<1>7. Spaced'
  BY <1>1 DEF Spaced
<1>8. Paced'
  <2>1. CASE init_tick[csv] < Half
    <3>1. halted' = halted
      BY <1>1, <2>1, StartsOrHalts
    <3>. QED BY <1>1, <1>2, <1>3, <1>4, <2>1, <3>1 DEF Paced, OnlyHugePeriodHalts, ms_to_ticks
  <2>2. CASE ~(init_tick[csv] < Half)
    <3>1. csv \notin activated'
      BY <1>1, <2>2, StartsOrHalts
    <3>2. csv_period_ms >= TickMod \div 2 - 1
      BY <1>4, <2>2, RefusedIsHuge
    <3>. QED BY <1>1, <1>3, <1>4, <3>1, <3>2 DEF Paced, OnlyHugePeriodHalts, ms_to_ticks
  <2>. QED BY <2>1, <2>2
<1>. QED BY <1>5, <1>6, <1>7, <1>8

\* sw_csv off, up to the step that takes the timer out.
LEMMA OffStep ==
    ASSUME CsvInv, Structure', CsvOff
    PROVE  CsvInv'
<1>. USE DEF CsvInv, OneTimer
<1>1. /\ UNCHANGED <<soft_list, activated, init_tick, timeout_tick, tick, halted, in_list, pc>>
      /\ UNCHANGED <<csv_timer, csv_period_ms, csv_header, csv_human, gap, armed>>
      /\ CallerRuns /\ cmd = "none"
  BY DEF CsvOff, rt_timer_stop, vars, timers, thread
<1>2. pc # "callback"
  BY <1>1, ShellRuns
<1>3. /\ cmd' \in {"none", "off"} /\ off' \in BOOLEAN
      /\ off' => csv \notin activated
      /\ caller'.at = "stop" => cmd' = "off"
  <2>1. CASE csv_timer /\ csv \in activated
    <3>1. cmd' = "off" /\ off' = off
      BY <2>1 DEF CsvOff
    <3>. QED BY <3>1 DEF CsvTypeOK, Obedient, NoRowAfterOff
  <2>2. CASE ~(csv_timer /\ csv \in activated)
    <3>1. cmd' = cmd /\ off' = TRUE /\ caller' = caller /\ caller.at = "idle"
      BY <2>2 DEF CsvOff, vars
    <3>2. csv \notin activated
      BY <2>2 DEF Obedient
    <3>. QED BY <1>1, <3>1, <3>2
  <2>. QED BY <2>1, <2>2
<1>4. CsvTypeOK'
  BY <1>1, <1>3 DEF CsvTypeOK, Structure
<1>5. Obedient'
  BY <1>1, <1>2, <1>3 DEF Obedient, NoRowAfterOff
<1>6. Paced'
  BY <1>1, <1>3 DEF Paced, OnlyHugePeriodHalts, ms_to_ticks
<1>7. Left' = Left /\ Members(soft_list)' = Members(soft_list)
  BY <1>1 DEF Left, Minus, Members
<1>8. Spaced'
  BY <1>1, <1>7 DEF Spaced
<1>. QED BY <1>4, <1>5, <1>6, <1>8

\* That step: the command was for the timer of the stream.
LEMMA StoppedStep ==
    ASSUME CsvInv, Structure', CsvStopped
    PROVE  CsvInv'
<1>. USE DEF CsvInv, OneTimer
<1>1. caller.timer = csv /\ CallerRuns
  BY DEF CsvStopped, StopRemove, Structure, PlaceInv
<1>2. /\ soft_list' = _rt_timer_remove(soft_list, csv) /\ activated' = activated \ {csv}
      /\ UNCHANGED <<tick, init_tick, timeout_tick, halted, pc>>
      /\ cmd' = "none" /\ UNCHANGED <<csv_timer, csv_period_ms, csv_header, csv_human, gap, armed>>
  BY <1>1 DEF CsvStopped, StopRemove
<1>3. off' = TRUE
  BY DEF CsvStopped
<1>4. ~halted /\ pc # "callback"
  BY <1>1, ShellRuns
<1>5. csv \notin Members(soft_list)'
  <2>1. soft_list \in Seq(Timers) /\ csv \in Timers /\ Once(soft_list)
    BY DEF Structure, TypeOK, ListInv
  <2>2. csv \notin Members(soft_list')
    BY <1>2, <2>1, RemovedMembers
  <2>. QED BY <2>2 DEF Members
<1>6. CsvTypeOK'
  BY <1>2, <1>3 DEF CsvTypeOK, Structure
<1>10. cmd = "off" /\ caller'.at = "idle"
  BY DEF CsvStopped, StopRemove, CallEnds, Idle, Obedient
<1>7. Obedient'
  BY <1>2, <1>3, <1>4, <1>10 DEF Obedient, NoRowAfterOff
<1>8. csv_timer' /\ cmd' # "arm" => init_tick'[csv] = ms_to_ticks(csv_period_ms)
  BY <1>2, <1>10 DEF Paced
<1>9. Paced'
  BY <1>2, <1>4, <1>8 DEF Paced, OnlyHugePeriodHalts, ms_to_ticks
<1>. QED BY <1>5, <1>6, <1>7, <1>9 DEF Spaced

-----------------------------------------------------------------------------
(* The theorems.                                                           *)

\* The stream is off at the start.
LEMMA CsvInvInit == OneTimer /\ CsvInit => CsvInv
<1>. SUFFICES ASSUME OneTimer, CsvInit PROVE CsvInv
  OBVIOUS
<1>. USE CsvConstants, TickModAssumption, HalfRange
<1>1. Structure
  BY StructureInit DEF CsvInit
<1>2. /\ soft_list = <<>> /\ activated = {} /\ pc = "next" /\ caller = Idle
      /\ csv_period_ms = DefaultMs /\ cmd = "none" /\ gap = RT_TICK_MAX /\ armed = 0
  BY DEF CsvInit, Init
<1>3. csv_timer = FALSE /\ csv_header = FALSE /\ csv_human = FALSE /\ off = TRUE /\ halted = FALSE
  BY DEF CsvInit, Init
<1>4. CsvTypeOK
  <2>1. csv_period_ms \in Ticks /\ gap \in Ticks /\ armed \in Ticks
    BY <1>2 DEF Ticks, RT_TICK_MAX
  <2>2. csv_timer \in BOOLEAN /\ csv_header \in BOOLEAN /\ csv_human \in BOOLEAN /\ off \in BOOLEAN
    BY <1>3, Zenon
  <2>. QED BY <1>1, <1>2, <2>1, <2>2 DEF CsvTypeOK, Structure
<1>5. Obedient
  BY <1>2, <1>3 DEF Obedient, NoRowAfterOff, Idle
<1>6. Paced
  BY <1>2, <1>3 DEF Paced, OnlyHugePeriodHalts
<1>7. Spaced
  BY <1>2 DEF Spaced
<1>. QED BY <1>1, <1>4, <1>5, <1>6, <1>7 DEF CsvInv

\* Every step of the timer thread, the tick and the shell keeps the invariant.
LEMMA CsvInvStep ==
    ASSUME CsvInv, [CsvNext]_allvars
    PROVE  CsvInv'
<1>0. OneTimer /\ Structure /\ csv_period_ms \in Ticks /\ csv_period_ms >= 1
  BY DEF CsvInv, CsvTypeOK, Paced
<1>00. csv_header \in BOOLEAN /\ csv_human \in BOOLEAN
  BY DEF CsvInv, CsvTypeOK
<1>1. CASE UNCHANGED allvars
  <2>1. Structure'
    BY <1>0, <1>1, StructureKept DEF allvars
  <2>. QED BY <1>00, <1>1, <2>1, QuietStep DEF allvars, vars, timers, thread, csvvars
<1>2. CASE CsvNext
  <2>0. Structure'
    BY <1>0, <1>2, StreamStructure
  <2>1. CASE StreamThread
    BY <1>00, <2>0, <2>1, QuietStep DEF StreamThread, ThreadNext, ThreadSuspend, ThreadDelta, ThreadSleep,
       CheckDone, timers, csvvars
  <2>2. CASE csv_timer_cb_waits
    BY <1>00, <2>0, <2>2, QuietStep DEF csv_timer_cb_waits, CallbackWait, CallbackWoken, timers, csvvars
  <2>3. CASE CsvStartRest
    <3>1. caller'.at # "stop"
      <4>1. \/ caller' = Idle
            \/ caller' = [caller EXCEPT !.at = "resume"]
        BY <2>3 DEF CsvStartRest, StartCheck, StartResume, CallEnds
      <4>2. caller \in [at : {"idle", "start", "check", "resume", "stop"}, timer : Timers \cup {NoTimer}]
        BY <1>0 DEF Structure, TypeOK
      <4>. QED BY <4>1, <4>2 DEF Idle
    <3>2. /\ UNCHANGED <<soft_list, activated, init_tick, timeout_tick, tick, halted, in_list, pc>>
          /\ UNCHANGED <<csv_timer, csv_period_ms, cmd, off, gap, armed, csv_header, csv_human>>
      BY <2>3 DEF CsvStartRest, StartCheck, StartResume, timers, thread, csvvars
    <3>. QED BY <1>00, <2>0, <3>1, <3>2, QuietStep
  <2>4. CASE \E b \in BOOLEAN : cmd_sw_csv_header(b) \/ cmd_sw_timefmt(b)
    <3>1. PICK b \in BOOLEAN : cmd_sw_csv_header(b) \/ cmd_sw_timefmt(b)
      BY <2>4
    <3>2. csv_header' \in BOOLEAN /\ csv_human' \in BOOLEAN
      BY <1>00, <3>1, Zenon DEF cmd_sw_csv_header, cmd_sw_timefmt
    <3>3. /\ UNCHANGED <<soft_list, activated, init_tick, timeout_tick, tick, halted, in_list, pc, caller>>
          /\ UNCHANGED <<csv_timer, csv_period_ms, cmd, off, gap, armed>>
      BY <3>1 DEF cmd_sw_csv_header, cmd_sw_timefmt, vars, timers, thread
    <3>. QED BY <2>0, <3>2, <3>3, QuietStep
  <2>5. CASE StreamFire
    BY <2>0, <2>5, FireStep
  <2>6. CASE csv_timer_cb
    BY <2>0, <2>6, RowStep
  <2>7. CASE StreamTick
    BY <2>0, <2>7, TickStep
  <2>8. CASE CsvOn \/ CsvArm \/ CsvCreateFails
    BY <2>0, <2>8, SettingStep
  <2>9. CASE CsvStart
    BY <2>0, <2>9, StartStep
  <2>10. CASE CsvOff
    BY <2>0, <2>10, OffStep
  <2>11. CASE CsvStopped
    BY <2>0, <2>11, StoppedStep
  <2>. QED BY <1>2, <2>1, <2>2, <2>3, <2>4, <2>5, <2>6, <2>7, <2>8, <2>9, <2>10, <2>11 DEF CsvNext, Shell
<1>. QED BY <1>1, <1>2

\* The invariant, as a theorem of the specification.
LEMMA CsvInvariant == OneTimer /\ CsvSpec => []CsvInv
<1>1. OneTimer /\ CsvInit => CsvInv
  BY CsvInvInit
<1>2. CsvInv /\ [CsvNext]_allvars => CsvInv'
  BY CsvInvStep
<1>. QED BY <1>1, <1>2, PTL DEF CsvSpec

\* The stream obeys sw_csv wherever a command falls in the timer thread's work: off
\* means off, the timer has the period the user was told, and rt_timer_start's
\* assertion stops the firmware only for a period no user means; the stream's timer
\* being the only soft timer of the firmware.
THEOREM CsvCorrect == OneTimer /\ CsvSpec => []CsvAsAsked
<1>1. CsvInv => CsvAsAsked
  <2>. SUFFICES ASSUME CsvInv PROVE CsvAsAsked
    OBVIOUS
  <2>1. PeriodAsAnnounced
    BY DEF CsvInv, Paced, PeriodAsAnnounced
  <2>. QED BY <2>1 DEF CsvInv, Obedient, Paced, CsvAsAsked
<1>. QED BY <1>1, CsvInvariant, PTL

\* Rows that follow each other begin at least a period apart however late one of
\* them was, and rt_timer_start never wakes csv_timer_cb out of its wait for swlock;
\* the stream's timer being the only one, and the owner of swlock running at the
\* timer thread's priority meanwhile.
THEOREM RowTimingCorrect == OneTimer /\ CsvSpec => RowTiming
<1>1. CsvInv /\ [CsvNext]_allvars => [ pc' = "callback" /\ pc # "callback" => gap >= armed ]_allvars
  <2>. SUFFICES ASSUME CsvInv, CsvNext, pc' = "callback", pc # "callback" PROVE gap >= armed
    BY DEF allvars, vars, thread
  <2>0. Structure' /\ thread_stat # "wait"
    BY StreamStructure DEF CsvInv, CsvTypeOK, Paced, Structure, PlaceInv
  <2>1. ~StreamThread /\ ~csv_timer_cb_waits /\ ~csv_timer_cb /\ ~StreamTick
    BY <2>0 DEF StreamThread, ThreadNext, ThreadSuspend, ThreadDelta, ThreadSleep, CheckDone,
       csv_timer_cb_waits, CallbackWait, CallbackWoken, csv_timer_cb, CallbackReturn, StreamTick, Tick
  <2>2. ~Shell
    BY DEF Shell, CsvOn, CsvArm, CsvCreateFails, CsvStart, rt_timer_start, CsvStartRest, StartCheck,
       StartResume, CsvOff, rt_timer_stop, CsvStopped, StopRemove, cmd_sw_csv_header, cmd_sw_timefmt,
       vars, thread
  <2>3. StreamFire
    BY <2>1, <2>2 DEF CsvNext
  <2>. QED BY <2>0, <2>3, FireStep
<1>2. CsvInv /\ [CsvNext]_allvars =>
        [ thread_stat = "wait" /\ thread_stat' = "run" => caller' = caller ]_allvars
  <2>. SUFFICES ASSUME CsvInv, CsvNext, thread_stat = "wait" PROVE caller' = caller
    BY DEF allvars, vars, thread
  <2>1. ~CallerRuns
    BY DEF CsvInv, OneTimer, CallerRuns
  <2>2. ~Shell
    BY <2>1 DEF Shell, CsvOn, CsvArm, CsvCreateFails, CsvStart, rt_timer_start, CsvStartRest, StartCheck,
       StartResume, CsvOff, CsvStopped, StopRemove, cmd_sw_csv_header, cmd_sw_timefmt
  <2>3. CASE StreamThread \/ StreamFire \/ csv_timer_cb \/ StreamTick \/ csv_timer_cb_waits
    BY <2>3 DEF StreamThread, ThreadNext, ThreadSuspend, ThreadDelta, ThreadSleep, CheckDone, StreamFire,
       CheckFire, csv_timer_cb, CallbackReturn, StreamTick, Tick, csv_timer_cb_waits, CallbackWait,
       CallbackWoken
  <2>. QED BY <2>2, <2>3 DEF CsvNext
<1>. QED BY <1>1, <1>2, CsvInvariant, PTL DEF CsvSpec, RowTiming, RowSpacing, WaitNotCutShort
=============================================================================
