----------------------------- MODULE SoftTimers -----------------------------
(***************************************************************************)
(* The soft timers of rt-thread/src/timer.c: the list, the timer thread    *)
(* that runs the callbacks, and a thread (the shell) that starts, stops    *)
(* and changes timers.                                                     *)
(*                                                                         *)
(* Everything between rt_hw_interrupt_disable and _enable is one step.     *)
(* Between steps the tick interrupt may come.  The timer thread has the    *)
(* highest priority (RT_TIMER_THREAD_PRIO 4), so the caller only steps     *)
(* while it is suspended; but the caller can be overtaken between any two  *)
(* of its own steps.                                                       *)
(***************************************************************************)
EXTENDS TimerList, FiniteSets

CONSTANTS
    Timers,           \* the soft timers
    Periodic,         \* those created with RT_TIMER_FLAG_PERIODIC
    Periods,          \* values the caller passes to RT_TIMER_CTRL_SET_TIME
    NoTimer,
    MaxLag,           \* bound: ticks from a wake-up or a call to the thread's next sleep
    CallbackMayYield  \* does the caller get the core while a callback waits?

ASSUME SoftTimerConstants ==
    /\ IsFiniteSet(Timers)
    /\ Periodic \subseteq Timers
    /\ Periods \subseteq Ticks
    /\ NoTimer \notin Timers
    /\ MaxLag \in Nat
    /\ CallbackMayYield \in BOOLEAN

\* Ticks wrap: the list keeps its order only as long as the farthest timeout and
\* the one that is overdue most are less than half the range of rt_tick_t apart.
ASSUME LatenessAssumption ==
    /\ Half + 2 * MaxLag + 1 < TickMod
    /\ \A p \in Periods : p < Half => p + 2 * MaxLag + 1 <= TickMod - Half

VARIABLES
    tick,               \* rt_tick
    soft_list,          \* rt_soft_timer_list
    activated,          \* the timers with RT_TIMER_FLAG_ACTIVATED
    init_tick,          \* timer->init_tick
    timeout_tick,       \* timer->timeout_tick
    soft_timer_status,  \* RT_SOFT_TIMER_IDLE or _BUSY
    thread_stat,        \* of timer_thread
    pc,                 \* of timer_thread
    next_timeout,       \* its local variable: a tick, then a delay (0 when not in use)
    wake,               \* timeout of its thread_timer while it sleeps (0 when not)
    firing,             \* t, while its callback runs
    in_list,            \* t is on the local list of rt_soft_timer_check
    caller,             \* where the calling thread is, and with which timer
    lag,                \* ticks since the timer thread woke up or a call began
    halted,             \* RT_ASSERT has failed
    missed              \* history: a timeout equal to RT_TICK_MAX was read as "no timer"

timers == <<soft_list, activated, init_tick, timeout_tick>>
thread == <<soft_timer_status, thread_stat, pc, next_timeout, wake, firing, in_list>>
vars == <<tick, timers, thread, caller, lag, halted, missed>>

\* "run": ready or running.  The others are RT_THREAD_SUSPEND: in
\* rt_thread_delay, in rt_thread_suspend, waiting inside a callback.
ThreadStats == {"run", "delay", "suspend", "wait"}

\* Ticks stay within rt_tick_t; thread and caller are where timer.c can be.
TypeOK ==
    /\ tick \in Ticks
    /\ soft_list \in Seq(Timers)
    /\ activated \subseteq Timers
    /\ init_tick \in [Timers -> Ticks]
    /\ timeout_tick \in [Timers -> Ticks]
    /\ soft_timer_status \in {"idle", "busy"}
    /\ thread_stat \in ThreadStats
    /\ pc \in {"next", "branch", "sleep", "check", "callback", "loop"}
    /\ next_timeout \in Ticks
    /\ wake \in Ticks
    /\ firing \in Timers \cup {NoTimer}
    /\ in_list \in BOOLEAN
    /\ caller \in [at : {"idle", "start", "check", "resume", "stop"}, timer : Timers \cup {NoTimer}]
    /\ lag \in 0..MaxLag
    /\ halted \in BOOLEAN
    /\ missed \in BOOLEAN

Idle == [at |-> "idle", timer |-> NoTimer]

\* The thread starts with an empty list, at any value of the tick counter.
Init ==
    /\ tick \in Ticks
    /\ soft_list = <<>>
    /\ activated = {}
    /\ init_tick \in [Timers -> Periods]
    /\ timeout_tick = [t \in Timers |-> 0]
    /\ soft_timer_status = "idle"
    /\ thread_stat = "run"
    /\ pc = "next"
    /\ next_timeout = 0
    /\ wake = 0
    /\ firing = NoTimer
    /\ in_list = FALSE
    /\ caller = Idle
    /\ lag = 0
    /\ halted = FALSE
    /\ missed = FALSE

-----------------------------------------------------------------------------
\* The part of rt_timer_start that runs with interrupts off.  A failed
\* assertion spins there for ever.
StartTimer(t) ==
    IF init_tick[t] < Half
      THEN /\ timeout_tick' = [timeout_tick EXCEPT ![t] = Plus(tick, init_tick[t])]
           /\ soft_list' = InsertTimer(_rt_timer_remove(soft_list, t), timeout_tick', t)
           /\ activated' = activated \cup {t}
           /\ UNCHANGED <<init_tick, halted>>
      ELSE /\ halted' = TRUE
           /\ soft_list' = _rt_timer_remove(soft_list, t)
           /\ activated' = activated \ {t}
           /\ UNCHANGED <<init_tick, timeout_tick>>

\* The timer thread is the one that runs.
ThreadRuns == ~halted /\ thread_stat = "run"

\* rt_thread_timer_entry: look at the first timer.
ThreadNext ==
    /\ ThreadRuns
    /\ pc = "next"
    /\ next_timeout' = NextTimeout(soft_list, timeout_tick)
    /\ pc' = "branch"
    /\ missed' = (missed \/ (soft_list # <<>> /\ next_timeout' = RT_TICK_MAX))
    /\ UNCHANGED <<tick, timers, soft_timer_status, thread_stat, wake, firing, in_list, caller, lag, halted>>

\* No software timer exists: suspend.
ThreadSuspend ==
    /\ ThreadRuns
    /\ pc = "branch"
    /\ next_timeout = RT_TICK_MAX
    /\ thread_stat' = "suspend"
    /\ next_timeout' = 0
    /\ pc' = "check"
    /\ lag' = 0
    /\ UNCHANGED <<tick, timers, soft_timer_status, wake, firing, in_list, caller, halted, missed>>

\* The time to sleep, unless the first timer is overdue.
ThreadDelta ==
    /\ ThreadRuns
    /\ pc = "branch"
    /\ next_timeout # RT_TICK_MAX
    /\ LET delta == Minus(next_timeout, tick)
       IN  IF delta < Half
             THEN pc' = "sleep" /\ next_timeout' = delta
             ELSE pc' = "check" /\ next_timeout' = 0
    /\ UNCHANGED <<tick, timers, soft_timer_status, thread_stat, wake, firing, in_list, caller, lag, halted, missed>>

\* rt_thread_delay
ThreadSleep ==
    /\ ThreadRuns
    /\ pc = "sleep"
    /\ thread_stat' = "delay"
    /\ wake' = Plus(tick, next_timeout)
    /\ next_timeout' = 0
    /\ pc' = "check"
    /\ lag' = 0
    /\ UNCHANGED <<tick, timers, soft_timer_status, firing, in_list, caller, halted, missed>>

\* The loop condition of rt_soft_timer_check.
HeadDue == soft_list # <<>> /\ Expired(tick, timeout_tick[Head(soft_list)])

\* rt_soft_timer_check takes the first timer out and calls its callback.
CheckFire ==
    /\ ThreadRuns
    /\ pc \in {"check", "loop"}
    /\ HeadDue
    /\ LET t == Head(soft_list)
       IN  /\ soft_list' = _rt_timer_remove(soft_list, t)
           /\ activated' = IF t \in Periodic THEN activated ELSE activated \ {t}
           /\ firing' = t
    /\ in_list' = TRUE
    /\ soft_timer_status' = "busy"
    /\ pc' = "callback"
    /\ UNCHANGED <<tick, init_tick, timeout_tick, thread_stat, next_timeout, wake, caller, lag, halted, missed>>

\* Nothing (more) is due.
CheckDone ==
    /\ ThreadRuns
    /\ pc \in {"check", "loop"}
    /\ ~HeadDue
    /\ pc' = "next"
    /\ UNCHANGED <<tick, timers, soft_timer_status, thread_stat, next_timeout, wake, firing, in_list, caller, lag, halted, missed>>

\* The callback waits for something, and gets it.
CallbackWait ==
    /\ ThreadRuns
    /\ pc = "callback"
    /\ thread_stat' = "wait"
    /\ UNCHANGED <<tick, timers, soft_timer_status, pc, next_timeout, wake, firing, in_list, caller, lag, halted, missed>>

CallbackWoken ==
    /\ ~halted
    /\ thread_stat = "wait"
    /\ thread_stat' = "run"
    /\ UNCHANGED <<tick, timers, soft_timer_status, pc, next_timeout, wake, firing, in_list, caller, lag, halted, missed>>

\* Mutant: a periodic timer is restarted although it was stopped meanwhile.
RestartsAlways(t) == t \in Periodic

\* Is t to be started again after its callback?
Restarts(t) == in_list /\ t \in Periodic /\ t \in activated

\* Mutant: the status stays busy after a callback.
CallbackReturnBusy ==
    /\ ThreadRuns
    /\ pc = "callback"
    /\ IF Restarts(firing) THEN StartTimer(firing) ELSE UNCHANGED <<timers, halted>>
    /\ firing' = NoTimer
    /\ in_list' = FALSE
    /\ pc' = "loop"
    /\ UNCHANGED <<tick, soft_timer_status, thread_stat, next_timeout, wake, caller, lag, missed>>

\* The callback returns: the rest of the loop of rt_soft_timer_check, with
\* interrupts off up to the next loop condition.
CallbackReturn ==
    /\ ThreadRuns
    /\ pc = "callback"
    /\ soft_timer_status' = "idle"
    /\ IF Restarts(firing) THEN StartTimer(firing) ELSE UNCHANGED <<timers, halted>>
    /\ firing' = NoTimer
    /\ in_list' = FALSE
    /\ pc' = "loop"
    /\ UNCHANGED <<tick, thread_stat, next_timeout, wake, caller, lag, missed>>

-----------------------------------------------------------------------------
\* The tick interrupt: rt_tick_increase and, in rt_timer_check, the thread_timer
\* of the timer thread.
Tick ==
    /\ ~halted
    /\ pc # "loop"
    /\ tick' = Plus(tick, 1)
    /\ IF thread_stat \in {"run", "wait"} \/ caller.at # "idle"
         THEN lag < MaxLag /\ lag' = lag + 1
         ELSE UNCHANGED lag
    /\ IF thread_stat = "delay" /\ Expired(tick', wake)
         THEN thread_stat' = "run" /\ wake' = 0
         ELSE UNCHANGED <<thread_stat, wake>>
    /\ UNCHANGED <<timers, soft_timer_status, pc, next_timeout, firing, in_list, caller, halted, missed>>

-----------------------------------------------------------------------------
\* Mutant: the lock a callback waits for does not pass its priority on.
CallerRunsInWait == ~halted /\ thread_stat # "run"

\* A lower-priority thread has the core.  While csv_timer_cb waits for swlock the
\* owner of swlock runs at the timer thread's priority and no other thread does.
CallerRuns ==
    /\ ~halted
    /\ \/ thread_stat \in {"delay", "suspend"}
       \/ thread_stat = "wait" /\ CallbackMayYield

\* rt_timer_control(t, RT_TIMER_CTRL_SET_TIME, &p)
rt_timer_control(t, p) ==
    /\ CallerRuns
    /\ caller.at = "idle"
    /\ init_tick' = [init_tick EXCEPT ![t] = p]
    /\ UNCHANGED <<tick, soft_list, activated, timeout_tick, thread, caller, lag, halted, missed>>

\* rt_timer_start(t), interrupts off.  The timer leaves whatever list it is on.
rt_timer_start(t) ==
    /\ CallerRuns
    /\ caller.at \in {"idle", "start"}
    /\ StartTimer(t)
    /\ in_list' = (in_list /\ firing # t)
    /\ caller' = [at |-> "check", timer |-> t]
    /\ UNCHANGED <<tick, soft_timer_status, thread_stat, pc, next_timeout, wake, firing, lag, missed>>

\* The end of a call; a sleeping timer thread owes nothing for the time it took.
CallEnds ==
    /\ caller' = Idle
    /\ lag' = IF thread_stat = "wait" THEN lag ELSE 0

\* rt_timer_start, interrupts on again: does the timer thread sleep outside a
\* callback?
StartCheck ==
    /\ CallerRuns
    /\ caller.at = "check"
    /\ IF soft_timer_status = "idle" /\ thread_stat # "run"
         THEN caller' = [caller EXCEPT !.at = "resume"] /\ UNCHANGED lag
         ELSE CallEnds
    /\ UNCHANGED <<tick, timers, thread, halted, missed>>

\* Mutant: the timer thread is not resumed.
StartResumeNot ==
    /\ CallerRuns
    /\ caller.at = "resume"
    /\ CallEnds
    /\ UNCHANGED <<tick, timers, thread, halted, missed>>

\* rt_thread_resume(&timer_thread), which stops its thread_timer, and rt_schedule.
StartResume ==
    /\ CallerRuns
    /\ caller.at = "resume"
    /\ thread_stat' = "run"
    /\ wake' = 0
    /\ caller' = Idle
    /\ UNCHANGED <<tick, timers, soft_timer_status, pc, next_timeout, firing, in_list, lag, halted, missed>>

\* rt_timer_stop(t): the flag is read with interrupts on ...
rt_timer_stop(t) ==
    /\ CallerRuns
    /\ caller.at = "idle"
    /\ t \in activated
    /\ caller' = [at |-> "stop", timer |-> t]
    /\ UNCHANGED <<tick, timers, thread, lag, halted, missed>>

\* Mutant: the timer loses its flag but not its place in the list.
StopRemoveFlagOnly ==
    /\ CallerRuns
    /\ caller.at = "stop"
    /\ activated' = activated \ {caller.timer}
    /\ CallEnds
    /\ UNCHANGED <<tick, soft_list, init_tick, timeout_tick, thread, halted, missed>>

\* ... and the timer taken out with interrupts off.
StopRemove ==
    /\ CallerRuns
    /\ caller.at = "stop"
    /\ LET t == caller.timer
       IN  /\ soft_list' = _rt_timer_remove(soft_list, t)
           /\ activated' = activated \ {t}
           /\ in_list' = (in_list /\ firing # t)
    /\ CallEnds
    /\ UNCHANGED <<tick, init_tick, timeout_tick, soft_timer_status, thread_stat, pc,
                   next_timeout, wake, firing, halted, missed>>

ThreadStep == ThreadNext \/ ThreadSuspend \/ ThreadDelta \/ ThreadSleep \/ CheckFire
                \/ CheckDone \/ CallbackReturn

Caller ==
    \/ \E t \in Timers, p \in Periods : rt_timer_control(t, p)
    \/ \E t \in Timers : rt_timer_start(t) \/ rt_timer_stop(t)
    \/ StartCheck \/ StartResume \/ StopRemove

Next == ThreadStep \/ CallbackWait \/ CallbackWoken \/ Tick \/ Caller

\* Time goes on, the timer thread runs when it is ready, what a callback waits
\* for comes, and a callback waits only finitely often.  The caller owes nothing
\* but the end of a call it began.
Fairness ==
    /\ WF_vars(ThreadStep)
    /\ SF_vars(CallbackReturn)
    /\ WF_vars(CallbackWoken)
    /\ WF_vars(Tick)
    /\ SF_vars(StartCheck \/ StartResume \/ StopRemove)

Spec == Init /\ [][Next]_vars
FairSpec == Spec /\ Fairness

-----------------------------------------------------------------------------
Listed == {soft_list[i] : i \in DOMAIN soft_list}

\* How long ago the timeout of t was, on a scale that starts with the farthest
\* timeout that can be set; nothing is ever overdue by more than 2 * MaxLag + 1.
Age(t) == Minus(tick + Half, timeout_tick[t])

\* The list holds exactly the activated timers, except the one whose callback
\* runs, each once and in the order of their timeouts, across the wrap of the
\* tick counter and whatever the caller does while a callback waits.
ListExact == ~missed =>
    /\ Cardinality(Listed) = Len(soft_list)
    /\ Listed \subseteq activated
    /\ \A t \in activated \ Listed : firing = t /\ in_list
    /\ \A i, j \in DOMAIN soft_list :
         i < j => Age(soft_list[i]) >= Age(soft_list[j])

\* The timer thread will look at the list in time: it is awake, about to be
\* woken, has nothing to wait for, or sleeps until the first timeout, give or
\* take the ticks it lost before it went to sleep.
Attended ==
    \/ thread_stat \in {"run", "wait"}
    \/ caller.at \in {"check", "resume"}
    \/ soft_list = <<>>
    \/ /\ thread_stat = "delay"
       /\ LET first == timeout_tick[Head(soft_list)]
          IN  Minus(wake, first) <= MaxLag \/ Minus(first, wake) < Half

\* No wake-up of the timer thread is lost: it never sleeps past a timer that
\* was started or changed while it looked at the list or went to sleep (unless
\* a timeout fell on RT_TICK_MAX, which is read as "no timer").
WakeUpNotLost == ~missed => Attended

\* A callback is called only for an activated timer whose time has come, and of
\* several that are due for the one that was due first.
FiresInOrder ==
    [][ pc' = "callback" /\ pc # "callback" /\ ~missed =>
          /\ firing' \in activated
          /\ Expired(tick, timeout_tick[firing'])
          /\ \A t \in Listed : Age(t) <= Age(firing') ]_vars

\* Only rt_timer_start makes a timer active: one that was stopped, even from
\* within its own callback's run, is not started again by the timer thread.
StoppedStays ==
    [][ \A t \in activated' \ activated : caller' = [at |-> "check", timer |-> t] ]_vars

\* Every timer that was started fires, unless it is stopped or started again
\* first, or a timeout fell on the sentinel.
Fires ==
    \A t \in Timers :
        t \in activated ~> \/ firing = t
                           \/ t \notin activated
                           \/ caller = [at |-> "check", timer |-> t]
                           \/ missed

\* The list and the timer thread fit together at every step of rt_timer_start,
\* rt_timer_stop and the thread's loop.
TimersSound == TypeOK /\ ListExact /\ WakeUpNotLost

\* Callbacks come in order, and only for timers a caller has started.
FiringRules == FiresInOrder /\ StoppedStays
=============================================================================
