----------------------------- MODULE Scheduler -----------------------------
(***************************************************************************)
(* The scheduler of rt-thread/src/scheduler.c with the ready queues, time  *)
(* slices (clock.c), thread timers (timer.c) and thread states (thread.c), *)
(* under one mutex of ipc.c.  The kernel works with interrupts off, except *)
(* between the change of a thread's state and the rt_schedule() that       *)
(* follows it, and inside rt_thread_resume: an interrupt may come in       *)
(* between, make other threads ready and switch, and the interrupted call  *)
(* finishes much later.                                                    *)
(*                                                                         *)
(* It implements RtMutex, where the running thread is simply one of the    *)
(* most urgent ready ones.                                                 *)
(***************************************************************************)
EXTENDS TimerList, FiniteSets

CONSTANTS
    Threads,        \* every thread but the idle one
    idle,
    NoThread,       \* RT_NULL as mutex->owner
    init_priority,  \* of the idle thread too, for which it is the last
    init_tick,      \* the time slice of each thread
    Sleeps,         \* arguments of rt_thread_sleep
    MaxOps,         \* bound: acquisitions of the mutex in one activation
    MaxNest         \* bound: rt_enter_critical inside rt_enter_critical

Everyone == Threads \cup {idle}
Priorities == {init_priority[t] : t \in Everyone}

ASSUME SchedulerAssumption ==
    /\ IsFiniteSet(Threads) /\ idle \notin Threads /\ NoThread \notin Everyone
    /\ init_priority \in [Everyone -> Nat]
    /\ \A t \in Threads : init_priority[t] < init_priority[idle]
    /\ init_tick \in [Everyone -> Nat \ {0}]
    \* RT_ASSERT(timer->init_tick < RT_TICK_MAX / 2)
    /\ Sleeps \subseteq 0..Half-1
    /\ MaxOps \in Nat /\ MaxNest \in Nat

VARIABLES
    S,                 \* what rt_schedule works on, see below
    remaining_tick,
    rt_timer_list,     \* the thread timers, by timeout
    timeout,           \* timeout_tick - rt_tick of those timers, else 0
    at,                \* "schedule": the thread has rt_schedule() still to call
    resumed,           \* whom the thread has taken out of its wait in
                       \* rt_thread_resume and has not made ready yet, else NoThread
    owner, original_priority, suspend_thread, \* the mutex
    ops                \* acquisitions since the thread last slept

timers == <<rt_timer_list, timeout>>
mutex == <<owner, original_priority, suspend_thread>>
vars == <<S, remaining_tick, timers, at, resumed, mutex, ops>>

\* 0xff, the original_priority of a free mutex.
NoPriority == -1

\* Queues, slices, timers and the lock nesting of the scheduler stay in range.
TypeOK ==
    /\ S \in [stat: [Everyone -> {"ready", "running", "suspend"}],
              yield: [Everyone -> BOOLEAN],     \* RT_THREAD_STAT_YIELD
              current_priority: [Everyone -> Priorities],
              table: [Priorities -> Seq(Everyone)], \* rt_thread_priority_table
              group: SUBSET Priorities,         \* rt_thread_ready_priority_group
              current: Everyone,                \* rt_current_thread
              nest: 0..MaxNest]                 \* rt_scheduler_lock_nest
    /\ remaining_tick \in [Everyone -> Nat \ {0}]
    /\ \A t \in Everyone : remaining_tick[t] <= init_tick[t]
    /\ rt_timer_list \in Seq(Threads)
    /\ timeout \in [Threads -> Ticks]
    /\ at \in [Everyone -> {"run", "schedule"}]
    /\ resumed \in [Threads -> Threads \cup {NoThread}]
    /\ owner \in Threads \cup {NoThread}
    /\ original_priority \in Priorities \cup {NoPriority}
    /\ suspend_thread \in Seq(Threads)
    /\ ops \in [Threads -> 0..MaxOps]

\* The idle thread runs and everybody else sleeps until the next tick.
Init ==
    /\ S = [stat |-> [t \in Everyone |-> IF t = idle THEN "running" ELSE "suspend"],
            yield |-> [t \in Everyone |-> FALSE],
            current_priority |-> init_priority,
            table |-> [p \in Priorities |-> <<>>],
            group |-> {},
            current |-> idle,
            nest |-> 0]
    /\ remaining_tick = init_tick
    /\ rt_timer_list = SetToSeq(Threads)
    /\ timeout = [t \in Threads |-> 1]
    /\ at = [t \in Everyone |-> "run"]
    /\ resumed = [t \in Threads |-> NoThread]
    /\ owner = NoThread
    /\ original_priority = NoPriority
    /\ suspend_thread = <<>>
    /\ ops = [t \in Threads |-> 0]

-----------------------------------------------------------------------------
\* The ready queues.

rt_schedule_remove_thread(s, t) ==
    LET p == s.current_priority[t]
        queue == RemoveFirst(s.table[p], t)
    IN  [s EXCEPT !.table[p] = queue, !.group = IF queue = <<>> THEN @ \ {p} ELSE @]

\* The current thread is in no queue, even if it had just been suspended.
rt_schedule_insert_thread(s, t) ==
    IF t = s.current
      THEN [s EXCEPT !.stat[t] = "running"]
      ELSE LET p == s.current_priority[t]
           IN  [s EXCEPT !.stat[t] = "ready", !.table[p] = Append(@, t), !.group = @ \cup {p}]

\* The current thread keeps the core: it is able to run, and nobody more
\* urgent is ready, nor an equal when it is to yield.
Keeps(s, high) ==
    LET t == s.current
    IN  /\ s.stat[t] = "running"
        /\ \/ s.current_priority[t] < high
           \/ s.current_priority[t] = high /\ ~s.yield[t]

\* The switch to thread to: the thread left goes to the end of its queue,
\* unless it is suspended.
SwitchTo(s, to) ==
    LET from == s.current
        left == [s EXCEPT !.current = to]
        queued == IF s.stat[from] = "running" THEN rt_schedule_insert_thread(left, from) ELSE left
    IN  [rt_schedule_remove_thread(queued, to) EXCEPT !.stat[to] = "running"]

rt_schedule(s) ==
    IF s.nest # 0 \/ s.group = {}
      THEN s
      ELSE LET high == Min(s.group)
               yielded == IF s.stat[s.current] = "running"
                            THEN [s EXCEPT !.yield[s.current] = FALSE] ELSE s
           IN  IF Keeps(s, high)
                 THEN rt_schedule_remove_thread(yielded, s.current)
                 ELSE SwitchTo(yielded, Head(s.table[high]))

\* Mutant: a ready thread changes its priority but not its queue.
ChangePriorityInPlace(s, t, p) == [s EXCEPT !.current_priority[t] = p]

\* rt_thread_control(t, RT_THREAD_CTRL_CHANGE_PRIORITY, p)
ChangePriority(s, t, p) ==
    IF s.stat[t] = "ready"
      THEN rt_schedule_insert_thread(
             [rt_schedule_remove_thread(s, t) EXCEPT !.current_priority[t] = p], t)
      ELSE [s EXCEPT !.current_priority[t] = p]

\* rt_thread_suspend, without the timer.
rt_thread_suspend(s, t) == [rt_schedule_remove_thread(s, t) EXCEPT !.stat[t] = "suspend"]

-----------------------------------------------------------------------------
\* Interrupts.

\* The timeouts as seen one tick later.
Later == [t \in Threads |-> IF t \in Range(rt_timer_list) THEN Minus(timeout[t], 1) ELSE 0]

\* The timers that are due; the loop of rt_timer_check ends at the first that is not.
Due ==
    LET pending == {i \in DOMAIN rt_timer_list : ~Expired(0, Later[rt_timer_list[i]])}
    IN  SubSeq(rt_timer_list, 1, IF pending = {} THEN Len(rt_timer_list) ELSE Min(pending) - 1)

\* Mutant: the thread becomes ready but the scheduler is not called.
rt_thread_timeoutNoSchedule(s, t) == rt_schedule_insert_thread(s, t)

rt_thread_timeout(s, t) == rt_schedule(rt_schedule_insert_thread(s, t))

\* rt_timer_check: the timeouts of the due timers, one after the other.
rt_timer_check(s, due) ==
    LET after[n \in 0..Len(due)] ==
          IF n = 0 THEN s ELSE rt_thread_timeout(after[n - 1], due[n])
    IN  after[Len(due)]

\* The end of the current thread's slice.
SliceEnd(s) == rt_schedule([s EXCEPT !.yield[s.current] = TRUE])

\* The slice of thread t after the tick; a slice that is used up starts anew.
SliceLeft(t) == IF remaining_tick[t] = 1 THEN init_tick[t] ELSE remaining_tick[t] - 1

\* The tick interrupt: rt_tick_increase and the timeouts of all due timers, each
\* of which calls rt_schedule().
rt_tick_increase ==
    LET cur == S.current
        sliced == IF remaining_tick[cur] = 1 THEN SliceEnd(S) ELSE S
    IN  /\ remaining_tick' = [remaining_tick EXCEPT ![cur] = SliceLeft(cur)]
        /\ S' = rt_timer_check(sliced, Due)
        /\ rt_timer_list' = SubSeq(rt_timer_list, Len(Due) + 1, Len(rt_timer_list))
        /\ timeout' = [t \in Threads |-> IF t \in Range(Due) THEN 0 ELSE Later[t]]
        /\ UNCHANGED <<at, resumed, mutex, ops>>

\* Threads that a semaphore or rt_thread_resume may wake.  A thread that waits for
\* the mutex is woken by its release only, and nobody resumes the same thread
\* twice: rt_timer_start alone resumes with interrupts on, from the shell.
Wakeable(t) ==
    /\ S.stat[t] = "suspend"
    /\ t \notin Range(suspend_thread)
    /\ \A v \in Threads : resumed[v] # t

\* rt_timer_stop of the thread's timer, in rt_thread_suspend and rt_thread_resume.
StopTimer(t) ==
    /\ rt_timer_list' = _rt_timer_remove(rt_timer_list, t)
    /\ timeout' = [timeout EXCEPT ![t] = 0]

\* rt_thread_resume from an interrupt (the serial line's semaphore) followed by
\* rt_schedule().
IsrResume(t) ==
    /\ Wakeable(t)
    /\ StopTimer(t)
    /\ S' = rt_schedule(rt_schedule_insert_thread(S, t))
    /\ UNCHANGED <<remaining_tick, at, resumed, mutex, ops>>

-----------------------------------------------------------------------------
\* What the current thread does.

Runs(t) == S.current = t /\ at[t] = "run"

\* Blocking calls are not made with the scheduler locked.
MayBlock(t) == Runs(t) /\ S.nest = 0

\* rt_schedule() at the end of a kernel call.
Reschedule(t) ==
    /\ S.current = t
    /\ at[t] = "schedule" /\ resumed[t] = NoThread
    /\ at' = [at EXCEPT ![t] = "run"]
    /\ S' = rt_schedule(S)
    /\ UNCHANGED <<remaining_tick, timers, resumed, mutex, ops>>

\* rt_thread_sleep, up to its rt_schedule().  No thread sleeps with the mutex.
rt_thread_sleep(t) ==
    /\ MayBlock(t) /\ owner # t
    /\ \E n \in Sleeps :
         /\ timeout' = [timeout EXCEPT ![t] = n]
         /\ rt_timer_list' = InsertTimer(_rt_timer_remove(rt_timer_list, t), timeout', t)
    /\ S' = rt_thread_suspend(S, t)
    /\ at' = [at EXCEPT ![t] = "schedule"]
    /\ ops' = [ops EXCEPT ![t] = 0]
    /\ UNCHANGED <<remaining_tick, resumed, mutex>>

\* rt_sem_take without a timeout, or rt_thread_suspend(rt_thread_self()) of the
\* timer thread: no timer is started.
WaitForever(t) ==
    /\ MayBlock(t) /\ owner # t
    /\ StopTimer(t)
    /\ S' = rt_thread_suspend(S, t)
    /\ at' = [at EXCEPT ![t] = "schedule"]
    /\ ops' = [ops EXCEPT ![t] = 0]
    /\ UNCHANGED <<remaining_tick, resumed, mutex>>

\* rt_thread_resume of u by thread t, which then calls rt_schedule(), up to the
\* point where interrupts are on again: u waits for nothing more but is still
\* suspended and in no queue.
rt_thread_resume(t, u) ==
    /\ MayBlock(t) /\ Wakeable(u)
    /\ StopTimer(u)
    /\ resumed' = [resumed EXCEPT ![t] = u]
    /\ at' = [at EXCEPT ![t] = "schedule"]
    /\ UNCHANGED <<S, remaining_tick, mutex, ops>>

\* The rest of rt_thread_resume: u becomes ready.
InsertResumed(t) ==
    /\ S.current = t
    /\ at[t] = "schedule" /\ resumed[t] # NoThread
    /\ S' = rt_schedule_insert_thread(S, resumed[t])
    /\ resumed' = [resumed EXCEPT ![t] = NoThread]
    /\ UNCHANGED <<remaining_tick, timers, at, mutex, ops>>

rt_thread_yield(t) ==
    /\ Runs(t)
    /\ remaining_tick' = [remaining_tick EXCEPT ![t] = init_tick[t]]
    /\ S' = rt_schedule([S EXCEPT !.yield[t] = TRUE])
    /\ UNCHANGED <<timers, at, resumed, mutex, ops>>

rt_enter_critical(t) ==
    /\ Runs(t) /\ S.nest < MaxNest
    /\ S' = [S EXCEPT !.nest = @ + 1]
    /\ UNCHANGED <<remaining_tick, timers, at, resumed, mutex, ops>>

\* Mutant: the scheduler is unlocked and not called.
rt_exit_criticalNoSchedule(t) ==
    /\ Runs(t) /\ S.nest > 0
    /\ S' = [S EXCEPT !.nest = @ - 1]
    /\ UNCHANGED <<remaining_tick, timers, at, resumed, mutex, ops>>

\* Interrupts are on again before the last rt_exit_critical calls rt_schedule().
rt_exit_critical(t) ==
    /\ Runs(t) /\ S.nest > 0
    /\ S' = [S EXCEPT !.nest = @ - 1]
    /\ at' = [at EXCEPT ![t] = IF S.nest = 1 THEN "schedule" ELSE @]
    /\ UNCHANGED <<remaining_tick, timers, resumed, mutex, ops>>

\* rt_mutex_take of a free mutex.
TakeFree(t) ==
    /\ MayBlock(t) /\ owner = NoThread /\ ops[t] < MaxOps
    /\ owner' = t
    /\ original_priority' = S.current_priority[t]
    /\ ops' = [ops EXCEPT ![t] = @ + 1]
    /\ UNCHANGED <<S, remaining_tick, timers, at, resumed, suspend_thread>>

\* rt_ipc_list_suspend: before the first waiter that is less urgent.
Enqueue(t) ==
    LET later == {i \in DOMAIN suspend_thread :
                    S.current_priority[t] < S.current_priority[suspend_thread[i]]}
    IN  InsertAt(suspend_thread, IF later = {} THEN Len(suspend_thread) + 1 ELSE Min(later), t)

\* rt_mutex_take of a held mutex: the owner, which is not running but may be
\* ready, inherits the priority of the caller; the caller is suspended.
TakeHeld(t) ==
    /\ MayBlock(t) /\ owner \notin {t, NoThread} /\ ops[t] < MaxOps
    /\ LET p == S.current_priority[t]
           boosted == IF p < S.current_priority[owner] THEN ChangePriority(S, owner, p) ELSE S
       IN  S' = rt_thread_suspend(boosted, t)
    /\ suspend_thread' = Enqueue(t)
    /\ StopTimer(t)
    /\ at' = [at EXCEPT ![t] = "schedule"]
    /\ ops' = [ops EXCEPT ![t] = @ + 1]
    /\ UNCHANGED <<remaining_tick, resumed, owner, original_priority>>

\* The owner's own priority again.
Restored(t) ==
    IF original_priority # S.current_priority[t] THEN ChangePriority(S, t, original_priority) ELSE S

\* rt_mutex_release with nobody waiting: rt_schedule() is not called.
ReleaseFree(t) ==
    /\ MayBlock(t) /\ owner = t /\ suspend_thread = <<>>
    /\ S' = Restored(t)
    /\ owner' = NoThread
    /\ original_priority' = NoPriority
    /\ UNCHANGED <<remaining_tick, timers, at, resumed, suspend_thread, ops>>

\* rt_mutex_release: the first waiter owns the mutex before it runs.
ReleaseHandOver(t) ==
    /\ MayBlock(t) /\ owner = t /\ suspend_thread # <<>>
    /\ LET next == Head(suspend_thread)
       IN  /\ owner' = next
           /\ original_priority' = S.current_priority[next]
           /\ StopTimer(next)
           /\ S' = rt_schedule_insert_thread(Restored(t), next)
    /\ suspend_thread' = Tail(suspend_thread)
    /\ at' = [at EXCEPT ![t] = "schedule"]
    /\ UNCHANGED <<remaining_tick, resumed, ops>>

Step(t) ==
    \/ rt_thread_sleep(t) \/ WaitForever(t) \/ rt_thread_yield(t)
    \/ \E u \in Threads : rt_thread_resume(t, u)
    \/ rt_enter_critical(t) \/ rt_exit_critical(t)
    \/ TakeFree(t) \/ TakeHeld(t) \/ ReleaseFree(t) \/ ReleaseHandOver(t)

Next ==
    \/ rt_tick_increase
    \/ \E t \in Threads : IsrResume(t) \/ Step(t) \/ InsertResumed(t) \/ Reschedule(t)

Spec == Init /\ [][Next]_vars

-----------------------------------------------------------------------------
\* The ready queues are exact, whatever interrupts and inheritance do between
\* the calls: each ready thread is once in the queue of the priority it has now,
\* nobody else is in a queue, and the bitmap rt_schedule searches names exactly
\* the queues that hold somebody.  A wrong bit makes rt_schedule take the head of
\* an empty list.
QueuesExact ==
    /\ \A p \in Priorities :
         /\ Range(S.table[p]) = {t \in Everyone : S.stat[t] = "ready" /\ S.current_priority[t] = p}
         /\ IsInjective(S.table[p])
    /\ S.group = {p \in Priorities : S.table[p] # <<>>}
    /\ \A t \in Everyone : S.stat[t] = "running" => t = S.current

\* The thread that executes its own code, the scheduler not locked, is able to
\* run and no ready thread is more urgent: no wake-up of a more urgent thread is
\* left without a switch.
HighestRuns ==
    S.nest = 0 /\ at[S.current] = "run" =>
        /\ S.stat[S.current] = "running"
        /\ \A t \in Everyone : S.stat[t] = "ready" =>
               S.current_priority[S.current] <= S.current_priority[t]

\* A slice that is used up is never ignored: when the thread that executes its own
\* code is marked to yield, the scheduler not locked, no thread of its priority is
\* ready, also if the mark was set in a critical section or before a blocking call.
SliceObeyed ==
    S.nest = 0 /\ at[S.current] = "run" /\ S.yield[S.current] =>
        \A t \in Everyone :
            S.stat[t] = "ready" => S.current_priority[t] # S.current_priority[S.current]

\* A thread timer runs only while its thread is suspended, not for the mutex, and
\* not about to be made ready by rt_thread_resume (the assertion of
\* rt_thread_timeout never fails and no wake-up goes to a thread that waits for
\* something else), and it is never overdue.
TimersExact ==
    /\ IsInjective(rt_timer_list)
    /\ \A t \in Range(rt_timer_list) :
         /\ Wakeable(t)
         /\ \E n \in Sleeps \cup {1} : timeout[t] <= n /\ (timeout[t] = 0 => n = 0)

\* The scheduler and its queues implement the mutex protocol in which the running
\* thread is one of the most urgent ready threads.
AbstractStat ==
    [t \in Threads |-> IF S.stat[t] # "suspend" THEN "ready"
                       ELSE IF t \in Range(suspend_thread) THEN "waiting" ELSE "sleeping"]

Mutex == INSTANCE RtMutex WITH
            init_priority <- [t \in Threads |-> init_priority[t]],
            HoldMax <- 1,
            stat <- AbstractStat,
            current_priority <- [t \in Threads |-> S.current_priority[t]],
            value <- IF owner = NoThread THEN 1 ELSE 0,
            hold <- IF owner = NoThread THEN 0 ELSE 1

ImplementsMutex == Mutex!Spec

\* Ready queues and thread timers agree with the states of the threads.
QueuesSound == TypeOK /\ QueuesExact /\ TimersExact

\* rt_schedule has always chosen the right thread by the time one executes its own code.
RightThreadRuns == HighestRuns /\ SliceObeyed
=============================================================================
