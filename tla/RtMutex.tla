------------------------------- MODULE RtMutex -------------------------------
(***************************************************************************)
(* The mutex of rt-thread/src/ipc.c (RT_IPC_FLAG_PRIO, wait forever) and   *)
(* as much of the scheduler as decides who runs: the swlock that guards    *)
(* g_sw, used by the soft-timer thread, the shell, the OLED thread and the *)
(* LED thread.                                                             *)
(*                                                                         *)
(* There is one core and interrupts are off inside the kernel calls, so    *)
(* each is one step, taken by the running thread.  rt_schedule follows     *)
(* every change of the ready set: the running thread is one of highest     *)
(* priority among the ready ones (which one of several equals depends on   *)
(* time slices, so any may be).  Smaller numbers are higher priorities.    *)
(***************************************************************************)
EXTENDS Integers, Sequences, FiniteSets

CONSTANTS
    Threads,
    NoThread,      \* RT_NULL as mutex->owner
    init_priority, \* the priority each thread was created with
    HoldMax,       \* RT_MUTEX_HOLD_MAX
    MaxOps         \* bound: acquisitions of the mutex in one activation

ASSUME MutexConstants ==
    /\ NoThread \notin Threads
    /\ init_priority \in [Threads -> Nat]
    /\ HoldMax \in Nat \ {0}
    /\ MaxOps \in Nat

VARIABLES
    stat,              \* thread->stat
    current_priority,  \* thread->current_priority
    value,             \* mutex->value
    owner,             \* mutex->owner
    hold,              \* mutex->hold
    original_priority, \* mutex->original_priority
    suspend_thread,    \* mutex->parent.suspend_thread
    ops                \* acquisitions since the thread last slept

mutexvars == <<value, owner, hold, original_priority, suspend_thread>>
vars == <<stat, current_priority, mutexvars, ops>>

\* 0xff, the original_priority of a free mutex.
NoPriority == -1

\* "ready" covers the running thread.
Stats == {"ready", "waiting", "sleeping"}

\* value, hold and the priorities of ipc.c stay in range.
TypeOK ==
    /\ stat \in [Threads -> Stats]
    /\ current_priority \in [Threads -> Nat]
    /\ value \in 0..1
    /\ owner \in Threads \cup {NoThread}
    /\ hold \in 0..HoldMax
    /\ original_priority \in Nat \cup {NoPriority}
    /\ suspend_thread \in Seq(Threads)
    /\ ops \in [Threads -> 0..MaxOps]

Init ==
    /\ stat = [t \in Threads |-> "sleeping"]
    /\ current_priority = init_priority
    /\ value = 1
    /\ owner = NoThread
    /\ hold = 0
    /\ original_priority = NoPriority
    /\ suspend_thread = <<>>
    /\ ops = [t \in Threads |-> 0]

-----------------------------------------------------------------------------
\* rt_schedule: t may be the running thread.
Running(t) ==
    /\ stat[t] = "ready"
    /\ \A u \in Threads : stat[u] = "ready" => current_priority[t] <= current_priority[u]

\* rt_ipc_list_suspend: t goes before the first waiter of lower priority.
BehindAll(s, t, k) ==
    /\ \A i \in 1..k-1 : current_priority[s[i]] <= current_priority[t]
    /\ k <= Len(s) => current_priority[t] < current_priority[s[k]]

QueuePosition(s, t) == CHOOSE k \in 1..Len(s)+1 : BehindAll(s, t, k)

Enqueue(s, t) ==
    LET k == QueuePosition(s, t)
    IN  [i \in 1..Len(s)+1 |-> IF i < k THEN s[i] ELSE IF i = k THEN t ELSE s[i-1]]

\* rt_mutex_take by the owner: only the hold count moves, and not beyond its
\* maximum, where the call returns -RT_EFULL.
TakeAgain(t) ==
    /\ Running(t)
    /\ owner = t
    /\ hold < HoldMax
    /\ ops[t] < MaxOps
    /\ hold' = hold + 1
    /\ ops' = [ops EXCEPT ![t] = @ + 1]
    /\ UNCHANGED <<stat, current_priority, value, owner, original_priority, suspend_thread>>

\* rt_mutex_take of a free mutex.
TakeFree(t) ==
    /\ Running(t)
    /\ owner # t
    /\ value > 0
    /\ ops[t] < MaxOps
    /\ value' = value - 1
    /\ owner' = t
    /\ original_priority' = current_priority[t]
    /\ hold' = hold + 1
    /\ ops' = [ops EXCEPT ![t] = @ + 1]
    /\ UNCHANGED <<stat, current_priority, suspend_thread>>

\* Mutant: no priority inheritance.
NotBoosted(t) == current_priority

\* The owner inherits the priority of the caller t if that is higher.
Boosted(t) ==
    IF current_priority[t] < current_priority[owner]
      THEN [current_priority EXCEPT ![owner] = current_priority[t]]
      ELSE current_priority

\* rt_mutex_take of a held mutex: the owner inherits the caller's priority if
\* that is higher, and the caller is suspended.
TakeHeld(t) ==
    /\ Running(t)
    /\ owner # t
    /\ value = 0
    /\ ops[t] < MaxOps
    /\ current_priority' = Boosted(t)
    /\ stat' = [stat EXCEPT ![t] = "waiting"]
    /\ suspend_thread' = Enqueue(suspend_thread, t)
    /\ ops' = [ops EXCEPT ![t] = @ + 1]
    /\ UNCHANGED <<value, owner, hold, original_priority>>

rt_mutex_take(t) == TakeAgain(t) \/ TakeFree(t) \/ TakeHeld(t)

\* rt_mutex_release of an inner hold.
ReleaseInner(t) ==
    /\ Running(t)
    /\ owner = t
    /\ hold > 1
    /\ hold' = hold - 1
    /\ UNCHANGED <<stat, current_priority, value, owner, original_priority, suspend_thread, ops>>

\* rt_mutex_release of the last hold, nobody waiting.
ReleaseFree(t) ==
    /\ Running(t)
    /\ owner = t
    /\ hold = 1
    /\ suspend_thread = <<>>
    /\ hold' = 0
    /\ current_priority' = [current_priority EXCEPT ![t] = original_priority]
    /\ value' = value + 1
    /\ owner' = NoThread
    /\ original_priority' = NoPriority
    /\ UNCHANGED <<stat, suspend_thread, ops>>

\* Mutant: the caller keeps the priority it inherited.
ReleaseHandOverBoosted(t) ==
    /\ Running(t)
    /\ owner = t
    /\ hold = 1
    /\ suspend_thread # <<>>
    /\ owner' = Head(suspend_thread)
    /\ original_priority' = current_priority[owner']
    /\ stat' = [stat EXCEPT ![owner'] = "ready"]
    /\ hold' = 1
    /\ suspend_thread' = Tail(suspend_thread)
    /\ UNCHANGED <<current_priority, value, ops>>

\* Mutant: the lock is released but the first waiter is not resumed.
ReleaseHandOverLost(t) ==
    /\ Running(t)
    /\ owner = t
    /\ hold = 1
    /\ suspend_thread # <<>>
    /\ current_priority' = [current_priority EXCEPT ![t] = original_priority]
    /\ owner' = Head(suspend_thread)
    /\ original_priority' = current_priority[owner']
    /\ hold' = 1
    /\ suspend_thread' = Tail(suspend_thread)
    /\ UNCHANGED <<stat, value, ops>>

\* rt_mutex_release of the last hold: the caller returns to its own priority and
\* the first waiter becomes the owner before it has run.
ReleaseHandOver(t) ==
    /\ Running(t)
    /\ owner = t
    /\ hold = 1
    /\ suspend_thread # <<>>
    /\ current_priority' = [current_priority EXCEPT ![t] = original_priority]
    /\ LET next == Head(suspend_thread)
       IN  /\ owner' = next
           /\ original_priority' = current_priority[next]
           /\ stat' = [stat EXCEPT ![next] = "ready"]
    /\ hold' = 1
    /\ suspend_thread' = Tail(suspend_thread)
    /\ UNCHANGED <<value, ops>>

rt_mutex_release(t) == ReleaseInner(t) \/ ReleaseFree(t) \/ ReleaseHandOver(t)

\* rt_thread_sleep (rt_thread_mdelay, or the timer thread waiting for the next
\* timeout).  No code path of the firmware sleeps with the mutex held.
rt_thread_sleep(t) ==
    /\ Running(t)
    /\ owner # t
    /\ stat' = [stat EXCEPT ![t] = "sleeping"]
    /\ ops' = [ops EXCEPT ![t] = 0]
    /\ UNCHANGED <<current_priority, mutexvars>>

\* The tick interrupt, whoever is running: rt_timer_check calls rt_thread_timeout
\* for every sleeper that is due.
rt_timer_check(due) ==
    /\ due # {}
    /\ \A t \in due : stat[t] = "sleeping"
    /\ stat' = [t \in Threads |-> IF t \in due THEN "ready" ELSE stat[t]]
    /\ UNCHANGED <<current_priority, mutexvars, ops>>

Next ==
    \/ \E t \in Threads : rt_mutex_take(t) \/ rt_mutex_release(t) \/ rt_thread_sleep(t)
    \/ \E due \in SUBSET Threads : rt_timer_check(due)

Spec == Init /\ [][Next]_vars

-----------------------------------------------------------------------------
Waiters == {suspend_thread[i] : i \in 1..Len(suspend_thread)}

\* The fields of the mutex agree with each other and with the threads: the lock
\* is held exactly when it has an owner, the owner is never suspended, and
\* exactly the suspended threads are queued, each once.
Consistent ==
    /\ (owner = NoThread) <=> (value = 1)
    /\ (owner = NoThread) <=> (hold = 0)
    /\ owner = NoThread => suspend_thread = <<>>
    /\ owner # NoThread => stat[owner] = "ready"
    /\ Waiters = {t \in Threads : stat[t] = "waiting"}
    /\ \A i, j \in 1..Len(suspend_thread) : suspend_thread[i] = suspend_thread[j] => i = j

\* A boost lasts exactly as long as the ownership that earned it: every thread
\* but the owner runs at the priority it was created with, and the owner's own
\* priority is the one release will restore.
Restored ==
    /\ \A t \in Threads : t # owner => current_priority[t] = init_priority[t]
    /\ owner # NoThread => /\ original_priority = init_priority[owner]
                           /\ current_priority[owner] <= init_priority[owner]

\* Waiters queue by priority, and the owner runs at least at the priority of
\* the most urgent of them.
Inherited ==
    /\ \A i, j \in 1..Len(suspend_thread) :
         i < j => current_priority[suspend_thread[i]] <= current_priority[suspend_thread[j]]
    /\ \A w \in Waiters : current_priority[owner] <= current_priority[w]

\* Priority inversion is bounded by one critical section: while a thread waits
\* for the lock, no thread of lower priority runs except the owner.
BoundedInversion ==
    \A w \in Waiters, t \in Threads :
        Running(t) /\ init_priority[t] > init_priority[w] => t = owner

\* Nobody who asks for the lock waits forever, the lowest-priority thread
\* included, although more urgent threads overtake it in the queue.
NoStarvation == \A t \in Threads : stat[t] = "waiting" ~> owner = t

\* The mutex stays sound under nested holds and any order of calls of ipc.c: its
\* fields agree, waiters queue by priority, and boosts neither fall short nor last.
MutexSound == TypeOK /\ Consistent /\ Restored /\ Inherited
=============================================================================
