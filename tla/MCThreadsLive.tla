--------------------------- MODULE MCThreadsLive ---------------------------
(***************************************************************************)
(* The threads in three kinds of behaviour.  In "all" the four of them     *)
(* make the calls of the firmware.  In the other two the LED thread stays  *)
(* asleep, the stopwatch counts nothing and the threads are fair: in       *)
(* "calls" they make the calls of the firmware, in "mutex" they take and   *)
(* release the mutex as they like, an owner again as well, which the       *)
(* kernel allows.                                                          *)
(***************************************************************************)
EXTENDS MCThreads

VARIABLE part

LiveInit == ThreadsInit /\ part \in {"all", "calls", "mutex"}

\* What keeps the fair behaviours small; no thread's progress depends on it.
Small == part # "all" => stat'["led"] = "sleeping" /\ now_ms' = 0

CallsMove == part # "mutex" /\ ThreadsNext /\ Small /\ UNCHANGED part
MutexMoves == part = "mutex" /\ Next /\ Small /\ UNCHANGED <<local, g_sw, done, part>>

LiveNext == CallsMove \/ MutexMoves

\* A thread that gets the core again and again gets on: with its calls, or
\* releasing what it holds and, its acquisitions being finite, going to sleep.
GetsOn(t) ==
    \/ part = "calls" /\ ThreadStep(t)
    \/ part = "mutex" /\ (rt_mutex_release(t) \/ rt_thread_sleep(t)) /\ UNCHANGED <<local, g_sw, done>>

Fair == \A t \in Threads \ {"led"} : SF_tvars(GetsOn(t))

LiveSpec == LiveInit /\ [][LiveNext]_<<tvars, part>> /\ Fair

\* CallsReturn of the service's callers, in the fair behaviours.
FairCallsReturn == part # "all" => CallsReturn

\* NoStarvation of the mutex, in the fair behaviours.
FairNoStarvation == part # "all" => NoStarvation
=============================================================================
