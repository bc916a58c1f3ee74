----------------------------- MODULE TimerList -----------------------------
(***************************************************************************)
(* Tick arithmetic and the ordered timer list of rt-thread/src/timer.c.    *)
(* Ticks are rt_tick_t: unsigned, wrapping modulo TickMod (2^32).  With    *)
(* RT_TIMER_SKIP_LIST_LEVEL = 1, as rtdef.h sets it, the skip list is one  *)
(* plain list.                                                             *)
(***************************************************************************)
EXTENDS Integers, Sequences, SequencesExt

CONSTANT TickMod

ASSUME TickModAssumption == TickMod \in Nat /\ TickMod >= 8

Ticks == 0..TickMod-1
RT_TICK_MAX == TickMod - 1
Half == RT_TICK_MAX \div 2

Plus(a, b) == (a + b) % TickMod
Minus(a, b) == (a - b) % TickMod

\* (current_tick - t->timeout_tick) < RT_TICK_MAX / 2
Expired(now, timeout) == Minus(now, timeout) < Half

\* The element u, with timeout a, stops the search for the place of a timer
\* with timeout b; one with an equal timeout does not.
StopsSearch(a, b) == Minus(a, b) # 0 /\ Minus(a, b) < Half

\* rt_list_remove; a timer is in the list at most once.
_rt_timer_remove(list, t) == RemoveFirst(list, t)

\* The search loop and the insertion of rt_timer_start.
InsertTimer(list, timeout, t) ==
    LET stops == {i \in DOMAIN list : StopsSearch(timeout[list[i]], timeout[t])}
    IN  InsertAt(list, IF stops = {} THEN Len(list) + 1 ELSE Min(stops), t)

\* rt_timer_list_next_timeout
NextTimeout(list, timeout) ==
    IF list = <<>> THEN RT_TICK_MAX ELSE timeout[Head(list)]
=============================================================================
