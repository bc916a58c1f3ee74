---------------------------- MODULE MCSoftTimers ----------------------------
(* Two soft timers, one of them periodic, with callbacks that may wait.    *)
EXTENDS SoftTimers
=============================================================================
