------------------------------ MODULE LapTimer ------------------------------
(***************************************************************************)
(* What the stopwatch promises its user, without clock, registers or array.*)
(* seen is the last total anybody was shown.  It can only be overtaken by  *)
(* a larger one, stands still unless the watch runs, and goes back only to *)
(* zero and only by a reset.  A lap is the time from one mark to the next  *)
(* and the last Window of them are kept, oldest first.                     *)
(***************************************************************************)
EXTENDS Integers, Sequences

CONSTANTS Window, MaxTotal

VARIABLES mode, seen, mark, laps

vars == <<mode, seen, mark, laps>>

Init == mode = "IDLE" /\ seen = 0 /\ mark = 0 /\ laps = <<>>

\* The totals that may be shown next.
Shown == IF mode = "RUNNING" THEN seen..MaxTotal ELSE {seen}

Start == mode # "RUNNING" /\ mode' = "RUNNING" /\ UNCHANGED <<seen, mark, laps>>

Stop == mode = "RUNNING" /\ mode' = "PAUSED" /\ seen' \in Shown /\ UNCHANGED <<mark, laps>>

Reset ==
    /\ mode' = IF mode = "RUNNING" THEN "RUNNING" ELSE "IDLE"
    /\ seen' = 0 /\ mark' = 0 /\ laps' = <<>>

Latest(s) == IF Len(s) > Window THEN Tail(s) ELSE s

Lap ==
    /\ seen' \in Shown
    /\ mark' = seen'
    /\ laps' = Latest(Append(laps, seen' - mark))
    /\ UNCHANGED mode

ClearLaps == seen' \in Shown /\ mark' = seen' /\ laps' = <<>> /\ UNCHANGED mode

Show == seen' \in Shown /\ UNCHANGED <<mode, mark, laps>>

Next == Start \/ Stop \/ Reset \/ Lap \/ ClearLaps \/ Show

Spec == Init /\ [][Next]_vars
=============================================================================
