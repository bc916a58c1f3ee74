----------------------------- MODULE MCThreads -----------------------------
(* Threads and priorities as the firmware creates them.                    *)
EXTENDS StopwatchThreads

MCPriority == [t \in Threads |->
    CASE t = "timer" -> 4 [] t = "shell" -> 20 [] t = "ui" -> 28 [] OTHER -> 29]

\* These have the order that the readers of several calls rely on.
ASSUME FirmwareOrder == FirmwarePriorities
=============================================================================
