---------------------------- MODULE MCScheduler ----------------------------
\* The timer thread, above the LED and the light thread, which share a priority.
EXTENDS Scheduler

CONSTANTS timer, led, light

MCPriority == [t \in {timer, led, light, idle} |->
                 IF t = timer THEN 0 ELSE IF t = idle THEN 2 ELSE 1]

MCTick == [t \in {timer, led, light, idle} |-> IF t \in {led, light} THEN 2 ELSE 1]
=============================================================================
