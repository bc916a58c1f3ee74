------------------------------ MODULE MCTasks ------------------------------
(***************************************************************************)
(* Five tasks that share no state: the light thread, the LED thread, the   *)
(* OLED thread, the shell's input and the shell's dispatch of a line.      *)
(* What one of them does neither enables nor disables a step of another,   *)
(* so a behaviour that moves one of them, with the others at rest, shows   *)
(* all there is to see of it.                                              *)
(***************************************************************************)
EXTENDS LightLink, Indicators, OledUi, SerialRx, MshSplit

VARIABLE part   \* the task that moves in this behaviour

MCKnown == { <<"x">>, <<"x", "x">> }

\* A task at rest is in one of its initial states.
At(p) == part = p
LightStart == (At("light") \/ do_pin = FALSE) /\ LightInit
UiStart == (At("ui") \/ laps = <<>>) /\ UiInit
MshStart == (At("msh") \/ typed = <<"x">>) /\ MshInit

Init ==
    /\ part \in {"light", "led", "ui", "rx", "msh"}
    /\ LightStart /\ LedInit /\ UiStart /\ RxInit /\ MshStart

LightMoves == At("light") /\ LightNext /\ UNCHANGED <<ledvars, uivars, rxvars, mshvars, part>>
LedMoves == At("led") /\ LedNext /\ UNCHANGED <<lightvars, uivars, rxvars, mshvars, part>>
UiMoves == At("ui") /\ UiNext /\ UNCHANGED <<lightvars, ledvars, rxvars, mshvars, part>>
RxMoves == At("rx") /\ RxNext /\ UNCHANGED <<lightvars, ledvars, uivars, mshvars, part>>
MshMoves == At("msh") /\ MshNext /\ UNCHANGED <<lightvars, ledvars, uivars, rxvars, part>>

Next == LightMoves \/ LedMoves \/ UiMoves \/ RxMoves \/ MshMoves

vars == <<lightvars, ledvars, uivars, rxvars, mshvars, part>>

\* Each task is as fair as its module says.
Fairness ==
    /\ WF_lightvars(At("light") /\ LightStep) /\ WF_lightvars(At("light") /\ BeepEnd)
    /\ WF_uivars(At("ui") /\ UiStep)
    /\ WF_rxvars(At("rx") /\ IsrIndicate) /\ SF_rxvars(At("rx") /\ Shell)

Spec == Init /\ [][Next]_vars /\ Fairness

-----------------------------------------------------------------------------
\* Counters, places, indices and the refresh period stay in range, at rest and in motion.
TasksTypeOK == LightTypeOK /\ LedTypeOK /\ UiTypeOK /\ RxTypeOK

\* LinkConverges of light_thread_entry, when it is the task that moves.
LightConverges == At("light") => LinkConverges

\* Settles of ui_entry, when it is the task that moves.
DisplaySettles == At("ui") => Settles
=============================================================================
