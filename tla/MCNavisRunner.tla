--------------------------- MODULE MCNavisRunner ---------------------------
(* A workflow class with one single and one `multiple` step, whose state   *)
(* TAKE has a transition hook that may not be entered from the final state.*)
EXTENDS NavisRunner

MCStates == {Begin, Finish, "TAKE"}
MCHooked == {"TAKE"}
MCAllowedFrom   == [s \in MCHooked |-> {}]
MCUnallowedFrom == [s \in MCHooked |-> {Finish}]

(* Every action, in few mutations; or what moves steps and the status, in  *)
(* more of them.                                                           *)
EveryAction == {"start", "cancel", "abort", "pause", "resume", "add_task",
                "add_participant", "add_step", "transit", "transit_step",
                "memorize", "output", "recall", "trigger"}
StepActions == {"start", "pause", "add_step", "transit", "trigger"}
Wide == <<3, 1>>
Deep == <<2, 3>>
=============================================================================
