--------------------------- MODULE MCCallbackList ---------------------------
(***************************************************************************)
(* Instances of CallbackList for TLC: three of the nineteen commands, in   *)
(* the relative order Daemon.xs sets them in.                              *)
(***************************************************************************)
EXTENDS CallbackList, TLC

MCCommands  == {"TIMER", "START", "RUNNING"}
MCCodeOrder == <<"TIMER", "START", "RUNNING">>
MCHashOrder == <<"RUNNING", "TIMER", "START">>

RoutineSymmetry == Permutations(Routines)

=============================================================================
