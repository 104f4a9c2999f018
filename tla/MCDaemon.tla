------------------------------ MODULE MCDaemon ------------------------------
(***************************************************************************)
(* Instances of Daemon for TLC.  The timer identifiers are interchangeable.*)
(***************************************************************************)
EXTENDS Daemon, TLC

TimerSymmetry == Permutations(TimerIds)

=============================================================================
