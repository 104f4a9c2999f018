--------------------------- MODULE MCOdbcThreads ---------------------------
(***************************************************************************)
(* OdbcThreads for TLC: one slot less than threads, so that the MASTER list*)
(* has to grow, and thread ids that are used again.                        *)
(*                                                                         *)
(* No definition tells threads apart, but for the ones that load the       *)
(* extension, nor ids or memory; CHOOSE picks slots of a list, which are   *)
(* numbers.                                                                *)
(***************************************************************************)
EXTENDS OdbcThreads, TLC

Symmetry ==
  Permutations(Threads \ Loaders) \cup Permutations(Loaders)
    \cup Permutations(ThreadIds) \cup Permutations(Daughters) \cup Permutations(Moms)
=============================================================================
