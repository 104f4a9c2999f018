---------------------------- MODULE MCNamedPipe ----------------------------
(***************************************************************************)
(* NamedPipe for TLC: one server for three clients, so that the pipe is    *)
(* busy, and busy again for a client that waited, with room for fewer      *)
(* messages than a client writes, and for more than one, so that a read    *)
(* may leave some.                                                         *)
(***************************************************************************)
EXTENDS NamedPipe
=============================================================================
