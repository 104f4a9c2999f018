------------------------------- MODULE MCOdbc -------------------------------
(***************************************************************************)
(* Odbc for TLC: memory for a few connections, so that a list grows and    *)
(* shrinks, numbers skip, and clones share one ODBC_HDBC.                  *)
(***************************************************************************)
EXTENDS Odbc
=============================================================================
