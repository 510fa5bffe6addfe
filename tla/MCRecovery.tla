---------------------------- MODULE MCRecovery -----------------------------
(* Loss recovery on a small instance.                                      *)
EXTENDS Recovery
============================================================================
