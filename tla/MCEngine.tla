------------------------------ MODULE MCEngine ------------------------------
(* The engine with a bounded number of starts and writes.                  *)
EXTENDS Engine
=============================================================================
