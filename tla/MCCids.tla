------------------------------- MODULE MCCids -------------------------------
(* A few connection IDs issued, used and retired over a lossy network.     *)
EXTENDS Cids
=============================================================================
