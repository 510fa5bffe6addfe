---------------------------- MODULE MCWritable -----------------------------
(* The writable set on a small instance.                                   *)
EXTENDS Writable
============================================================================
