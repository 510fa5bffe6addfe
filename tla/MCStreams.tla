----------------------------- MODULE MCStreams -----------------------------
(* The streams model on a small instance: a stream of two units, the rest  *)
(* of one.                                                                 *)
EXTENDS Streams

MCStreamLen == [s \in Streams |-> IF s = 0 THEN 2 ELSE 1]
============================================================================
