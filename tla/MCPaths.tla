------------------------------ MODULE MCPaths ------------------------------
(* Two paths among two or three four-tuples, at a client and at a server.  *)
EXTENDS Paths, TLC

(* The four-tuples other than the first one are interchangeable.           *)
Symmetry == Permutations(Addrs \ {FirstAddr})

(* Bound of the run with three four-tuples: nothing is followed once a     *)
(* path was marked active that is not.                                     *)
NoLimbo == ~limbo
============================================================================
