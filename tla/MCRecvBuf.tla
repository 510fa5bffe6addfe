----------------------------- MODULE MCRecvBuf -----------------------------
(* TLC instance of RecvBuf.  The two payload versions are interchangeable. *)
EXTENDS RecvBuf, TLC
VersSymmetry == Permutations(Vers)
============================================================================
