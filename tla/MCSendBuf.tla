----------------------------- MODULE MCSendBuf -----------------------------
(* The send half of a stream of at most MaxOff bytes.                      *)
EXTENDS SendBuf
============================================================================
