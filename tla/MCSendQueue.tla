---------------------------- MODULE MCSendQueue ----------------------------
(* The abstract send ledger on a small stream.                             *)
EXTENDS SendQueue
============================================================================
