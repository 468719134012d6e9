----------------------------- MODULE MCSockets -----------------------------
(* Sockets for TLC.                                                        *)
EXTENDS Sockets, TLC
============================================================================
