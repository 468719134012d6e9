---------------------------- MODULE MCSessions -----------------------------
(* Sessions for TLC.  Addresses and request slots are interchangeable.     *)
EXTENDS Sessions, TLC

Symmetry == Permutations(Email) \cup Permutations(Request)
============================================================================
