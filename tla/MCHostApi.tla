----------------------------- MODULE MCHostApi ------------------------------
(* Small instances of HostApi: threads, op codes and flags are model values.  *)
EXTENDS HostApi, TLC

Threads == Permutations(Caller) \cup Permutations(Flag)
=============================================================================
