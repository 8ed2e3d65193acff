----------------------------- MODULE MCHostPool -----------------------------
(* Small instances of HostPool: a word is a third of the smallest block.      *)
EXTENDS HostPool, TLC

Instances == Permutations(Inst)
=============================================================================
