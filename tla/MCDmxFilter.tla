----------------------------- MODULE MCDmxFilter -----------------------------
(* The values for TLC that a .cfg cannot write.                              *)
EXTENDS DmxFilter, TLC

(* The entries, the channels and the threads are named in no action.          *)
Interchangeable == Permutations(Slot) \cup Permutations(Chan) \cup Permutations(App)

SharingCalls == { "Creat", "Destroy", "SetAttr", "Start", "Stop" }
AllButAttr == { "Creat", "Destroy", "Start", "Stop", "Init", "DeInit" }
==============================================================================
