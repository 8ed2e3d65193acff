----------------------------- MODULE MCOmxDec -----------------------------
(* Instances of OmxDec; the bounds are in the configurations.               *)
EXTENDS OmxDec

(* A bound on what the user and the component begin, neither of which is    *)
(* under fairness: the port settings change before a command that sets the  *)
(* state or flushes, or while it is carried out; with seek and q they stay. *)
Overlaps ==
    /\ commands' # commands /\ reconfigs > 0 => ~seeking' /\ ~exiting'
    /\ reconfigs' # reconfigs =>
         commands = 0 \/ pc["M"] \in {"wait_state", "wait_flush"}
=============================================================================
