------------------------------ MODULE MCOmxEnc ------------------------------
(* The encoder sample on a small instance. *)
EXTENDS OmxEnc

AllCommands == {"pause", "resume", "flush_in", "flush_out", "flush_all",
                "dis-op", "en-op", "exit"}
=============================================================================
