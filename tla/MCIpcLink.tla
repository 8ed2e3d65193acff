----------------------------- MODULE MCIpcLink ------------------------------
(* Small instances of IpcLink for TLC; the bounds are in the configurations. *)
(* Numbers of messages are bounded by the number of messages sent.           *)
EXTENDS IpcLink
=============================================================================
