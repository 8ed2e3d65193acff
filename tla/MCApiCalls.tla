----------------------------- MODULE MCApiCalls -----------------------------
(* All the functions of the API, on a small circle of the counter that starts *)
(* anywhere on it.  Functions with the same parameters are one row.  The      *)
(* assumption of the proofs about the tables is evaluated with them.          *)
EXTENDS ApiTables, ApiCallsProofs
=============================================================================
