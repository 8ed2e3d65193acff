----------------------------- MODULE IpcChannel -----------------------------
(***************************************************************************)
(* What the users of the IPC driver (common/ipc) may rely on, whatever is   *)
(* corrupted, retried or timed out underneath: every message handed to a    *)
(* parent is a whole message that the peer sent, and a parent never sees an *)
(* older message after a newer one.  Losses and repetitions are allowed:    *)
(* the retry budget may run out, and the receiver does not recognise a      *)
(* retransmission of a packet it has already accepted.                      *)
(*                                                                          *)
(* Messages are numbered 1, 2, ... by their sender.                         *)
(***************************************************************************)
EXTENDS Naturals, Sequences

CONSTANTS
  Node,         \* the two ends of the link
  Length        \* the lengths a message can have

VARIABLES
  sent,         \* sent[n][i]: the length of the i-th message of n
  delivered     \* delivered[n]: what the parent of n was called back with

chan == << sent, delivered >>

Newest(n) ==
  IF delivered[n] = << >> THEN 0 ELSE delivered[n][Len(delivered[n])].id

Init ==
  /\ sent = [n \in Node |-> << >>]
  /\ delivered = [n \in Node |-> << >>]

Send(n) ==
  /\ \E len \in Length : sent' = [sent EXCEPT ![n] = Append(@, len)]
  /\ UNCHANGED delivered

(* n's parent gets a whole message of its peer p, none older than the last. *)
Deliver(n, p) ==
  /\ \E id \in DOMAIN sent[p] :
       /\ Newest(n) <= id
       /\ delivered' = [delivered EXCEPT ![n] = Append(@, [ id |-> id, len |-> sent[p][id] ])]
  /\ UNCHANGED sent

Next == \E n \in Node :
  \/ Send(n)
  \/ \E p \in Node \ {n} : Deliver(n, p)

Spec == Init /\ [][Next]_chan
=============================================================================
