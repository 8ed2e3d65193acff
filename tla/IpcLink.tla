------------------------------ MODULE IpcLink -------------------------------
(***************************************************************************)
(* The IPC driver of the inv478x host library (common/ipc/inv_drv_ipc.c)    *)
(* and its master HAL (common/ipc_master): a stop-and-wait link that cuts a *)
(* message into packets, sends one packet at a time through a hardware FIFO *)
(* and waits for the ACK or NACK token of the other end.                    *)
(*                                                                          *)
(* Both ends run this driver.  Host is the library of the repository; Chip  *)
(* is the firmware, which is not in the repository and is taken to run the  *)
(* same driver.  A FIFO is kept by the end that reads it; a token is a      *)
(* sticky interrupt bit of the end that reads it, so asserting one that is  *)
(* still set changes nothing.                                               *)
(*                                                                          *)
(* Abstraction of the data.  A message is its number and its length in      *)
(* packets; byte counters count packets (BUFFER_PAYLOAD_SIZE bytes each).   *)
(* A packet carries one piece of a message, named by the message and the    *)
(* position it was cut at.  Checksums are ideal: a damaged packet, and a    *)
(* message put together from other pieces than its own, is recognised.      *)
(***************************************************************************)
EXTENDS Integers, Sequences, FiniteSets

CONSTANTS
  Host, Chip,     \* the two ends
  MaxFrags,       \* packets of the longest message (268 bytes: 5)
  SeqMod,         \* the sequence number is a uint8_t: 256
  RetryMod,       \* tx_retry is a uint8_t: 256
  RetryLimit,     \* NACKs after which a message is dropped (5)
  FifoCap,        \* packets a hardware FIFO holds
  HostSends,      \* bound: messages the host sends
  ChipSends,      \* bound: messages the chip sends
  MaxDamage,      \* bound: packets damaged on the bus
  MaxTimeout,     \* bound: calls that give up before their packet is ACKed
  MaxRestart      \* bound: restarts of the host program

Node == { Host, Chip }
Peer(n) == IF n = Host THEN Chip ELSE Host

ASSUME LinkAssumption ==
  /\ Host # Chip
  /\ MaxFrags \in Nat \ {0} /\ SeqMod \in Nat \ {0} /\ FifoCap \in Nat \ {0}
  /\ RetryLimit \in Nat \ {0} /\ RetryMod \in Nat /\ RetryLimit < RetryMod
  /\ HostSends \in Nat /\ ChipSends \in Nat
  /\ MaxDamage \in Nat /\ MaxTimeout \in Nat /\ MaxRestart \in Nat

VARIABLES
  rx_seq_num, rx_frg_num,   \* struct ipc_obj, receiving half
  rx_part,                  \* pay_load[0 .. rx_chr_cnt): the pieces accepted so far
  rx_message,               \* the last message completed, size # 0
  tx_seq_num, tx_frg_num,   \* struct ipc_obj, sending half
  tx_chr_cnt1, tx_chr_cnt2, tx_retry,
  tx_message,               \* the message being sent; len = 0: tx_message.size = 0
  fifo,                     \* fifo[n]: packets n has yet to read
  token,                    \* token[n]: interrupt bits set for n
  work,                     \* work[n]: bits s_token_handler(n) has still to look at
  at,                       \* at[n]: where n is inside a handler
  call,                     \* call[n]: where the user of the driver at n is
  sent,                     \* history: sent[n][i], length of the i-th message of n
  delivered,                \* history: messages n's parent was called back with
  reported,                 \* history: messages whose MESSAGE_SENT was called back
  damage, timeouts, restarts

rxVars   == << rx_seq_num, rx_frg_num, rx_part, rx_message >>
txVars   == << tx_seq_num, tx_frg_num, tx_chr_cnt1, tx_chr_cnt2, tx_retry, tx_message >>
wireVars == << fifo, token >>
history  == << sent, delivered, reported >>
faults   == << damage, timeouts, restarts >>
vars == << rxVars, txVars, wireVars, work, at, call, history, faults >>

MaxSend(n) == IF n = Host THEN HostSends ELSE ChipSends

Token == { "PACKET_RDY", "ACK", "NACK" }
Fault == { "none", "header", "payload" }
Piece == [ id : Nat \ {0}, off : 0 .. MaxFrags - 1 ]
Message == [ id : Nat, len : 0 .. MaxFrags ]
Packet == [ seq : 0 .. SeqMod - 1, frg : 0 .. MaxFrags - 1, last : BOOLEAN,
            piece : Piece, bad : Fault ]
NoMessage == [ id |-> 0, len |-> 0 ]

(* The pieces of message number id when it is len packets long, in order.   *)
Whole(id, len) == [ k \in 1 .. len |-> [ id |-> id, off |-> k - 1 ] ]

AssertOverwrites(n, t) == token' = [token EXCEPT ![n] = {t}]   \* mutant
Assert(n, t) == token' = [token EXCEPT ![n] = @ \cup {t}]

-----------------------------------------------------------------------------
(* Sending                                                                  *)

(* inv_hal_ipc_fifo_write.  The FIFO has 0x40 bytes: a packet always fits in *)
(* an empty one; behind an unread packet it may or may not, and what does not*)
(* fit is lost.                                                              *)
FifoWrite(n, packet) ==
  \/ /\ Len(fifo[n]) < FifoCap
     /\ fifo' = [fifo EXCEPT ![n] = Append(@, packet)]
  \/ fifo[n] # << >> /\ UNCHANGED fifo

(* s_send_message_handler(n), up to the FIFO write, for the message m, its   *)
(* fragment number frg and the position cnt1 it has reached.                 *)
SendPacket(n, m, frg, cnt1) ==
  /\ tx_frg_num' = [tx_frg_num EXCEPT ![n] = frg]
  /\ tx_chr_cnt2' = [tx_chr_cnt2 EXCEPT ![n] = cnt1 + 1]
  /\ FifoWrite(Peer(n), [ seq |-> tx_seq_num[n], frg |-> frg, last |-> m.len - cnt1 <= 1,
                          piece |-> [ id |-> m.id, off |-> cnt1 ], bad |-> "none" ])
  /\ at' = [at EXCEPT ![n] = "written"]

(* ... and the PACKET_RDY token asserted after the write.                    *)
AssertReady(n) ==
  /\ at[n] = "written"
  /\ Assert(Peer(n), "PACKET_RDY")
  /\ at' = [at EXCEPT ![n] = "idle"]
  /\ UNCHANGED << rxVars, txVars, fifo, work, call, history, faults >>

Between(n) == at[n] = "idle" /\ work[n] = {}

(* s_request_message_init: a call of the host begins by emptying the FIFO    *)
(* the chip reads.  The firmware does not reset the host's FIFO.             *)
BeginCall(n) ==
  /\ call[n] = "none" /\ Between(n)
  /\ Len(sent[n]) < MaxSend(n)
  /\ call' = [call EXCEPT ![n] = "begun"]
  /\ fifo' = IF n = Host THEN [fifo EXCEPT ![Chip] = << >>] ELSE fifo
  /\ UNCHANGED << rxVars, txVars, token, work, at, history, faults >>

(* inv_drv_ipc_message_send of a message of len packets.                     *)
PacketMessageSend(n, len) ==
  /\ call[n] = "begun" /\ Between(n)
  /\ sent' = [sent EXCEPT ![n] = Append(@, len)]
  /\ LET m == [ id |-> Len(sent[n]) + 1, len |-> len ]
     IN  /\ tx_message' = [tx_message EXCEPT ![n] = m]
         /\ SendPacket(n, m, 0, tx_chr_cnt1[n])
  /\ call' = [call EXCEPT ![n] = "waiting"]
  /\ UNCHANGED << rxVars, tx_seq_num, tx_chr_cnt1, tx_retry, token, work,
                  delivered, reported, faults >>

(* tx_chr_cnt1 = 0, for the next message to be cut from its first byte.       *)
PositionKept(n) == tx_chr_cnt1   \* mutant: the reset is missing
PositionReset(n) == [tx_chr_cnt1 EXCEPT ![n] = 0]

(* inv_drv_ipc_tx_reset: the end of every call, whether the message went     *)
(* through or the call timed out.                                            *)
TxReset(n) ==
  /\ call[n] = "waiting" /\ Between(n)
  /\ IF tx_message[n].len = 0
       THEN UNCHANGED timeouts
       ELSE timeouts < MaxTimeout /\ timeouts' = timeouts + 1
  /\ tx_message' = [tx_message EXCEPT ![n] = NoMessage]
  /\ tx_chr_cnt1' = PositionReset(n)
  /\ tx_seq_num' = [tx_seq_num EXCEPT ![n] = (@ + 1) % SeqMod]
  /\ call' = [call EXCEPT ![n] = "none"]
  /\ UNCHANGED << rxVars, tx_frg_num, tx_chr_cnt2, tx_retry, wireVars, work, at,
                  history, damage, restarts >>

-----------------------------------------------------------------------------
(* inv_drv_ipc_handler: the tokens that are set are read and cleared, then   *)
(* looked at in the order NACK, ACK, PACKET_RDY.                             *)

Uncleared(n) == token   \* mutant: the status is read and not cleared
Cleared(n) == [token EXCEPT ![n] = {}]

TakeTokens(n) ==
  /\ Between(n) /\ call[n] # "begun"
  /\ token[n] # {}
  /\ work' = [work EXCEPT ![n] = token[n]]
  /\ token' = Cleared(n)
  /\ UNCHANGED << rxVars, txVars, fifo, at, call, history, faults >>

Looks(n, t) == at[n] = "idle" /\ t \in work[n]
Looked(n, t) == work' = [work EXCEPT ![n] = @ \ {t}]

HandleNack(n) ==
  /\ Looks(n, "NACK") /\ Looked(n, "NACK")
  /\ IF tx_message[n].len = 0
       THEN UNCHANGED << txVars, fifo, at >>
       ELSE LET retry == (tx_retry[n] + 1) % RetryMod
            IN  /\ tx_retry' = [tx_retry EXCEPT ![n] = retry]
                /\ IF RetryLimit <= retry
                     THEN /\ tx_message' = [tx_message EXCEPT ![n] = NoMessage]
                          /\ UNCHANGED << tx_frg_num, tx_chr_cnt2, fifo, at >>
                     ELSE /\ SendPacket(n, tx_message[n], tx_frg_num[n], tx_chr_cnt1[n])
                          /\ UNCHANGED tx_message
                /\ UNCHANGED << tx_seq_num, tx_chr_cnt1 >>
  /\ UNCHANGED << rxVars, token, call, history, faults >>

MoreToSendButOne(m, cnt) == m.len > cnt + 1   \* mutant: off by one
MoreToSend(m, cnt) == m.len > cnt

HandleAck(n) ==
  /\ Looks(n, "ACK") /\ "NACK" \notin work[n] /\ Looked(n, "ACK")
  /\ LET m == tx_message[n]
         cnt == tx_chr_cnt2[n]
     IN  \/ /\ m.len = 0
            /\ UNCHANGED << txVars, fifo, at, reported >>
         \/ /\ MoreToSend(m, cnt)
            /\ tx_chr_cnt1' = [tx_chr_cnt1 EXCEPT ![n] = cnt]
            /\ tx_retry' = [tx_retry EXCEPT ![n] = 0]
            /\ SendPacket(n, m, tx_frg_num[n] + 1, cnt)
            /\ UNCHANGED << tx_seq_num, tx_message, reported >>
         \/ /\ m.len # 0 /\ ~MoreToSend(m, cnt)
            /\ tx_message' = [tx_message EXCEPT ![n] = NoMessage]
            /\ tx_chr_cnt1' = PositionReset(n)
            /\ tx_seq_num' = [tx_seq_num EXCEPT ![n] = (@ + 1) % SeqMod]
            /\ reported' = [reported EXCEPT ![n] = @ \cup {m.id}]
            /\ UNCHANGED << tx_frg_num, tx_chr_cnt2, tx_retry, fifo, at >>
  /\ UNCHANGED << rxVars, token, call, sent, delivered, faults >>

-----------------------------------------------------------------------------
(* Receiving: s_receive_message_handler                                      *)

Receives(n) == Looks(n, "PACKET_RDY") /\ work[n] = { "PACKET_RDY" }
DropHead(n) == fifo' = [fifo EXCEPT ![n] = Tail(@)]

(* The checks of the fragment number and of the sequence number.  The first  *)
(* packet after a reset is taken whatever its fragment number is.            *)
ExpectedAnyFragment(n, p) ==   \* mutant: the fragment number is not checked
  rx_frg_num[n] = 0 \/ p.seq = rx_seq_num[n]
Expected(n, p) ==
  \/ rx_frg_num[n] = 0
  \/ p.frg = rx_frg_num[n] /\ p.seq = rx_seq_num[n]

(* The four header bytes cannot be read, or hold a length that cannot be:    *)
(* the reassembly starts over and one NACK is asserted.  In the second case  *)
(* the bytes after the header stay in the FIFO and are taken for a packet,   *)
(* whose checksum is wrong, the next time.                                   *)
RejectHeader(n) ==
  /\ Receives(n) /\ Looked(n, "PACKET_RDY")
  /\ \/ fifo[n] = << >> /\ UNCHANGED fifo
     \/ /\ fifo[n] # << >> /\ Head(fifo[n]).bad = "header"
        /\ DropHead(n) \/ fifo' = [fifo EXCEPT ![n][1].bad = "payload"]
  /\ rx_part' = [rx_part EXCEPT ![n] = << >>]
  /\ rx_frg_num' = [rx_frg_num EXCEPT ![n] = 0]
  /\ Assert(Peer(n), "NACK")
  /\ UNCHANGED << rx_seq_num, rx_message, txVars, at, call, history, faults >>

(* A wrong checksum, fragment number or sequence number asserts a NACK where *)
(* it is found, and the error path below asserts another.                    *)
RejectPacket(n) ==
  /\ Receives(n)
  /\ fifo[n] # << >>
  /\ LET p == Head(fifo[n])
     IN  \/ p.bad = "payload"
         \/ p.bad = "none" /\ ~Expected(n, p)
  /\ DropHead(n)
  /\ Assert(Peer(n), "NACK")
  /\ at' = [at EXCEPT ![n] = "rejected"]
  /\ UNCHANGED << rxVars, txVars, work, call, history, faults >>

ResetReassembly(n) ==
  /\ at[n] = "rejected" /\ Looked(n, "PACKET_RDY")
  /\ rx_part' = [rx_part EXCEPT ![n] = << >>]
  /\ rx_frg_num' = [rx_frg_num EXCEPT ![n] = 0]
  /\ Assert(Peer(n), "NACK")
  /\ at' = [at EXCEPT ![n] = "idle"]
  /\ UNCHANGED << rx_seq_num, rx_message, txVars, fifo, call, history, faults >>

(* An expected packet: its piece is stored and ACKed.  The last piece makes  *)
(* the message complete; the call-back comes after the ACK.                  *)
AcceptPacket(n) ==
  /\ Receives(n) /\ Looked(n, "PACKET_RDY")
  /\ fifo[n] # << >>
  /\ LET p == Head(fifo[n])
         part == Append(rx_part[n], p.piece)
     IN  /\ p.bad = "none" /\ Expected(n, p)
         /\ rx_seq_num' = [rx_seq_num EXCEPT ![n] = p.seq]
         /\ rx_message' = [rx_message EXCEPT ![n] = IF p.last THEN part ELSE << >>]
         /\ rx_part' = [rx_part EXCEPT ![n] = IF p.last THEN << >> ELSE part]
         /\ rx_frg_num' = [rx_frg_num EXCEPT ![n] = IF p.last THEN 0 ELSE @ + 1]
         /\ at' = IF p.last THEN [at EXCEPT ![n] = "accepted"] ELSE at
  /\ DropHead(n)
  /\ Assert(Peer(n), "ACK")
  /\ UNCHANGED << txVars, call, history, faults >>

(* s_message_valid_is: the message checksum is right only over the pieces of *)
(* one message, from its first to its last.  The last piece of rx_message    *)
(* was the last one of its message, so that its position gives the length.   *)
MessageValidAlways(m) == TRUE   \* mutant: no message checksum
MessageValid(m) == m = Whole(m[Len(m)].id, m[Len(m)].off + 1)

Summary(m) == [ id |-> m[Len(m)].id, len |-> Len(m) ]

CallBack(n) ==
  /\ at[n] = "accepted"
  /\ delivered' = IF MessageValid(rx_message[n])
                    THEN [delivered EXCEPT ![n] = Append(@, Summary(rx_message[n]))]
                    ELSE delivered
  /\ at' = [at EXCEPT ![n] = "idle"]
  /\ UNCHANGED << rxVars, txVars, wireVars, work, call, sent, reported, faults >>

-----------------------------------------------------------------------------
(* The bus and the host program                                              *)

(* A packet is damaged on its way: "header", its length cannot be right or   *)
(* fewer than four bytes arrive; "payload", its checksum is wrong.           *)
Damage(n) ==
  /\ damage < MaxDamage
  /\ \E k \in DOMAIN fifo[n], b \in Fault \ {"none"} :
       /\ fifo[n][k].bad = "none"
       /\ fifo' = [fifo EXCEPT ![n][k].bad = b]
  /\ damage' = damage + 1
  /\ UNCHANGED << rxVars, txVars, token, work, at, call, history, timeouts, restarts >>

(* The host program ends anywhere and inv478x_create runs again, while the   *)
(* chip keeps its state: the interrupt bits are cleared, a NACK is sent, both*)
(* FIFOs are emptied.                                                        *)
Restart ==
  /\ restarts < MaxRestart
  /\ restarts' = restarts + 1
  /\ LET zero(f) == [f EXCEPT ![Host] = 0]
     IN  /\ rx_seq_num' = zero(rx_seq_num) /\ rx_frg_num' = zero(rx_frg_num)
         /\ tx_seq_num' = zero(tx_seq_num) /\ tx_frg_num' = zero(tx_frg_num)
         /\ tx_chr_cnt1' = zero(tx_chr_cnt1) /\ tx_chr_cnt2' = zero(tx_chr_cnt2)
         /\ tx_retry' = zero(tx_retry)
  /\ rx_part' = [rx_part EXCEPT ![Host] = << >>]
  /\ rx_message' = [rx_message EXCEPT ![Host] = << >>]
  /\ tx_message' = [tx_message EXCEPT ![Host] = NoMessage]
  /\ fifo' = [n \in Node |-> << >>]
  /\ token' = [token EXCEPT ![Host] = {}, ![Chip] = @ \cup {"NACK"}]
  /\ work' = [work EXCEPT ![Host] = {}]
  /\ at' = [at EXCEPT ![Host] = "idle"]
  /\ call' = [call EXCEPT ![Host] = "none"]
  /\ UNCHANGED << history, damage, timeouts >>

-----------------------------------------------------------------------------
Init ==
  /\ rx_seq_num = [n \in Node |-> 0] /\ rx_frg_num = [n \in Node |-> 0]
  /\ rx_part = [n \in Node |-> << >>] /\ rx_message = [n \in Node |-> << >>]
  /\ tx_seq_num = [n \in Node |-> 0] /\ tx_frg_num = [n \in Node |-> 0]
  /\ tx_chr_cnt1 = [n \in Node |-> 0] /\ tx_chr_cnt2 = [n \in Node |-> 0]
  /\ tx_retry = [n \in Node |-> 0] /\ tx_message = [n \in Node |-> NoMessage]
  /\ fifo = [n \in Node |-> << >>] /\ token = [n \in Node |-> {}]
  /\ work = [n \in Node |-> {}] /\ at = [n \in Node |-> "idle"]
  /\ call = [n \in Node |-> "none"]
  /\ sent = [n \in Node |-> << >>] /\ delivered = [n \in Node |-> << >>]
  /\ reported = [n \in Node |-> {}]
  /\ damage = 0 /\ timeouts = 0 /\ restarts = 0

User(n) ==
  \/ BeginCall(n)
  \/ \E len \in 1 .. MaxFrags : PacketMessageSend(n, len)
  \/ TxReset(n)

Handler(n) ==
  \/ AssertReady(n)
  \/ TakeTokens(n) \/ HandleNack(n) \/ HandleAck(n)
  \/ RejectHeader(n) \/ RejectPacket(n) \/ ResetReassembly(n)
  \/ AcceptPacket(n) \/ CallBack(n)

Next ==
  \/ \E n \in Node : User(n) \/ Handler(n) \/ Damage(n)
  \/ Restart

Spec == Init /\ [][Next]_vars

(* The host polls its interrupt status every 10 ms inside a call and the     *)
(* application calls inv478x_handle outside one, so a handler that can run   *)
(* does; the same is assumed of the firmware.  A call that has begun sends.  *)
Fairness == \A n \in Node :
  /\ WF_vars(Handler(n))
  /\ WF_vars(\E len \in 1 .. MaxFrags : PacketMessageSend(n, len))

FairSpec == Spec /\ Fairness

-----------------------------------------------------------------------------
(* Properties                                                               *)

Pieces(s) == \A k \in DOMAIN s : s[k] \in Piece

(* The type invariant: every field of struct ipc_obj and every packet on the *)
(* wire stays in its range, whatever the tokens and the faults do.           *)
TypeOK ==
  /\ rx_seq_num \in [Node -> 0 .. SeqMod - 1] /\ tx_seq_num \in [Node -> 0 .. SeqMod - 1]
  /\ rx_frg_num \in [Node -> 0 .. MaxFrags - 1] /\ tx_frg_num \in [Node -> 0 .. MaxFrags - 1]
  /\ rx_part \in [Node -> Seq(Piece)] /\ rx_message \in [Node -> Seq(Piece)]
  /\ tx_chr_cnt1 \in [Node -> 0 .. MaxFrags - 1] /\ tx_chr_cnt2 \in [Node -> 0 .. MaxFrags]
  /\ tx_retry \in [Node -> 0 .. RetryMod - 1]
  /\ tx_message \in [Node -> Message]
  /\ fifo \in [Node -> Seq(Packet)] /\ token \in [Node -> SUBSET Token]
  /\ work \in [Node -> SUBSET Token]
  /\ at \in [Node -> { "idle", "written", "rejected", "accepted" }]
  /\ call \in [Node -> { "none", "begun", "waiting" }]
  /\ sent \in [Node -> Seq(1 .. MaxFrags)] /\ delivered \in [Node -> Seq(Message)]
  /\ reported \in [Node -> SUBSET Nat]
  /\ damage \in 0 .. MaxDamage /\ timeouts \in 0 .. MaxTimeout
  /\ restarts \in 0 .. MaxRestart

NoFault == damage = 0 /\ timeouts = 0 /\ restarts = 0

(* The pieces collected for a message never exceed the longest message: the  *)
(* memcpy into rx_message.pay_load, which checks no bound, stays inside it,  *)
(* because only fragment numbers that follow one another are accepted.       *)
ReassemblyFits == \A n \in Node :
  /\ Len(rx_part[n]) = rx_frg_num[n]
  /\ Len(rx_message[n]) <= MaxFrags

(* Fragment number k carries the bytes from k * BUFFER_PAYLOAD_SIZE on: the  *)
(* position a message is sent from starts at 0 for every message, also after *)
(* one that was dropped halfway, and a retry sends the same bytes again.     *)
FragmentIsItsPiece == \A n \in Node : \A k \in DOMAIN fifo[n] :
  fifo[n][k].frg = fifo[n][k].piece.off

(* Without damage, timeouts and restarts every message is called back once   *)
(* and in order, although tokens merge, the two directions interleave and a  *)
(* PACKET_RDY may be seen before or after the packet it is about.            *)
ExactlyOnceWithoutFaults ==
  NoFault => \A n \in Node : \A k \in DOMAIN delivered[n] : delivered[n][k].id = k

(* Without faults, a message reported as sent has reached the other parent,  *)
(* or its call-back is the next step of the receiving handler.               *)
SentIsReceivedWithoutFaults == NoFault => \A n \in Node : \A id \in reported[n] :
  \/ \E k \in DOMAIN delivered[Peer(n)] : delivered[Peer(n)][k].id = id
  \/ at[Peer(n)] = "accepted"

(* The link implements the channel its users rely on.                        *)
Channel == INSTANCE IpcChannel WITH Length <- 1 .. MaxFrags
ChannelSpec == Channel!Spec

(* A message that is being sent is in the end sent, dropped or reset: the    *)
(* two ends never wait for each other's token for ever.                      *)
SendingEnds == \A n \in Node :
  tx_message[n].len # 0 ~> tx_message[n].len = 0

-----------------------------------------------------------------------------
(* The inductive invariant behind the safety properties                     *)

(* A message being sent is the last one of its sender; the fragment number   *)
(* and the two positions move together.  Outside a call there is none, and   *)
(* the next one will be cut from its beginning.                              *)
SenderOK(n) ==
  /\ tx_message[n].len # 0 =>
       /\ call[n] = "waiting"
       /\ tx_message[n].id \in DOMAIN sent[n]
       /\ tx_message[n].id = Len(sent[n])
       /\ tx_message[n].len = sent[n][Len(sent[n])]
       /\ tx_frg_num[n] = tx_chr_cnt1[n]
       /\ tx_chr_cnt2[n] = tx_chr_cnt1[n] + 1
       /\ tx_chr_cnt1[n] < tx_message[n].len
  /\ call[n] # "waiting" => tx_message[n].len = 0 /\ tx_chr_cnt1[n] = 0

(* A packet is a piece of a message of its sender, and the last one exactly   *)
(* when it is marked so.                                                      *)
PacketOK(n, p) ==
  /\ p.frg = p.piece.off
  /\ p.piece.id \in DOMAIN sent[Peer(n)]
  /\ p.piece.off < sent[Peer(n)][p.piece.id]
  /\ p.last <=> p.piece.off + 1 = sent[Peer(n)][p.piece.id]

(* Messages reach n in the order in which they were sent: what its parent     *)
(* has seen, the message about to be called back, then the packets.           *)
Seen(n) == IF delivered[n] = << >> THEN 0 ELSE delivered[n][Len(delivered[n])].id
Reached(n) == IF at[n] = "accepted" THEN rx_message[n][Len(rx_message[n])].id ELSE Seen(n)

WireOK(n) ==
  /\ \A k \in DOMAIN fifo[n] : PacketOK(n, fifo[n][k]) /\ Reached(n) <= fifo[n][k].piece.id
  /\ \A j, k \in DOMAIN fifo[n] : j <= k => fifo[n][j].piece.id <= fifo[n][k].piece.id
  /\ Reached(n) <= Len(sent[Peer(n)])

ReceiverOK(n) ==
  /\ Len(rx_part[n]) = rx_frg_num[n]
  /\ Len(rx_message[n]) <= MaxFrags
  /\ at[n] = "accepted" =>
       LET end == rx_message[n][Len(rx_message[n])]
       IN  /\ rx_message[n] # << >>
           /\ end.id \in DOMAIN sent[Peer(n)]
           /\ end.off + 1 = sent[Peer(n)][end.id]
           /\ Seen(n) <= end.id

LinkInv == TypeOK /\ \A n \in Node : SenderOK(n) /\ WireOK(n) /\ ReceiverOK(n)
=============================================================================
