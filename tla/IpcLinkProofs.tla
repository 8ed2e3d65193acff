--------------------------- MODULE IpcLinkProofs ----------------------------
(***************************************************************************)
(* Proofs about IpcLink, for every number of messages, packets, faults and   *)
(* restarts.  LinkInv is inductive: one lemma for each action shows that the *)
(* action keeps it.  SenderOK and WireOK order the messages on the wire by   *)
(* the number of the message, ReceiverOK ties the message that is about to   *)
(* be called back to them; the safety properties and the refinement of       *)
(* IpcChannel follow.  Without faults more is true, by a second invariant:   *)
(* TurnsInv says whose turn it is, and so which packet is on the wire.       *)
(***************************************************************************)
EXTENDS IpcLink, TLAPS

LEMMA PeerFacts ==
  ASSUME NEW n \in Node
  PROVE  /\ Peer(n) \in Node /\ Peer(n) # n /\ Peer(Peer(n)) = n
         /\ \A m \in Node : m = n \/ m = Peer(n)
BY LinkAssumption DEF Node, Peer

LEMMA SequenceFacts ==
  ASSUME NEW S, NEW s \in Seq(S)
  PROVE  /\ \A x \in S : /\ Append(s, x) \in Seq(S) /\ Append(s, x) # << >>
                         /\ Len(Append(s, x)) = Len(s) + 1
                         /\ Append(s, x)[Len(s) + 1] = x
                         /\ DOMAIN Append(s, x) = 1 .. Len(s) + 1
                         /\ \A k \in 1 .. Len(s) : Append(s, x)[k] = s[k]
         /\ s # << >> => /\ Head(s) \in S /\ Head(s) = s[1] /\ Tail(s) \in Seq(S)
                         /\ Len(s) \in Nat \ {0} /\ Len(Tail(s)) = Len(s) - 1
                         /\ DOMAIN Tail(s) = 1 .. Len(s) - 1
                         /\ \A k \in 1 .. Len(s) - 1 : Tail(s)[k] = s[k + 1]
         /\ Len(s) \in Nat /\ DOMAIN s = 1 .. Len(s) /\ (s = << >> <=> Len(s) = 0)
         /\ \A k \in 1 .. Len(s) : s[k] \in S
         /\ << >> \in Seq(S)
  <1>1. ASSUME NEW x \in S
        PROVE  /\ Append(s, x) \in Seq(S) /\ Append(s, x) # << >>
               /\ Len(Append(s, x)) = Len(s) + 1
               /\ Append(s, x)[Len(s) + 1] = x
               /\ DOMAIN Append(s, x) = 1 .. Len(s) + 1
               /\ \A k \in 1 .. Len(s) : Append(s, x)[k] = s[k]
    OBVIOUS
  <1>2. ASSUME s # << >>
        PROVE  /\ Head(s) \in S /\ Head(s) = s[1] /\ Tail(s) \in Seq(S)
               /\ Len(s) \in Nat \ {0} /\ Len(Tail(s)) = Len(s) - 1
               /\ DOMAIN Tail(s) = 1 .. Len(s) - 1
               /\ \A k \in 1 .. Len(s) - 1 : Tail(s)[k] = s[k + 1]
    BY <1>2
  <1>3. /\ Len(s) \in Nat /\ DOMAIN s = 1 .. Len(s) /\ (s = << >> <=> Len(s) = 0)
        /\ \A k \in 1 .. Len(s) : s[k] \in S
        /\ << >> \in Seq(S)
    OBVIOUS
  <1>4. QED BY <1>1, <1>2, <1>3

LEMMA ElementOf ==
  ASSUME NEW S, NEW s \in Seq(S), NEW k \in DOMAIN s
  PROVE  s[k] \in S
OBVIOUS

LEMMA SeqStep == \A k \in 0 .. SeqMod - 1 : (k + 1) % SeqMod \in 0 .. SeqMod - 1
BY LinkAssumption

LEMMA RetryStep == \A k \in 0 .. RetryMod - 1 : (k + 1) % RetryMod \in 0 .. RetryMod - 1
BY LinkAssumption

(* A packet stays a piece of a message when more messages are sent.          *)
LEMMA PacketStays ==
  ASSUME NEW n \in Node, NEW p \in Packet, TypeOK, PacketOK(n, p),
         \/ sent'[Peer(n)] = sent[Peer(n)]
         \/ \E len \in 1 .. MaxFrags : sent'[Peer(n)] = Append(sent[Peer(n)], len)
  PROVE  PacketOK(n, p)'
  <1>1. sent[Peer(n)] \in Seq(1 .. MaxFrags)
    BY PeerFacts DEF TypeOK
  <1>2. p.piece.id \in 1 .. Len(sent[Peer(n)])
    BY <1>1, SequenceFacts DEF PacketOK
  <1>3. p.piece.id \in DOMAIN sent'[Peer(n)] /\ sent'[Peer(n)][p.piece.id] = sent[Peer(n)][p.piece.id]
    BY <1>1, <1>2, SequenceFacts
  <1>4. QED BY <1>3 DEF PacketOK

(* What WireOK(n) depends on.                                                *)
LEMMA WireFrame ==
  ASSUME NEW n \in Node, TypeOK, WireOK(n),
         fifo'[n] = fifo[n], Reached(n)' = Reached(n), sent'[Peer(n)] = sent[Peer(n)]
  PROVE  WireOK(n)'
BY DEF WireOK, PacketOK

LEMMA ReachedFrame ==
  ASSUME NEW n \in Node, delivered'[n] = delivered[n], rx_message'[n] = rx_message[n],
         at'[n] = "accepted" <=> at[n] = "accepted"
  PROVE  Seen(n)' = Seen(n) /\ Reached(n)' = Reached(n)
BY DEF Reached, Seen

LEMMA WireEmpty ==
  ASSUME NEW n \in Node, TypeOK, WireOK(n),
         fifo'[n] = << >>, Reached(n)' <= Len(sent'[Peer(n)])
  PROVE  WireOK(n)'
BY DEF WireOK

(* Reading the packet at the head of the FIFO.                               *)
LEMMA WireDrop ==
  ASSUME NEW n \in Node, TypeOK, WireOK(n),
         fifo[n] # << >>, fifo'[n] = Tail(fifo[n]), sent'[Peer(n)] = sent[Peer(n)],
         Reached(n)' \in Nat, Reached(n)' <= fifo[n][1].piece.id
  PROVE  WireOK(n)'
  <1>1. fifo[n] \in Seq(Packet) /\ sent[Peer(n)] \in Seq(1 .. MaxFrags)
    BY PeerFacts DEF TypeOK
  <1>2. /\ DOMAIN fifo'[n] = 1 .. Len(fifo[n]) - 1 /\ DOMAIN fifo[n] = 1 .. Len(fifo[n])
        /\ Len(fifo[n]) \in Nat \ {0}
        /\ \A k \in 1 .. Len(fifo[n]) - 1 : fifo'[n][k] = fifo[n][k + 1]
    BY <1>1, SequenceFacts
  <1>3. \A k \in 1 .. Len(fifo[n]) : fifo[n][k].piece.id \in Nat
    <2>1. \A k \in 1 .. Len(fifo[n]) : fifo[n][k] \in Packet
      BY <1>1, SequenceFacts
    <2>2. \A p \in Packet : p.piece.id \in Nat
      BY DEF Packet, Piece
    <2>3. QED BY <2>1, <2>2
  <1>4. ASSUME NEW k \in DOMAIN fifo'[n]
        PROVE  PacketOK(n, fifo[n][k])' /\ Reached(n)' <= fifo'[n][k].piece.id
    <2>1. k + 1 \in DOMAIN fifo[n] /\ 1 \in DOMAIN fifo[n] /\ 1 <= k + 1
      BY <1>2
    <2>2. fifo[n][1].piece.id <= fifo[n][k + 1].piece.id
      BY <2>1 DEF WireOK
    <2>3. Reached(n)' <= fifo'[n][k].piece.id
      BY <1>2, <1>3, <2>1, <2>2
    <2>4. PacketOK(n, fifo[n][k + 1])
      BY <2>1 DEF WireOK
    <2>5. QED BY <1>2, <2>3, <2>4 DEF PacketOK
  <1>5. ASSUME NEW j \in DOMAIN fifo'[n], NEW k \in DOMAIN fifo'[n], j <= k
        PROVE  fifo'[n][j].piece.id <= fifo'[n][k].piece.id
    <2>1. j + 1 \in DOMAIN fifo[n] /\ k + 1 \in DOMAIN fifo[n] /\ j + 1 <= k + 1
      BY <1>2, <1>5
    <2>2. fifo[n][j + 1].piece.id <= fifo[n][k + 1].piece.id
      BY <2>1 DEF WireOK
    <2>3. QED BY <1>2, <2>2
  <1>6. Reached(n)' <= Len(sent'[Peer(n)])
    <2>1. 1 \in DOMAIN fifo[n]
      BY <1>2
    <2>2. fifo[n][1].piece.id \in DOMAIN sent[Peer(n)]
      BY <2>1 DEF WireOK, PacketOK
    <2>3. QED BY <1>1, <2>2, SequenceFacts
  <1>7. QED BY <1>4, <1>5, <1>6 DEF WireOK

(* A packet of the newest message of the peer arrives in the FIFO of n.      *)
LEMMA WireAppend ==
  ASSUME NEW n \in Node, TypeOK, WireOK(n), NEW p \in Packet,
         fifo'[n] = Append(fifo[n], p) \/ fifo'[n] = fifo[n],
         \/ sent'[Peer(n)] = sent[Peer(n)]
         \/ \E len \in 1 .. MaxFrags : sent'[Peer(n)] = Append(sent[Peer(n)], len),
         Reached(n)' = Reached(n), Reached(n) \in Nat,
         PacketOK(n, p)', p.piece.id = Len(sent'[Peer(n)])
  PROVE  WireOK(n)'
  <1>1. fifo[n] \in Seq(Packet) /\ sent[Peer(n)] \in Seq(1 .. MaxFrags)
    BY PeerFacts DEF TypeOK
  <1>2. DOMAIN fifo[n] = 1 .. Len(fifo[n]) /\ Len(fifo[n]) \in Nat
    BY <1>1, SequenceFacts
  <1>3. /\ Len(sent[Peer(n)]) \in Nat /\ Len(sent'[Peer(n)]) \in Nat
        /\ Len(sent[Peer(n)]) <= Len(sent'[Peer(n)])
        /\ DOMAIN sent[Peer(n)] = 1 .. Len(sent[Peer(n)])
    BY <1>1, SequenceFacts
  <1>4. ASSUME NEW k \in DOMAIN fifo[n], NEW q, q = fifo[n][k]
        PROVE  /\ PacketOK(n, q)' /\ fifo[n][k].piece.id \in Nat
               /\ Reached(n) <= fifo[n][k].piece.id
               /\ fifo[n][k].piece.id <= p.piece.id
    <2>1. q \in Packet
      BY <1>1, <1>4, SequenceFacts
    <2>2. PacketOK(n, q) /\ Reached(n) <= fifo[n][k].piece.id
      BY <1>4 DEF WireOK
    <2>3. PacketOK(n, q)'
      BY <2>1, <2>2, PacketStays
    <2>4. fifo[n][k].piece.id \in 1 .. Len(sent[Peer(n)])
      BY <1>3, <1>4, <2>2 DEF PacketOK
    <2>5. QED BY <1>3, <2>2, <2>3, <2>4
  <1>5. Reached(n) <= Len(sent'[Peer(n)])
    BY <1>3 DEF WireOK
  <1>6. CASE fifo'[n] = fifo[n]
    <2>1. ASSUME NEW k \in DOMAIN fifo'[n]
          PROVE  PacketOK(n, fifo[n][k])' /\ Reached(n)' <= fifo'[n][k].piece.id
      BY <1>4, <1>6 DEF PacketOK
    <2>2. QED BY <1>5, <1>6, <2>1 DEF WireOK
  <1>7. CASE fifo'[n] = Append(fifo[n], p)
    <2>1. /\ DOMAIN fifo'[n] = 1 .. Len(fifo[n]) + 1 /\ fifo'[n][Len(fifo[n]) + 1] = p
          /\ \A k \in 1 .. Len(fifo[n]) : fifo'[n][k] = fifo[n][k]
      BY <1>1, <1>7, SequenceFacts
    <2>2. ASSUME NEW k \in DOMAIN fifo'[n]
          PROVE  /\ PacketOK(n, fifo[n][k])' /\ Reached(n)' <= fifo'[n][k].piece.id
                 /\ fifo'[n][k].piece.id <= p.piece.id
      <3>1. CASE k = Len(fifo[n]) + 1
        BY <3>1, <2>1, <1>5, <1>3 DEF PacketOK, Packet, Piece
      <3>2. CASE k \in 1 .. Len(fifo[n])
        <4>1. fifo'[n][k] = fifo[n][k] /\ k \in DOMAIN fifo[n]
          BY <3>2, <2>1, <1>2
        <4>2. QED BY <4>1, <1>4 DEF PacketOK
      <3>3. QED BY <3>1, <3>2, <2>1, <1>2
    <2>3. ASSUME NEW j \in DOMAIN fifo'[n], NEW k \in DOMAIN fifo'[n], j <= k
          PROVE  fifo'[n][j].piece.id <= fifo'[n][k].piece.id
      <3>1. CASE k = Len(fifo[n]) + 1
        BY <3>1, <2>1, <2>2
      <3>2. CASE k \in 1 .. Len(fifo[n])
        <4>1. j \in DOMAIN fifo[n] /\ k \in DOMAIN fifo[n]
          BY <3>2, <2>1, <2>3, <1>2
        <4>2. fifo[n][j].piece.id <= fifo[n][k].piece.id
          BY <4>1, <2>3 DEF WireOK
        <4>3. QED BY <4>1, <4>2, <2>1, <1>2
      <3>3. QED BY <3>1, <3>2, <2>1, <1>2
    <2>4. QED BY <2>2, <2>3, <1>5 DEF WireOK
  <1>8. QED BY <1>6, <1>7

THEOREM InitInv == Init => LinkInv
  <1>1. Init => TypeOK
    BY LinkAssumption DEF Init, TypeOK, Node, NoMessage, Message, Token
  <1>2. ASSUME Init, NEW n \in Node
        PROVE  SenderOK(n) /\ WireOK(n) /\ ReceiverOK(n)
    <2>1. SenderOK(n)
      BY <1>2 DEF Init, SenderOK, NoMessage
    <2>2. WireOK(n)
      BY <1>2, PeerFacts DEF Init, WireOK, Reached, Seen
    <2>3. ReceiverOK(n)
      BY <1>2, LinkAssumption DEF Init, ReceiverOK
    <2>4. QED BY <2>1, <2>2, <2>3
  <1>3. QED BY <1>1, <1>2 DEF LinkInv
LEMMA ReachedNat ==
  ASSUME NEW n \in Node, TypeOK, ReceiverOK(n)
  PROVE  Seen(n) \in Nat /\ Reached(n) \in Nat
  <1>1. Seen(n) \in Nat
    <2>1. delivered[n] \in Seq(Message)
      BY DEF TypeOK
    <2>2. ASSUME delivered[n] # << >> PROVE delivered[n][Len(delivered[n])] \in Message
      BY <2>1, <2>2, SequenceFacts
    <2>3. QED BY <2>2 DEF Seen, Message
  <1>2. Reached(n) \in Nat
    <2>1. rx_message[n] \in Seq(Piece)
      BY DEF TypeOK
    <2>2. ASSUME at[n] = "accepted" PROVE rx_message[n][Len(rx_message[n])] \in Piece
      BY <2>1, <2>2, SequenceFacts DEF ReceiverOK
    <2>3. QED BY <1>1, <2>2 DEF Reached, Piece
  <1>3. QED BY <1>1, <1>2

(* The FIFO write of a packet that is cut where the message has been sent to. *)
LEMMA SendPacketKeeps ==
  ASSUME LinkInv, NEW n \in Node, NEW m \in Message, NEW c \in 0 .. MaxFrags - 1,
         SendPacket(n, m, c, c), at[n] = "idle", c < m.len,
         m.id \in Nat \ {0}, m.id = Len(sent'[n]), m.id \in DOMAIN sent'[n],
         m.len = sent'[n][m.id],
         \/ sent' = sent
         \/ \E len \in 1 .. MaxFrags : sent' = [sent EXCEPT ![n] = Append(@, len)],
         UNCHANGED << delivered, rx_message >>
  PROVE  /\ fifo' \in [Node -> Seq(Packet)]
         /\ tx_frg_num' \in [Node -> 0 .. MaxFrags - 1]
         /\ tx_chr_cnt2' \in [Node -> 0 .. MaxFrags]
         /\ at' \in [Node -> { "idle", "written", "rejected", "accepted" }]
         /\ \A q \in Node : /\ WireOK(q)'
                            /\ at'[q] = "accepted" <=> at[q] = "accepted"
  <1>1. PICK p \in Packet :
          p = [ seq |-> tx_seq_num[n], frg |-> c, last |-> m.len - c <= 1,
                piece |-> [ id |-> m.id, off |-> c ], bad |-> "none" ]
    <2>1. [ seq |-> tx_seq_num[n], frg |-> c, last |-> m.len - c <= 1,
            piece |-> [ id |-> m.id, off |-> c ], bad |-> "none" ] \in Packet
      BY DEF LinkInv, TypeOK, Packet, Piece, Fault
    <2>2. QED BY <2>1
  <1>2. \/ fifo' = [fifo EXCEPT ![Peer(n)] = Append(@, p)]
        \/ fifo' = fifo
    BY <1>1 DEF SendPacket, FifoWrite
  <1>3. fifo' \in [Node -> Seq(Packet)]
    <2>1. fifo \in [Node -> Seq(Packet)]
      BY DEF LinkInv, TypeOK
    <2>2. Append(fifo[Peer(n)], p) \in Seq(Packet)
      BY <1>1, <2>1, PeerFacts, SequenceFacts
    <2>3. QED BY <1>2, <2>1, <2>2
  <1>4. /\ tx_frg_num' \in [Node -> 0 .. MaxFrags - 1]
        /\ tx_chr_cnt2' \in [Node -> 0 .. MaxFrags]
        /\ at' \in [Node -> { "idle", "written", "rejected", "accepted" }]
    <2>1. /\ tx_frg_num \in [Node -> 0 .. MaxFrags - 1]
          /\ tx_chr_cnt2 \in [Node -> 0 .. MaxFrags]
          /\ at \in [Node -> { "idle", "written", "rejected", "accepted" }]
      BY DEF LinkInv, TypeOK
    <2>2. c + 1 \in 0 .. MaxFrags
      BY LinkAssumption
    <2>3. /\ tx_frg_num' = [tx_frg_num EXCEPT ![n] = c]
          /\ tx_chr_cnt2' = [tx_chr_cnt2 EXCEPT ![n] = c + 1]
          /\ at' = [at EXCEPT ![n] = "written"]
      BY DEF SendPacket
    <2>4. QED BY <2>1, <2>2, <2>3
  <1>5. \A q \in Node : at'[q] = "accepted" <=> at[q] = "accepted"
    BY DEF LinkInv, TypeOK, SendPacket
  <1>6. ASSUME NEW q \in Node
        PROVE  /\ TypeOK /\ WireOK(q) /\ ReceiverOK(q)
               /\ Reached(q)' = Reached(q) /\ Reached(q) \in Nat
    BY <1>5, ReachedFrame, ReachedNat DEF LinkInv
  <1>7. WireOK(Peer(n))'
    <2>1. PacketOK(Peer(n), p)'
      <3>1. Peer(Peer(n)) = n
        BY PeerFacts
      <3>2. m.len - c <= 1 <=> c + 1 = m.len
        BY DEF Message
      <3>3. QED BY <1>1, <3>1, <3>2 DEF PacketOK
    <2>2. /\ fifo'[Peer(n)] = Append(fifo[Peer(n)], p) \/ fifo'[Peer(n)] = fifo[Peer(n)]
          /\ \/ sent'[n] = sent[n]
             \/ \E len \in 1 .. MaxFrags : sent'[n] = Append(sent[n], len)
      <3>1. /\ fifo \in [Node -> Seq(Packet)] /\ sent \in [Node -> Seq(1 .. MaxFrags)]
            /\ Peer(n) \in Node
        BY PeerFacts DEF LinkInv, TypeOK
      <3>2. QED BY <1>2, <3>1
    <2>3. p.piece.id = Len(sent'[n])
      BY <1>1
    <2>4. PICK q \in Node : q = Peer(n)
      BY PeerFacts
    <2>5. /\ p.piece.id = Len(sent'[Peer(q)])
          /\ fifo'[q] = Append(fifo[q], p) \/ fifo'[q] = fifo[q]
          /\ \/ sent'[Peer(q)] = sent[Peer(q)]
             \/ \E len \in 1 .. MaxFrags : sent'[Peer(q)] = Append(sent[Peer(q)], len)
      BY <2>2, <2>3, <2>4, PeerFacts
    <2>6. PacketOK(q, p)'
      BY <2>1, <2>4 DEF PacketOK
    <2>7. /\ TypeOK /\ WireOK(q) /\ Reached(q)' = Reached(q) /\ Reached(q) \in Nat
      BY <1>6
    <2>8. WireOK(q)'
      BY <1>1, <2>5, <2>6, <2>7, WireAppend
    <2>9. QED BY <2>4, <2>8 DEF WireOK, Reached, Seen, PacketOK
  <1>8. WireOK(n)'
    <2>1. fifo'[n] = fifo[n] /\ sent'[Peer(n)] = sent[Peer(n)]
      <3>1. /\ fifo \in [Node -> Seq(Packet)] /\ sent \in [Node -> Seq(1 .. MaxFrags)]
            /\ Peer(n) \in Node /\ Peer(n) # n
        BY PeerFacts DEF LinkInv, TypeOK
      <3>2. QED BY <1>2, <3>1
    <2>2. QED BY <1>6, <2>1, WireFrame
  <1>9. QED BY <1>3, <1>4, <1>5, <1>7, <1>8, PeerFacts
(* What an end that neither receives nor is received from keeps.             *)
LEMMA QuietKeeps ==
  ASSUME LinkInv, NEW m \in Node,
         sent' = sent, delivered'[m] = delivered[m], rx_message'[m] = rx_message[m],
         at'[m] = "accepted" <=> at[m] = "accepted"
  PROVE  /\ fifo'[m] = fifo[m] => WireOK(m)'
         /\ rx_part'[m] = rx_part[m] /\ rx_frg_num'[m] = rx_frg_num[m] => ReceiverOK(m)'
  <1>1. TypeOK /\ WireOK(m) /\ ReceiverOK(m)
    BY DEF LinkInv
  <1>2. Reached(m)' = Reached(m) /\ Seen(m)' = Seen(m)
    BY <1>1, ReachedFrame
  <1>3. fifo'[m] = fifo[m] => WireOK(m)'
    BY <1>1, <1>2, WireFrame
  <1>4. rx_part'[m] = rx_part[m] /\ rx_frg_num'[m] = rx_frg_num[m] => ReceiverOK(m)'
    BY <1>1, <1>2 DEF ReceiverOK
  <1>5. QED BY <1>3, <1>4

LEMMA AssertReadyKeeps ==
  ASSUME LinkInv, NEW n \in Node, AssertReady(n)
  PROVE  LinkInv'
  <1>1. TypeOK'
    BY PeerFacts DEF LinkInv, TypeOK, AssertReady, Assert, Token, rxVars, txVars, wireVars, history, faults
  <1>2. ASSUME NEW m \in Node PROVE SenderOK(m)'
    BY DEF LinkInv, SenderOK, AssertReady, rxVars, txVars, wireVars, history, faults
  <1>3. ASSUME NEW m \in Node PROVE WireOK(m)' /\ ReceiverOK(m)'
    <2>1. at'[m] = "accepted" <=> at[m] = "accepted"
      BY DEF LinkInv, TypeOK, AssertReady
    <2>2. QED BY <2>1, QuietKeeps DEF AssertReady, rxVars, txVars, wireVars, history, faults
  <1>4. QED BY <1>1, <1>2, <1>3 DEF LinkInv

LEMMA BeginCallKeeps ==
  ASSUME LinkInv, NEW n \in Node, BeginCall(n)
  PROVE  LinkInv'
  <1>1. TypeOK'
    <2>1. fifo' \in [Node -> Seq(Packet)]
      <3>1. << >> \in Seq(Packet)
        OBVIOUS
      <3>2. QED BY <3>1 DEF LinkInv, TypeOK, BeginCall
    <2>2. call' \in [Node -> { "none", "begun", "waiting" }]
      BY DEF LinkInv, TypeOK, BeginCall
    <2>3. QED BY <2>1, <2>2 DEF LinkInv, TypeOK, BeginCall, rxVars, txVars, wireVars, history, faults
  <1>2. ASSUME NEW m \in Node PROVE SenderOK(m)'
    BY DEF LinkInv, TypeOK, SenderOK, BeginCall, rxVars, txVars, wireVars, history, faults
  <1>3. ASSUME NEW m \in Node PROVE WireOK(m)' /\ ReceiverOK(m)'
    <2>1. /\ sent' = sent /\ delivered' = delivered /\ rx_message' = rx_message
          /\ at' = at /\ rx_part' = rx_part /\ rx_frg_num' = rx_frg_num
      BY DEF BeginCall, rxVars, txVars, wireVars, history, faults
    <2>2. ReceiverOK(m)' /\ (fifo'[m] = fifo[m] => WireOK(m)')
      BY <2>1, QuietKeeps
    <2>3. fifo'[m] = fifo[m] \/ fifo'[m] = << >>
      BY DEF LinkInv, TypeOK, BeginCall
    <2>4. TypeOK /\ WireOK(m) /\ Reached(m)' = Reached(m)
      BY <2>1, ReachedFrame DEF LinkInv
    <2>5. Reached(m)' <= Len(sent'[Peer(m)])
      BY <2>1, <2>4 DEF WireOK
    <2>6. QED BY <2>2, <2>3, <2>4, <2>5, WireEmpty
  <1>4. QED BY <1>1, <1>2, <1>3 DEF LinkInv

LEMMA PacketMessageSendKeeps ==
  ASSUME LinkInv, NEW n \in Node, NEW len \in 1 .. MaxFrags, PacketMessageSend(n, len)
  PROVE  LinkInv'
  <1>1. /\ TypeOK /\ SenderOK(n) /\ call[n] = "begun" /\ tx_chr_cnt1[n] = 0
        /\ sent \in [Node -> Seq(1 .. MaxFrags)] /\ Len(sent[n]) \in Nat
    BY SequenceFacts DEF LinkInv, TypeOK, SenderOK, PacketMessageSend
  <1>2. PICK m \in Message : m = [ id |-> Len(sent[n]) + 1, len |-> len ]
    <2>1. [ id |-> Len(sent[n]) + 1, len |-> len ] \in Message
      BY <1>1 DEF Message
    <2>2. QED BY <2>1
  <1>3. /\ sent' = [sent EXCEPT ![n] = Append(@, len)]
        /\ tx_message' = [tx_message EXCEPT ![n] = m]
        /\ call' = [call EXCEPT ![n] = "waiting"]
        /\ SendPacket(n, m, 0, 0) /\ at[n] = "idle"
        /\ UNCHANGED << rxVars, tx_seq_num, tx_chr_cnt1, tx_retry, token, work,
                        delivered, reported, faults >>
    <2>1. SendPacket(n, m, 0, tx_chr_cnt1[n]) /\ tx_message' = [tx_message EXCEPT ![n] = m]
      BY <1>2 DEF PacketMessageSend
    <2>2. SendPacket(n, m, 0, 0)
      BY <1>1, <2>1
    <2>3. QED BY <2>1, <2>2 DEF PacketMessageSend, Between
  <1>4. /\ sent'[n] = Append(sent[n], len) /\ sent' \in [Node -> Seq(1 .. MaxFrags)]
        /\ \A q \in Node \ {n} : sent'[q] = sent[q]
    BY <1>1, <1>3, SequenceFacts
  <1>5. /\ Len(sent'[n]) = m.id /\ m.id \in DOMAIN sent'[n] /\ sent'[n][m.id] = m.len
        /\ m.id \in Nat \ {0}
    BY <1>1, <1>2, <1>4, SequenceFacts
  <1>6. /\ fifo' \in [Node -> Seq(Packet)]
        /\ tx_frg_num' \in [Node -> 0 .. MaxFrags - 1]
        /\ tx_chr_cnt2' \in [Node -> 0 .. MaxFrags]
        /\ at' \in [Node -> { "idle", "written", "rejected", "accepted" }]
        /\ \A q \in Node : WireOK(q)' /\ (at'[q] = "accepted" <=> at[q] = "accepted")
    <2>1. 0 \in 0 .. MaxFrags - 1 /\ 0 < m.len
      BY <1>2, LinkAssumption
    <2>2. UNCHANGED << delivered, rx_message >>
      BY <1>3 DEF rxVars, txVars, wireVars, history, faults
    <2>3. QED BY <1>3, <1>5, <2>1, <2>2, SendPacketKeeps
  <1>7. TypeOK'
    <2>1. /\ tx_message' \in [Node -> Message]
          /\ call' \in [Node -> { "none", "begun", "waiting" }]
      BY <1>1, <1>3 DEF TypeOK
    <2>2. QED BY <1>1, <1>3, <1>4, <1>6, <2>1 DEF TypeOK, rxVars, txVars, wireVars, history, faults
  <1>8. ASSUME NEW q \in Node PROVE SenderOK(q)'
    <2>1. CASE q = n
      <3>1. /\ tx_message'[n] = m /\ tx_frg_num'[n] = 0 /\ tx_chr_cnt2'[n] = 1
            /\ tx_chr_cnt1'[n] = 0 /\ call'[n] = "waiting"
        BY <1>1, <1>3 DEF TypeOK, SendPacket, rxVars, txVars, wireVars, history, faults
      <3>2. m.len \in 1 .. MaxFrags
        BY <1>2
      <3>3. QED BY <2>1, <3>1, <3>2, <1>5, LinkAssumption DEF SenderOK
    <2>2. CASE q # n
      <3>1. /\ tx_message'[q] = tx_message[q] /\ tx_frg_num'[q] = tx_frg_num[q]
            /\ tx_chr_cnt2'[q] = tx_chr_cnt2[q] /\ tx_chr_cnt1'[q] = tx_chr_cnt1[q]
            /\ call'[q] = call[q] /\ sent'[q] = sent[q]
        BY <1>1, <1>3, <2>2 DEF TypeOK, SendPacket, rxVars, txVars, wireVars, history, faults
      <3>2. SenderOK(q)
        BY DEF LinkInv
      <3>3. QED BY <3>1, <3>2 DEF SenderOK
    <2>3. QED BY <2>1, <2>2
  <1>9. ASSUME NEW q \in Node PROVE ReceiverOK(q)'
    <2>1. Seen(q)' = Seen(q) /\ (at'[q] = "accepted" <=> at[q] = "accepted")
      BY <1>3, <1>6 DEF Seen, rxVars, txVars, wireVars, history, faults
    <2>2. /\ rx_part'[q] = rx_part[q] /\ rx_frg_num'[q] = rx_frg_num[q]
          /\ rx_message'[q] = rx_message[q]
      BY <1>3 DEF rxVars, txVars, wireVars, history, faults
    <2>3. ReceiverOK(q)
      BY DEF LinkInv
    <2>4. ASSUME at[q] = "accepted", NEW end, end = rx_message[q][Len(rx_message[q])]
          PROVE  end.id \in DOMAIN sent'[Peer(q)] /\ end.off + 1 = sent'[Peer(q)][end.id]
      <3>1. end.id \in DOMAIN sent[Peer(q)] /\ end.off + 1 = sent[Peer(q)][end.id]
        BY <2>3, <2>4 DEF ReceiverOK
      <3>2. CASE Peer(q) # n
        BY <3>1, <3>2, <1>4, PeerFacts
      <3>3. CASE Peer(q) = n
        <4>1. end.id \in 1 .. Len(sent[n])
          BY <1>1, <3>1, <3>3, SequenceFacts
        <4>2. end.id \in DOMAIN sent'[n] /\ sent'[n][end.id] = sent[n][end.id]
          BY <1>1, <1>4, <4>1, SequenceFacts
        <4>3. QED BY <3>1, <3>3, <4>2
      <3>4. QED BY <3>2, <3>3
    <2>5. QED BY <2>1, <2>2, <2>3, <2>4 DEF ReceiverOK
  <1>10. QED BY <1>6, <1>7, <1>8, <1>9 DEF LinkInv

LEMMA TxResetKeeps ==
  ASSUME LinkInv, NEW n \in Node, TxReset(n)
  PROVE  LinkInv'
  <1>1. TypeOK'
    <2>1. /\ tx_message' \in [Node -> Message]
          /\ tx_chr_cnt1' \in [Node -> 0 .. MaxFrags - 1]
          /\ call' \in [Node -> { "none", "begun", "waiting" }]
      <3>1. NoMessage \in Message /\ 0 \in 0 .. MaxFrags - 1
        BY LinkAssumption DEF NoMessage, Message
      <3>2. QED BY <3>1 DEF LinkInv, TypeOK, TxReset, PositionReset
    <2>2. tx_seq_num' \in [Node -> 0 .. SeqMod - 1]
      <3>1. tx_seq_num \in [Node -> 0 .. SeqMod - 1]
        BY DEF LinkInv, TypeOK
      <3>2. tx_seq_num' = [tx_seq_num EXCEPT ![n] = (@ + 1) % SeqMod]
        BY DEF TxReset
      <3>3. QED BY <3>1, <3>2, SeqStep
    <2>3. timeouts' \in 0 .. MaxTimeout
      <3>1. timeouts \in 0 .. MaxTimeout
        BY DEF LinkInv, TypeOK
      <3>2. timeouts' = timeouts \/ (timeouts < MaxTimeout /\ timeouts' = timeouts + 1)
        BY DEF TxReset
      <3>3. QED BY <3>1, <3>2, LinkAssumption
    <2>4. QED BY <2>1, <2>2, <2>3 DEF LinkInv, TypeOK, TxReset, rxVars, txVars, wireVars, history, faults
  <1>2. ASSUME NEW m \in Node PROVE SenderOK(m)'
    BY DEF LinkInv, TypeOK, SenderOK, TxReset, PositionReset, NoMessage, rxVars, txVars, wireVars, history, faults
  <1>3. ASSUME NEW m \in Node PROVE WireOK(m)' /\ ReceiverOK(m)'
    BY QuietKeeps DEF TxReset, rxVars, txVars, wireVars, history, faults
  <1>4. QED BY <1>1, <1>2, <1>3 DEF LinkInv

LEMMA TakeTokensKeeps ==
  ASSUME LinkInv, NEW n \in Node, TakeTokens(n)
  PROVE  LinkInv'
  <1>1. TypeOK'
    BY DEF LinkInv, TypeOK, TakeTokens, Cleared, rxVars, txVars, wireVars, history, faults
  <1>2. ASSUME NEW m \in Node PROVE SenderOK(m)'
    BY DEF LinkInv, SenderOK, TakeTokens, rxVars, txVars, wireVars, history, faults
  <1>3. ASSUME NEW m \in Node PROVE WireOK(m)' /\ ReceiverOK(m)'
    BY QuietKeeps DEF TakeTokens, rxVars, txVars, wireVars, history, faults
  <1>4. QED BY <1>1, <1>2, <1>3 DEF LinkInv
LEMMA HandleNackKeeps ==
  ASSUME LinkInv, NEW n \in Node, HandleNack(n)
  PROVE  LinkInv'
  <1>1. /\ TypeOK /\ at[n] = "idle" /\ work' = [work EXCEPT ![n] = @ \ {"NACK"}]
        /\ UNCHANGED << rxVars, token, call, history, faults >>
    BY DEF LinkInv, HandleNack, Looks, Looked
  <1>2. CASE tx_message[n].len = 0
    <2>1. UNCHANGED << txVars, fifo, at >>
      BY <1>2 DEF HandleNack
    <2>2. TypeOK'
      BY <1>1, <2>1 DEF TypeOK, rxVars, txVars, wireVars, history, faults
    <2>3. ASSUME NEW m \in Node PROVE SenderOK(m)'
      BY <1>1, <2>1 DEF LinkInv, SenderOK, rxVars, txVars, wireVars, history, faults
    <2>4. ASSUME NEW m \in Node PROVE WireOK(m)' /\ ReceiverOK(m)'
      BY <1>1, <2>1, QuietKeeps DEF rxVars, txVars, wireVars, history, faults
    <2>5. QED BY <2>2, <2>3, <2>4 DEF LinkInv
  <1>3. CASE tx_message[n].len # 0
    <2>1. PICK retry \in 0 .. RetryMod - 1 :
            /\ tx_retry' = [tx_retry EXCEPT ![n] = retry]
            /\ \/ /\ RetryLimit <= retry
                  /\ tx_message' = [tx_message EXCEPT ![n] = NoMessage]
                  /\ UNCHANGED << tx_frg_num, tx_chr_cnt2, fifo, at >>
               \/ /\ SendPacket(n, tx_message[n], tx_frg_num[n], tx_chr_cnt1[n])
                  /\ UNCHANGED tx_message
            /\ UNCHANGED << tx_seq_num, tx_chr_cnt1 >>
      <3>1. (tx_retry[n] + 1) % RetryMod \in 0 .. RetryMod - 1
        BY <1>1, RetryStep DEF TypeOK
      <3>2. QED BY <1>3, <3>1 DEF HandleNack
    <2>2. tx_retry' \in [Node -> 0 .. RetryMod - 1]
      BY <1>1, <2>1 DEF TypeOK
    <2>3. CASE /\ tx_message' = [tx_message EXCEPT ![n] = NoMessage]
               /\ UNCHANGED << tx_frg_num, tx_chr_cnt2, fifo, at >>
      <3>1. TypeOK'
        <4>1. tx_message' \in [Node -> Message]
          <5>1. NoMessage \in Message
            BY LinkAssumption DEF NoMessage, Message
          <5>2. QED BY <1>1, <2>3, <5>1 DEF TypeOK
        <4>2. QED BY <1>1, <2>1, <2>2, <2>3, <4>1 DEF TypeOK, rxVars, txVars, wireVars, history, faults
      <3>2. ASSUME NEW m \in Node PROVE SenderOK(m)'
        BY <1>1, <1>3, <2>1, <2>3 DEF LinkInv, TypeOK, SenderOK, NoMessage, rxVars, txVars, wireVars, history, faults
      <3>3. ASSUME NEW m \in Node PROVE WireOK(m)' /\ ReceiverOK(m)'
        BY <1>1, <2>3, QuietKeeps DEF rxVars, txVars, wireVars, history, faults
      <3>4. QED BY <3>1, <3>2, <3>3 DEF LinkInv
    <2>4. CASE /\ SendPacket(n, tx_message[n], tx_frg_num[n], tx_chr_cnt1[n])
               /\ UNCHANGED tx_message
      <3>1. /\ SenderOK(n) /\ tx_message[n] \in Message
            /\ tx_chr_cnt1[n] \in 0 .. MaxFrags - 1
        BY DEF LinkInv, TypeOK
      <3>2. PICK m \in Message, c \in 0 .. MaxFrags - 1 :
              m = tx_message[n] /\ c = tx_chr_cnt1[n] /\ SendPacket(n, m, c, c)
        BY <1>3, <2>4, <3>1 DEF SenderOK
      <3>3. /\ c < m.len /\ m.id \in Nat \ {0} /\ m.id = Len(sent[n]) /\ m.id \in DOMAIN sent[n]
            /\ m.len = sent[n][m.id] /\ tx_frg_num[n] = c /\ call[n] = "waiting"
        <4>1. /\ c < m.len /\ m.id \in DOMAIN sent[n] /\ m.id = Len(sent[n])
              /\ m.len = sent[n][m.id] /\ tx_frg_num[n] = c /\ call[n] = "waiting"
          BY <1>3, <3>1, <3>2 DEF SenderOK
        <4>2. sent[n] \in Seq(1 .. MaxFrags)
          BY <1>1 DEF TypeOK
        <4>3. QED BY <4>1, <4>2
      <3>4. /\ fifo' \in [Node -> Seq(Packet)]
            /\ tx_frg_num' \in [Node -> 0 .. MaxFrags - 1]
            /\ tx_chr_cnt2' \in [Node -> 0 .. MaxFrags]
            /\ at' \in [Node -> { "idle", "written", "rejected", "accepted" }]
            /\ \A q \in Node : WireOK(q)' /\ (at'[q] = "accepted" <=> at[q] = "accepted")
        <4>1. sent' = sent /\ UNCHANGED << delivered, rx_message >>
          BY <1>1 DEF rxVars, txVars, wireVars, history, faults
        <4>2. QED BY <1>1, <3>2, <3>3, <4>1, SendPacketKeeps
      <3>5. TypeOK'
        BY <1>1, <2>1, <2>2, <2>4, <3>4 DEF TypeOK, rxVars, txVars, wireVars, history, faults
      <3>6. ASSUME NEW q \in Node PROVE SenderOK(q)'
        <4>1. /\ tx_frg_num' = [tx_frg_num EXCEPT ![n] = c]
              /\ tx_chr_cnt2' = [tx_chr_cnt2 EXCEPT ![n] = c + 1]
          BY <3>2 DEF SendPacket
        <4>2. SenderOK(q)
          BY DEF LinkInv
        <4>3. /\ tx_chr_cnt1' = tx_chr_cnt1 /\ tx_message' = tx_message
              /\ call' = call /\ sent' = sent
          BY <1>1, <2>1, <2>4 DEF rxVars, txVars, wireVars, history, faults
        <4>4. QED BY <1>1, <3>2, <3>3, <4>1, <4>2, <4>3 DEF SenderOK, TypeOK
      <3>7. ASSUME NEW q \in Node PROVE ReceiverOK(q)'
        BY <1>1, <3>4, QuietKeeps DEF rxVars, txVars, wireVars, history, faults
      <3>8. QED BY <3>4, <3>5, <3>6, <3>7 DEF LinkInv
    <2>5. QED BY <2>1, <2>3, <2>4
  <1>4. QED BY <1>2, <1>3

LEMMA HandleAckKeeps ==
  ASSUME LinkInv, NEW n \in Node, HandleAck(n)
  PROVE  LinkInv'
  <1>1. /\ TypeOK /\ SenderOK(n) /\ at[n] = "idle" /\ work' = [work EXCEPT ![n] = @ \ {"ACK"}]
        /\ UNCHANGED << rxVars, token, call, sent, delivered, faults >>
    BY DEF LinkInv, HandleAck, Looks, Looked
  <1>2. CASE UNCHANGED << txVars, fifo, at, reported >>
    <2>1. TypeOK'
      BY <1>1, <1>2 DEF TypeOK, rxVars, txVars, wireVars, history, faults
    <2>2. ASSUME NEW m \in Node PROVE SenderOK(m)'
      BY <1>1, <1>2 DEF LinkInv, SenderOK, rxVars, txVars, wireVars, history, faults
    <2>3. ASSUME NEW m \in Node PROVE WireOK(m)' /\ ReceiverOK(m)'
      BY <1>1, <1>2, QuietKeeps DEF rxVars, txVars, wireVars, history, faults
    <2>4. QED BY <2>1, <2>2, <2>3 DEF LinkInv
  <1>3. ASSUME NEW m \in Message, m = tx_message[n], NEW c \in 0 .. MaxFrags, c = tx_chr_cnt2[n],
               m.len > c,
               tx_chr_cnt1' = [tx_chr_cnt1 EXCEPT ![n] = c],
               tx_retry' = [tx_retry EXCEPT ![n] = 0],
               SendPacket(n, m, tx_frg_num[n] + 1, c),
               UNCHANGED << tx_seq_num, tx_message, reported >>
        PROVE  LinkInv'
    <2>1. /\ c \in 0 .. MaxFrags - 1 /\ m.len # 0
      BY <1>3, LinkAssumption DEF Message
    <2>2. /\ c < m.len /\ m.id \in Nat \ {0} /\ m.id = Len(sent[n]) /\ m.id \in DOMAIN sent[n]
          /\ m.len = sent[n][m.id] /\ call[n] = "waiting"
      BY <1>1, <1>3, <2>1, SequenceFacts DEF SenderOK, TypeOK
    <2>3. SendPacket(n, m, c, c)
      <3>1. tx_frg_num[n] + 1 = c
        BY <1>1, <1>3, <2>1 DEF SenderOK
      <3>2. QED BY <1>3, <3>1
    <2>4. /\ fifo' \in [Node -> Seq(Packet)]
          /\ tx_frg_num' \in [Node -> 0 .. MaxFrags - 1]
          /\ tx_chr_cnt2' \in [Node -> 0 .. MaxFrags]
          /\ at' \in [Node -> { "idle", "written", "rejected", "accepted" }]
          /\ \A q \in Node : WireOK(q)' /\ (at'[q] = "accepted" <=> at[q] = "accepted")
      <3>1. sent' = sent /\ UNCHANGED << delivered, rx_message >>
        BY <1>1 DEF rxVars, txVars, wireVars, history, faults
      <3>2. QED BY <1>1, <2>1, <2>2, <2>3, <3>1, SendPacketKeeps
    <2>5. TypeOK'
      <3>1. tx_chr_cnt1' \in [Node -> 0 .. MaxFrags - 1] /\ tx_retry' \in [Node -> 0 .. RetryMod - 1]
        BY <1>1, <1>3, <2>1, LinkAssumption DEF TypeOK
      <3>2. QED BY <1>1, <1>3, <2>4, <3>1 DEF TypeOK, rxVars, txVars, wireVars, history, faults
    <2>6. ASSUME NEW q \in Node PROVE SenderOK(q)'
      <3>1. /\ tx_frg_num' = [tx_frg_num EXCEPT ![n] = c]
            /\ tx_chr_cnt2' = [tx_chr_cnt2 EXCEPT ![n] = c + 1]
        BY <2>3 DEF SendPacket
      <3>2. SenderOK(q)
        BY DEF LinkInv
      <3>3. tx_message' = tx_message /\ call' = call /\ sent' = sent
        BY <1>1, <1>3
      <3>4. QED BY <1>1, <1>3, <2>1, <2>2, <3>1, <3>2, <3>3 DEF SenderOK, TypeOK
    <2>7. ASSUME NEW q \in Node PROVE ReceiverOK(q)'
      BY <1>1, <2>4, QuietKeeps DEF rxVars, txVars, wireVars, history, faults
    <2>8. QED BY <2>4, <2>5, <2>6, <2>7 DEF LinkInv
  <1>4. CASE /\ tx_message' = [tx_message EXCEPT ![n] = NoMessage]
             /\ tx_chr_cnt1' = [tx_chr_cnt1 EXCEPT ![n] = 0]
             /\ tx_seq_num' = [tx_seq_num EXCEPT ![n] = (@ + 1) % SeqMod]
             /\ reported' = [reported EXCEPT ![n] = @ \cup {tx_message[n].id}]
             /\ UNCHANGED << tx_frg_num, tx_chr_cnt2, tx_retry, fifo, at >>
    <2>1. TypeOK'
      <3>1. /\ tx_message' \in [Node -> Message] /\ tx_chr_cnt1' \in [Node -> 0 .. MaxFrags - 1]
        <4>1. NoMessage \in Message /\ 0 \in 0 .. MaxFrags - 1
          BY LinkAssumption DEF NoMessage, Message
        <4>2. QED BY <1>1, <1>4, <4>1 DEF TypeOK
      <3>2. tx_seq_num' \in [Node -> 0 .. SeqMod - 1]
        BY <1>1, <1>4, SeqStep DEF TypeOK
      <3>3. reported' \in [Node -> SUBSET Nat]
        <4>1. tx_message[n].id \in Nat /\ reported \in [Node -> SUBSET Nat]
          BY <1>1 DEF TypeOK, Message
        <4>2. QED BY <1>4, <4>1
      <3>4. QED BY <1>1, <1>4, <3>1, <3>2, <3>3 DEF TypeOK, rxVars, txVars, wireVars, history, faults
    <2>2. ASSUME NEW m \in Node PROVE SenderOK(m)'
      BY <1>1, <1>4 DEF LinkInv, TypeOK, SenderOK, NoMessage, rxVars, txVars, wireVars, history, faults
    <2>3. ASSUME NEW m \in Node PROVE WireOK(m)' /\ ReceiverOK(m)'
      BY <1>1, <1>4, QuietKeeps DEF rxVars, txVars, wireVars, history, faults
    <2>4. QED BY <2>1, <2>2, <2>3 DEF LinkInv
  <1>5. tx_message[n] \in Message /\ tx_chr_cnt2[n] \in 0 .. MaxFrags
    BY <1>1 DEF TypeOK
  <1>6. QED BY <1>2, <1>3, <1>4, <1>5 DEF HandleAck, MoreToSend, PositionReset
(* Damage changes neither the order nor the pieces of the packets.           *)
LEMMA WireRelabel ==
  ASSUME NEW n \in Node, TypeOK, WireOK(n), NEW k \in DOMAIN fifo[n], NEW b \in Fault,
         fifo'[n] = [fifo[n] EXCEPT ![k] = [fifo[n][k] EXCEPT !.bad = b]],
         Reached(n)' = Reached(n), sent'[Peer(n)] = sent[Peer(n)]
  PROVE  fifo'[n] \in Seq(Packet) /\ WireOK(n)'
  <1>1. fifo[n] \in Seq(Packet) /\ DOMAIN fifo[n] = 1 .. Len(fifo[n]) /\ Len(fifo[n]) \in Nat
    BY SequenceFacts DEF TypeOK
  <1>2. \A j \in DOMAIN fifo[n] : fifo[n][j] \in Packet
    BY <1>1, SequenceFacts
  <1>3. PICK q \in Packet :
          /\ q = [fifo[n][k] EXCEPT !.bad = b]
          /\ q.frg = fifo[n][k].frg /\ q.piece = fifo[n][k].piece /\ q.last = fifo[n][k].last
    <2>1. [fifo[n][k] EXCEPT !.bad = b] \in Packet
      BY <1>2 DEF Packet
    <2>2. QED BY <1>2, <2>1 DEF Packet
  <1>4. /\ DOMAIN fifo'[n] = DOMAIN fifo[n] /\ fifo'[n][k] = q
        /\ \A j \in DOMAIN fifo[n] : j # k => fifo'[n][j] = fifo[n][j]
    BY <1>1, <1>3
  <1>5. fifo'[n] \in Seq(Packet)
    <2>1. fifo'[n] = [j \in 1 .. Len(fifo[n]) |-> IF j = k THEN q ELSE fifo[n][j]]
      BY <1>1, <1>3
    <2>2. \A j \in 1 .. Len(fifo[n]) : (IF j = k THEN q ELSE fifo[n][j]) \in Packet
      BY <1>1, <1>2
    <2>3. QED BY <1>1, <2>1, <2>2
  <1>6. \A j \in DOMAIN fifo[n] :
          /\ fifo'[n][j].frg = fifo[n][j].frg /\ fifo'[n][j].piece = fifo[n][j].piece
          /\ fifo'[n][j].last = fifo[n][j].last
    BY <1>3, <1>4
  <1>7. ASSUME NEW j \in DOMAIN fifo'[n]
        PROVE  PacketOK(n, fifo[n][j])' /\ Reached(n)' <= fifo'[n][j].piece.id
    <2>1. j \in DOMAIN fifo[n]
      BY <1>4
    <2>2. PacketOK(n, fifo[n][j]) /\ Reached(n) <= fifo[n][j].piece.id
      BY <2>1 DEF WireOK
    <2>3. QED BY <1>6, <2>1, <2>2 DEF PacketOK
  <1>8. ASSUME NEW i \in DOMAIN fifo'[n], NEW j \in DOMAIN fifo'[n], i <= j
        PROVE  fifo'[n][i].piece.id <= fifo'[n][j].piece.id
    BY <1>4, <1>6, <1>8 DEF WireOK
  <1>9. Reached(n)' <= Len(sent'[Peer(n)])
    BY DEF WireOK
  <1>10. QED BY <1>5, <1>7, <1>8, <1>9 DEF WireOK

(* Nothing is lost when n has seen less than it was about to see.            *)
LEMMA WireLower ==
  ASSUME NEW n \in Node, TypeOK, WireOK(n), fifo'[n] = fifo[n], sent'[Peer(n)] = sent[Peer(n)],
         Reached(n) \in Nat, Reached(n)' \in Nat, Reached(n)' <= Reached(n)
  PROVE  WireOK(n)'
  <1>1. /\ fifo[n] \in Seq(Packet) /\ sent[Peer(n)] \in Seq(1 .. MaxFrags)
        /\ Len(sent[Peer(n)]) \in Nat
    BY PeerFacts, SequenceFacts DEF TypeOK
  <1>2. ASSUME NEW k \in DOMAIN fifo[n] PROVE fifo[n][k].piece.id \in Nat
    <2>1. fifo[n][k] \in Packet
      BY <1>1, SequenceFacts
    <2>2. QED BY <2>1 DEF Packet, Piece
  <1>3. QED BY <1>1, <1>2 DEF WireOK, PacketOK

(* The packet n is about to read.                                            *)
LEMMA HeadFacts ==
  ASSUME LinkInv, NEW n \in Node, fifo[n] # << >>
  PROVE  /\ Head(fifo[n]) \in Packet /\ Head(fifo[n]) = fifo[n][1] /\ 1 \in DOMAIN fifo[n]
         /\ PacketOK(n, fifo[n][1]) /\ Reached(n) <= fifo[n][1].piece.id
         /\ fifo[n][1].piece.id \in Nat /\ Tail(fifo[n]) \in Seq(Packet)
  <1>1. fifo[n] \in Seq(Packet)
    BY DEF LinkInv, TypeOK
  <1>2. /\ Head(fifo[n]) \in Packet /\ Head(fifo[n]) = fifo[n][1] /\ 1 \in DOMAIN fifo[n]
        /\ Tail(fifo[n]) \in Seq(Packet)
    BY <1>1, SequenceFacts
  <1>3. PacketOK(n, fifo[n][1]) /\ Reached(n) <= fifo[n][1].piece.id
    BY <1>2 DEF LinkInv, WireOK
  <1>4. QED BY <1>2, <1>3 DEF Packet, Piece

(* Reading and refusing the head of the FIFO.                                *)
LEMMA DropKeeps ==
  ASSUME LinkInv, NEW n \in Node, fifo[n] # << >>, DropHead(n), sent' = sent,
         Reached(n)' = Reached(n)
  PROVE  /\ fifo' \in [Node -> Seq(Packet)] /\ WireOK(n)' /\ fifo'[Peer(n)] = fifo[Peer(n)]
  <1>1. /\ TypeOK /\ WireOK(n) /\ ReceiverOK(n) /\ fifo \in [Node -> Seq(Packet)]
    BY DEF LinkInv, TypeOK
  <1>2. fifo'[n] = Tail(fifo[n]) /\ fifo'[Peer(n)] = fifo[Peer(n)]
    BY <1>1, PeerFacts DEF DropHead
  <1>3. fifo' \in [Node -> Seq(Packet)]
    BY <1>1, HeadFacts DEF DropHead
  <1>4. Reached(n)' \in Nat /\ Reached(n)' <= fifo[n][1].piece.id
    BY <1>1, ReachedNat, HeadFacts
  <1>5. QED BY <1>1, <1>2, <1>3, <1>4, WireDrop

LEMMA RejectHeaderKeeps ==
  ASSUME LinkInv, NEW n \in Node, RejectHeader(n)
  PROVE  LinkInv'
  <1>1. /\ TypeOK /\ WireOK(n) /\ fifo \in [Node -> Seq(Packet)]
        /\ work' = [work EXCEPT ![n] = @ \ {"PACKET_RDY"}]
        /\ rx_part' = [rx_part EXCEPT ![n] = << >>]
        /\ rx_frg_num' = [rx_frg_num EXCEPT ![n] = 0]
        /\ token' = [token EXCEPT ![Peer(n)] = @ \cup {"NACK"}]
        /\ UNCHANGED << rx_seq_num, rx_message, txVars, at, call, history, faults >>
    BY DEF LinkInv, TypeOK, RejectHeader, Looked, Assert
  <1>2. \A m \in Node : Reached(m)' = Reached(m) /\ Seen(m)' = Seen(m)
    BY <1>1, ReachedFrame DEF rxVars, txVars, wireVars, history, faults
  <1>3. fifo' \in [Node -> Seq(Packet)] /\ WireOK(n)' /\ fifo'[Peer(n)] = fifo[Peer(n)]
    <2>1. CASE UNCHANGED fifo
      BY <1>1, <1>2, <2>1, WireFrame DEF rxVars, txVars, wireVars, history, faults
    <2>2. CASE fifo[n] # << >> /\ DropHead(n)
      BY <1>1, <1>2, <2>2, DropKeeps DEF rxVars, txVars, wireVars, history, faults
    <2>3. CASE fifo[n] # << >> /\ fifo' = [fifo EXCEPT ![n][1].bad = "payload"]
      <3>1. fifo'[n] = [fifo[n] EXCEPT ![1] = [fifo[n][1] EXCEPT !.bad = "payload"]]
        BY <1>1, <2>3
      <3>2. fifo'[n] \in Seq(Packet) /\ WireOK(n)'
        BY <1>1, <1>2, <2>3, <3>1, HeadFacts, WireRelabel DEF Fault, rxVars, txVars, wireVars, history, faults
      <3>3. QED BY <1>1, <2>3, <3>2, PeerFacts
    <2>4. QED BY <2>1, <2>2, <2>3 DEF RejectHeader
  <1>4. TypeOK'
    <2>1. /\ rx_part' \in [Node -> Seq(Piece)] /\ rx_frg_num' \in [Node -> 0 .. MaxFrags - 1]
      <3>1. << >> \in Seq(Piece) /\ 0 \in 0 .. MaxFrags - 1
        BY LinkAssumption
      <3>2. QED BY <1>1, <3>1 DEF TypeOK
    <2>2. token' \in [Node -> SUBSET Token] /\ work' \in [Node -> SUBSET Token]
      BY <1>1 DEF TypeOK, Token
    <2>3. QED BY <1>1, <1>3, <2>1, <2>2 DEF TypeOK, rxVars, txVars, wireVars, history, faults
  <1>5. ASSUME NEW m \in Node PROVE SenderOK(m)'
    BY <1>1 DEF LinkInv, SenderOK, rxVars, txVars, wireVars, history, faults
  <1>6. ASSUME NEW m \in Node PROVE WireOK(m)'
    <2>1. CASE m = n
      BY <2>1, <1>3
    <2>2. CASE m = Peer(n)
      BY <1>1, <1>3, <2>2, QuietKeeps DEF rxVars, txVars, wireVars, history, faults
    <2>3. QED BY <2>1, <2>2, PeerFacts
  <1>7. ASSUME NEW m \in Node PROVE ReceiverOK(m)'
    <2>1. ReceiverOK(m)
      BY DEF LinkInv
    <2>2. /\ m = n => rx_part'[m] = << >> /\ rx_frg_num'[m] = 0
          /\ m # n => rx_part'[m] = rx_part[m] /\ rx_frg_num'[m] = rx_frg_num[m]
      BY <1>1 DEF TypeOK
    <2>3. QED BY <1>1, <1>2, <2>1, <2>2 DEF ReceiverOK, rxVars, txVars, wireVars, history, faults
  <1>8. QED BY <1>4, <1>5, <1>6, <1>7 DEF LinkInv

LEMMA RejectPacketKeeps ==
  ASSUME LinkInv, NEW n \in Node, RejectPacket(n)
  PROVE  LinkInv'
  <1>1. /\ TypeOK /\ fifo[n] # << >> /\ DropHead(n) /\ at[n] = "idle"
        /\ token' = [token EXCEPT ![Peer(n)] = @ \cup {"NACK"}]
        /\ at' = [at EXCEPT ![n] = "rejected"]
        /\ UNCHANGED << rxVars, txVars, work, call, history, faults >>
    BY DEF LinkInv, RejectPacket, Assert, Receives, Looks
  <1>2. \A m \in Node : at'[m] = "accepted" <=> at[m] = "accepted"
    BY <1>1 DEF TypeOK
  <1>3. \A m \in Node : Reached(m)' = Reached(m)
    BY <1>1, <1>2, ReachedFrame DEF rxVars, txVars, wireVars, history, faults
  <1>4. fifo' \in [Node -> Seq(Packet)] /\ WireOK(n)' /\ fifo'[Peer(n)] = fifo[Peer(n)]
    BY <1>1, <1>3, DropKeeps DEF rxVars, txVars, wireVars, history, faults
  <1>5. TypeOK'
    <2>1. /\ token' \in [Node -> SUBSET Token]
          /\ at' \in [Node -> { "idle", "written", "rejected", "accepted" }]
      BY <1>1 DEF TypeOK, Token
    <2>2. QED BY <1>1, <1>4, <2>1 DEF TypeOK, rxVars, txVars, wireVars, history, faults
  <1>6. ASSUME NEW m \in Node PROVE SenderOK(m)'
    BY <1>1 DEF LinkInv, SenderOK, rxVars, txVars, wireVars, history, faults
  <1>7. ASSUME NEW m \in Node PROVE ReceiverOK(m)' /\ (m = Peer(n) => WireOK(m)')
    BY <1>1, <1>2, <1>4, QuietKeeps DEF rxVars, txVars, wireVars, history, faults
  <1>8. QED BY <1>4, <1>5, <1>6, <1>7, PeerFacts DEF LinkInv

LEMMA ResetReassemblyKeeps ==
  ASSUME LinkInv, NEW n \in Node, ResetReassembly(n)
  PROVE  LinkInv'
  <1>1. /\ TypeOK /\ at[n] = "rejected"
        /\ work' = [work EXCEPT ![n] = @ \ {"PACKET_RDY"}]
        /\ rx_part' = [rx_part EXCEPT ![n] = << >>]
        /\ rx_frg_num' = [rx_frg_num EXCEPT ![n] = 0]
        /\ token' = [token EXCEPT ![Peer(n)] = @ \cup {"NACK"}]
        /\ at' = [at EXCEPT ![n] = "idle"]
        /\ UNCHANGED << rx_seq_num, rx_message, txVars, fifo, call, history, faults >>
    BY DEF LinkInv, ResetReassembly, Looked, Assert
  <1>2. \A m \in Node : at'[m] = "accepted" <=> at[m] = "accepted"
    BY <1>1 DEF TypeOK
  <1>3. TypeOK'
    <2>1. /\ rx_part' \in [Node -> Seq(Piece)] /\ rx_frg_num' \in [Node -> 0 .. MaxFrags - 1]
      <3>1. << >> \in Seq(Piece) /\ 0 \in 0 .. MaxFrags - 1
        BY LinkAssumption
      <3>2. QED BY <1>1, <3>1 DEF TypeOK
    <2>2. /\ token' \in [Node -> SUBSET Token] /\ work' \in [Node -> SUBSET Token]
          /\ at' \in [Node -> { "idle", "written", "rejected", "accepted" }]
      BY <1>1 DEF TypeOK, Token
    <2>3. QED BY <1>1, <2>1, <2>2 DEF TypeOK, rxVars, txVars, wireVars, history, faults
  <1>4. ASSUME NEW m \in Node PROVE SenderOK(m)'
    BY <1>1 DEF LinkInv, SenderOK, rxVars, txVars, wireVars, history, faults
  <1>5. ASSUME NEW m \in Node PROVE WireOK(m)' /\ (m = Peer(n) => ReceiverOK(m)')
    <2>1. m = Peer(n) => rx_part'[m] = rx_part[m] /\ rx_frg_num'[m] = rx_frg_num[m]
      BY <1>1, PeerFacts DEF TypeOK
    <2>2. QED BY <1>1, <1>2, <2>1, QuietKeeps DEF rxVars, txVars, wireVars, history, faults
  <1>6. ReceiverOK(n)'
    <2>1. rx_part'[n] = << >> /\ rx_frg_num'[n] = 0 /\ at'[n] = "idle"
      BY <1>1 DEF TypeOK
    <2>2. Len(rx_message'[n]) <= MaxFrags
      BY <1>1 DEF LinkInv, ReceiverOK
    <2>3. QED BY <2>1, <2>2 DEF ReceiverOK
  <1>7. QED BY <1>3, <1>4, <1>5, <1>6, PeerFacts DEF LinkInv
LEMMA AcceptPacketKeeps ==
  ASSUME LinkInv, NEW n \in Node, AcceptPacket(n)
  PROVE  LinkInv'
  <1>1. /\ TypeOK /\ WireOK(n) /\ ReceiverOK(n) /\ at[n] = "idle" /\ fifo[n] # << >>
        /\ rx_part \in [Node -> Seq(Piece)] /\ rx_message \in [Node -> Seq(Piece)]
        /\ rx_frg_num[n] \in 0 .. MaxFrags - 1 /\ fifo \in [Node -> Seq(Packet)]
    BY DEF LinkInv, TypeOK, AcceptPacket, Receives, Looks
  <1>2. PICK p \in Packet, part \in Seq(Piece) :
          /\ p = Head(fifo[n]) /\ part = Append(rx_part[n], p.piece)
          /\ Expected(n, p)
          /\ rx_seq_num' = [rx_seq_num EXCEPT ![n] = p.seq]
          /\ rx_message' = [rx_message EXCEPT ![n] = IF p.last THEN part ELSE << >>]
          /\ rx_part' = [rx_part EXCEPT ![n] = IF p.last THEN << >> ELSE part]
          /\ rx_frg_num' = [rx_frg_num EXCEPT ![n] = IF p.last THEN 0 ELSE @ + 1]
          /\ at' = IF p.last THEN [at EXCEPT ![n] = "accepted"] ELSE at
    <2>1. Head(fifo[n]) \in Packet
      BY <1>1, HeadFacts
    <2>2. Head(fifo[n]).piece \in Piece
      BY <2>1 DEF Packet
    <2>3. Append(rx_part[n], Head(fifo[n]).piece) \in Seq(Piece)
      BY <1>1, <2>2, SequenceFacts
    <2>4. QED BY <2>1, <2>3 DEF AcceptPacket
  <1>3. /\ DropHead(n) /\ work' = [work EXCEPT ![n] = @ \ {"PACKET_RDY"}]
        /\ token' = [token EXCEPT ![Peer(n)] = @ \cup {"ACK"}]
        /\ UNCHANGED << txVars, call, history, faults >>
    BY DEF AcceptPacket, Looked, Assert
  <1>4. /\ p = fifo[n][1] /\ PacketOK(n, p) /\ Reached(n) <= p.piece.id /\ p.piece.id \in Nat
        /\ p.piece \in Piece /\ p.seq \in 0 .. SeqMod - 1 /\ p.frg \in 0 .. MaxFrags - 1
    <2>1. p = fifo[n][1]
      BY <1>1, <1>2, HeadFacts
    <2>2. QED BY <1>1, <2>1, HeadFacts DEF Packet
  <1>5. ~p.last => rx_frg_num[n] + 1 \in 0 .. MaxFrags - 1
    <2>1. /\ sent[Peer(n)] \in Seq(1 .. MaxFrags) /\ p.piece.id \in DOMAIN sent[Peer(n)]
      BY <1>1, <1>4, PeerFacts DEF TypeOK, PacketOK
    <2>2. sent[Peer(n)][p.piece.id] \in 1 .. MaxFrags
      <3>1. sent[Peer(n)][p.piece.id] \in 1 .. MaxFrags
        BY ONLY <2>1, ElementOf
      <3>2. QED BY <3>1
    <2>3. ~p.last => p.frg + 1 <= MaxFrags - 1
      BY <1>4, <2>2, LinkAssumption DEF PacketOK, Piece
    <2>4. QED BY <1>1, <1>2, <1>4, <2>3, LinkAssumption DEF Expected
  <1>6. /\ part # << >> /\ Len(part) = rx_frg_num[n] + 1 /\ part[Len(part)] = p.piece
    <2>1. rx_part[n] \in Seq(Piece) /\ Len(rx_part[n]) = rx_frg_num[n]
      BY <1>1 DEF ReceiverOK
    <2>2. part = Append(rx_part[n], p.piece) /\ p.piece \in Piece
      BY <1>2, <1>4
    <2>3. /\ Append(rx_part[n], p.piece) # << >>
          /\ Len(Append(rx_part[n], p.piece)) = Len(rx_part[n]) + 1
          /\ Append(rx_part[n], p.piece)[Len(rx_part[n]) + 1] = p.piece
      BY <2>1, <2>2, SequenceFacts
    <2>4. QED BY <2>1, <2>2, <2>3
  <1>7. /\ rx_message'[n] = IF p.last THEN part ELSE << >>
        /\ rx_part'[n] = IF p.last THEN << >> ELSE part
        /\ rx_frg_num'[n] = IF p.last THEN 0 ELSE rx_frg_num[n] + 1
        /\ at'[n] = IF p.last THEN "accepted" ELSE "idle"
        /\ delivered' = delivered /\ sent' = sent
    BY <1>1, <1>2, <1>3 DEF TypeOK, rxVars, txVars, wireVars, history, faults
  <1>8. Seen(n)' = Seen(n) /\ Reached(n) = Seen(n) /\ Seen(n) \in Nat
    BY <1>1, <1>7, ReachedNat DEF Seen, Reached
  <1>9. Reached(n)' = IF p.last THEN p.piece.id ELSE Seen(n)
    BY <1>6, <1>7, <1>8 DEF Reached
  <1>10. fifo' \in [Node -> Seq(Packet)] /\ WireOK(n)' /\ fifo'[Peer(n)] = fifo[Peer(n)]
    <2>1. fifo'[n] = Tail(fifo[n]) /\ fifo'[Peer(n)] = fifo[Peer(n)]
      BY <1>1, <1>3, PeerFacts DEF DropHead
    <2>2. fifo' \in [Node -> Seq(Packet)]
      BY <1>1, <1>3, HeadFacts DEF DropHead
    <2>3. Reached(n)' \in Nat /\ Reached(n)' <= fifo[n][1].piece.id
      BY <1>4, <1>8, <1>9
    <2>4. QED BY <1>1, <1>7, <2>1, <2>2, <2>3, WireDrop
  <1>11. TypeOK'
    <2>1. rx_seq_num' \in [Node -> 0 .. SeqMod - 1]
      BY <1>1, <1>2, <1>4 DEF TypeOK
    <2>2. rx_frg_num' \in [Node -> 0 .. MaxFrags - 1]
      <3>1. rx_frg_num \in [Node -> 0 .. MaxFrags - 1] /\ 0 \in 0 .. MaxFrags - 1
        BY <1>1, LinkAssumption DEF TypeOK
      <3> DEFINE v == IF p.last THEN 0 ELSE rx_frg_num[n] + 1
      <3>2. v \in 0 .. MaxFrags - 1
        BY <1>5, <3>1
      <3>3. rx_frg_num' = [rx_frg_num EXCEPT ![n] = v]
        BY <1>2
      <3> HIDE DEF v
      <3>4. QED BY <3>1, <3>2, <3>3
    <2>3. rx_part' \in [Node -> Seq(Piece)] /\ rx_message' \in [Node -> Seq(Piece)]
      <3>1. << >> \in Seq(Piece)
        OBVIOUS
      <3>2. QED BY <1>1, <1>2, <3>1
    <2>4. /\ token' \in [Node -> SUBSET Token] /\ work' \in [Node -> SUBSET Token]
      BY <1>1, <1>3 DEF TypeOK, Token
    <2>5. at' \in [Node -> { "idle", "written", "rejected", "accepted" }]
      BY <1>1, <1>2 DEF TypeOK
    <2>6. QED BY <1>1, <1>3, <1>10, <2>1, <2>2, <2>3, <2>4, <2>5 DEF TypeOK, rxVars, txVars, wireVars, history, faults
  <1>12. ASSUME NEW m \in Node PROVE SenderOK(m)'
    BY <1>3 DEF LinkInv, SenderOK, rxVars, txVars, wireVars, history, faults
  <1>13. ReceiverOK(n)'
    <2>1. Len(rx_part'[n]) = rx_frg_num'[n] /\ Len(rx_message'[n]) <= MaxFrags
      BY <1>1, <1>6, <1>7, LinkAssumption
    <2>2. ASSUME at'[n] = "accepted"
          PROVE  /\ rx_message'[n] # << >> /\ rx_message'[n][Len(rx_message'[n])] = p.piece
                 /\ p.piece.id \in DOMAIN sent'[Peer(n)]
                 /\ p.piece.off + 1 = sent'[Peer(n)][p.piece.id]
                 /\ Seen(n)' <= p.piece.id
      BY <1>4, <1>6, <1>7, <1>8, <2>2 DEF PacketOK
    <2>3. QED BY <2>1, <2>2 DEF ReceiverOK
  <1>14. WireOK(Peer(n))' /\ ReceiverOK(Peer(n))'
    <2>1. /\ rx_part'[Peer(n)] = rx_part[Peer(n)] /\ rx_frg_num'[Peer(n)] = rx_frg_num[Peer(n)]
          /\ rx_message'[Peer(n)] = rx_message[Peer(n)] /\ at'[Peer(n)] = at[Peer(n)]
      BY <1>1, <1>2, PeerFacts DEF TypeOK
    <2>2. QED BY <1>7, <1>10, <2>1, QuietKeeps, PeerFacts
  <1>15. QED BY <1>10, <1>11, <1>12, <1>13, <1>14, PeerFacts DEF LinkInv

(* The message called back is the one n has reached.                         *)
LEMMA CallBackFacts ==
  ASSUME LinkInv, NEW n \in Node, at[n] = "accepted", MessageValid(rx_message[n])
  PROVE  /\ Summary(rx_message[n]) \in Message
         /\ Summary(rx_message[n]).id = Reached(n) /\ Reached(n) \in DOMAIN sent[Peer(n)]
         /\ Summary(rx_message[n]).len = sent[Peer(n)][Reached(n)] /\ Seen(n) <= Reached(n)
  <1> DEFINE end == rx_message[n][Len(rx_message[n])]
  <1>1. /\ rx_message[n] # << >> /\ end.id \in DOMAIN sent[Peer(n)]
        /\ end.off + 1 = sent[Peer(n)][end.id] /\ Seen(n) <= end.id
        /\ Len(rx_message[n]) <= MaxFrags /\ rx_message[n] \in Seq(Piece)
    BY DEF LinkInv, ReceiverOK, TypeOK
  <1>2. end \in Piece /\ Len(rx_message[n]) \in Nat
    BY <1>1, SequenceFacts
  <1>3. Reached(n) = end.id
    BY DEF Reached
  <1>4. Len(rx_message[n]) = end.off + 1
    <2>1. rx_message[n] = Whole(end.id, end.off + 1)
      BY DEF MessageValid
    <2>2. end.off + 1 \in Nat
      BY <1>2 DEF Piece
    <2>3. DOMAIN rx_message[n] = 1 .. end.off + 1
      BY <2>1 DEF Whole
    <2>4. DOMAIN rx_message[n] = 1 .. Len(rx_message[n])
      BY <1>1, SequenceFacts
    <2> HIDE DEF end
    <2>5. QED BY <1>2, <2>2, <2>3, <2>4
  <1>5. Summary(rx_message[n]) = [ id |-> end.id, len |-> Len(rx_message[n]) ]
    BY DEF Summary
  <1> HIDE DEF end
  <1>6. [ id |-> end.id, len |-> Len(rx_message[n]) ] \in Message
    BY <1>1, <1>2, LinkAssumption DEF Message, Piece
  <1>7. QED BY <1>1, <1>3, <1>4, <1>5, <1>6

LEMMA CallBackKeeps ==
  ASSUME LinkInv, NEW n \in Node, CallBack(n)
  PROVE  LinkInv'
  <1>1. /\ TypeOK /\ WireOK(n) /\ ReceiverOK(n) /\ at[n] = "accepted"
        /\ delivered' = IF MessageValid(rx_message[n])
                          THEN [delivered EXCEPT ![n] = Append(@, Summary(rx_message[n]))]
                          ELSE delivered
        /\ at' = [at EXCEPT ![n] = "idle"]
        /\ UNCHANGED << rxVars, txVars, wireVars, work, call, sent, reported, faults >>
    BY DEF LinkInv, CallBack
  <1>2. Seen(n) \in Nat /\ Reached(n) \in Nat /\ Seen(n) <= Reached(n)
    BY <1>1, ReachedNat DEF ReceiverOK, Reached
  <1>3. delivered' \in [Node -> Seq(Message)] /\ (Seen(n)' = Seen(n) \/ Seen(n)' = Reached(n))
    <2>1. delivered \in [Node -> Seq(Message)]
      BY <1>1 DEF TypeOK
    <2>2. CASE MessageValid(rx_message[n])
      <3>1. /\ Summary(rx_message[n]) \in Message /\ Summary(rx_message[n]).id = Reached(n)
        BY <1>1, <2>2, CallBackFacts
      <3>2. delivered' = [delivered EXCEPT ![n] = Append(@, Summary(rx_message[n]))]
        BY <1>1, <2>2
      <3>3. /\ Append(delivered[n], Summary(rx_message[n])) \in Seq(Message)
            /\ delivered'[n] = Append(delivered[n], Summary(rx_message[n]))
            /\ delivered'[n] # << >>
            /\ delivered'[n][Len(delivered'[n])] = Summary(rx_message[n])
        BY <2>1, <3>1, <3>2, SequenceFacts
      <3>4. QED BY <2>1, <3>1, <3>2, <3>3 DEF Seen
    <2>3. CASE ~MessageValid(rx_message[n])
      BY <1>1, <2>1, <2>3 DEF Seen
    <2>4. QED BY <2>2, <2>3
  <1>4. at'[n] = "idle" /\ Reached(n)' = Seen(n)'
    BY <1>1 DEF TypeOK, Reached
  <1>5. TypeOK'
    <2>1. at' \in [Node -> { "idle", "written", "rejected", "accepted" }]
      BY <1>1 DEF TypeOK
    <2>2. QED BY <1>1, <1>3, <2>1 DEF TypeOK, rxVars, txVars, wireVars, history, faults
  <1>6. ASSUME NEW m \in Node PROVE SenderOK(m)'
    BY <1>1 DEF LinkInv, SenderOK, rxVars, txVars, wireVars, history, faults
  <1>7. WireOK(n)'
    BY <1>1, <1>2, <1>3, <1>4, WireLower DEF rxVars, txVars, wireVars, history, faults
  <1>8. ReceiverOK(n)'
    BY <1>1, <1>4 DEF ReceiverOK, rxVars, txVars, wireVars, history, faults
  <1>9. WireOK(Peer(n))' /\ ReceiverOK(Peer(n))'
    <2>1. delivered'[Peer(n)] = delivered[Peer(n)] /\ at'[Peer(n)] = at[Peer(n)]
      BY <1>1, PeerFacts DEF TypeOK
    <2>2. QED BY <1>1, <2>1, QuietKeeps, PeerFacts DEF rxVars, txVars, wireVars, history, faults
  <1>10. QED BY <1>5, <1>6, <1>7, <1>8, <1>9, PeerFacts DEF LinkInv

LEMMA DamageKeeps ==
  ASSUME LinkInv, NEW n \in Node, Damage(n)
  PROVE  LinkInv'
  <1>1. /\ TypeOK /\ WireOK(n) /\ fifo \in [Node -> Seq(Packet)]
        /\ damage' \in 0 .. MaxDamage
        /\ UNCHANGED << rxVars, txVars, token, work, at, call, history, timeouts, restarts >>
    <2>1. damage \in 0 .. MaxDamage /\ damage < MaxDamage /\ damage' = damage + 1
      BY DEF LinkInv, TypeOK, Damage
    <2>2. damage' \in 0 .. MaxDamage
      BY <2>1, LinkAssumption
    <2>3. QED BY <2>2 DEF LinkInv, TypeOK, Damage
  <1>2. PICK k \in DOMAIN fifo[n], b \in Fault : fifo' = [fifo EXCEPT ![n][k].bad = b]
    BY DEF Damage
  <1>3. \A m \in Node : Reached(m)' = Reached(m)
    BY <1>1, ReachedFrame DEF rxVars, txVars, wireVars, history, faults
  <1>4. /\ fifo'[n] = [fifo[n] EXCEPT ![k] = [fifo[n][k] EXCEPT !.bad = b]]
        /\ fifo'[Peer(n)] = fifo[Peer(n)]
    BY <1>1, <1>2, PeerFacts
  <1>5. fifo'[n] \in Seq(Packet) /\ WireOK(n)'
    BY <1>1, <1>3, <1>4, WireRelabel DEF rxVars, txVars, wireVars, history, faults
  <1>6. fifo' \in [Node -> Seq(Packet)]
    BY <1>1, <1>2, <1>5
  <1>7. TypeOK'
    BY <1>1, <1>6 DEF TypeOK, rxVars, txVars, wireVars, history, faults
  <1>8. ASSUME NEW m \in Node PROVE SenderOK(m)'
    BY <1>1 DEF LinkInv, SenderOK, rxVars, txVars, wireVars, history, faults
  <1>9. ASSUME NEW m \in Node PROVE ReceiverOK(m)' /\ (m = Peer(n) => WireOK(m)')
    BY <1>1, <1>4, QuietKeeps DEF rxVars, txVars, wireVars, history, faults
  <1>10. QED BY <1>5, <1>7, <1>8, <1>9, PeerFacts DEF LinkInv

LEMMA RestartKeeps ==
  ASSUME LinkInv, Restart
  PROVE  LinkInv'
  <1>1. /\ TypeOK /\ Host \in Node /\ Chip \in Node
        /\ UNCHANGED << history, damage, timeouts >>
        /\ fifo' = [n \in Node |-> << >>]
        /\ at' = [at EXCEPT ![Host] = "idle"] /\ call' = [call EXCEPT ![Host] = "none"]
        /\ tx_message' = [tx_message EXCEPT ![Host] = NoMessage]
        /\ rx_message' = [rx_message EXCEPT ![Host] = << >>]
        /\ rx_part' = [rx_part EXCEPT ![Host] = << >>]
    BY DEF LinkInv, Restart, Node
  <1>2. /\ rx_seq_num' = [rx_seq_num EXCEPT ![Host] = 0] /\ rx_frg_num' = [rx_frg_num EXCEPT ![Host] = 0]
        /\ tx_seq_num' = [tx_seq_num EXCEPT ![Host] = 0] /\ tx_frg_num' = [tx_frg_num EXCEPT ![Host] = 0]
        /\ tx_chr_cnt1' = [tx_chr_cnt1 EXCEPT ![Host] = 0]
        /\ tx_chr_cnt2' = [tx_chr_cnt2 EXCEPT ![Host] = 0]
        /\ tx_retry' = [tx_retry EXCEPT ![Host] = 0]
    BY DEF Restart
  <1>3. TypeOK'
    <2>1. /\ << >> \in Seq(Packet) /\ << >> \in Seq(Piece) /\ NoMessage \in Message
          /\ 0 \in 0 .. SeqMod - 1 /\ 0 \in 0 .. MaxFrags - 1 /\ 0 \in 0 .. MaxFrags
          /\ 0 \in 0 .. RetryMod - 1
      BY LinkAssumption DEF NoMessage, Message
    <2>2. /\ rx_seq_num' \in [Node -> 0 .. SeqMod - 1] /\ tx_seq_num' \in [Node -> 0 .. SeqMod - 1]
          /\ rx_frg_num' \in [Node -> 0 .. MaxFrags - 1] /\ tx_frg_num' \in [Node -> 0 .. MaxFrags - 1]
          /\ tx_chr_cnt1' \in [Node -> 0 .. MaxFrags - 1] /\ tx_chr_cnt2' \in [Node -> 0 .. MaxFrags]
          /\ tx_retry' \in [Node -> 0 .. RetryMod - 1]
      BY <1>1, <1>2, <2>1 DEF TypeOK
    <2>3. /\ fifo' \in [Node -> Seq(Packet)] /\ rx_part' \in [Node -> Seq(Piece)]
          /\ rx_message' \in [Node -> Seq(Piece)] /\ tx_message' \in [Node -> Message]
          /\ at' \in [Node -> { "idle", "written", "rejected", "accepted" }]
          /\ call' \in [Node -> { "none", "begun", "waiting" }]
      BY <1>1, <2>1 DEF TypeOK
    <2>4. token' \in [Node -> SUBSET Token] /\ work' \in [Node -> SUBSET Token]
      BY <1>1 DEF TypeOK, Token, Restart
    <2>5. restarts' \in 0 .. MaxRestart
      BY <1>1, LinkAssumption DEF TypeOK, Restart
    <2>6. QED BY <1>1, <2>2, <2>3, <2>4, <2>5 DEF TypeOK, history
  <1>4. ASSUME NEW m \in Node PROVE SenderOK(m)' /\ WireOK(m)' /\ ReceiverOK(m)'
    <2>1. SenderOK(m) /\ WireOK(m) /\ ReceiverOK(m) /\ sent' = sent /\ Seen(m)' = Seen(m)
      BY <1>1 DEF LinkInv, history, Seen
    <2>2. SenderOK(m)'
      <3>1. CASE m = Host
        <4>1. tx_message'[m].len = 0 /\ tx_chr_cnt1'[m] = 0
          BY <1>1, <1>2, <3>1 DEF TypeOK, NoMessage
        <4>2. QED BY <4>1 DEF SenderOK
      <3>2. CASE m # Host
        BY <1>1, <1>2, <2>1, <3>2 DEF TypeOK, SenderOK
      <3>3. QED BY <3>1, <3>2
    <2>3. Reached(m)' <= Len(sent'[Peer(m)])
      <3>1. /\ Seen(m) \in Nat /\ Reached(m) \in Nat /\ Reached(m) <= Len(sent[Peer(m)])
            /\ Seen(m) <= Reached(m) /\ Len(sent[Peer(m)]) \in Nat
        <4>1. Seen(m) \in Nat /\ Reached(m) \in Nat
          BY <1>1, <2>1, ReachedNat
        <4>2. Len(sent[Peer(m)]) \in Nat
          BY <1>1, PeerFacts, SequenceFacts DEF TypeOK
        <4>3. QED BY <2>1, <4>1, <4>2 DEF WireOK, ReceiverOK, Reached
      <3>2. Reached(m)' = Reached(m) \/ Reached(m)' = Seen(m)
        <4>1. CASE m = Host
          BY <1>1, <2>1, <4>1 DEF TypeOK, Reached
        <4>2. CASE m # Host
          BY <1>1, <2>1, <4>2 DEF TypeOK, Reached
        <4>3. QED BY <4>1, <4>2
      <3>3. QED BY <2>1, <3>1, <3>2
    <2>4. WireOK(m)'
      BY <1>1, <2>1, <2>3, WireEmpty
    <2>5. ReceiverOK(m)'
      <3>1. CASE m = Host
        <4>1. /\ rx_part'[m] = << >> /\ rx_frg_num'[m] = 0 /\ rx_message'[m] = << >>
              /\ at'[m] = "idle"
          BY <1>1, <1>2, <3>1 DEF TypeOK
        <4>2. QED BY <4>1, LinkAssumption DEF ReceiverOK
      <3>2. CASE m # Host
        BY <1>1, <1>2, <2>1, <3>2 DEF TypeOK, ReceiverOK
      <3>3. QED BY <3>1, <3>2
    <2>6. QED BY <2>2, <2>4, <2>5
  <1>5. QED BY <1>3, <1>4 DEF LinkInv
(* The inductive invariant holds in every state that the two ends, the bus   *)
(* and restarts of the host can produce.                                     *)
THEOREM LinkInvariant == Spec => []LinkInv
  <1>1. LinkInv /\ [Next]_vars => LinkInv'
    <2> SUFFICES ASSUME LinkInv, [Next]_vars
                 PROVE  LinkInv'
      OBVIOUS
    <2>1. CASE UNCHANGED vars
      <3>1. TypeOK'
        BY <2>1 DEF LinkInv, TypeOK, vars, rxVars, txVars, wireVars, history, faults
      <3>2. ASSUME NEW n \in Node PROVE SenderOK(n)' /\ ReceiverOK(n)' /\ WireOK(n)'
        BY <2>1, QuietKeeps, PeerFacts
           DEF LinkInv, SenderOK, vars, rxVars, txVars, wireVars, history, faults
      <3>3. QED BY <3>1, <3>2 DEF LinkInv
    <2>2. ASSUME NEW n \in Node, User(n)
          PROVE  LinkInv'
      BY <2>2, BeginCallKeeps, PacketMessageSendKeeps, TxResetKeeps DEF User
    <2>3. ASSUME NEW n \in Node, Handler(n)
          PROVE  LinkInv'
      BY <2>3, AssertReadyKeeps, TakeTokensKeeps, HandleNackKeeps, HandleAckKeeps,
         RejectHeaderKeeps, RejectPacketKeeps, ResetReassemblyKeeps, AcceptPacketKeeps,
         CallBackKeeps DEF Handler
    <2>4. ASSUME NEW n \in Node, Damage(n)
          PROVE  LinkInv'
      BY <2>4, DamageKeeps
    <2>5. CASE Restart
      BY <2>5, RestartKeeps
    <2>6. QED BY <2>1, <2>2, <2>3, <2>4, <2>5 DEF Next
  <1>2. QED BY InitInv, <1>1, PTL DEF Spec

(* Every field of struct ipc_obj and every packet stays in its range.        *)
THEOREM TypeCorrect == Spec => []TypeOK
  <1>1. LinkInv => TypeOK
    BY DEF LinkInv
  <1>2. QED BY <1>1, LinkInvariant, PTL

(* The memcpy into rx_message.pay_load stays inside it: no sequence of        *)
(* packets, damaged, repeated or cut off by a restart, makes the receiver     *)
(* collect more pieces than the longest message has.                          *)
THEOREM ReassemblyStaysInBounds == Spec => []ReassemblyFits
  <1>1. LinkInv => ReassemblyFits
    BY DEF LinkInv, ReceiverOK, ReassemblyFits
  <1>2. QED BY <1>1, LinkInvariant, PTL

(* The fragment number on the wire always tells which bytes are in it.        *)
THEOREM FragmentsAreTheirPieces == Spec => []FragmentIsItsPiece
  <1>1. LinkInv => FragmentIsItsPiece
    BY DEF LinkInv, WireOK, PacketOK, FragmentIsItsPiece
  <1>2. QED BY <1>1, LinkInvariant, PTL

(* The link implements the channel: a parent is only called back with whole   *)
(* messages that were sent, never with an older one after a newer one.        *)
THEOREM LinkImplementsChannel == Spec => ChannelSpec
  <1>1. Init => Channel!Init
    BY DEF Init, Channel!Init
  <1>2. LinkInv /\ [Next]_vars => [Channel!Next]_(Channel!chan)
    <2> SUFFICES ASSUME LinkInv, [Next]_vars
                 PROVE  Channel!Next \/ UNCHANGED << sent, delivered >>
      BY DEF Channel!chan
    <2>1. ASSUME NEW n \in Node, NEW len \in 1 .. MaxFrags, PacketMessageSend(n, len)
          PROVE  Channel!Next
      <3>1. Channel!Send(n)
        BY <2>1 DEF PacketMessageSend, Channel!Send
      <3>2. QED BY <3>1 DEF Channel!Next
    <2>2. ASSUME NEW n \in Node, CallBack(n), MessageValid(rx_message[n])
          PROVE  Channel!Next
      <3>1. /\ delivered' = [delivered EXCEPT ![n] = Append(@, Summary(rx_message[n]))]
            /\ at[n] = "accepted" /\ sent' = sent
        BY <2>2 DEF CallBack
      <3>2. /\ Summary(rx_message[n]).id = Reached(n) /\ Reached(n) \in DOMAIN sent[Peer(n)]
            /\ Summary(rx_message[n]).len = sent[Peer(n)][Reached(n)]
            /\ Summary(rx_message[n]) \in Message
            /\ Seen(n) <= Reached(n)
        BY <2>2, <3>1, CallBackFacts
      <3>3. Summary(rx_message[n]) = [ id |-> Reached(n), len |-> sent[Peer(n)][Reached(n)] ]
        BY <3>2 DEF Message
      <3>4. Channel!Newest(n) <= Reached(n)
        BY <3>2 DEF Channel!Newest, Seen
      <3>5. Channel!Deliver(n, Peer(n))
        BY <3>1, <3>2, <3>3, <3>4 DEF Channel!Deliver
      <3>6. QED BY <3>5, PeerFacts DEF Channel!Next
    <2>3. ASSUME NEW n \in Node, User(n), ~\E len \in 1 .. MaxFrags : PacketMessageSend(n, len)
          PROVE  UNCHANGED << sent, delivered >>
      BY <2>3 DEF User, BeginCall, TxReset, history
    <2>4. ASSUME NEW n \in Node, CallBack(n), ~MessageValid(rx_message[n])
          PROVE  UNCHANGED << sent, delivered >>
      BY <2>4 DEF CallBack
    <2>5. ASSUME NEW n \in Node, Handler(n), ~CallBack(n)
          PROVE  UNCHANGED << sent, delivered >>
      BY <2>5 DEF Handler, AssertReady, TakeTokens, HandleNack, HandleAck, RejectHeader,
                  RejectPacket, ResetReassembly, AcceptPacket, history
    <2>6. ASSUME NEW n \in Node, Damage(n)
          PROVE  UNCHANGED << sent, delivered >>
      BY <2>6 DEF Damage, history
    <2>7. CASE Restart
      BY <2>7 DEF Restart, history
    <2>8. CASE UNCHANGED vars
      BY <2>8 DEF vars, history
    <2>9. QED BY <2>1, <2>2, <2>3, <2>4, <2>5, <2>6, <2>7, <2>8 DEF Next, User
  <1>3. QED BY <1>1, <1>2, LinkInvariant, PTL DEF Spec, ChannelSpec, Channel!Spec

-----------------------------------------------------------------------------
(* Without faults the two ends take turns.  For the messages that go to r    *)
(* from its peer there is one thing under way, as long as a message is being *)
(* sent: the packet that is written, then the token that tells of it, then   *)
(* the ACK.  So no packet is refused, and r has of the message what was ACKed.*)

Has(n, t) == t \in token[n] \/ t \in work[n]
Once(n, t) == ~ (t \in token[n] /\ t \in work[n])

Quiet(r) == /\ ~ Has(r, "NACK") /\ at[r] # "rejected"
            /\ Once(r, "PACKET_RDY") /\ Once(r, "ACK")

\* The packet n is sending, and the messages r has taken, with the one it is
\* about to call its parent back with.
Current(n) == [ seq |-> tx_seq_num[n], frg |-> tx_chr_cnt1[n],
                last |-> tx_message[n].len - tx_chr_cnt1[n] <= 1,
                piece |-> [ id |-> tx_message[n].id, off |-> tx_chr_cnt1[n] ],
                bad |-> "none" ]
Taken(r) == Len(delivered[r]) + (IF at[r] = "accepted" THEN 1 ELSE 0)

\* r has put together the first k pieces of the message its peer sends.
Collected(r, k) == /\ rx_frg_num[r] = k
                   /\ rx_part[r] = Whole(tx_message[Peer(r)].id, k)
                   /\ k # 0 => rx_seq_num[r] = tx_seq_num[Peer(r)]
NoneCollected(r) == rx_frg_num[r] = 0 /\ rx_part[r] = << >>

NothingSent(r) ==
  /\ tx_message[Peer(r)].len = 0
  /\ at[Peer(r)] # "written" /\ ~ Has(r, "PACKET_RDY") /\ ~ Has(Peer(r), "ACK")
  /\ fifo[r] = << >> /\ NoneCollected(r)
  /\ Taken(r) = Len(sent[Peer(r)])
PacketSent(r) ==
  /\ tx_message[Peer(r)].len # 0
  /\ at[Peer(r)] = "written" <=> ~ Has(r, "PACKET_RDY")
  /\ ~ Has(Peer(r), "ACK")
  /\ fifo[r] = << Current(Peer(r)) >> /\ Collected(r, tx_chr_cnt1[Peer(r)])
  /\ Taken(r) = Len(sent[Peer(r)]) - 1
PacketAcked(r) ==
  /\ tx_message[Peer(r)].len # 0
  /\ at[Peer(r)] # "written" /\ ~ Has(r, "PACKET_RDY") /\ Has(Peer(r), "ACK")
  /\ fifo[r] = << >>
  /\ IF tx_message[Peer(r)].len > tx_chr_cnt1[Peer(r)] + 1
       THEN /\ Collected(r, tx_chr_cnt1[Peer(r)] + 1)
            /\ Taken(r) = Len(sent[Peer(r)]) - 1
       ELSE NoneCollected(r) /\ Taken(r) = Len(sent[Peer(r)])
Turn(r) == NothingSent(r) \/ PacketSent(r) \/ PacketAcked(r)

\* The messages were called back in order, none is missing or twice, and the
\* next one is the one r has put together.
InOrder(r) ==
  /\ \A k \in DOMAIN delivered[r] : delivered[r][k].id = k
  /\ at[r] = "accepted" => rx_message[r] = Whole(Taken(r), sent[Peer(r)][Taken(r)])
Reported(n) == \A id \in reported[n] : id \in 1 .. Taken(Peer(n))

TurnOK(r) == Quiet(r) /\ Turn(r) /\ InOrder(r) /\ Reported(r)
Turns == \A r \in Node : TurnOK(r)
TurnsInv == NoFault => Turns

LEMMA WholeFacts ==
  ASSUME NEW id \in Nat \ {0}, NEW k \in 0 .. MaxFrags - 1
  PROVE  /\ Whole(id, 0) = << >>
         /\ Append(Whole(id, k), [ id |-> id, off |-> k ]) = Whole(id, k + 1)
         /\ Whole(id, k + 1) # << >> /\ Len(Whole(id, k + 1)) = k + 1
         /\ Whole(id, k + 1)[k + 1] = [ id |-> id, off |-> k ]
  <1> DEFINE w == Whole(id, k)
             e == [ id |-> id, off |-> k ]
  <1>1. k \in Nat /\ \A j \in 1 .. k : j - 1 \in 0 .. MaxFrags - 1
    BY LinkAssumption
  <1>2. w \in Seq(Piece) /\ Len(w) = k /\ e \in Piece
    BY <1>1, LinkAssumption DEF Whole, Piece
  <1>3. /\ Append(w, e) \in Seq(Piece)
        /\ DOMAIN Append(w, e) = 1 .. k + 1 /\ Append(w, e)[k + 1] = e
        /\ \A j \in 1 .. k : Append(w, e)[j] = [ id |-> id, off |-> j - 1 ]
    BY <1>1, <1>2, SequenceFacts DEF Whole
  <1>4. Append(w, e) = [ j \in 1 .. k + 1 |-> [ id |-> id, off |-> j - 1 ] ]
    <2>1. \A j \in 1 .. k + 1 : Append(w, e)[j] = [ id |-> id, off |-> j - 1 ]
      BY <1>1, <1>3
    <2>2. Len(Append(w, e)) = k + 1
      BY <1>2, SequenceFacts
    <2> HIDE DEF w, e
    <2>3. Append(w, e) \in [1 .. k + 1 -> Piece]
      <3> DEFINE a == Append(w, e)
      <3>1. a \in Seq(Piece) /\ Len(a) = k + 1
        BY <1>3, <2>2
      <3> HIDE DEF a
      <3>2. a \in [1 .. Len(a) -> Piece]
        BY <3>1
      <3> QED BY <3>1, <3>2 DEF a
    <2> QED BY <2>1, <2>3
  <1>5. Append(w, e) = Whole(id, k + 1)
    BY <1>4 DEF Whole
  <1>6. Len(Append(w, e)) = k + 1 /\ Append(w, e) # << >>
    BY <1>1, <1>2, SequenceFacts
  <1>7. Whole(id, 0) = << >>
    BY DEF Whole
  <1> QED BY <1>3, <1>5, <1>6, <1>7

(* The fields of a node that no step of its peer writes.                     *)
LEMMA LinkFacts ==
  ASSUME LinkInv, NEW n \in Node
  PROVE  /\ SenderOK(n) /\ Peer(n) \in Node /\ Peer(n) # n /\ Peer(Peer(n)) = n
         /\ tx_chr_cnt1[n] \in 0 .. MaxFrags - 1 /\ tx_message[n] \in Message
         /\ Len(sent[n]) \in Nat /\ Len(delivered[n]) \in Nat /\ Taken(n) \in Nat
         /\ sent[n] \in Seq(1 .. MaxFrags) /\ delivered[n] \in Seq(Message)
         /\ rx_frg_num[n] \in Nat
BY PeerFacts, LinkAssumption DEF LinkInv, TypeOK, Taken

(* A step that changes nothing the turn of r is told from.                   *)
LEMMA TurnKept ==
  ASSUME NEW r \in Node, Turn(r),
         fifo'[r] = fifo[r], rx_seq_num'[r] = rx_seq_num[r],
         rx_frg_num'[r] = rx_frg_num[r], rx_part'[r] = rx_part[r],
         Taken(r)' = Taken(r), Has(r, "PACKET_RDY")' <=> Has(r, "PACKET_RDY"),
         Has(Peer(r), "ACK")' <=> Has(Peer(r), "ACK"),
         at'[Peer(r)] = "written" <=> at[Peer(r)] = "written",
         tx_seq_num'[Peer(r)] = tx_seq_num[Peer(r)],
         tx_chr_cnt1'[Peer(r)] = tx_chr_cnt1[Peer(r)],
         tx_message'[Peer(r)] = tx_message[Peer(r)], sent'[Peer(r)] = sent[Peer(r)]
  PROVE  Turn(r)'
<1>1. Current(Peer(r))' = Current(Peer(r))
  BY DEF Current
<1> QED BY <1>1 DEF Turn, NothingSent, PacketSent, PacketAcked, Collected, NoneCollected

(* ... nor what r has collected, taken, or told its user.                    *)
LEMMA TurnFrame ==
  ASSUME LinkInv, NEW r \in Node, TurnOK(r),
         fifo'[r] = fifo[r], rx_seq_num'[r] = rx_seq_num[r],
         rx_frg_num'[r] = rx_frg_num[r], rx_part'[r] = rx_part[r],
         rx_message'[r] = rx_message[r], delivered'[r] = delivered[r],
         \A id \in reported'[r] : id \in reported[r] \/ id \in 1 .. Taken(Peer(r))',
         Has(r, "PACKET_RDY")' <=> Has(r, "PACKET_RDY"), Has(r, "NACK")' => Has(r, "NACK"),
         Once(r, "PACKET_RDY")', Once(r, "ACK")',
         Has(Peer(r), "ACK")' <=> Has(Peer(r), "ACK"),
         at'[r] = "accepted" <=> at[r] = "accepted", at'[r] # "rejected",
         at'[Peer(r)] = "written" <=> at[Peer(r)] = "written",
         Taken(Peer(r))' \in Nat, Taken(Peer(r)) <= Taken(Peer(r))',
         tx_seq_num'[Peer(r)] = tx_seq_num[Peer(r)],
         tx_chr_cnt1'[Peer(r)] = tx_chr_cnt1[Peer(r)],
         tx_message'[Peer(r)] = tx_message[Peer(r)], sent'[Peer(r)] = sent[Peer(r)]
  PROVE  TurnOK(r)'
<1>1. Taken(r)' = Taken(r)
  BY DEF Taken
<1>2. Quiet(r)'
  BY DEF TurnOK, Quiet
<1>3. Turn(r)'
  BY <1>1, TurnKept DEF TurnOK
<1>4. InOrder(r)'
  BY <1>1 DEF TurnOK, InOrder
<1>5. Reported(r)'
  <2>1. Taken(Peer(r)) \in Nat
    BY LinkFacts
  <2> QED BY <2>1 DEF TurnOK, Reported
<1> QED BY <1>2, <1>3, <1>4, <1>5 DEF TurnOK

(* An end that waits, or has been answered, is where its turn says.          *)
LEMMA TurnFacts ==
  ASSUME LinkInv, Turns, NEW n \in Node
  PROVE  /\ at[n] = "written" => PacketSent(Peer(n))
         /\ tx_message[n].len = 0 => NothingSent(Peer(n))
         /\ tx_message[n].len # 0 /\ Has(n, "ACK") => PacketAcked(Peer(n))
         /\ Has(n, "PACKET_RDY") => PacketSent(n)
         /\ Has(n, "ACK") => tx_message[n].len # 0
         /\ ~ Has(n, "NACK") /\ at[n] # "rejected"
         /\ Once(n, "PACKET_RDY") /\ Once(n, "ACK")
BY LinkFacts DEF Turns, TurnOK, Turn, NothingSent, PacketSent, PacketAcked, Quiet

LEMMA AssertReadyTurns ==
  ASSUME LinkInv, Turns, NEW n \in Node, AssertReady(n)
  PROVE  Turns'
  <1>1. /\ LinkInv /\ at[n] = "written" /\ PacketSent(Peer(n))
        /\ token' = [token EXCEPT ![Peer(n)] = @ \cup {"PACKET_RDY"}]
        /\ at' = [at EXCEPT ![n] = "idle"]
        /\ UNCHANGED << rxVars, txVars, fifo, work, history >>
    BY TurnFacts DEF AssertReady, Assert
  <1>2. /\ token'[Peer(n)] = token[Peer(n)] \cup {"PACKET_RDY"} /\ token'[n] = token[n]
        /\ at'[n] = "idle" /\ at'[Peer(n)] = at[Peer(n)] /\ work' = work
    BY <1>1, LinkFacts DEF LinkInv, TypeOK
  <1>3. \A r \in Node : Taken(r)' = Taken(r)
    BY <1>1, <1>2, PeerFacts DEF Taken, history
  <1>4. TurnOK(n)'
    <2>1. \A t : Has(n, t)' <=> Has(n, t)
      BY <1>2 DEF Has
    <2>2. Has(Peer(n), "ACK")' <=> Has(Peer(n), "ACK")
      BY <1>2 DEF Has
    <2>3. Once(n, "PACKET_RDY")' /\ Once(n, "ACK")'
      BY <1>2, TurnFacts DEF Once
    <2>4. TurnOK(n) /\ Taken(Peer(n)) \in Nat /\ Peer(n) \in Node
      BY LinkFacts DEF Turns
    <2> QED BY <1>1, <1>2, <1>3, <2>1, <2>2, <2>3, <2>4, TurnFrame
            DEF rxVars, txVars, history
  <1>5. TurnOK(Peer(n))'
    <2>1. /\ TurnOK(Peer(n)) /\ Peer(Peer(n)) = n /\ Peer(n) \in Node
      BY LinkFacts DEF Turns
    <2>2. /\ \A t \in {"ACK", "NACK"} : Has(Peer(n), t)' <=> Has(Peer(n), t)
          /\ Has(Peer(n), "PACKET_RDY")' /\ ~ Has(Peer(n), "PACKET_RDY")
          /\ Has(n, "ACK")' <=> Has(n, "ACK")
      BY <1>1, <1>2, <2>1 DEF Has, PacketSent
    <2>3. Quiet(Peer(n))'
      BY <1>2, <2>1, <2>2 DEF TurnOK, Quiet, Once, Has
    <2>4. PacketSent(Peer(n))'
      BY <1>1, <1>2, <1>3, <2>1, <2>2
         DEF PacketSent, Current, Collected, rxVars, txVars, history
    <2>5. InOrder(Peer(n))' /\ Reported(Peer(n))'
      BY <1>1, <1>2, <1>3, <2>1 DEF TurnOK, InOrder, Reported, rxVars, history
    <2> QED BY <2>3, <2>4, <2>5 DEF TurnOK, Turn
  <1> QED BY <1>4, <1>5, PeerFacts DEF Turns

LEMMA BeginCallTurns ==
  ASSUME LinkInv, Turns, NEW n \in Node, BeginCall(n)
  PROVE  Turns'
  <1>1. /\ UNCHANGED << rxVars, txVars, token, work, at, history >>
        /\ NothingSent(Peer(n))
        /\ fifo' = IF n = Host THEN [fifo EXCEPT ![Chip] = << >>] ELSE fifo
    BY TurnFacts, LinkFacts DEF BeginCall, SenderOK
  <1>2. \A r \in Node : fifo'[r] = fifo[r]
    BY <1>1 DEF LinkInv, TypeOK, NothingSent, Peer
  <1>3. ASSUME NEW r \in Node
        PROVE  TurnOK(r)'
    <2>1. TurnOK(r) /\ Peer(r) \in Node
      BY LinkFacts DEF Turns
    <2>2. \A t : (Has(r, t)' <=> Has(r, t)) /\ (Has(Peer(r), t)' <=> Has(Peer(r), t))
      BY <1>1 DEF Has
    <2>3. Taken(Peer(r))' = Taken(Peer(r)) /\ Taken(Peer(r)) \in Nat
      BY <1>1, <2>1, LinkFacts DEF Taken, history
    <2>4. Once(r, "PACKET_RDY")' /\ Once(r, "ACK")' /\ at[r] # "rejected"
      BY <1>1, TurnFacts DEF Once
    <2> QED BY <1>1, <1>2, <2>1, <2>2, <2>3, <2>4, TurnFrame DEF rxVars, txVars, history
  <1> QED BY <1>3 DEF Turns

(* The turn of r passes on when its peer sends: the new packet is the only   *)
(* one, and r has collected what was ACKed of its message.                   *)
LEMMA PacketMessageSendTurns ==
  ASSUME LinkInv, Turns, NEW n \in Node, NEW len \in 1 .. MaxFrags,
         PacketMessageSend(n, len)
  PROVE  Turns'
  <1> DEFINE m == [ id |-> Len(sent[n]) + 1, len |-> len ]
             packet == [ seq |-> tx_seq_num[n], frg |-> 0, last |-> m.len - 0 <= 1,
                         piece |-> [ id |-> m.id, off |-> 0 ], bad |-> "none" ]
  <1>0. len \in Nat /\ len # 0
    BY LinkAssumption
  <1>1. /\ at[n] = "idle" /\ tx_message[n].len = 0 /\ tx_chr_cnt1[n] = 0
        /\ NothingSent(Peer(n)) /\ fifo[Peer(n)] = << >>
    BY TurnFacts, LinkFacts DEF PacketMessageSend, Between, SenderOK, NothingSent
  <1>2. /\ sent' = [sent EXCEPT ![n] = Append(@, len)]
        /\ tx_message' = [tx_message EXCEPT ![n] = m]
        /\ at' = [at EXCEPT ![n] = "written"]
        /\ FifoWrite(Peer(n), packet)
        /\ UNCHANGED << rxVars, tx_seq_num, tx_chr_cnt1, token, work, delivered, reported >>
    BY <1>1 DEF PacketMessageSend, SendPacket
  <1>3. fifo' = [fifo EXCEPT ![Peer(n)] = Append(@, packet)]
    BY <1>1, <1>2 DEF FifoWrite
  <1>4. fifo'[n] = fifo[n] /\ fifo'[Peer(n)] = << packet >>
    <2>1. Peer(n) \in Node /\ Peer(n) # n
      BY LinkFacts
    <2> HIDE DEF packet
    <2> QED BY <1>1, <1>3, <2>1 DEF LinkInv, TypeOK
  <1>5. /\ tx_message'[n] = m /\ tx_message'[Peer(n)] = tx_message[Peer(n)]
        /\ sent'[n] = Append(sent[n], len) /\ sent'[Peer(n)] = sent[Peer(n)]
        /\ at'[n] = "written" /\ at'[Peer(n)] = at[Peer(n)]
    BY <1>2, LinkFacts DEF LinkInv, TypeOK
  <1>6. /\ \A r \in Node : Taken(r)' = Taken(r) /\ Taken(r) \in Nat
        /\ \A r : \A t : (Has(r, t)' <=> Has(r, t)) /\ (Once(r, t)' <=> Once(r, t))
    BY <1>1, <1>2, <1>5, LinkFacts DEF Taken, Has, Once, Node, Peer
  <1>7. TurnOK(n)'
    <2>1. TurnOK(n) /\ Once(n, "PACKET_RDY")' /\ Once(n, "ACK")' /\ Peer(n) \in Node
      BY <1>6, TurnFacts, LinkFacts DEF Turns
    <2> QED BY <1>1, <1>2, <1>4, <1>5, <1>6, <2>1, TurnFrame DEF rxVars
  <1>8. TurnOK(Peer(n))'
    <2>1. TurnOK(Peer(n)) /\ Peer(Peer(n)) = n /\ Peer(n) \in Node
      BY LinkFacts DEF Turns
    <2>2. Quiet(Peer(n))'
      BY <1>5, <1>6, <2>1 DEF TurnOK, Quiet
    <2>3. /\ Len(sent[n]) \in Nat /\ Len(sent'[n]) = Len(sent[n]) + 1
          /\ \A k \in 1 .. Len(sent[n]) : sent'[n][k] = sent[n][k]
      BY <1>0, <1>5, LinkFacts
    <2>4. fifo'[Peer(n)] = << Current(n)' >>
      BY <1>1, <1>2, <1>4, <1>5 DEF Current
    <2>5. Whole(m.id, 0) = << >>
      BY DEF Whole
    <2>6. Collected(Peer(n), tx_chr_cnt1[n])'
      BY <1>1, <1>2, <1>5, <2>1, <2>5 DEF Collected, NothingSent, NoneCollected, rxVars
    <2>7. PacketSent(Peer(n))'
      BY <1>0, <1>1, <1>2, <1>5, <1>6, <2>1, <2>3, <2>4, <2>6 DEF PacketSent, NothingSent
    <2>8. InOrder(Peer(n))'
      <3>1. at[Peer(n)] = "accepted" => Taken(Peer(n)) \in 1 .. Len(sent[n])
        BY <1>1, <1>6, <2>1, <2>3, LinkFacts DEF Taken, NothingSent
      <3> QED BY <1>2, <1>5, <1>6, <2>1, <2>3, <3>1 DEF TurnOK, InOrder, rxVars
    <2>9. Reported(Peer(n))'
      BY <1>2, <1>6, <2>1 DEF TurnOK, Reported
    <2> QED BY <2>2, <2>7, <2>8, <2>9 DEF TurnOK, Turn
  <1> QED BY <1>7, <1>8, PeerFacts DEF Turns

(* No call gives up, so the end of a call finds its message sent.            *)
LEMMA TxResetTurns ==
  ASSUME LinkInv, Turns, NEW n \in Node, TxReset(n), NoFault'
  PROVE  Turns'
  <1>1. /\ tx_message[n].len = 0 /\ NothingSent(Peer(n))
        /\ tx_message' = [tx_message EXCEPT ![n] = NoMessage]
        /\ tx_chr_cnt1' = [tx_chr_cnt1 EXCEPT ![n] = 0]
        /\ tx_seq_num' = [tx_seq_num EXCEPT ![n] = (@ + 1) % SeqMod]
        /\ UNCHANGED << rxVars, wireVars, work, at, history >>
    <2>1. timeouts \in Nat /\ timeouts' = 0
      BY LinkAssumption DEF NoFault, LinkInv, TypeOK
    <2>2. tx_message[n].len = 0
      BY <2>1 DEF TxReset
    <2>3. NothingSent(Peer(n))
      BY <2>2, TurnFacts
    <2> QED BY <2>2, <2>3 DEF TxReset, PositionReset
  <1>2. /\ tx_message'[n].len = 0 /\ tx_message'[Peer(n)] = tx_message[Peer(n)]
        /\ tx_chr_cnt1'[Peer(n)] = tx_chr_cnt1[Peer(n)]
        /\ tx_seq_num'[Peer(n)] = tx_seq_num[Peer(n)]
    BY <1>1, LinkFacts DEF LinkInv, TypeOK, NoMessage
  <1>3. /\ \A r : Taken(r)' = Taken(r)
        /\ \A r : \A t : (Has(r, t)' <=> Has(r, t)) /\ (Once(r, t)' <=> Once(r, t))
    BY <1>1 DEF Taken, Has, Once, wireVars, history
  <1>4. TurnOK(n)'
    <2>1. TurnOK(n) /\ Once(n, "PACKET_RDY")' /\ Once(n, "ACK")' /\ at[n] # "rejected"
      BY <1>3, TurnFacts DEF Turns
    <2>2. Peer(n) \in Node /\ Taken(Peer(n)) \in Nat
      BY LinkFacts
    <2> QED BY <1>1, <1>2, <1>3, <2>1, <2>2, TurnFrame DEF rxVars, wireVars, history
  <1>5. TurnOK(Peer(n))'
    <2>1. TurnOK(Peer(n)) /\ Peer(Peer(n)) = n
      BY LinkFacts DEF Turns
    <2>2. Quiet(Peer(n))'
      BY <1>1, <1>3, <2>1 DEF TurnOK, Quiet
    <2>3. NothingSent(Peer(n))'
      BY <1>1, <1>2, <1>3, <2>1 DEF NothingSent, NoneCollected, rxVars, wireVars, history
    <2>4. InOrder(Peer(n))' /\ Reported(Peer(n))'
      BY <1>1, <1>3, <2>1 DEF TurnOK, InOrder, Reported, rxVars, history
    <2> QED BY <2>2, <2>3, <2>4 DEF TurnOK, Turn
  <1> QED BY <1>4, <1>5, PeerFacts DEF Turns

(* The tokens move from the interrupt status to the handler.                 *)
LEMMA TakeTokensTurns ==
  ASSUME LinkInv, Turns, NEW n \in Node, TakeTokens(n)
  PROVE  Turns'
  <1>1. /\ work[n] = {} /\ work' = [work EXCEPT ![n] = token[n]]
        /\ token' = [token EXCEPT ![n] = {}]
        /\ UNCHANGED << rxVars, txVars, fifo, at, history >>
    BY DEF TakeTokens, Between, Cleared
  <1>2. \A r \in Node : (r = n /\ work'[r] = token[r] /\ token'[r] = {})
                     \/ (r # n /\ work'[r] = work[r] /\ token'[r] = token[r])
    BY <1>1 DEF LinkInv, TypeOK
  <1>3. \A r \in Node : Taken(r)' = Taken(r) /\ Taken(r) \in Nat
    BY <1>1, LinkFacts DEF Taken, history
  <1>4. \A r \in Node : \A t : (Has(r, t)' <=> Has(r, t)) /\ (Once(r, t) => Once(r, t)')
    BY <1>1, <1>2 DEF Has, Once
  <1>5. ASSUME NEW r \in Node
        PROVE  TurnOK(r)'
    <2>1. TurnOK(r) /\ Peer(r) \in Node /\ at[r] # "rejected"
      BY LinkFacts, TurnFacts DEF Turns
    <2>2. Once(r, "PACKET_RDY")' /\ Once(r, "ACK")'
      BY <1>4, TurnFacts
    <2> QED BY <1>1, <1>3, <1>4, <2>1, <2>2, TurnFrame DEF rxVars, txVars, history
  <1> QED BY <1>5 DEF Turns

(* The ACK of a packet is looked at: the next packet goes out, or the message*)
(* has been received and is reported.                                        *)
LEMMA HandleAckTurns ==
  ASSUME LinkInv, Turns, NEW n \in Node, HandleAck(n)
  PROVE  Turns'
  <1> DEFINE m == tx_message[n]
             cnt == tx_chr_cnt1[n] + 1
  <1>1. /\ at[n] = "idle" /\ "ACK" \in work[n] /\ Has(n, "ACK") /\ "ACK" \notin token[n]
        /\ m.len # 0 /\ PacketAcked(Peer(n))
    BY TurnFacts DEF HandleAck, Looks, Has, Once
  <1>2. /\ work' = [work EXCEPT ![n] = @ \ {"ACK"}]
        /\ UNCHANGED << rxVars, token, sent, delivered >>
    BY DEF HandleAck, Looked
  <1>3. /\ tx_frg_num[n] = tx_chr_cnt1[n] /\ tx_chr_cnt2[n] = cnt
        /\ m.id = Len(sent[n]) /\ m.id \in DOMAIN sent[n]
        /\ tx_chr_cnt1[n] \in Nat /\ m.len \in Nat /\ tx_chr_cnt1[n] < m.len
    BY <1>1, LinkFacts, LinkAssumption DEF SenderOK, Message
  <1>4. /\ \A t : Has(n, t)' <=> (Has(n, t) /\ t # "ACK")
        /\ \A t : Has(Peer(n), t)' <=> Has(Peer(n), t)
        /\ \A r \in Node : \A t : Once(r, t) => Once(r, t)'
    BY <1>1, <1>2, LinkFacts DEF Has, Once, LinkInv, TypeOK
  <1>5. /\ Peer(n) \in Node /\ Peer(n) # n /\ Peer(Peer(n)) = n
        /\ TurnOK(n) /\ TurnOK(Peer(n)) /\ fifo[Peer(n)] = << >>
        /\ Once(n, "PACKET_RDY")' /\ Once(n, "ACK")'
        /\ Once(Peer(n), "PACKET_RDY")' /\ Once(Peer(n), "ACK")'
    BY <1>1, <1>4, LinkFacts, TurnFacts DEF Turns, PacketAcked
  <1>6. CASE m.len > cnt
    <2> DEFINE packet == [ seq |-> tx_seq_num[n], frg |-> cnt, last |-> m.len - cnt <= 1,
                           piece |-> [ id |-> m.id, off |-> cnt ], bad |-> "none" ]
    <2>1. /\ tx_chr_cnt1' = [tx_chr_cnt1 EXCEPT ![n] = cnt]
          /\ at' = [at EXCEPT ![n] = "written"]
          /\ FifoWrite(Peer(n), packet)
          /\ UNCHANGED << tx_seq_num, tx_message, reported >>
      BY <1>1, <1>3, <1>6 DEF HandleAck, MoreToSend, SendPacket
    <2>2. fifo' = [fifo EXCEPT ![Peer(n)] = Append(@, packet)]
      BY <1>5, <2>1 DEF FifoWrite
    <2>3. fifo'[n] = fifo[n] /\ fifo'[Peer(n)] = << packet >>
      <3> HIDE DEF packet
      <3> QED BY <1>5, <2>2 DEF LinkInv, TypeOK
    <2>4. /\ tx_chr_cnt1'[n] = cnt /\ tx_chr_cnt1'[Peer(n)] = tx_chr_cnt1[Peer(n)]
          /\ at'[n] = "written" /\ at'[Peer(n)] = at[Peer(n)]
      BY <1>5, <2>1 DEF LinkInv, TypeOK
    <2>5. \A r \in Node : Taken(r)' = Taken(r) /\ Taken(r) \in Nat
      BY <1>1, <1>2, <2>4, LinkFacts, PeerFacts DEF Taken
    <2>6. TurnOK(n)'
      BY <1>1, <1>2, <1>4, <1>5, <2>1, <2>3, <2>4, <2>5, TurnFrame DEF rxVars
    <2>7. Quiet(Peer(n))' /\ InOrder(Peer(n))' /\ Reported(Peer(n))'
      BY <1>2, <1>4, <1>5, <2>1, <2>4, <2>5 DEF TurnOK, Quiet, InOrder, Reported, rxVars
    <2>8. fifo'[Peer(n)] = << Current(n)' >>
      BY <2>1, <2>3, <2>4 DEF Current
    <2>9. PacketSent(Peer(n))'
      <3>1. Collected(Peer(n), tx_chr_cnt1[n])'
        BY <1>1, <1>2, <1>3, <1>5, <1>6, <2>1, <2>4 DEF PacketAcked, Collected, rxVars
      <3> QED BY <1>1, <1>2, <1>4, <1>5, <1>6, <2>1, <2>4, <2>5, <2>8, <3>1
              DEF PacketSent, PacketAcked
    <2> QED BY <2>6, <2>7, <2>9, PeerFacts DEF Turns, TurnOK, Turn
  <1>7. CASE ~ (m.len > cnt)
    <2>1. /\ tx_message' = [tx_message EXCEPT ![n] = NoMessage]
          /\ reported' = [reported EXCEPT ![n] = @ \cup {m.id}]
          /\ tx_chr_cnt1' = [tx_chr_cnt1 EXCEPT ![n] = 0]
          /\ tx_seq_num' = [tx_seq_num EXCEPT ![n] = (@ + 1) % SeqMod]
          /\ UNCHANGED << fifo, at >>
      BY <1>1, <1>3, <1>7 DEF HandleAck, MoreToSend, PositionReset
    <2>2. /\ tx_message'[n].len = 0 /\ tx_message'[Peer(n)] = tx_message[Peer(n)]
          /\ reported'[n] = reported[n] \cup {m.id}
          /\ reported'[Peer(n)] = reported[Peer(n)]
          /\ tx_chr_cnt1'[Peer(n)] = tx_chr_cnt1[Peer(n)]
          /\ tx_seq_num'[Peer(n)] = tx_seq_num[Peer(n)]
      BY <1>5, <2>1 DEF LinkInv, TypeOK, NoMessage
    <2>3. \A r \in Node : Taken(r)' = Taken(r) /\ Taken(r) \in Nat
      BY <1>2, <2>1, LinkFacts DEF Taken
    <2>4. NoneCollected(Peer(n)) /\ Taken(Peer(n)) = Len(sent[n])
      BY <1>1, <1>5, <1>7 DEF PacketAcked
    <2>5. TurnOK(n)'
      <3>1. m.id \in 1 .. Taken(Peer(n))'
        BY <1>3, <1>5, <2>3, <2>4, LinkFacts
      <3> HIDE DEF m
      <3> QED BY <1>1, <1>2, <1>4, <1>5, <2>1, <2>2, <2>3, <3>1, TurnFrame DEF rxVars
    <2>6. NothingSent(Peer(n))'
      BY <1>1, <1>2, <1>4, <1>5, <2>1, <2>2, <2>3, <2>4
         DEF NothingSent, NoneCollected, PacketAcked, rxVars
    <2>7. Quiet(Peer(n))' /\ InOrder(Peer(n))' /\ Reported(Peer(n))'
      BY <1>2, <1>4, <1>5, <2>1, <2>2, <2>3 DEF TurnOK, Quiet, InOrder, Reported, rxVars
    <2> QED BY <2>5, <2>6, <2>7, PeerFacts DEF Turns, TurnOK, Turn
  <1> QED BY <1>6, <1>7

(* The packet under way is the one expected, so that it is never refused.    *)
LEMMA NothingRefused ==
  ASSUME LinkInv, Turns, NEW n \in Node
  PROVE  ~ HandleNack(n) /\ ~ RejectHeader(n) /\ ~ RejectPacket(n) /\ ~ ResetReassembly(n)
  <1>1. ~ HandleNack(n) /\ ~ ResetReassembly(n)
    BY TurnFacts DEF HandleNack, ResetReassembly, Looks, Has
  <1>2. ASSUME Receives(n)
        PROVE  fifo[n] # << >> /\ Head(fifo[n]).bad = "none" /\ Expected(n, Head(fifo[n]))
    <2>1. PacketSent(n)
      BY <1>2, TurnFacts DEF Receives, Looks, Has
    <2> QED BY <2>1 DEF PacketSent, Collected, Current, Expected
  <1> QED BY <1>1, <1>2 DEF RejectHeader, RejectPacket

(* The packet is accepted and its ACK is told.                               *)
LEMMA AcceptPacketTurns ==
  ASSUME LinkInv, Turns, NEW n \in Node, AcceptPacket(n)
  PROVE  Turns'
  <1> DEFINE p == Peer(n)
             m == tx_message[p]
             k == tx_chr_cnt1[p]
             c == Current(p)
             part == Append(rx_part[n], c.piece)
  <1>1. /\ p \in Node /\ p # n /\ Peer(p) = n /\ TurnOK(n) /\ TurnOK(p)
        /\ at[n] = "idle" /\ work[n] = {"PACKET_RDY"} /\ "PACKET_RDY" \notin token[n]
        /\ Has(n, "PACKET_RDY") /\ PacketSent(n)
    BY LinkFacts, TurnFacts DEF AcceptPacket, Receives, Looks, Has, Once, Turns
  <1>2. /\ m.len # 0 /\ at[p] # "written" /\ ~ Has(p, "ACK") /\ fifo[n] = << c >>
        /\ rx_frg_num[n] = k /\ rx_part[n] = Whole(m.id, k)
        /\ Taken(n) = Len(sent[p]) - 1
    BY <1>1 DEF PacketSent, Collected
  <1>3. /\ m.id = Len(sent[p]) /\ m.id \in Nat \ {0} /\ m.len = sent[p][m.id]
        /\ k \in 0 .. MaxFrags - 1 /\ k \in Nat /\ m.len \in Nat /\ k < m.len
    BY <1>1, <1>2, LinkFacts, LinkAssumption DEF SenderOK, Message
  <1>4. part = Whole(m.id, k + 1)
    BY <1>2, <1>3, WholeFacts DEF Current
  <1>5. c.last <=> ~ (m.len > k + 1)
    <2>1. c.last = (m.len - k <= 1)
      BY DEF Current
    <2>2. (m.len - k <= 1) <=> ~ (m.len > k + 1)
      BY <1>3
    <2> QED BY <2>1, <2>2
  <1>6. /\ rx_seq_num' = [rx_seq_num EXCEPT ![n] = c.seq]
        /\ rx_message' = [rx_message EXCEPT ![n] = IF c.last THEN part ELSE << >>]
        /\ rx_part' = [rx_part EXCEPT ![n] = IF c.last THEN << >> ELSE part]
        /\ rx_frg_num' = [rx_frg_num EXCEPT ![n] = IF c.last THEN 0 ELSE @ + 1]
        /\ at' = IF c.last THEN [at EXCEPT ![n] = "accepted"] ELSE at
        /\ fifo' = [fifo EXCEPT ![n] = Tail(@)]
        /\ token' = [token EXCEPT ![p] = @ \cup {"ACK"}]
        /\ work' = [work EXCEPT ![n] = @ \ {"PACKET_RDY"}]
        /\ UNCHANGED << txVars, history >>
    <2> HIDE DEF c
    <2>1. Head(fifo[n]) = c
      BY <1>2
    <2> QED BY <2>1 DEF AcceptPacket, Looked, DropHead, Assert
  <1> HIDE DEF c, part
  <1>7. /\ rx_seq_num'[n] = c.seq /\ rx_message'[n] = (IF c.last THEN part ELSE << >>)
        /\ rx_part'[n] = (IF c.last THEN << >> ELSE part)
        /\ rx_frg_num'[n] = (IF c.last THEN 0 ELSE k + 1)
        /\ at'[n] = (IF c.last THEN "accepted" ELSE "idle")
        /\ fifo'[n] = << >> /\ token'[n] = token[n] /\ work'[n] = {}
    BY <1>1, <1>2, <1>6 DEF LinkInv, TypeOK
  <1>8. /\ rx_seq_num'[p] = rx_seq_num[p] /\ rx_message'[p] = rx_message[p]
        /\ rx_part'[p] = rx_part[p] /\ rx_frg_num'[p] = rx_frg_num[p]
        /\ at'[p] = at[p] /\ fifo'[p] = fifo[p]
        /\ token'[p] = token[p] \cup {"ACK"} /\ work'[p] = work[p]
    BY <1>1, <1>6 DEF LinkInv, TypeOK
  <1>9. /\ Taken(p)' = Taken(p) /\ Taken(p) \in Nat
        /\ Taken(n)' = (IF c.last THEN Taken(n) + 1 ELSE Taken(n)) /\ Taken(n) \in Nat
    <2>1. Taken(p) \in Nat /\ Taken(n) \in Nat /\ Len(delivered[n]) \in Nat
      BY <1>1, LinkFacts
    <2>2. delivered' = delivered
      BY <1>6 DEF history
    <2>3. Taken(p)' = Taken(p)
      BY <1>8, <2>2 DEF Taken
    <2>4. Taken(n) = Len(delivered[n])
      BY <1>1, <2>1 DEF Taken
    <2>5. Taken(n)' = Len(delivered[n]) + (IF c.last THEN 1 ELSE 0)
      BY <1>7, <2>2 DEF Taken
    <2>6. CASE c.last
      BY <2>1, <2>3, <2>4, <2>5, <2>6
    <2>7. CASE ~ c.last
      BY <2>1, <2>3, <2>4, <2>5, <2>7
    <2> QED BY <2>6, <2>7
  <1>10. TurnOK(n)'
    <2>1. Quiet(n)'
      BY <1>1, <1>7 DEF TurnOK, Quiet, Has, Once
    <2>2. Has(p, "ACK")' /\ ~ Has(n, "PACKET_RDY")'
      BY <1>1, <1>7, <1>8 DEF Has
    <2>3. c.seq = tx_seq_num[p]
      BY DEF c, Current
    <2>4. PacketAcked(n)'
      BY <1>2, <1>3, <1>4, <1>5, <1>6, <1>7, <1>8, <1>9, <2>2, <2>3
         DEF PacketAcked, Collected, NoneCollected, txVars, history
    <2>5. InOrder(n)'
      BY <1>1, <1>2, <1>3, <1>4, <1>5, <1>6, <1>7, <1>9 DEF TurnOK, InOrder, history
    <2>6. Reported(n)'
      BY <1>1, <1>6, <1>9 DEF TurnOK, Reported, history
    <2> QED BY <2>1, <2>4, <2>5, <2>6 DEF TurnOK, Turn
  <1>11. TurnOK(p)'
    <2>1. Once(p, "PACKET_RDY")' /\ Once(p, "ACK")'
      BY <1>1, <1>2, <1>8, TurnFacts DEF Once, Has
    <2>2. /\ Has(p, "PACKET_RDY")' <=> Has(p, "PACKET_RDY")
          /\ Has(p, "NACK")' <=> Has(p, "NACK")
          /\ Has(n, "ACK")' <=> Has(n, "ACK")
      BY <1>1, <1>7, <1>8 DEF Has
    <2>3. at[p] # "rejected" /\ at'[n] # "written" /\ Taken(n)' \in Nat /\ Taken(n) <= Taken(n)'
      BY <1>1, <1>7, <1>9, TurnFacts
    <2> QED BY <1>1, <1>6, <1>8, <2>1, <2>2, <2>3, TurnFrame DEF txVars, history
  <1> QED BY <1>10, <1>11, PeerFacts DEF Turns

(* What r has put together is the next message of its peer: it is valid.     *)
LEMMA CallBackTurns ==
  ASSUME LinkInv, Turns, NEW n \in Node, CallBack(n)
  PROVE  Turns'
  <1> DEFINE p == Peer(n)
             k == Taken(n)
  <1>1. /\ p \in Node /\ p # n /\ Peer(p) = n /\ TurnOK(n) /\ TurnOK(p)
        /\ at[n] = "accepted" /\ k = Len(delivered[n]) + 1 /\ k \in Nat \ {0}
        /\ Len(delivered[n]) \in Nat /\ delivered[n] \in Seq(Message)
    <2>1. p \in Node /\ p # n /\ Peer(p) = n /\ TurnOK(n) /\ TurnOK(p) /\ at[n] = "accepted"
      BY LinkFacts DEF CallBack, Turns
    <2>2. Len(delivered[n]) \in Nat /\ delivered[n] \in Seq(Message)
      BY LinkFacts
    <2>3. k = Len(delivered[n]) + 1
      BY <2>1 DEF Taken
    <2> QED BY <2>1, <2>2, <2>3
  <1>2. k <= Len(sent[p]) /\ Len(sent[p]) \in Nat /\ sent[p] \in Seq(1 .. MaxFrags)
    BY <1>1, LinkFacts DEF TurnOK, Turn, NothingSent, PacketSent, PacketAcked
  <1>3. sent[p][k] \in 1 .. MaxFrags /\ sent[p][k] \in Nat /\ sent[p][k] - 1 \in 0 .. MaxFrags - 1
    <2>1. k \in 1 .. Len(sent[p])
      BY <1>1, <1>2
    <2> DEFINE s == sent[p]
    <2>0. s \in Seq(1 .. MaxFrags)
      BY <1>2
    <2> HIDE DEF k, s
    <2>2. s[k] \in 1 .. MaxFrags
      <3>1. k \in 1 .. Len(s)
        BY <2>1 DEF s
      <3> QED BY <2>0, <3>1, SequenceFacts
    <2> QED BY <2>2, LinkAssumption DEF s
  <1>4. rx_message[n] = Whole(k, sent[p][k])
    BY <1>1 DEF TurnOK, InOrder
  <1>5. MessageValid(rx_message[n]) /\ Summary(rx_message[n]).id = k
    <2> DEFINE l == sent[p][k]
               w == Whole(k, l)
    <2>1. l - 1 + 1 = l
      BY <1>3
    <2>2. Len(w) = l /\ w[l] = [ id |-> k, off |-> l - 1 ]
      <3>1. l - 1 \in 0 .. MaxFrags - 1 /\ k \in Nat \ {0}
        BY <1>1, <1>3
      <3> HIDE DEF k, l
      <3>2. /\ Len(Whole(k, l - 1 + 1)) = l - 1 + 1
            /\ Whole(k, l - 1 + 1)[l - 1 + 1] = [ id |-> k, off |-> l - 1 ]
        BY <3>1, WholeFacts
      <3> QED BY <2>1, <3>2
    <2>3. w[Len(w)].id = k /\ w[Len(w)].off + 1 = l
      BY <2>1, <2>2
    <2> QED BY <1>4, <2>3 DEF MessageValid, Summary
  <1>6. /\ delivered' = [delivered EXCEPT ![n] = Append(@, Summary(rx_message[n]))]
        /\ at' = [at EXCEPT ![n] = "idle"]
        /\ UNCHANGED << rxVars, txVars, wireVars, work, sent, reported >>
    BY <1>5 DEF CallBack
  <1>7. /\ delivered'[n] = Append(delivered[n], Summary(rx_message[n]))
        /\ delivered'[p] = delivered[p] /\ at'[n] = "idle" /\ at'[p] = at[p]
    BY <1>1, <1>6 DEF LinkInv, TypeOK
  <1>8. /\ Len(delivered'[n]) = k
        /\ \A j \in DOMAIN delivered'[n] : delivered'[n][j].id = j
    <2> DEFINE s == Summary(rx_message[n])
    <2>1. s.id = k
      BY <1>5
    <2> HIDE DEF s, k
    <2>2. /\ Len(Append(delivered[n], s)) = Len(delivered[n]) + 1
          /\ DOMAIN Append(delivered[n], s) = 1 .. Len(delivered[n]) + 1
          /\ \A j \in 1 .. Len(delivered[n]) : Append(delivered[n], s)[j] = delivered[n][j]
          /\ Append(delivered[n], s)[Len(delivered[n]) + 1] = s
      BY <1>1
    <2> QED BY <1>1, <1>7, <2>1, <2>2 DEF TurnOK, InOrder, s
  <1>9. Taken(n)' = k /\ Taken(p)' = Taken(p) /\ Taken(p) \in Nat
    <2>1. Taken(n)' = Len(delivered'[n]) + 0
      BY <1>7 DEF Taken
    <2>2. Taken(p)' = Taken(p)
      BY <1>7 DEF Taken
    <2>3. Taken(p) \in Nat
      BY <1>1, LinkFacts
    <2> QED BY <1>1, <1>8, <2>1, <2>2, <2>3
  <1>10. \A r : \A t : (Has(r, t)' <=> Has(r, t)) /\ (Once(r, t)' <=> Once(r, t))
    BY <1>6 DEF Has, Once, wireVars
  <1>11. TurnOK(n)'
    <2>1. Turn(n)'
      BY <1>1, <1>6, <1>7, <1>9, <1>10, TurnKept DEF TurnOK, rxVars, txVars, wireVars
    <2>2. Quiet(n)' /\ Reported(n)'
      BY <1>1, <1>6, <1>7, <1>9, <1>10 DEF TurnOK, Quiet, Reported
    <2>3. InOrder(n)'
      BY <1>7, <1>8 DEF InOrder
    <2> QED BY <2>1, <2>2, <2>3 DEF TurnOK
  <1>12. TurnOK(p)'
    <2>1. Once(p, "PACKET_RDY")' /\ Once(p, "ACK")' /\ at[p] # "rejected"
      BY <1>1, <1>10, TurnFacts
    <2> QED BY <1>1, <1>6, <1>7, <1>9, <1>10, <2>1, TurnFrame DEF rxVars, txVars, wireVars
  <1> QED BY <1>11, <1>12, PeerFacts DEF Turns

LEMMA TurnsInit ==
  ASSUME Init
  PROVE  Turns
  <1>1. \A id : Whole(id, 0) = << >>
    BY DEF Whole
  <1>2. \A r \in Node : Taken(r) = 0 /\ \A t : ~ Has(r, t)
    BY DEF Init, Taken, Has
  <1> QED BY <1>1, <1>2, PeerFacts
          DEF Init, Turns, TurnOK, Quiet, Once, Turn, NothingSent, NoneCollected, InOrder,
              Reported, NoMessage

LEMMA TurnsStep ==
  ASSUME LinkInv, LinkInv', TurnsInv, [Next]_vars
  PROVE  TurnsInv'
  <1> SUFFICES ASSUME NoFault'
               PROVE  Turns'
    BY DEF TurnsInv
  <1>1. /\ damage \in Nat /\ timeouts \in Nat /\ restarts \in Nat
    BY LinkAssumption DEF LinkInv, TypeOK
  <1>2. CASE UNCHANGED vars
    <2>1. NoFault /\ Turns
      BY <1>2 DEF vars, faults, NoFault, TurnsInv, Turns
    <2>2. \A r : \A t : (Has(r, t)' <=> Has(r, t)) /\ (Once(r, t)' <=> Once(r, t))
      BY <1>2 DEF vars, wireVars, Has, Once
    <2>3. \A r : Taken(r)' = Taken(r)
      BY <1>2 DEF vars, history, Taken
    <2>4. ASSUME NEW r \in Node
          PROVE  TurnOK(r)'
      <3>1. /\ TurnOK(r) /\ Once(r, "PACKET_RDY")' /\ Once(r, "ACK")' /\ at[r] # "rejected"
            /\ Peer(r) \in Node /\ Taken(Peer(r)) \in Nat
        BY <2>1, <2>2, TurnFacts, LinkFacts DEF Turns
      <3> QED BY <1>2, <2>2, <2>3, <3>1, TurnFrame
              DEF vars, rxVars, txVars, wireVars, history
    <2> QED BY <2>4 DEF Turns
  <1>3. CASE \E n \in Node : User(n) \/ Handler(n) \/ Damage(n)
    <2> PICK n \in Node : User(n) \/ Handler(n) \/ Damage(n)
      BY <1>3
    <2>1. ~ Damage(n)
      BY <1>1 DEF Damage, NoFault
    <2>2. NoFault
      <3>1. CASE User(n)
        <4>1. UNCHANGED faults \/ TxReset(n)
          BY <3>1 DEF User, BeginCall, PacketMessageSend
        <4>2. CASE TxReset(n)
          <5>1. timeouts' = 0 /\ (timeouts' = timeouts \/ timeouts' = timeouts + 1)
            BY <4>2 DEF TxReset, NoFault
          <5>2. timeouts = 0 /\ damage' = damage /\ restarts' = restarts
            BY <1>1, <4>2, <5>1 DEF TxReset
          <5> QED BY <5>2 DEF NoFault
        <4> QED BY <4>1, <4>2 DEF faults, NoFault
      <3>2. CASE Handler(n)
        <4>1. UNCHANGED faults
          BY <3>2 DEF Handler, AssertReady, TakeTokens, HandleNack, HandleAck, RejectHeader,
             RejectPacket, ResetReassembly, AcceptPacket, CallBack
        <4> QED BY <4>1 DEF faults, NoFault
      <3> QED BY <2>1, <3>1, <3>2
    <2>3. Turns
      BY <2>2 DEF TurnsInv, Turns
    <2> QED BY <2>1, <2>3, AssertReadyTurns, BeginCallTurns, PacketMessageSendTurns,
               TxResetTurns, TakeTokensTurns, HandleAckTurns, NothingRefused,
               AcceptPacketTurns, CallBackTurns DEF User, Handler
  <1>4. CASE Restart
    BY <1>1, <1>4 DEF Restart, NoFault
  <1> QED BY <1>2, <1>3, <1>4 DEF Next

(* Without faults the two ends take turns.                                   *)
THEOREM TurnsAreTaken == Spec => []TurnsInv
<1>1. Init => TurnsInv
  BY TurnsInit DEF TurnsInv
<1>2. LinkInv /\ TurnsInv /\ LinkInv' /\ [Next]_vars => TurnsInv'
  BY TurnsStep
<1> QED BY LinkInvariant, <1>1, <1>2, PTL DEF Spec

(* Without faults every message is called back once and in order, at both    *)
(* ends: nothing is under way but the packet, token or ACK whose turn it is. *)
THEOREM MessagesArriveOnce == Spec => []ExactlyOnceWithoutFaults
<1>1. TurnsInv => ExactlyOnceWithoutFaults
  BY DEF TurnsInv, Turns, TurnOK, InOrder, ExactlyOnceWithoutFaults
<1> QED BY TurnsAreTaken, <1>1, PTL

(* Without faults a message reported as sent has been called back at the     *)
(* other end, or its call-back is the next step there.                       *)
THEOREM SentIsReceived == Spec => []SentIsReceivedWithoutFaults
<1>1. LinkInv /\ TurnsInv => SentIsReceivedWithoutFaults
  <2> SUFFICES ASSUME LinkInv, TurnsInv, NoFault, NEW n \in Node, NEW id \in reported[n],
                      at[Peer(n)] # "accepted"
               PROVE  \E k \in DOMAIN delivered[Peer(n)] : delivered[Peer(n)][k].id = id
    BY DEF SentIsReceivedWithoutFaults
  <2>1. Peer(n) \in Node /\ delivered[Peer(n)] \in Seq(Message)
    BY LinkFacts DEF LinkInv, TypeOK
  <2>2. Taken(Peer(n)) = Len(delivered[Peer(n)]) + 0
    BY DEF Taken
  <2>3. id \in 1 .. Len(delivered[Peer(n)]) /\ InOrder(Peer(n))
    BY <2>1, <2>2 DEF TurnsInv, Turns, TurnOK, Reported
  <2> QED BY <2>1, <2>3 DEF InOrder
<1> QED BY LinkInvariant, TurnsAreTaken, <1>1, PTL

=============================================================================
