------------------------------ MODULE ApiCalls ------------------------------
(***************************************************************************)
(* The parameters of the API calls of the inv478x library, one call after   *)
(* the other.  Each function of inv478x.c pushes its parameters into the    *)
(* request and pops its results from the response (inv_drv_ipc.c); which    *)
(* ones, and in which order, is a row of the tables in ApiTables: a setting *)
(* with a _set and a _get function, a _query, or an order.  HostApi has the *)
(* threads, tags and event flags of the same calls.                         *)
(*                                                                          *)
(* The wait for the response is on the time library, SysTime: the time-out  *)
(* is looked at after the interrupts.  A response may come after it, or not *)
(* at all; the chip keeps what it was set to.                               *)
(***************************************************************************)
EXTENDS SysTime, Sequences
LOCAL INSTANCE SequencesExt

CONSTANTS
  Row,                \* the tables: see SetGet, Query and Order
  MESSAGE_SIZE,       \* room for the parameters of a message
  TagMod,             \* inv_drv_ipc_tag_code is a uint8_t: 256
  CompletionTimeout,  \* IPC_COMPLETION_TIMEOUT, 3200 ms
  CertTimeout,        \* IPC_COMPLETION_TIMEOUT_LICENSE_CERT_SET, 7000 ms
  MaxCalls,           \* bound: calls
  MaxLoss             \* bound: messages lost

ASSUME CallAssumption ==
  /\ MESSAGE_SIZE \in Nat /\ TagMod \in Nat \ {0} /\ MaxCalls \in Nat /\ MaxLoss \in Nat
  /\ CompletionTimeout \in 0 .. MilliToMax - 1 /\ CertTimeout \in 0 .. MilliToMax - 1

(* The kinds of parameters.  A List has as many elements of n bytes as the    *)
(* last parameter that tells which, a string begins with its length.          *)
Bool == << "bool", 1 >>
Byte == << "number", 1 >>
Word == << "number", 2 >>
Long == << "number", 4 >>
Array(n) == << "array", n >>
List(n) == << "list", n >>
String == << "string", 0 >>

(* The two functions of a setting push the parameters that tell which one it  *)
(* is (key, ask); then set pushes its value, and get pops it.                  *)
SetAsk(key, val, ask) ==
  [calls |-> { "set", "get" }, key |-> key, ask |-> ask, val |-> val, slow |-> FALSE]
SetGet(key, val) == SetAsk(key, val, key)
Query(key, val) == [SetGet(key, val) EXCEPT !.calls = { "get" }]
Order(key, val) == [SetGet(key, val) EXCEPT !.calls = { "set" }]

VARIABLES
  row,            \* the functions that are called
  pc,             \* "idle", or "wait" for a response
  op, key, ret, out,   \* the last call: function, parameters, result, values
  mes_ack,        \* struct obj: the response
  calls, lost,
  inbox, outbox,  \* requests on their way to the chip, responses back
  store,          \* the chip: the value set last, and where
  taken           \* history: the call that set it

callVars == << row, pc, op, key, ret, out, mes_ack, calls, lost, inbox, outbox, store, taken >>

-----------------------------------------------------------------------------
(* What the caller passes: two sets of parameters that tell which, one of     *)
(* them at the end of an EDID block, and two values for each of the others.   *)
KeyParameters ==
  { [port |-> 0, type |-> 3, slv_addr |-> 80, block |-> 1, offset |-> 1, len |-> 2, p_val |-> 0],
    [port |-> 1, type |-> 3, slv_addr |-> 80, block |-> 1, offset |-> 127, len |-> 2, p_val |-> 9] }

NoKey == CHOOSE k \in KeyParameters : k.port = 0

Value(f, v, i, n) ==
  LET size == IF f[1] = "list" THEN f[2] * n ELSE IF f[1] = "string" THEN 3 ELSE f[2]
      low == IF size = 4 THEN 16909060 ELSE 85
      top == IF size = 4 THEN 2147483519 ELSE 256 ^ size - 1
  IN  CASE f[1] = "bool" -> (v + i) % 2
        [] f[1] = "number" -> IF v = 0 THEN low + i ELSE top - i
        [] OTHER -> [j \in 1 .. size |-> (100 * v + 16 * i + j) % 256]
Values(fields, v, n) == [i \in DOMAIN fields |-> Value(fields[i], v, i, n)]

(* EDID functions shorten the length to the end of the block, and             *)
(* inv478x_tx_edid_query by the offset before that.                           *)
EDID_MAX_BLOCK_LENGTH == 128
InBlock(k) == IF k.len + k.offset > EDID_MAX_BLOCK_LENGTH
                THEN EDID_MAX_BLOCK_LENGTH - k.offset ELSE k.len
Parameter(name, k) ==
  CASE name = "len_in_block" -> InBlock(k)
    [] name = "len_past_offset" -> IF k.len > k.offset THEN k.len - k.offset ELSE InBlock(k)
    [] OTHER -> k[name]
Keys(rw) == IF rw.key = << >> THEN { NoKey } ELSE KeyParameters
Place(names, k) == [i \in DOMAIN names |-> Parameter(names[i], k)]
Count(place) == IF place = << >> THEN 0 ELSE Last(place)

-----------------------------------------------------------------------------
(* The push functions: low byte first, and nothing when there is no room.     *)
BytesOf(f, v) ==
  CASE f[1] \in { "bool", "number" } -> [i \in 1 .. f[2] |-> (v \div 256 ^ (i - 1)) % 256]
    [] f[1] = "string" -> << Len(v) >> \o v
    [] OTHER -> v
Push(par, bytes) == IF Len(par) + Len(bytes) <= MESSAGE_SIZE THEN par \o bytes ELSE par
Pushed(par, fields, vals) ==
  FoldLeftDomain(LAMBDA p, i : Push(p, BytesOf(fields[i], vals[i])), par, fields)

(* The pop functions: zero, or the caller's array as it was, when the message  *)
(* has not got that many bytes.                                               *)
SizeAt(f, par, pos, n) ==
  CASE f[1] = "list" -> f[2] * n
    [] f[1] = "string" /\ pos <= Len(par) -> 1 + par[pos]
    [] OTHER -> f[2]
Joined(b) == FoldRight(LAMBDA x, n : 256 * n + x, b, 0)
Meant(f, b) ==
  CASE f[1] = "bool" -> IF b[1] # 0 THEN 1 ELSE 0
    [] f[1] = "number" -> Joined(b)
    [] f[1] = "string" -> Tail(b)
    [] OTHER -> b
Missing(f) == IF f[1] \in { "bool", "number" } THEN 0 ELSE << >>
Pop(a, f, par, n) ==
  LET size == SizeAt(f, par, a.pos, n) IN
  IF a.pos + size - 1 <= Len(par)
    THEN [pos |-> a.pos + size,
          vals |-> Append(a.vals, Meant(f, SubSeq(par, a.pos, a.pos + size - 1)))]
    ELSE [a EXCEPT !.vals = Append(@, Missing(f))]
Popped(par, fields, n) ==
  FoldLeft(LAMBDA a, f : Pop(a, f, par, n), [pos |-> 1, vals |-> << >>], fields).vals

-----------------------------------------------------------------------------
NoMessage == [op |-> "none", tag |-> 0, par |-> << >>]
NoStore == [at |-> << -1 >>, bytes |-> << >>]
NoCall == [key |-> NoKey, vals |-> << >>]

(* The tag code of the last of n calls.                                       *)
TagCode(n) == n % TagMod

(* A function is called: s_request_message_init, the pushes, the send, and     *)
(* the time-out of the wait.                                                  *)
Request(c, k, v) ==
  LET names == IF c = "set" THEN row.key ELSE row.ask
      place == Place(names, k)
      vals == IF c = "set" THEN Values(row.val, v, Count(place)) ELSE << >>
  IN  [op |-> c, tag |-> TagCode(calls + 1), key |-> k, vals |-> vals,
       par |-> IF c = "set" THEN Pushed(place, row.val, vals) ELSE place]

Call(c, k, v) ==
  /\ pc = "idle" /\ calls < MaxCalls /\ c \in row.calls
  /\ TimeOutSet(IF row.slow THEN CertTimeout ELSE CompletionTimeout)
  /\ inbox' = Append(inbox, Request(c, k, v))
  /\ mes_ack' = NoMessage
  /\ calls' = calls + 1 /\ op' = c /\ key' = k /\ pc' = "wait"
  /\ ret' = "none" /\ out' = << >>
  /\ UNCHANGED << row, lost, outbox, store, taken >>

Return(r, vals) ==
  /\ pc' = "idle" /\ ret' = r /\ out' = vals
  /\ UNCHANGED << row, op, key, calls, lost, inbox, store, taken >>

(* One round of the polling loop of s_wait_for_valid_ipc_response_message.     *)
Poll ==
  /\ pc = "wait" /\ mes_ack.op # op
  /\ TimeOutIs
  /\ \/ UNCHANGED << mes_ack, outbox >>
     \/ outbox # << >> /\ mes_ack' = Head(outbox) /\ outbox' = Tail(outbox)
  /\ IF user' = "expired"
       THEN Return("NO_RESPONSE", << >>)
       ELSE UNCHANGED << row, pc, op, key, ret, out, calls, lost, inbox, store, taken >>

(* The loop ends: the tag and the result are looked at, the values popped.     *)
AnyTag == TRUE   \* mutant: the tag is not looked at
TagMatches == mes_ack.tag = TagCode(calls)
ResultOf(par) == Popped(par, << Byte >>, 0)[1]

Respond ==
  /\ pc = "wait" /\ mes_ack.op = op
  /\ Leave
  /\ UNCHANGED << mes_ack, outbox >>
  /\ CASE ~TagMatches -> Return("WRONG_TAG_CODE", << >>)
       [] TagMatches /\ ResultOf(mes_ack.par) # 0 -> Return("HOST_ERR", << >>)
       [] OTHER ->
            Return("SUCCESS",
                   IF op = "set" THEN << >>
                   ELSE LET result == << Byte >>
                            n == Count(Place(row.ask, key))
                        IN  Tail(Popped(mes_ack.par, result \o row.val, n)))

(* Bound: the counter may be anywhere when a program starts, and between two  *)
(* calls it stands still.                                                     *)
TimePasses == pc = "wait" /\ Tick /\ UNCHANGED callVars

-----------------------------------------------------------------------------
(* The chip takes requests in order; it may refuse one.  What it has at a      *)
(* place that was not set, or answers to a query, is up to it.                *)
Unset(place) == Values(row.val, 1, Count(place))
Response(r, par) == [op |-> r.op, tag |-> r.tag, par |-> par]

ChipSets ==
  /\ inbox # << >> /\ Head(inbox).op = "set"
  /\ LET r == Head(inbox) IN
       /\ store' = [at |-> SubSeq(r.par, 1, Len(row.key)),
                    bytes |-> SubSeq(r.par, Len(row.key) + 1, Len(r.par))]
       /\ taken' = [key |-> r.key, vals |-> r.vals]
       /\ outbox' = Append(outbox, Response(r, << 0 >>))
  /\ inbox' = Tail(inbox)
  /\ UNCHANGED << vars, row, pc, op, key, ret, out, mes_ack, calls, lost >>

ChipGets ==
  /\ inbox # << >> /\ Head(inbox).op = "get"
  /\ LET r == Head(inbox)
         place == SubSeq(r.par, 1, Len(row.key))
     IN  outbox' = Append(outbox, Response(r,
           IF place = store.at THEN << 0 >> \o store.bytes
           ELSE Pushed(<< 0 >>, row.val, Unset(place))))
  /\ inbox' = Tail(inbox)
  /\ UNCHANGED << vars, row, pc, op, key, ret, out, mes_ack, calls, lost, store, taken >>

ChipRefuses ==
  /\ inbox # << >>
  /\ outbox' = Append(outbox, Response(Head(inbox), << 1 >>))
  /\ inbox' = Tail(inbox)
  /\ UNCHANGED << vars, row, pc, op, key, ret, out, mes_ack, calls, lost, store, taken >>

LinkLoses ==
  /\ lost < MaxLoss /\ lost' = lost + 1
  /\ \/ inbox # << >> /\ inbox' = Tail(inbox) /\ UNCHANGED outbox
     \/ outbox # << >> /\ outbox' = Tail(outbox) /\ UNCHANGED inbox
  /\ UNCHANGED << vars, row, pc, op, key, ret, out, mes_ack, calls, store, taken >>

-----------------------------------------------------------------------------
CallsInit ==
  /\ Init
  /\ row \in Row
  /\ pc = "idle" /\ op = "none" /\ key = NoCall.key /\ ret = "SUCCESS" /\ out = << >>
  /\ mes_ack = NoMessage /\ calls = 0 /\ lost = 0
  /\ inbox = << >> /\ outbox = << >> /\ store = NoStore /\ taken = NoCall

CallsNext ==
  \/ \E k \in Keys(row), v \in 0 .. 1 : Call("set", k, v)
  \/ \E k \in Keys(row) : Call("get", k, 0)
  \/ Poll \/ Respond \/ TimePasses
  \/ ChipSets \/ ChipGets \/ ChipRefuses \/ LinkLoses

CallsSpec == CallsInit /\ [][CallsNext]_<< vars, callVars >>

-----------------------------------------------------------------------------
(* "The get function allows the previously written ... to be read back": a get *)
(* that succeeds returns every value the chip has, and those are the ones of   *)
(* the last set it has taken for the same parameters, though answers come late *)
(* or not at all.  The functions of a setting agree on widths, order and byte  *)
(* order then.  It is not asked where get pushes other bytes than set to say   *)
(* which one it means: inv478x_rx_edid_get has block and offset the other way  *)
(* round.                                                                     *)
AsksForWhatWasSet ==
  /\ Place(row.key, key) = Place(row.key, taken.key)
  /\ Place(row.key, key) = SubSeq(Place(row.ask, key), 1, Len(row.key))

SetIsGot ==
  (pc = "idle" /\ op = "get" /\ ret = "SUCCESS") =>
    /\ store = NoStore => out = Unset(Place(row.ask, key))
    /\ (store # NoStore /\ AsksForWhatWasSet) => out = taken.vals
=============================================================================
