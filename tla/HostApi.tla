------------------------------ MODULE HostApi -------------------------------
(***************************************************************************)
(* The API functions of the inv478x host library (inv478x.c and the shared  *)
(* part inv478x_comlib.c): a request is sent to the chip and the caller      *)
(* polls until the response with its op code comes or a timer expires, under *)
(* a semaphore that serves as a mutex; inv478x_handle collects the           *)
(* notifications that arrive in between and calls the application back.      *)
(*                                                                          *)
(* All API functions are one template (from inv478x_chip_id_query on), here  *)
(* one operation for an op code; the exceptions are modelled on their own:   *)
(* inv478x_event_flags_mask_get also stores its result, two functions return *)
(* an error with the semaphore taken, two make several requests under it,    *)
(* and inv478x_boot_stat_query gives it without taking it.  The              *)
(* semaphores are the application's (inv478x_platform_api.h): a take ends    *)
(* when the semaphore is free or IPC_COMPLETION_TIMEOUT has passed.          *)
(* Configuration: MULTI_THREAD 1, IPC_SEMAPHORE 0, as in all the samples.    *)
(*                                                                          *)
(* The link below is used for what IpcChannel promises: whole messages, in   *)
(* order, which may be lost, repeated and late.  A request is named by the   *)
(* number of its call, which its response carries back.                      *)
(***************************************************************************)
EXTENDS Integers, Sequences, FiniteSets

CONSTANTS
  Caller,         \* threads that call API functions
  Pump,           \* threads that call inv478x_handle
  OpCode,         \* op codes of requests
  MaskGet,        \* INV478X_EVENTFLAGSMASK_GET, or no op code at all
  Flag,           \* bits of inv478x_event_flags_t
  TagMod,         \* inv_drv_ipc_tag_code is a uint8_t: 256
  SlowCalls,      \* a call can outlast the 3200 ms another one waits for the mutex
  BootStatQuery,  \* inv478x_boot_stat_query is called while other calls run
  BadPars,        \* a call is made with a parameter out of range
  MaxCalls,       \* bound: API calls
  MaxNotify,      \* bound: notifications of the chip
  MaxLoss,        \* bound: messages of the chip lost on the link
  MaxRepeat       \* bound: messages repeated by the link

Thread == Caller \cup Pump

NoOp == "none"

ASSUME ApiAssumption ==
  /\ NoOp \notin OpCode
  /\ TagMod \in Nat \ {0} /\ SlowCalls \in BOOLEAN /\ BootStatQuery \in BOOLEAN
  /\ BadPars \in BOOLEAN
  /\ MaxCalls \in Nat /\ MaxNotify \in Nat /\ MaxLoss \in Nat /\ MaxRepeat \in Nat

VARIABLES
  semaphore_api,          \* its count, 0 or 1
  kept,                   \* history: a call has returned with the mutex taken
  pc, op,                 \* where a thread is, and the op code of its call
  ret,                    \* result of a thread's last call
  flags,                  \* s_handle: flags to call the application back with
  tag_code, mes_req, mes_ack,                             \* struct obj
  event_flags_user, event_flags_stat, event_flags_mask,   \* struct obj
  wake,                   \* bit 3 of EXT_INT_STATUS
  tx_busy,                \* tx_message.size # 0 in the IPC driver
  wire,                   \* the request on its way to the chip
  inbox, outbox,          \* requests the chip has, its messages on their way back
  calls, mine, got,       \* history: calls, and whose response a thread took
  owed,                   \* history: flags notified and not yet handed over
  notified, lost, repeated

apiVars  == << semaphore_api, kept, pc, op, ret, flags >>
reqVars  == << tag_code, mes_req, mes_ack >>
evtVars  == << event_flags_user, event_flags_stat, event_flags_mask, wake, owed >>
linkVars == << tx_busy, wire, inbox, outbox >>
callVars == << calls, mine, got >>
bounds   == << notified, lost, repeated >>
vars == << apiVars, reqVars, evtVars, linkVars, callVars, bounds >>

Message == [ op : OpCode \cup {NoOp}, tag : 0 .. TagMod - 1, id : 0 .. MaxCalls ]
Packet == [ type : { "RESPONSE", "NOTIFY" }, mes : Message, flags : SUBSET Flag ]
NoMessage == [ op |-> NoOp, tag |-> 0, id |-> 0 ]
Response(r) == [ type |-> "RESPONSE", mes |-> r, flags |-> {} ]
Notify(f) == [ type |-> "NOTIFY", mes |-> NoMessage, flags |-> f ]

GoTo(t, l) == pc' = [pc EXCEPT ![t] = l]

-----------------------------------------------------------------------------
(* inv_drv_ipc_call_back with a message m that has arrived: a notification is *)
(* added to the flags, a response replaces the acknowledge message.          *)
CallBack(m) ==
  /\ event_flags_user' = event_flags_user \cup m.flags
  /\ owed' = owed \cup m.flags
  /\ mes_ack' = IF m.type = "RESPONSE" THEN m.mes ELSE mes_ack

(* s_handle_ipc_interrupts: the status bits are read and cleared, bit 3      *)
(* included; the IPC handler may see the end of the message being sent       *)
(* (its last ACK, or the NACK after which it is dropped) and receive one     *)
(* packet, the last one of a message.                                        *)
IpcInterrupts ==
  /\ wake' = FALSE
  /\ tx_busy' \in { FALSE, tx_busy }
  /\ \/ UNCHANGED << outbox, event_flags_user, owed, mes_ack >>
     \/ outbox # << >> /\ outbox' = Tail(outbox) /\ CallBack(Head(outbox))

-----------------------------------------------------------------------------
(* An API function                                                          *)

ApiCall(t, o) ==
  /\ t \in Caller /\ pc[t] = "idle"
  /\ calls < MaxCalls
  /\ calls' = calls + 1
  /\ mine' = [mine EXCEPT ![t] = calls + 1]
  /\ op' = [op EXCEPT ![t] = o]
  /\ GoTo(t, "take")
  /\ UNCHANGED << semaphore_api, kept, ret, flags, reqVars, evtVars, linkVars, got, bounds >>

(* MUTEX_API_TAKE.  When the take expires its result is overwritten by that  *)
(* of the request: the call goes on without the mutex.                       *)
Free(t) == semaphore_api = 1
TakeExpires == semaphore_api = 0 /\ (SlowCalls \/ kept)

ApiTake(t) ==
  /\ pc[t] = "take"
  /\ Free(t) \/ TakeExpires
  /\ semaphore_api' = 0
  /\ GoTo(t, "init")
  /\ UNCHANGED << kept, op, ret, flags, reqVars, evtVars, linkVars, callVars, bounds >>

(* inv478x_arc_support_mode_set and inv478x_earc_mode_set look at their mode  *)
(* after the take, and return PAR_ERR without a give.                        *)
ParError(t) ==
  /\ pc[t] = "init" /\ BadPars
  /\ ret' = [ret EXCEPT ![t] = "PAR_ERR"]
  /\ kept' = TRUE
  /\ GoTo(t, "idle")
  /\ UNCHANGED << semaphore_api, op, flags, reqVars, evtVars, linkVars, callVars, bounds >>

(* s_request_message_init *)
NextTag == (tag_code + 1) % TagMod
RequestInit(t) ==
  /\ pc[t] = "init"
  /\ wire' = NoMessage
  /\ tag_code' = NextTag
  /\ mes_req' = [ op |-> op[t], tag |-> NextTag, id |-> mine[t] ]
  /\ mes_ack' = NoMessage
  /\ GoTo(t, "send")
  /\ UNCHANGED << semaphore_api, kept, op, ret, flags, evtVars, tx_busy, inbox, outbox,
                  callVars, bounds >>

RequestSend(t) ==
  /\ pc[t] = "send"
  /\ wire' = mes_req
  /\ tx_busy' = TRUE
  /\ GoTo(t, "wait")
  /\ UNCHANGED << semaphore_api, kept, op, ret, flags, reqVars, evtVars, inbox, outbox,
                  callVars, bounds >>

(* The polling loop of s_wait_for_valid_ipc_response_message.  The timer is  *)
(* looked at after the interrupts, so that a response which has just come is *)
(* not seen.                                                                 *)
Waits(t) == pc[t] = "wait" /\ mes_ack.op # op[t]

Poll(t) ==
  /\ Waits(t) /\ IpcInterrupts
  /\ UNCHANGED << apiVars, event_flags_stat, event_flags_mask, tag_code, mes_req,
                  wire, inbox, callVars, bounds >>

PollsForEver(t) == FALSE   \* mutant: no time-out
PollTimesOut(t) ==
  /\ Waits(t) /\ IpcInterrupts
  /\ ret' = [ret EXCEPT ![t] = "NO_RESPONSE"]
  /\ GoTo(t, "end")
  /\ UNCHANGED << semaphore_api, kept, op, flags, event_flags_stat, event_flags_mask, tag_code,
                  mes_req, wire, inbox, callVars, bounds >>

Responded(t) ==
  /\ pc[t] = "wait" /\ mes_ack.op = op[t]
  /\ ret' = [ret EXCEPT ![t] = "SUCCESS"]
  /\ GoTo(t, "end")
  /\ UNCHANGED << semaphore_api, kept, op, flags, reqVars, evtVars, linkVars, callVars, bounds >>

(* The end of s_wait_for_valid_ipc_response_message and of the API function: *)
(* bit 3 is triggered for the flags that are waiting, the IPC transmitter is *)
(* reset (a packet in the chip's FIFO may stay there), and a response with   *)
(* the tag of the request gives the result.                                  *)
TriggerOnSuccess(t) == event_flags_user # {} /\ ret[t] = "SUCCESS"   \* mutant: early return
TriggerWake(t) == event_flags_user # {}
TxStays(b) == b   \* mutant: inv_drv_ipc_tx_reset is not called
TxReset(b) == FALSE
AnyTag(m) == TRUE   \* mutant: no check of the tag code
TagMatches(m) == m.tag = tag_code

EndWait(t) ==
  /\ pc[t] = "end"
  /\ wake' = (wake \/ TriggerWake(t))
  /\ tx_busy' = TxReset(tx_busy)
  /\ wire' \in { NoMessage, wire }
  /\ IF ret[t] # "SUCCESS"
       THEN UNCHANGED << ret, got, event_flags_mask >>
       ELSE IF TagMatches(mes_ack)
              THEN /\ UNCHANGED ret
                   /\ got' = [got EXCEPT ![t] = mes_ack.id]
                   /\ IF op[t] = MaskGet
                        THEN event_flags_mask' \in SUBSET Flag
                        ELSE UNCHANGED event_flags_mask
              ELSE /\ ret' = [ret EXCEPT ![t] = "WRONG_TAG_CODE"]
                   /\ UNCHANGED << got, event_flags_mask >>
  /\ GoTo(t, "give")
  /\ UNCHANGED << semaphore_api, kept, op, flags, reqVars, event_flags_user, event_flags_stat,
                  owed, inbox, outbox, calls, mine, bounds >>

(* inv478x_ext_aud_info_get and inv478x_tx_hdcp_ksvlist_query make several    *)
(* requests under one mutex, whatever came of the one before.                *)
NextRequest(t, o) ==
  /\ t \in Caller /\ pc[t] = "give"
  /\ calls < MaxCalls
  /\ calls' = calls + 1
  /\ mine' = [mine EXCEPT ![t] = calls + 1]
  /\ op' = [op EXCEPT ![t] = o]
  /\ GoTo(t, "init")
  /\ UNCHANGED << semaphore_api, kept, ret, flags, reqVars, evtVars, linkVars, got, bounds >>

(* MUTEX_API_GIVE and MUTEX_HANDLE_GIVE: given whether or not it was taken.  *)
CountGiven(t) == 1

Give(t) ==
  /\ pc[t] = "give"
  /\ semaphore_api' = CountGiven(t) /\ kept' = FALSE
  /\ GoTo(t, IF flags[t] = {} THEN "idle" ELSE "report")
  /\ UNCHANGED << op, ret, flags, reqVars, evtVars, linkVars, callVars, bounds >>

(* inv478x_boot_stat_query reads registers and gives a mutex it has not taken. *)
BootStat(t) ==
  /\ BootStatQuery
  /\ t \in Caller /\ pc[t] = "idle"
  /\ semaphore_api' = 1 /\ kept' = FALSE
  /\ UNCHANGED << pc, op, ret, flags, reqVars, evtVars, linkVars, callVars, bounds >>

-----------------------------------------------------------------------------
(* inv478x_handle: s_handle                                                  *)

HandleTake(t) ==
  /\ t \in Pump /\ pc[t] = "idle"
  /\ Free(t)
  /\ semaphore_api' = 0
  /\ GoTo(t, "handle")
  /\ UNCHANGED << kept, op, ret, flags, reqVars, evtVars, linkVars, callVars, bounds >>

(* Here an expired take is not ignored, but the mutex is given all the same.  *)
HandleTakeExpires(t) ==
  /\ t \in Pump /\ pc[t] = "idle"
  /\ TakeExpires
  /\ GoTo(t, "give")
  /\ UNCHANGED << semaphore_api, kept, op, ret, flags, reqVars, evtVars, linkVars, callVars, bounds >>

HandleIpc(t) ==
  /\ pc[t] = "handle" /\ IpcInterrupts
  /\ GoTo(t, "merge")
  /\ UNCHANGED << semaphore_api, kept, op, ret, flags, event_flags_stat, event_flags_mask,
                  tag_code, mes_req, wire, inbox, callVars, bounds >>

OnlyNew(t) == event_flags_user   \* mutant: assigned instead of or-ed
MergedFlags(t) == event_flags_stat \cup event_flags_user
MergeFlags(t) ==
  /\ pc[t] = "merge"
  /\ event_flags_stat' = MergedFlags(t)
  /\ GoTo(t, "clear")
  /\ UNCHANGED << semaphore_api, kept, op, ret, flags, event_flags_user, event_flags_mask, wake,
                  owed, reqVars, linkVars, callVars, bounds >>

ClearUser(t) ==
  /\ pc[t] = "clear"
  /\ event_flags_user' = {}
  /\ GoTo(t, "pick")
  /\ UNCHANGED << semaphore_api, kept, op, ret, flags, event_flags_stat, event_flags_mask, wake,
                  owed, reqVars, linkVars, callVars, bounds >>

NothingPicked(t) == {}   \* mutant: the flags are cleared and not called back
PickedFlags(t) == event_flags_stat \cap event_flags_mask
PickFlags(t) ==
  /\ pc[t] = "pick"
  /\ flags' = [flags EXCEPT ![t] = PickedFlags(t)]
  /\ event_flags_stat' = event_flags_stat \ event_flags_mask
  /\ owed' = owed \ flags'[t]
  /\ GoTo(t, "give")
  /\ UNCHANGED << semaphore_api, kept, op, ret, event_flags_user, event_flags_mask, wake,
                  reqVars, linkVars, callVars, bounds >>

(* The application is called back after the mutex is given, so that it can    *)
(* call the API from there.                                                   *)
Report(t) ==
  /\ pc[t] = "report"
  /\ flags' = [flags EXCEPT ![t] = {}]
  /\ GoTo(t, "idle")
  /\ UNCHANGED << semaphore_api, kept, op, ret, reqVars, evtVars, linkVars, callVars, bounds >>

-----------------------------------------------------------------------------
(* The chip and the link, as the library sees them                           *)

(* The chip takes the request from its FIFO; the link may give it twice.      *)
ChipReceives ==
  /\ wire # NoMessage
  /\ inbox' = Append(inbox, wire)
  /\ \/ wire' = NoMessage /\ UNCHANGED repeated
     \/ UNCHANGED wire /\ repeated < MaxRepeat /\ repeated' = repeated + 1
  /\ UNCHANGED << apiVars, reqVars, evtVars, tx_busy, outbox, callVars, notified, lost >>

ChipResponds ==
  /\ inbox # << >>
  /\ inbox' = Tail(inbox)
  /\ outbox' = Append(outbox, Response(Head(inbox)))
  /\ UNCHANGED << apiVars, reqVars, evtVars, tx_busy, wire, callVars, bounds >>

ChipNotifies ==
  /\ notified < MaxNotify
  /\ notified' = notified + 1
  /\ \E f \in SUBSET Flag \ {{}} : outbox' = Append(outbox, Notify(f))
  /\ UNCHANGED << apiVars, reqVars, evtVars, tx_busy, wire, inbox, callVars, lost, repeated >>

LinkLoses ==
  /\ outbox # << >> /\ lost < MaxLoss
  /\ lost' = lost + 1
  /\ outbox' = Tail(outbox)
  /\ UNCHANGED << apiVars, reqVars, evtVars, tx_busy, wire, inbox, callVars, notified, repeated >>

LinkRepeats ==
  /\ outbox # << >> /\ repeated < MaxRepeat
  /\ repeated' = repeated + 1
  /\ outbox' = << Head(outbox) >> \o outbox
  /\ UNCHANGED << apiVars, reqVars, evtVars, tx_busy, wire, inbox, callVars, notified, lost >>

-----------------------------------------------------------------------------
Init ==
  /\ semaphore_api = 1 /\ kept = FALSE
  /\ pc = [t \in Thread |-> "idle"] /\ op = [t \in Thread |-> NoOp]
  /\ ret = [t \in Thread |-> "SUCCESS"] /\ flags = [t \in Thread |-> {}]
  /\ tag_code = 0 /\ mes_req = NoMessage /\ mes_ack = NoMessage
  /\ event_flags_user = {} /\ event_flags_stat = {} /\ event_flags_mask = Flag
  /\ wake = FALSE /\ owed = {}
  /\ tx_busy = FALSE /\ wire = NoMessage /\ inbox = << >> /\ outbox = << >>
  /\ calls = 0 /\ mine = [t \in Thread |-> 0] /\ got = [t \in Thread |-> 0]
  /\ notified = 0 /\ lost = 0 /\ repeated = 0

Api(t) ==
  \/ ApiTake(t) \/ ParError(t) \/ RequestInit(t) \/ RequestSend(t)
  \/ Poll(t) \/ PollTimesOut(t) \/ Responded(t) \/ EndWait(t) \/ Give(t)

Handle(t) ==
  \/ HandleTake(t) \/ HandleTakeExpires(t) \/ HandleIpc(t)
  \/ MergeFlags(t) \/ ClearUser(t) \/ PickFlags(t) \/ Report(t)

Chip == ChipReceives \/ ChipResponds \/ ChipNotifies \/ LinkLoses \/ LinkRepeats

Next ==
  \/ \E t \in Thread :
       \/ \E o \in OpCode : ApiCall(t, o) \/ NextRequest(t, o)
       \/ Api(t) \/ BootStat(t) \/ Handle(t)
  \/ Chip

Spec == Init /\ [][Next]_vars

(* Threads are scheduled, timers run out, a semaphore wakes one of those who  *)
(* wait for it, and the application calls inv478x_handle again and again      *)
(* ("periodically with an time interval of no more than 100msec",             *)
(* inv478x_api.h).  Nothing is assumed of the chip.                           *)
Fairness == \A t \in Thread :
  /\ WF_vars(Api(t)) /\ SF_vars(PollTimesOut(t)) /\ SF_vars(ApiTake(t))
  /\ WF_vars(Handle(t)) /\ SF_vars(HandleTake(t))

FairSpec == Spec /\ Fairness

-----------------------------------------------------------------------------
(* Properties                                                               *)

Label == { "idle", "take", "init", "send", "wait", "end", "give",
           "handle", "merge", "clear", "pick", "report" }

(* The fields of struct obj and the messages keep their types: the tag code   *)
(* stays an 8-bit number, for one.                                            *)
TypeOK ==
  /\ semaphore_api \in {0, 1} /\ kept \in BOOLEAN
  /\ pc \in [Thread -> Label] /\ op \in [Thread -> OpCode \cup {NoOp}]
  /\ ret \in [Thread -> { "SUCCESS", "NO_RESPONSE", "WRONG_TAG_CODE", "PAR_ERR" }]
  /\ flags \in [Thread -> SUBSET Flag]
  /\ tag_code \in 0 .. TagMod - 1 /\ mes_req \in Message /\ mes_ack \in Message
  /\ event_flags_user \in SUBSET Flag /\ event_flags_stat \in SUBSET Flag
  /\ event_flags_mask \in SUBSET Flag /\ wake \in BOOLEAN /\ owed \in SUBSET Flag
  /\ tx_busy \in BOOLEAN /\ wire \in Message /\ inbox \in Seq(Message)
  /\ outbox \in Seq(Packet)
  /\ calls \in 0 .. MaxCalls
  /\ mine \in [Thread -> 0 .. MaxCalls] /\ got \in [Thread -> 0 .. MaxCalls]
  /\ notified \in 0 .. MaxNotify /\ lost \in 0 .. MaxLoss /\ repeated \in 0 .. MaxRepeat

(* A thread is inside the part of the library that the mutex protects.        *)
Inside(t) == pc[t] \in { "init", "send", "wait", "end", "give", "handle", "merge", "clear", "pick" }

(* "Create semaphore that functions as Mutex for making API multi-thread      *)
(* safe": at most one thread is between the take and the give.                *)
MutualExclusion == \A t, u \in Thread : Inside(t) /\ Inside(u) => t = u

(* A call that succeeds returns what the chip answered to this very call,     *)
(* although answers to calls that timed out come late, or twice.              *)
ResponseIsOwn == \A t \in Thread :
  pc[t] = "give" /\ ret[t] = "SUCCESS" => got[t] = mine[t]

(* INV_ASSERT (0 == p_obj->tx_message.size) in s_packet_message_send: when a  *)
(* request is sent the one before is no longer being sent.                    *)
SendFindsTxIdle == \A t \in Thread : pc[t] = "send" => ~tx_busy

(* No notified flag is lost inside the library, however calls and            *)
(* inv478x_handle share the collection of notifications.                      *)
FlagsAccounted == owed \subseteq event_flags_user \cup event_flags_stat

(* "bit 3 is used to invoke user application to call Inv478xHandle() to       *)
(* ensure handling of remaining event flags": when flags wait in              *)
(* event_flags_user, the bit is set, or a call that will set it or a handler  *)
(* that will collect them is under way.  It holds without the mutex too.      *)
WaitingFlagsWake == event_flags_user # {} =>
  \/ wake
  \/ \E t \in Thread : pc[t] \in { "wait", "end", "merge", "clear" }

(* Every call returns, though the chip may never answer.                      *)
CallsReturn == \A t \in Thread : pc[t] = "take" ~> pc[t] = "idle"

(* As long as the mutex is kept, a notified flag is handed to the application *)
(* or is masked.                                                              *)
FlagsReported == []MutualExclusion => \A f \in Flag :
  f \in owed ~> \/ f \notin event_flags_mask
                \/ \E t \in Thread : pc[t] = "report" /\ f \in flags[t]

-----------------------------------------------------------------------------
(* The inductive invariants behind the safety properties                     *)

(* The semaphore is 0 while a thread is inside, and no call has kept it.      *)
MutexInv == /\ ~kept
            /\ MutualExclusion
            /\ \A t \in Thread : Inside(t) => semaphore_api = 0

(* A message is being sent only while its call waits; the flags a handler is  *)
(* about to clear are merged.                                                 *)
SharedInv ==
  /\ MutexInv
  /\ tx_busy => \E t \in Thread : pc[t] \in { "wait", "end" }
  /\ \A t \in Thread : pc[t] = "clear" => event_flags_user \subseteq event_flags_stat
  /\ FlagsAccounted

(* A real message with the tag code of the last request is of that request.   *)
Answers(m) == m.op # NoOp /\ m.tag = tag_code => m.id = mes_req.id

(* What a thread knows: the call that waits is the one whose request was the  *)
(* last; what has ended its wait is a real message; and what it returns.      *)
Asks(t) == pc[t] \in { "send", "wait", "end" } => mine[t] = mes_req.id
HasOp(t) == pc[t] \in { "take", "init", "send", "wait", "end" } => op[t] # NoOp
Hears(t) == pc[t] = "end" /\ ret[t] = "SUCCESS" => mes_ack.op # NoOp
Tells(t) == pc[t] \notin { "take", "init", "send", "wait", "end" } /\ ret[t] = "SUCCESS"
              => got[t] = mine[t]

OwnInv ==
  /\ MutexInv
  /\ Answers(wire) /\ Answers(mes_ack)
  /\ \A i \in 1 .. Len(inbox) : Answers(inbox[i])
  /\ \A i \in 1 .. Len(outbox) : Answers(outbox[i].mes)
  /\ \A t \in Thread : Asks(t) /\ HasOp(t) /\ Hears(t) /\ Tells(t)

(* What that takes of the tag codes: s_request_message_init gives out none    *)
(* that is still on a message at the chip or on its way back.  A code comes   *)
(* around after TagMod requests, each of which has waited for its time-out.   *)
IsOld(m) == m.op # NoOp => m.tag # NextTag
TagIsFresh == \A t \in Thread : RequestInit(t) =>
  /\ \A i \in 1 .. Len(inbox) : IsOld(inbox[i])
  /\ \A i \in 1 .. Len(outbox) : IsOld(outbox[i].mes)

(* Calls that have still to get a tag code.                                   *)
Pending == { t \in Thread : pc[t] \in { "take", "init" } }

(* With fewer calls than tag codes every one is fresh: the calls are at least *)
(* the tag code and those that wait for one, so that it does not come around. *)
CountInv ==
  /\ MutexInv
  /\ IsFiniteSet(Pending) /\ tag_code + Cardinality(Pending) <= calls
  /\ mes_req.tag <= tag_code /\ wire.tag <= tag_code
  /\ \A i \in 1 .. Len(inbox) : inbox[i].tag <= tag_code
  /\ \A i \in 1 .. Len(outbox) : outbox[i].mes.tag <= tag_code
=============================================================================
