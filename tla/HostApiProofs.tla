--------------------------- MODULE HostApiProofs ----------------------------
(***************************************************************************)
(* Proofs about HostApi, for any threads, op codes, flags and bounds.  What  *)
(* depends on the mutex is proved for an application whose calls never       *)
(* outlast the wait for the mutex nor have a mode out of range, and which     *)
(* does not call inv478x_boot_stat_query meanwhile; the wake-up bit needs     *)
(* none of this.                                                             *)
(***************************************************************************)
EXTENDS HostApi, FiniteSetTheorems, TLAPS

-----------------------------------------------------------------------------
(* Types                                                                     *)

LEMMA TypeInit == Init => TypeOK
  <1> SUFFICES ASSUME Init PROVE TypeOK
    OBVIOUS
  <1>1. NoMessage \in Message /\ 0 \in 0 .. MaxCalls /\ 0 \in 0 .. TagMod - 1
    BY ApiAssumption DEF Message, NoMessage
  <1>2. << >> \in Seq(Message) /\ << >> \in Seq(Packet)
    OBVIOUS
  <1>3. /\ semaphore_api \in {0, 1} /\ kept \in BOOLEAN /\ pc \in [Thread -> Label]
        /\ op \in [Thread -> OpCode \cup {NoOp}]
        /\ ret \in [Thread -> { "SUCCESS", "NO_RESPONSE", "WRONG_TAG_CODE", "PAR_ERR" }]
        /\ flags \in [Thread -> SUBSET Flag]
    BY DEF Init, Label
  <1>4. /\ tag_code \in 0 .. TagMod - 1 /\ mes_req \in Message /\ mes_ack \in Message
        /\ wire \in Message /\ inbox \in Seq(Message) /\ outbox \in Seq(Packet)
        /\ event_flags_user \in SUBSET Flag /\ event_flags_stat \in SUBSET Flag
        /\ event_flags_mask \in SUBSET Flag /\ wake \in BOOLEAN /\ owed \in SUBSET Flag
        /\ tx_busy \in BOOLEAN
    BY <1>1, <1>2 DEF Init
  <1>5. /\ calls \in 0 .. MaxCalls
        /\ mine \in [Thread -> 0 .. MaxCalls] /\ got \in [Thread -> 0 .. MaxCalls]
        /\ notified \in 0 .. MaxNotify /\ lost \in 0 .. MaxLoss /\ repeated \in 0 .. MaxRepeat
    BY <1>1, ApiAssumption DEF Init
  <1>6. QED BY <1>3, <1>4, <1>5 DEF TypeOK

(* s_handle_ipc_interrupts keeps the types of what it writes.                 *)
LEMMA InterruptTypes ==
  ASSUME TypeOK, IpcInterrupts
  PROVE  /\ wake' \in BOOLEAN /\ tx_busy' \in BOOLEAN
         /\ outbox' \in Seq(Packet)
         /\ event_flags_user' \in SUBSET Flag /\ owed' \in SUBSET Flag /\ mes_ack' \in Message
  <1>1. CASE outbox # << >> /\ outbox' = Tail(outbox)
    <2>1. Head(outbox) \in Packet /\ Tail(outbox) \in Seq(Packet)
      BY <1>1 DEF TypeOK
    <2>2. Head(outbox).flags \in SUBSET Flag /\ Head(outbox).mes \in Message
      BY <2>1 DEF Packet
    <2>3. QED BY <1>1, <2>1, <2>2 DEF TypeOK, IpcInterrupts, CallBack
  <1>2. CASE UNCHANGED << outbox, event_flags_user, owed, mes_ack >>
    BY <1>2 DEF TypeOK, IpcInterrupts, CallBack
  <1>3. QED BY <1>1, <1>2 DEF IpcInterrupts, CallBack

LEMMA TagStep == tag_code \in 0 .. TagMod - 1 => NextTag \in 0 .. TagMod - 1
BY ApiAssumption DEF NextTag

LEMMA TypeStep ==
  ASSUME TypeOK, [Next]_vars
  PROVE  TypeOK'
  <1> USE ApiAssumption
  <1>1. CASE UNCHANGED vars
    BY <1>1 DEF TypeOK, vars, apiVars, reqVars, evtVars, linkVars, callVars, bounds
  <1>2. ASSUME NEW t \in Thread, NEW o \in OpCode, ApiCall(t, o) PROVE TypeOK'
    BY <1>2 DEF TypeOK, ApiCall, GoTo, Label, reqVars, evtVars, linkVars, bounds
  <1>18. ASSUME NEW t \in Thread, NEW o \in OpCode, NextRequest(t, o) PROVE TypeOK'
    BY <1>18 DEF TypeOK, NextRequest, GoTo, Label, reqVars, evtVars, linkVars, bounds
  <1>3. ASSUME NEW t \in Thread, ApiTake(t) \/ ParError(t) PROVE TypeOK'
    BY <1>3 DEF TypeOK, ApiTake, ParError, GoTo, Label, reqVars, evtVars, linkVars, callVars, bounds
  <1>4. ASSUME NEW t \in Thread, RequestInit(t) PROVE TypeOK'
    <2>1. NextTag \in 0 .. TagMod - 1
      BY TagStep DEF TypeOK
    <2>2. NoMessage \in Message
      BY DEF Message, NoMessage
    <2>3. [ op |-> op[t], tag |-> NextTag, id |-> mine[t] ] \in Message
      BY <2>1 DEF TypeOK, Message
    <2>4. QED BY <1>4, <2>1, <2>2, <2>3
              DEF TypeOK, RequestInit, GoTo, Label, evtVars, callVars, bounds
  <1>5. ASSUME NEW t \in Thread, RequestSend(t) PROVE TypeOK'
    BY <1>5 DEF TypeOK, RequestSend, GoTo, Label, reqVars, evtVars, callVars, bounds
  <1>6. ASSUME NEW t \in Thread, Poll(t) PROVE TypeOK'
    BY <1>6, InterruptTypes DEF TypeOK, Poll, apiVars, callVars, bounds
  <1>7. ASSUME NEW t \in Thread, PollTimesOut(t) PROVE TypeOK'
    BY <1>7, InterruptTypes DEF TypeOK, PollTimesOut, GoTo, Label, callVars, bounds
  <1>8. ASSUME NEW t \in Thread, Responded(t) PROVE TypeOK'
    BY <1>8 DEF TypeOK, Responded, GoTo, Label, reqVars, evtVars, linkVars, callVars, bounds
  <1>9. ASSUME NEW t \in Thread, EndWait(t) PROVE TypeOK'
    <2>1. mes_ack.id \in 0 .. MaxCalls /\ NoMessage \in Message
      BY DEF TypeOK, Message, NoMessage
    <2>2. ret' \in [Thread -> { "SUCCESS", "NO_RESPONSE", "WRONG_TAG_CODE", "PAR_ERR" }]
      BY <1>9 DEF TypeOK, EndWait
    <2>3. got' \in [Thread -> 0 .. MaxCalls] /\ event_flags_mask' \in SUBSET Flag
      BY <1>9, <2>1 DEF TypeOK, EndWait
    <2>4. wake' \in BOOLEAN /\ tx_busy' \in BOOLEAN /\ wire' \in Message
      BY <1>9, <2>1 DEF TypeOK, EndWait, TriggerWake, TxReset
    <2>5. pc' \in [Thread -> Label]
      BY <1>9 DEF TypeOK, EndWait, GoTo, Label
    <2>6. QED BY <1>9, <2>2, <2>3, <2>4, <2>5 DEF TypeOK, EndWait, reqVars, bounds
  <1>10. ASSUME NEW t \in Thread, Give(t) PROVE TypeOK'
    BY <1>10 DEF TypeOK, Give, CountGiven, GoTo, Label, reqVars, evtVars, linkVars, callVars, bounds
  <1>11. ASSUME NEW t \in Thread, BootStat(t) PROVE TypeOK'
    BY <1>11 DEF TypeOK, BootStat, reqVars, evtVars, linkVars, callVars, bounds
  <1>12. ASSUME NEW t \in Thread, HandleTake(t) \/ HandleTakeExpires(t) PROVE TypeOK'
    BY <1>12 DEF TypeOK, HandleTake, HandleTakeExpires, GoTo, Label, reqVars, evtVars, linkVars,
                 callVars, bounds
  <1>13. ASSUME NEW t \in Thread, HandleIpc(t) PROVE TypeOK'
    BY <1>13, InterruptTypes DEF TypeOK, HandleIpc, GoTo, Label, callVars, bounds
  <1>14. ASSUME NEW t \in Thread, MergeFlags(t) \/ ClearUser(t) PROVE TypeOK'
    BY <1>14 DEF TypeOK, MergeFlags, MergedFlags, ClearUser, GoTo, Label, reqVars, linkVars,
                 callVars, bounds
  <1>15. ASSUME NEW t \in Thread, PickFlags(t) PROVE TypeOK'
    BY <1>15 DEF TypeOK, PickFlags, PickedFlags, GoTo, Label, reqVars, linkVars, callVars, bounds
  <1>19. ASSUME NEW t \in Thread, Report(t) PROVE TypeOK'
    BY <1>19 DEF TypeOK, Report, GoTo, Label, reqVars, evtVars, linkVars, callVars, bounds
  <1>16. CASE Chip
    <2>1. CASE ChipReceives
      <3>1. Append(inbox, wire) \in Seq(Message) /\ NoMessage \in Message
        BY DEF TypeOK, Message, NoMessage
      <3>2. repeated' \in 0 .. MaxRepeat
        BY <2>1 DEF TypeOK, ChipReceives
      <3>3. QED BY <2>1, <3>1, <3>2 DEF TypeOK, ChipReceives, apiVars, reqVars, evtVars, callVars
    <2>2. CASE ChipResponds
      <3>1. Head(inbox) \in Message /\ Tail(inbox) \in Seq(Message)
        BY <2>2 DEF TypeOK, ChipResponds
      <3>2. Response(Head(inbox)) \in Packet
        BY <3>1 DEF Response, Packet
      <3>3. Append(outbox, Response(Head(inbox))) \in Seq(Packet)
        BY <3>2 DEF TypeOK
      <3>4. QED BY <2>2, <3>1, <3>3 DEF TypeOK, ChipResponds, apiVars, reqVars, evtVars, callVars, bounds
    <2>3. CASE ChipNotifies
      <3>1. NoMessage \in Message
        BY DEF Message, NoMessage
      <3>2. \A f \in SUBSET Flag : Notify(f) \in Packet
        BY <3>1 DEF Notify, Packet
      <3>3. outbox' \in Seq(Packet) /\ notified' \in 0 .. MaxNotify
        BY <2>3, <3>2 DEF TypeOK, ChipNotifies
      <3>4. QED BY <2>3, <3>3 DEF TypeOK, ChipNotifies, apiVars, reqVars, evtVars, callVars
    <2>4. CASE LinkLoses
      <3>1. Tail(outbox) \in Seq(Packet) /\ lost' \in 0 .. MaxLoss
        BY <2>4 DEF TypeOK, LinkLoses
      <3>2. QED BY <2>4, <3>1 DEF TypeOK, LinkLoses, apiVars, reqVars, evtVars, callVars
    <2>5. CASE LinkRepeats
      <3>1. Head(outbox) \in Packet /\ outbox \in Seq(Packet) /\ repeated' \in 0 .. MaxRepeat
        BY <2>5 DEF TypeOK, LinkRepeats
      <3>2. << Head(outbox) >> \o outbox \in Seq(Packet)
        BY <3>1
      <3>3. QED BY <2>5, <3>1, <3>2 DEF TypeOK, LinkRepeats, apiVars, reqVars, evtVars, callVars
    <2>6. QED BY <1>16, <2>1, <2>2, <2>3, <2>4, <2>5 DEF Chip
  <1>17. QED BY <1>1, <1>2, <1>3, <1>4, <1>5, <1>6, <1>7, <1>8, <1>9, <1>10, <1>11, <1>12,
                <1>13, <1>14, <1>15, <1>16, <1>18, <1>19 DEF Next, Api, Handle

(* The fields of struct obj and the messages keep their types.                *)
THEOREM ApiTypes == Spec => []TypeOK
BY TypeInit, TypeStep, PTL DEF Spec

-----------------------------------------------------------------------------
(* The wake-up bit                                                           *)

(* What a step that receives messages does to the flags that wait.            *)
LEMMA WakeStep ==
  ASSUME TypeOK, WaitingFlagsWake, [Next]_vars
  PROVE  WaitingFlagsWake'
  <1> DEFINE Active(t) == pc[t] \in { "wait", "end", "merge", "clear" }
  <1>1. WaitingFlagsWake <=> (event_flags_user # {} => wake \/ \E t \in Thread : Active(t))
    BY DEF WaitingFlagsWake
  <1>2. pc \in [Thread -> Label]
    BY DEF TypeOK
  <1>3. ASSUME NEW t \in Thread, Poll(t)
        PROVE  WaitingFlagsWake'
    BY <1>3 DEF WaitingFlagsWake, Poll, Waits, apiVars
  <1>4. ASSUME NEW t \in Thread, PollTimesOut(t) \/ HandleIpc(t)
        PROVE  WaitingFlagsWake'
    <2>1. pc'[t] \in { "end", "merge" }
      BY <1>2, <1>4 DEF PollTimesOut, HandleIpc, GoTo
    <2>2. QED BY <2>1 DEF WaitingFlagsWake
  <1>5. ASSUME NEW t \in Thread, EndWait(t)
        PROVE  WaitingFlagsWake'
    BY <1>5 DEF WaitingFlagsWake, EndWait, TriggerWake
  <1>6. ASSUME NEW t \in Thread, ClearUser(t)
        PROVE  WaitingFlagsWake'
    BY <1>6 DEF WaitingFlagsWake, ClearUser
  (* A step that leaves the flags and the bit alone, of a thread that stays    *)
  (* active or was not, keeps the property.                                    *)
  <1>7. ASSUME NEW t \in Thread, UNCHANGED << event_flags_user, wake >>,
               \A u \in Thread \ {t} : pc'[u] = pc[u], Active(t) => Active(t)'
        PROVE  WaitingFlagsWake'
    BY <1>7 DEF WaitingFlagsWake
  <1>8. ASSUME NEW t \in Thread, MergeFlags(t)
        PROVE  WaitingFlagsWake'
    BY <1>2, <1>7, <1>8 DEF MergeFlags, GoTo
  <1>9. ASSUME NEW t \in Thread, NEW o \in OpCode, ApiCall(t, o) \/ NextRequest(t, o)
        PROVE  WaitingFlagsWake'
    BY <1>2, <1>7, <1>9 DEF ApiCall, NextRequest, GoTo, evtVars
  <1>10. ASSUME NEW t \in Thread,
                ApiTake(t) \/ ParError(t) \/ RequestInit(t) \/ RequestSend(t) \/ Responded(t)
         PROVE  WaitingFlagsWake'
    BY <1>2, <1>7, <1>10 DEF ApiTake, ParError, RequestInit, RequestSend, Responded, GoTo, evtVars
  <1>11. ASSUME NEW t \in Thread, Give(t) \/ HandleTake(t) \/ HandleTakeExpires(t)
         PROVE  WaitingFlagsWake'
    BY <1>2, <1>7, <1>11 DEF Give, HandleTake, HandleTakeExpires, GoTo, evtVars
  <1>12. ASSUME NEW t \in Thread, PickFlags(t) \/ Report(t)
         PROVE  WaitingFlagsWake'
    BY <1>2, <1>7, <1>12 DEF PickFlags, Report, GoTo, evtVars
  <1>13. ASSUME UNCHANGED << event_flags_user, wake, pc >>
         PROVE  WaitingFlagsWake'
    BY <1>13 DEF WaitingFlagsWake
  <1>14. ASSUME NEW t \in Thread, BootStat(t)
         PROVE  WaitingFlagsWake'
    BY <1>13, <1>14 DEF BootStat, evtVars
  <1>15. CASE Chip
    BY <1>13, <1>15 DEF Chip, ChipReceives, ChipResponds, ChipNotifies, LinkLoses, LinkRepeats,
                        apiVars, evtVars
  <1>16. CASE UNCHANGED vars
    BY <1>13, <1>16 DEF vars, apiVars, evtVars
  <1>17. QED BY <1>3, <1>4, <1>5, <1>6, <1>8, <1>9, <1>10, <1>11, <1>12, <1>14, <1>15, <1>16
             DEF Next, Api, Handle

(* The application is always woken up for flags that wait in the library,     *)
(* whether or not the mutex protects it.                                      *)
THEOREM WaitingFlagsAlwaysWake == Spec => []WaitingFlagsWake
  <1>1. Init => WaitingFlagsWake
    BY DEF Init, WaitingFlagsWake
  <1>2. QED BY <1>1, WakeStep, ApiTypes, PTL DEF Spec

-----------------------------------------------------------------------------
(* What the mutex protects                                                   *)

(* A step of t that changes no other thread, enters the protected part only   *)
(* by taking the semaphore and gives it only when it leaves.                  *)
LEMMA MutexFrame ==
  ASSUME TypeOK, MutexInv, NEW t \in Thread, \A u \in Thread \ {t} : pc'[u] = pc[u], ~kept',
         \/ Inside(t) /\ semaphore_api' = semaphore_api
         \/ Inside(t) /\ ~Inside(t)'
         \/ ~Inside(t) /\ ~Inside(t)' /\ semaphore_api' = semaphore_api
         \/ semaphore_api = 1 /\ semaphore_api' = 0
  PROVE  MutexInv'
BY DEF MutexInv, MutualExclusion, Inside

LEMMA MutexStep ==
  ASSUME ~SlowCalls, ~BootStatQuery, ~BadPars, TypeOK, MutexInv, [Next]_vars
  PROVE  MutexInv'
  <1>1. pc \in [Thread -> Label]
    BY DEF TypeOK
  <1>2. ASSUME NEW t \in Thread, NEW o \in OpCode, ApiCall(t, o)
        PROVE  MutexInv'
    <2>1. \A u \in Thread \ {t} : pc'[u] = pc[u]
      BY <1>1, <1>2 DEF ApiCall, GoTo
    <2>2. ~Inside(t) /\ ~Inside(t)' /\ semaphore_api' = semaphore_api /\ ~kept'
      BY <1>1, <1>2 DEF ApiCall, GoTo, Inside, MutexInv
    <2>3. QED BY <2>1, <2>2, MutexFrame
  <1>3. ASSUME NEW t \in Thread, ApiTake(t) \/ HandleTake(t)
        PROVE  MutexInv'
    <2>1. \A u \in Thread \ {t} : pc'[u] = pc[u]
      BY <1>1, <1>3 DEF ApiTake, HandleTake, GoTo
    <2>2. semaphore_api = 1 /\ semaphore_api' = 0 /\ ~kept'
      BY <1>3 DEF ApiTake, HandleTake, Free, TakeExpires, MutexInv
    <2>3. QED BY <2>1, <2>2, MutexFrame
  <1>4. ASSUME NEW t \in Thread,
               \/ RequestInit(t) \/ RequestSend(t) \/ Poll(t) \/ PollTimesOut(t)
               \/ Responded(t) \/ EndWait(t)
        PROVE  MutexInv'
    <2>1. \A u \in Thread \ {t} : pc'[u] = pc[u]
      BY <1>1, <1>4 DEF RequestInit, RequestSend, Poll, PollTimesOut, Responded, EndWait, GoTo, apiVars
    <2>2. Inside(t) /\ semaphore_api' = semaphore_api /\ ~kept'
      BY <1>4 DEF RequestInit, RequestSend, Poll, PollTimesOut, Responded, EndWait, Waits, Inside,
                  MutexInv, apiVars
    <2>3. QED BY <2>1, <2>2, MutexFrame
  <1>5. ASSUME NEW t \in Thread, HandleIpc(t) \/ MergeFlags(t) \/ ClearUser(t) \/ PickFlags(t)
        PROVE  MutexInv'
    <2>1. \A u \in Thread \ {t} : pc'[u] = pc[u]
      BY <1>1, <1>5 DEF HandleIpc, MergeFlags, ClearUser, PickFlags, GoTo
    <2>2. Inside(t) /\ semaphore_api' = semaphore_api /\ ~kept'
      BY <1>5 DEF HandleIpc, MergeFlags, ClearUser, PickFlags, Inside, MutexInv
    <2>3. QED BY <2>1, <2>2, MutexFrame
  <1>6. ASSUME NEW t \in Thread, Give(t)
        PROVE  MutexInv'
    <2>1. \A u \in Thread \ {t} : pc'[u] = pc[u]
      BY <1>1, <1>6 DEF Give, GoTo
    <2>2. Inside(t) /\ ~Inside(t)' /\ ~kept'
      BY <1>1, <1>6 DEF Give, GoTo, Inside
    <2>3. QED BY <2>1, <2>2, MutexFrame
  <1>7. ASSUME NEW t \in Thread, Report(t)
        PROVE  MutexInv'
    <2>1. \A u \in Thread \ {t} : pc'[u] = pc[u]
      BY <1>1, <1>7 DEF Report, GoTo
    <2>2. ~Inside(t) /\ ~Inside(t)' /\ semaphore_api' = semaphore_api /\ ~kept'
      BY <1>1, <1>7 DEF Report, GoTo, Inside, MutexInv
    <2>3. QED BY <2>1, <2>2, MutexFrame
  <1>12. ASSUME NEW t \in Thread, NEW o \in OpCode, NextRequest(t, o)
         PROVE  MutexInv'
    <2>1. \A u \in Thread \ {t} : pc'[u] = pc[u]
      BY <1>1, <1>12 DEF NextRequest, GoTo
    <2>2. Inside(t) /\ semaphore_api' = semaphore_api /\ ~kept'
      BY <1>12 DEF NextRequest, Inside, MutexInv
    <2>3. QED BY <2>1, <2>2, MutexFrame
  <1>8. ASSUME UNCHANGED << pc, semaphore_api, kept >>
        PROVE  MutexInv'
    BY <1>8 DEF MutexInv, MutualExclusion, Inside
  <1>9. CASE Chip \/ UNCHANGED vars
    BY <1>8, <1>9 DEF Chip, ChipReceives, ChipResponds, ChipNotifies, LinkLoses, LinkRepeats,
                      vars, apiVars
  <1>10. \A t \in Thread : ~HandleTakeExpires(t) /\ ~BootStat(t) /\ ~ParError(t)
    BY DEF HandleTakeExpires, TakeExpires, BootStat, ParError, MutexInv
  <1>11. QED BY <1>2, <1>3, <1>4, <1>5, <1>6, <1>7, <1>9, <1>10, <1>12 DEF Next, Api, Handle

(* When no call outlasts the wait for the mutex, none has a mode out of range *)
(* and inv478x_boot_stat_query is not called, at most one thread is between   *)
(* the take and the give.                                                     *)
THEOREM ApiMutualExclusion ==
  ASSUME ~SlowCalls, ~BootStatQuery, ~BadPars
  PROVE  Spec => []MutualExclusion
  <1>1. Init => MutexInv
    BY DEF Init, MutexInv, MutualExclusion, Inside
  <1>2. MutexInv /\ TypeOK /\ [Next]_vars => MutexInv'
    BY MutexStep
  <1>3. MutexInv => MutualExclusion
    BY DEF MutexInv
  <1>4. QED BY <1>1, <1>2, <1>3, ApiTypes, PTL DEF Spec

(* A message is being sent only while a call waits for its response.           *)
LEMMA TxBusyStep ==
  ASSUME TypeOK, [Next]_vars,
         tx_busy => \E t \in Thread : pc[t] \in { "wait", "end" }
  PROVE  tx_busy' => \E t \in Thread : pc'[t] \in { "wait", "end" }
  <1>1. pc \in [Thread -> Label]
    BY DEF TypeOK
  <1>2. ASSUME NEW t \in Thread, pc'[t] \in { "wait", "end" }
        PROVE  tx_busy' => \E u \in Thread : pc'[u] \in { "wait", "end" }
    BY <1>2
  <1>3. ASSUME NEW t \in Thread,
               RequestSend(t) \/ Poll(t) \/ PollTimesOut(t) \/ Responded(t)
        PROVE  pc'[t] \in { "wait", "end" }
    BY <1>1, <1>3 DEF RequestSend, Poll, PollTimesOut, Responded, Waits, GoTo, apiVars
  <1>4. ASSUME NEW t \in Thread, EndWait(t)
        PROVE  ~tx_busy'
    BY <1>4 DEF EndWait, TxReset
  <1>5. ASSUME NEW t \in Thread, pc[t] \notin { "wait", "end" },
               \A u \in Thread \ {t} : pc'[u] = pc[u], tx_busy' => tx_busy
        PROVE  tx_busy' => \E u \in Thread : pc'[u] \in { "wait", "end" }
    BY <1>5
  <1>6. ASSUME NEW t \in Thread, NEW o \in OpCode, ApiCall(t, o) \/ NextRequest(t, o)
        PROVE  tx_busy' => \E u \in Thread : pc'[u] \in { "wait", "end" }
    BY <1>1, <1>5, <1>6 DEF ApiCall, NextRequest, GoTo, linkVars
  <1>7. ASSUME NEW t \in Thread, ApiTake(t) \/ ParError(t) \/ RequestInit(t) \/ Give(t)
        PROVE  tx_busy' => \E u \in Thread : pc'[u] \in { "wait", "end" }
    BY <1>1, <1>5, <1>7 DEF ApiTake, ParError, RequestInit, Give, GoTo, linkVars
  <1>8. ASSUME NEW t \in Thread, HandleTake(t) \/ HandleTakeExpires(t) \/ Report(t)
        PROVE  tx_busy' => \E u \in Thread : pc'[u] \in { "wait", "end" }
    BY <1>1, <1>5, <1>8 DEF HandleTake, HandleTakeExpires, Report, GoTo, linkVars
  <1>9. ASSUME NEW t \in Thread, HandleIpc(t)
        PROVE  tx_busy' => \E u \in Thread : pc'[u] \in { "wait", "end" }
    <2>1. tx_busy' => tx_busy
      BY <1>9 DEF HandleIpc, IpcInterrupts, CallBack, TypeOK
    <2>2. QED BY <1>1, <1>5, <1>9, <2>1 DEF HandleIpc, GoTo
  <1>10. ASSUME NEW t \in Thread, MergeFlags(t) \/ ClearUser(t) \/ PickFlags(t)
         PROVE  tx_busy' => \E u \in Thread : pc'[u] \in { "wait", "end" }
    BY <1>1, <1>5, <1>10 DEF MergeFlags, ClearUser, PickFlags, GoTo, linkVars
  <1>11. ASSUME UNCHANGED << pc, tx_busy >>
         PROVE  tx_busy' => \E u \in Thread : pc'[u] \in { "wait", "end" }
    BY <1>11
  <1>12. CASE Chip \/ UNCHANGED vars \/ \E t \in Thread : BootStat(t)
    BY <1>11, <1>12 DEF Chip, ChipReceives, ChipResponds, ChipNotifies, LinkLoses, LinkRepeats,
                        BootStat, vars, apiVars, linkVars
  <1>13. QED BY <1>2, <1>3, <1>4, <1>6, <1>7, <1>8, <1>9, <1>10, <1>12 DEF Next, Api, Handle

(* Receiving adds the same flags to the waiting and to the owed ones; it is   *)
(* done inside the mutex, so that no handler is about to clear the flags.     *)
LEMMA FlagsStep ==
  ASSUME TypeOK, SharedInv, [Next]_vars
  PROVE  /\ \A t \in Thread : pc'[t] = "clear" => event_flags_user' \subseteq event_flags_stat'
         /\ FlagsAccounted'
  <1> DEFINE Merged == \A t \in Thread : pc[t] = "clear" => event_flags_user \subseteq event_flags_stat
  <1>1. /\ pc \in [Thread -> Label] /\ Merged /\ FlagsAccounted /\ MutexInv
    BY DEF TypeOK, SharedInv
  <1>2. IpcInterrupts => \E f \in SUBSET Flag : /\ event_flags_user' = event_flags_user \cup f
                                                /\ owed' = owed \cup f
    <2>1. ASSUME outbox # << >>
          PROVE  Head(outbox).flags \in SUBSET Flag
      <3>1. Head(outbox) \in Packet
        BY <2>1 DEF TypeOK
      <3>2. QED BY <3>1 DEF Packet
    <2>2. ASSUME UNCHANGED << event_flags_user, owed >>
          PROVE  event_flags_user' = event_flags_user \cup {} /\ owed' = owed \cup {}
      BY <2>2
    <2>3. {} \in SUBSET Flag
      OBVIOUS
    <2>4. QED BY <2>1, <2>2, <2>3 DEF IpcInterrupts, CallBack
  <1>3. ASSUME NEW t \in Thread, Poll(t) \/ PollTimesOut(t) \/ HandleIpc(t)
        PROVE  Merged' /\ FlagsAccounted'
    <2>1. Inside(t) /\ pc[t] # "clear"
      BY <1>3 DEF Poll, PollTimesOut, HandleIpc, Waits, Inside
    <2>2. \A u \in Thread : pc[u] # "clear"
      BY <1>1, <2>1 DEF MutexInv, MutualExclusion, Inside
    <2>3. \A u \in Thread : pc'[u] # "clear"
      BY <1>1, <1>3, <2>2 DEF Poll, PollTimesOut, HandleIpc, GoTo, apiVars
    <2>4. event_flags_stat' = event_flags_stat /\ IpcInterrupts
      BY <1>3 DEF Poll, PollTimesOut, HandleIpc
    <2>5. QED BY <1>1, <1>2, <2>3, <2>4 DEF FlagsAccounted
  <1>4. ASSUME NEW t \in Thread, MergeFlags(t)
        PROVE  Merged' /\ FlagsAccounted'
    BY <1>1, <1>4 DEF MergeFlags, MergedFlags, FlagsAccounted
  <1>5. ASSUME NEW t \in Thread, ClearUser(t)
        PROVE  Merged' /\ FlagsAccounted'
    BY <1>1, <1>5 DEF ClearUser, FlagsAccounted
  <1>6. ASSUME NEW t \in Thread, PickFlags(t)
        PROVE  Merged' /\ FlagsAccounted'
    <2>1. \A u \in Thread : pc[u] # "clear"
      BY <1>1, <1>6 DEF MutexInv, MutualExclusion, Inside, PickFlags
    <2>2. \A u \in Thread : pc'[u] # "clear"
      BY <1>1, <1>6, <2>1 DEF PickFlags, GoTo
    <2>3. flags'[t] = event_flags_stat \cap event_flags_mask
      BY <1>6 DEF PickFlags, PickedFlags, TypeOK
    <2>4. QED BY <1>1, <1>6, <2>2, <2>3 DEF PickFlags, FlagsAccounted
  <1>7. ASSUME UNCHANGED << event_flags_user, event_flags_stat, owed >>,
               \A u \in Thread : pc'[u] = "clear" => pc[u] = "clear"
        PROVE  Merged' /\ FlagsAccounted'
    BY <1>1, <1>7 DEF FlagsAccounted
  <1>8. ASSUME NEW t \in Thread, NEW o \in OpCode, ApiCall(t, o) \/ NextRequest(t, o)
        PROVE  Merged' /\ FlagsAccounted'
    BY <1>1, <1>7, <1>8 DEF ApiCall, NextRequest, GoTo, evtVars
  <1>9. ASSUME NEW t \in Thread,
               ApiTake(t) \/ ParError(t) \/ RequestInit(t) \/ RequestSend(t) \/ Responded(t) \/ EndWait(t)
        PROVE  Merged' /\ FlagsAccounted'
    BY <1>1, <1>7, <1>9 DEF ApiTake, ParError, RequestInit, RequestSend, Responded, EndWait, GoTo, evtVars
  <1>10. ASSUME NEW t \in Thread,
                Give(t) \/ HandleTake(t) \/ HandleTakeExpires(t) \/ Report(t) \/ BootStat(t)
         PROVE  Merged' /\ FlagsAccounted'
    BY <1>1, <1>7, <1>10 DEF Give, HandleTake, HandleTakeExpires, Report, BootStat, GoTo, evtVars
  <1>11. CASE Chip \/ UNCHANGED vars
    BY <1>7, <1>11 DEF Chip, ChipReceives, ChipResponds, ChipNotifies, LinkLoses, LinkRepeats,
                       vars, apiVars, evtVars
  <1>12. QED BY <1>3, <1>4, <1>5, <1>6, <1>8, <1>9, <1>10, <1>11 DEF Next, Api, Handle

LEMMA SharedInvariant ==
  ASSUME ~SlowCalls, ~BootStatQuery, ~BadPars
  PROVE  Spec => []SharedInv
  <1>1. Init => SharedInv
    BY DEF Init, SharedInv, MutexInv, MutualExclusion, Inside, FlagsAccounted
  <1>2. SharedInv /\ TypeOK /\ [Next]_vars => SharedInv'
    <2> SUFFICES ASSUME SharedInv, TypeOK, [Next]_vars
                 PROVE  SharedInv'
      OBVIOUS
    <2>1. MutexInv'
      BY MutexStep DEF SharedInv
    <2>2. tx_busy' => \E t \in Thread : pc'[t] \in { "wait", "end" }
      BY TxBusyStep DEF SharedInv
    <2>3. QED BY <2>1, <2>2, FlagsStep DEF SharedInv
  <1>3. QED BY <1>1, <1>2, ApiTypes, PTL DEF Spec

(* No flag is lost between the calls and inv478x_handle.                      *)
THEOREM NoFlagIsLost ==
  ASSUME ~SlowCalls, ~BootStatQuery, ~BadPars
  PROVE  Spec => []FlagsAccounted
  <1>1. SharedInv => FlagsAccounted
    BY DEF SharedInv
  <1>2. QED BY <1>1, SharedInvariant, PTL

(* The assertion of s_packet_message_send never fails.                        *)
THEOREM SendAssertionHolds ==
  ASSUME ~SlowCalls, ~BootStatQuery, ~BadPars
  PROVE  Spec => []SendFindsTxIdle
  <1>1. SharedInv => SendFindsTxIdle
    BY DEF SharedInv, MutexInv, MutualExclusion, SendFindsTxIdle, Inside
  <1>2. QED BY <1>1, SharedInvariant, PTL

-----------------------------------------------------------------------------
(* A success is the answer to its own call                                   *)

(* Where the messages of the link come from: what is received is the oldest   *)
(* of those on their way back.                                                *)
LEMMA ReceivedMessages ==
  ASSUME TypeOK, IpcInterrupts
  PROVE  /\ \A i \in 1 .. Len(outbox') : \E j \in 1 .. Len(outbox) : outbox'[i] = outbox[j]
         /\ mes_ack' = mes_ack \/ \E j \in 1 .. Len(outbox) : mes_ack' = outbox[j].mes
  <1>1. CASE UNCHANGED << outbox, mes_ack >>
    BY <1>1
  <1>2. CASE outbox # << >> /\ outbox' = Tail(outbox) /\ CallBack(Head(outbox))
    <2>1. outbox \in Seq(Packet) /\ Len(outbox) \in Nat /\ Len(outbox) >= 1
      BY <1>2 DEF TypeOK
    <2>2. \A i \in 1 .. Len(outbox') : i + 1 \in 1 .. Len(outbox) /\ outbox'[i] = outbox[i + 1]
      BY <1>2, <2>1
    <2>3. 1 \in 1 .. Len(outbox) /\ (mes_ack' = mes_ack \/ mes_ack' = outbox[1].mes)
      BY <1>2, <2>1 DEF CallBack
    <2>4. QED BY <2>2, <2>3
  <1>3. QED BY <1>1, <1>2 DEF IpcInterrupts

(* The chip copies requests into its inbox and into its answers; a            *)
(* notification has no message; the link drops and doubles.                   *)
LEMMA ChipMessages ==
  ASSUME TypeOK, Chip
  PROVE  /\ wire' \in { NoMessage, wire }
         /\ \A i \in 1 .. Len(inbox') :
              inbox'[i] = wire \/ \E j \in 1 .. Len(inbox) : inbox'[i] = inbox[j]
         /\ \A i \in 1 .. Len(outbox') :
              \/ outbox'[i].mes = NoMessage
              \/ \E j \in 1 .. Len(inbox) : outbox'[i].mes = inbox[j]
              \/ \E j \in 1 .. Len(outbox) : outbox'[i] = outbox[j]
  <1>1. inbox \in Seq(Message) /\ outbox \in Seq(Packet) /\ Len(inbox) \in Nat /\ Len(outbox) \in Nat
    BY DEF TypeOK
  <1>2. CASE ChipReceives
    <2>1. inbox' = Append(inbox, wire) /\ wire' \in { NoMessage, wire } /\ UNCHANGED outbox
      BY <1>2 DEF ChipReceives
    <2>2. \A i \in 1 .. Len(inbox') : inbox'[i] = wire \/ (i \in 1 .. Len(inbox) /\ inbox'[i] = inbox[i])
      BY <1>1, <2>1
    <2>3. QED BY <2>1, <2>2
  <1>3. CASE ChipResponds
    <2>1. /\ inbox # << >> /\ inbox' = Tail(inbox) /\ UNCHANGED wire
          /\ outbox' = Append(outbox, Response(Head(inbox)))
      BY <1>3 DEF ChipResponds
    <2>2. \A i \in 1 .. Len(inbox') : i + 1 \in 1 .. Len(inbox) /\ inbox'[i] = inbox[i + 1]
      BY <1>1, <2>1
    <2>3. 1 \in 1 .. Len(inbox) /\ Response(Head(inbox)).mes = inbox[1]
      BY <1>1, <2>1 DEF Response
    <2>4. \A i \in 1 .. Len(outbox') :
            \/ outbox'[i] = Response(Head(inbox))
            \/ i \in 1 .. Len(outbox) /\ outbox'[i] = outbox[i]
      BY <1>1, <2>1
    <2>5. QED BY <2>1, <2>2, <2>3, <2>4
  <1>4. CASE ChipNotifies
    <2>1. /\ UNCHANGED << wire, inbox >>
          /\ \E f \in SUBSET Flag : outbox' = Append(outbox, Notify(f))
      BY <1>4 DEF ChipNotifies
    <2>2. \A i \in 1 .. Len(outbox') :
            outbox'[i].mes = NoMessage \/ (i \in 1 .. Len(outbox) /\ outbox'[i] = outbox[i])
      BY <1>1, <2>1 DEF Notify
    <2>3. QED BY <2>1, <2>2
  <1>5. CASE LinkLoses \/ LinkRepeats
    <2>1. /\ outbox # << >> /\ UNCHANGED << wire, inbox >>
          /\ outbox' \in { Tail(outbox), << Head(outbox) >> \o outbox }
      BY <1>5 DEF LinkLoses, LinkRepeats
    <2>2. CASE outbox' = Tail(outbox)
      <3>1. \A i \in 1 .. Len(outbox') : i + 1 \in 1 .. Len(outbox) /\ outbox'[i] = outbox[i + 1]
        BY <1>1, <2>1, <2>2
      <3>2. QED BY <2>1, <3>1
    <2>3. CASE outbox' = << Head(outbox) >> \o outbox
      <3>1. Len(outbox') = Len(outbox) + 1 /\ outbox'[1] = outbox[1] /\ 1 \in 1 .. Len(outbox)
        BY <1>1, <2>1, <2>3
      <3>2. \A i \in 2 .. Len(outbox') : i - 1 \in 1 .. Len(outbox) /\ outbox'[i] = outbox[i - 1]
        BY <1>1, <2>1, <2>3, <3>1
      <3>3. \A i \in 1 .. Len(outbox') : i = 1 \/ i \in 2 .. Len(outbox')
        BY <1>1, <3>1
      <3>4. QED BY <2>1, <3>1, <3>2, <3>3
    <2>4. QED BY <2>1, <2>2, <2>3
  <1>6. QED BY <1>2, <1>3, <1>4, <1>5 DEF Chip

(* The messages of OwnInv keep answering while the request stays the same and *)
(* none is made up.                                                           *)
LEMMA MessagesKept ==
  ASSUME OwnInv, MutexInv', UNCHANGED << tag_code, mes_req >>,
         wire' \in { NoMessage, wire, mes_req },
         mes_ack' = mes_ack \/ \E j \in 1 .. Len(outbox) : mes_ack' = outbox[j].mes,
         \A i \in 1 .. Len(inbox') :
           inbox'[i] = wire \/ \E j \in 1 .. Len(inbox) : inbox'[i] = inbox[j],
         \A i \in 1 .. Len(outbox') :
           \/ outbox'[i].mes = NoMessage
           \/ \E j \in 1 .. Len(inbox) : outbox'[i].mes = inbox[j]
           \/ \E j \in 1 .. Len(outbox) : outbox'[i] = outbox[j],
         (\A t \in Thread : Asks(t) /\ HasOp(t) /\ Hears(t) /\ Tells(t))'
  PROVE  OwnInv'
  <1>1. ASSUME NEW m, \/ m \in { NoMessage, wire, mes_req, mes_ack }
                      \/ \E j \in 1 .. Len(inbox) : m = inbox[j]
                      \/ \E j \in 1 .. Len(outbox) : m = outbox[j].mes
        PROVE  m.op # NoOp /\ m.tag = tag_code => m.id = mes_req.id
    BY <1>1 DEF OwnInv, Answers, NoMessage
  <1>2. (\A i \in 1 .. Len(inbox) : Answers(inbox[i]))'
    BY <1>1 DEF Answers
  <1>3. (\A i \in 1 .. Len(outbox) : Answers(outbox[i].mes))'
    <2>1. ASSUME NEW i \in 1 .. Len(outbox')
          PROVE  \/ outbox'[i].mes = NoMessage
                 \/ \E j \in 1 .. Len(inbox) : outbox'[i].mes = inbox[j]
                 \/ \E j \in 1 .. Len(outbox) : outbox'[i].mes = outbox[j].mes
      OBVIOUS
    <2>2. QED BY <1>1, <2>1 DEF Answers
  <1>4. Answers(wire)' /\ Answers(mes_ack)'
    BY <1>1 DEF Answers
  <1>5. QED BY <1>2, <1>3, <1>4 DEF OwnInv

(* A step by one thread, which the others, outside, do not notice.            *)
LEMMA OwnStep ==
  ASSUME ~SlowCalls, ~BootStatQuery, ~BadPars, TypeOK, OwnInv, [Next]_vars, [TagIsFresh]_vars
  PROVE  OwnInv'
  <1> DEFINE Knows(t) == Asks(t) /\ HasOp(t) /\ Hears(t) /\ Tells(t)
  <1>1. MutexInv'
    BY MutexStep DEF OwnInv
  <1>2. /\ pc \in [Thread -> Label] /\ MutexInv
        /\ \A t \in Thread : Asks(t) /\ HasOp(t) /\ Hears(t) /\ Tells(t)
        /\ DOMAIN mine = Thread /\ DOMAIN got = Thread /\ DOMAIN ret = Thread /\ DOMAIN op = Thread
    BY DEF OwnInv, TypeOK
  <1>3. \A t, u \in Thread : Inside(t) /\ u # t => pc[u] \notin { "init", "send", "wait", "end" }
    BY <1>2 DEF MutexInv, MutualExclusion, Inside
  <1>4. ASSUME UNCHANGED << tag_code, mes_req, wire, mes_ack, inbox, outbox >>,
               \A u \in Thread : Knows(u)'
        PROVE  OwnInv'
    BY <1>1, <1>4, MessagesKept
  <1>5. ASSUME NEW t \in Thread, NEW o \in OpCode, ApiCall(t, o) \/ NextRequest(t, o)
        PROVE  OwnInv'
    <2>1. /\ pc[t] \notin { "send", "wait", "end" } /\ \E l \in { "take", "init" } : GoTo(t, l)
          /\ op' = [op EXCEPT ![t] = o] /\ \E n : mine' = [mine EXCEPT ![t] = n]
          /\ o # NoOp /\ UNCHANGED << ret, got, mes_req, mes_ack >>
      BY <1>5, ApiAssumption DEF ApiCall, NextRequest, reqVars
    <2>2. \A u \in Thread : Knows(u)'
      BY <1>2, <2>1 DEF GoTo, Asks, HasOp, Hears, Tells
    <2>3. QED BY <1>4, <1>5, <2>2 DEF ApiCall, NextRequest, reqVars, linkVars
  <1>6. ASSUME NEW t \in Thread, ApiTake(t) \/ Responded(t)
        PROVE  OwnInv'
    <2>1. \A u \in Thread : Knows(u)'
      BY <1>2, <1>6 DEF ApiTake, Responded, GoTo, Asks, HasOp, Hears, Tells, reqVars, callVars
    <2>2. QED BY <1>4, <1>6, <2>1 DEF ApiTake, Responded, reqVars, linkVars
  <1>7. ASSUME NEW t \in Thread, RequestInit(t)
        PROVE  OwnInv'
    <2>1. /\ Inside(t) /\ pc[t] = "init" /\ GoTo(t, "send")
          /\ tag_code' = NextTag /\ UNCHANGED << op, mine, ret, got, inbox, outbox >>
          /\ mes_req'.id = mine[t] /\ wire' = NoMessage /\ mes_ack' = NoMessage
      BY <1>7 DEF RequestInit, Inside, callVars
    <2>2. \A u \in Thread : Knows(u)'
      BY <1>2, <1>3, <2>1 DEF GoTo, Asks, HasOp, Hears, Tells
    <2>3. TagIsFresh
      <3>1. pc' # pc
        BY <1>2, <2>1 DEF GoTo
      <3>2. QED BY <3>1 DEF vars, apiVars
    <2>4. /\ \A i \in 1 .. Len(inbox) : IsOld(inbox[i])
          /\ \A i \in 1 .. Len(outbox) : IsOld(outbox[i].mes)
      BY <1>7, <2>3 DEF TagIsFresh
    <2>5. /\ (\A i \in 1 .. Len(inbox) : Answers(inbox[i]))'
          /\ (\A i \in 1 .. Len(outbox) : Answers(outbox[i].mes))'
          /\ Answers(wire)' /\ Answers(mes_ack)'
      BY <2>1, <2>4 DEF Answers, IsOld, NoMessage
    <2>6. QED BY <1>1, <2>2, <2>5 DEF OwnInv
  <1>8. ASSUME NEW t \in Thread, RequestSend(t)
        PROVE  OwnInv'
    <2>1. \A u \in Thread : Knows(u)'
      BY <1>2, <1>8 DEF RequestSend, GoTo, Asks, HasOp, Hears, Tells, reqVars, callVars
    <2>2. QED BY <1>1, <1>8, <2>1, MessagesKept DEF RequestSend, reqVars
  <1>9. ASSUME NEW t \in Thread, Poll(t) \/ PollTimesOut(t) \/ HandleIpc(t)
        PROVE  OwnInv'
    <2>1. /\ IpcInterrupts /\ Inside(t) /\ pc[t] # "end"
          /\ UNCHANGED << op, tag_code, mes_req, wire, inbox, mine, got >>
          /\ \/ pc[t] = "handle" /\ GoTo(t, "merge") /\ UNCHANGED ret
             \/ pc[t] = "wait" /\ UNCHANGED << pc, ret >>
             \/ pc[t] = "wait" /\ GoTo(t, "end") /\ ret' = [ret EXCEPT ![t] = "NO_RESPONSE"]
      BY <1>9 DEF Poll, PollTimesOut, HandleIpc, Waits, Inside, apiVars, callVars
    <2>2. \A u \in Thread : Knows(u)'
      BY <1>2, <1>3, <2>1 DEF GoTo, Asks, HasOp, Hears, Tells
    <2>3. QED BY <1>1, <2>1, <2>2, ReceivedMessages, MessagesKept
  <1>10. ASSUME NEW t \in Thread, EndWait(t)
         PROVE  OwnInv'
    <2>1. /\ pc[t] = "end" /\ GoTo(t, "give") /\ wire' \in { NoMessage, wire }
          /\ UNCHANGED << op, tag_code, mes_req, mes_ack, inbox, outbox, mine >>
      BY <1>10 DEF EndWait, reqVars
    <2>2. ret[t] = "SUCCESS" /\ TagMatches(mes_ack) => mes_ack.id = mine[t]
      BY <1>2, <2>1 DEF OwnInv, Asks, Hears, Answers, TagMatches
    <2>3. /\ \A u \in Thread \ {t} : pc'[u] = pc[u] /\ ret'[u] = ret[u] /\ got'[u] = got[u]
          /\ pc'[t] = "give" /\ (ret'[t] = "SUCCESS" => got'[t] = mine[t])
      BY <1>2, <1>10, <2>1, <2>2 DEF EndWait, GoTo
    <2>4. \A u \in Thread : Knows(u)'
      BY <1>2, <2>1, <2>3 DEF Asks, HasOp, Hears, Tells
    <2>5. QED BY <1>1, <2>1, <2>4, MessagesKept
  <1>11. ASSUME NEW t \in Thread,
                \/ Give(t) \/ HandleTake(t) \/ MergeFlags(t) \/ ClearUser(t)
                \/ PickFlags(t) \/ Report(t)
         PROVE  OwnInv'
    <2>1. /\ pc[t] \notin { "take", "init", "send", "wait", "end" }
          /\ \E l \in Label \ { "take", "init", "send", "wait", "end" } : GoTo(t, l)
          /\ UNCHANGED << op, ret, reqVars, linkVars, callVars >>
      BY <1>11 DEF Give, HandleTake, MergeFlags, ClearUser, PickFlags, Report, Label
    <2>2. \A u \in Thread : Knows(u)'
      BY <1>2, <2>1 DEF GoTo, Asks, HasOp, Hears, Tells, reqVars, callVars
    <2>3. QED BY <1>4, <2>1, <2>2 DEF reqVars, linkVars
  <1>12. ASSUME UNCHANGED << pc, op, ret, mes_req, mes_ack, mine, got >>
         PROVE  \A u \in Thread : Knows(u)'
    BY <1>2, <1>12 DEF Asks, HasOp, Hears, Tells
  <1>13. CASE Chip
    <2>1. UNCHANGED << pc, op, ret, tag_code, mes_req, mes_ack, mine, got >>
      BY <1>13 DEF Chip, ChipReceives, ChipResponds, ChipNotifies, LinkLoses, LinkRepeats,
                   apiVars, reqVars, callVars
    <2>2. QED BY <1>1, <1>12, <1>13, <2>1, ChipMessages, MessagesKept
  <1>14. CASE UNCHANGED vars
    BY <1>4, <1>12, <1>14 DEF vars, apiVars, reqVars, linkVars, callVars
  <1>15. \A t \in Thread : ~HandleTakeExpires(t) /\ ~BootStat(t) /\ ~ParError(t)
    BY <1>2 DEF HandleTakeExpires, TakeExpires, BootStat, ParError, MutexInv
  <1>16. QED BY <1>5, <1>6, <1>7, <1>8, <1>9, <1>10, <1>11, <1>13, <1>14, <1>15 DEF Next, Api, Handle

LEMMA OwnInit == Init => OwnInv
  <1> SUFFICES ASSUME Init PROVE OwnInv
    OBVIOUS
  <1>1. MutexInv
    BY DEF Init, MutexInv, MutualExclusion, Inside
  <1>2. \A t \in Thread : Asks(t) /\ HasOp(t) /\ Hears(t) /\ Tells(t)
    BY DEF Init, Asks, HasOp, Hears, Tells
  <1>3. QED BY <1>1, <1>2 DEF Init, OwnInv, Answers, NoMessage

(* A call that succeeds returns the answer to its own request, however late,  *)
(* lost or repeated answers are and however often the tag codes come around,  *)
(* as long as none is given out that is still on a message under way.         *)
THEOREM SuccessIsOwnAnswer ==
  ASSUME ~SlowCalls, ~BootStatQuery, ~BadPars
  PROVE  Spec /\ [][TagIsFresh]_vars => []ResponseIsOwn
  <1>1. TypeOK /\ OwnInv /\ [Next]_vars /\ [TagIsFresh]_vars => OwnInv'
    BY OwnStep
  <1>2. OwnInv => ResponseIsOwn
    BY DEF OwnInv, Tells, ResponseIsOwn
  <1>3. QED BY OwnInit, <1>1, <1>2, ApiTypes, PTL DEF Spec

-----------------------------------------------------------------------------
(* With fewer calls than tag codes every one is fresh                        *)

(* A thread that gets a tag code, or returns before it, is no longer pending; *)
(* one that starts a call, or its next request, is.                           *)
LEMMA PendingLeaves ==
  ASSUME pc \in [Thread -> Label], IsFiniteSet(Pending), NEW t \in Thread, t \in Pending,
         NEW l \in Label \ { "take", "init" }, GoTo(t, l)
  PROVE  IsFiniteSet(Pending)' /\ Cardinality(Pending)' = Cardinality(Pending) - 1
  <1>1. Pending' = Pending \ {t}
    BY DEF Pending, GoTo
  <1>2. QED BY <1>1, FS_RemoveElement

LEMMA PendingJoins ==
  ASSUME pc \in [Thread -> Label], IsFiniteSet(Pending), NEW t \in Thread, t \notin Pending,
         NEW l \in { "take", "init" }, GoTo(t, l)
  PROVE  IsFiniteSet(Pending)' /\ Cardinality(Pending)' = Cardinality(Pending) + 1
  <1>1. Pending' = Pending \cup {t}
    BY DEF Pending, GoTo
  <1>2. QED BY <1>1, FS_AddElement

(* A step that moves t to l neither into nor out of the pending calls.        *)
LEMMA PendingStays ==
  ASSUME pc \in [Thread -> Label], NEW t \in Thread, NEW l \in Label, GoTo(t, l),
         pc[t] \in { "take", "init" } <=> l \in { "take", "init" }
  PROVE  Pending' = Pending
BY DEF Pending, GoTo

(* A remainder below the modulus.                                            *)
LEMMA SmallRemainder ==
  ASSUME NEW m \in Nat, NEW n \in Nat, n < m
  PROVE  n % m = n
OBVIOUS

LEMMA CountStep ==
  ASSUME ~SlowCalls, ~BootStatQuery, ~BadPars, MaxCalls < TagMod, TypeOK, CountInv, [Next]_vars
  PROVE  CountInv' /\ [TagIsFresh]_vars
  <1> DEFINE Counted == IsFiniteSet(Pending) /\ tag_code + Cardinality(Pending) <= calls
             Given(m) == m.tag <= tag_code
             Messages == /\ Given(mes_req) /\ Given(wire)
                         /\ \A i \in 1 .. Len(inbox) : Given(inbox[i])
                         /\ \A i \in 1 .. Len(outbox) : Given(outbox[i].mes)
  <1>1. MutexInv'
    BY MutexStep DEF CountInv
  <1>2. /\ pc \in [Thread -> Label] /\ MutexInv /\ Counted /\ Messages
        /\ tag_code \in Nat /\ calls \in Nat /\ calls <= MaxCalls /\ Cardinality(Pending) \in Nat
    <2>1. Cardinality(Pending) \in Nat
      BY FS_CardinalityType DEF CountInv
    <2>2. tag_code \in Nat /\ calls \in Nat /\ calls <= MaxCalls /\ pc \in [Thread -> Label]
      BY ApiAssumption DEF TypeOK
    <2>3. MutexInv /\ Counted /\ Messages
      BY DEF CountInv
    <2>4. QED BY <2>1, <2>2, <2>3
  <1>3. ASSUME NEW t \in Thread, RequestInit(t)
        PROVE  NextTag = tag_code + 1 /\ Counted'
    <2>1. /\ t \in Pending /\ GoTo(t, "send") /\ "send" \in Label \ { "take", "init" }
          /\ tag_code' = NextTag /\ calls' = calls
      BY <1>3 DEF RequestInit, Pending, Label, callVars
    <2>2. IsFiniteSet(Pending)' /\ Cardinality(Pending)' = Cardinality(Pending) - 1
      BY <1>2, <2>1, PendingLeaves
    <2>3. Cardinality(Pending) >= 1
      BY <1>2, <2>2, FS_CardinalityType
    <2>4. NextTag = tag_code + 1
      <3>1. tag_code + 1 \in Nat /\ tag_code + 1 < TagMod
        BY <1>2, <2>3, ApiAssumption
      <3>2. QED BY <3>1, SmallRemainder, ApiAssumption DEF NextTag
    <2>5. QED BY <1>2, <2>1, <2>2, <2>4
  <1>4. /\ \A i \in 1 .. Len(inbox) : inbox[i].tag \in Nat /\ inbox[i].tag <= tag_code
        /\ \A i \in 1 .. Len(outbox) : outbox[i].mes.tag \in Nat /\ outbox[i].mes.tag <= tag_code
    <2>1. \A i \in 1 .. Len(inbox) : inbox[i] \in Message
      BY DEF TypeOK
    <2>2. \A i \in 1 .. Len(outbox) : outbox[i].mes \in Message
      <3>1. \A i \in 1 .. Len(outbox) : outbox[i] \in Packet
        BY DEF TypeOK
      <3>2. QED BY <3>1 DEF Packet
    <2>3. \A m \in Message : m.tag \in Nat
      BY ApiAssumption DEF Message
    <2>4. QED BY <1>2, <2>1, <2>2, <2>3
  <1>5. [TagIsFresh]_vars
    <2>1. ASSUME NEW t \in Thread, RequestInit(t), NEW n \in Nat, n <= tag_code
          PROVE  n # NextTag
      BY <1>2, <1>3, <2>1
    <2>2. QED BY <1>4, <2>1 DEF TagIsFresh, IsOld
  <1>6. SUFFICES Counted' /\ Messages'
    BY <1>1, <1>5 DEF CountInv
  <1>7. 0 <= tag_code /\ NoMessage.tag = 0
    BY <1>2 DEF NoMessage
  <1> HIDE DEF Counted
  <1>8. ASSUME UNCHANGED << tag_code, mes_req >>, wire' \in { NoMessage, wire, mes_req },
               \A i \in 1 .. Len(inbox') :
                 inbox'[i] = wire \/ \E j \in 1 .. Len(inbox) : inbox'[i] = inbox[j],
               \A i \in 1 .. Len(outbox') :
                 \/ outbox'[i].mes = NoMessage
                 \/ \E j \in 1 .. Len(inbox) : outbox'[i].mes = inbox[j]
                 \/ \E j \in 1 .. Len(outbox) : outbox'[i] = outbox[j]
        PROVE  Messages'
    BY <1>2, <1>7, <1>8
  <1> HIDE DEF Messages
  <1>9. ASSUME NEW t \in Thread, NEW o \in OpCode, ApiCall(t, o) \/ NextRequest(t, o)
        PROVE  Counted' /\ Messages'
    <2>1. t \notin Pending /\ \E l \in { "take", "init" } : GoTo(t, l)
      BY <1>9 DEF ApiCall, NextRequest, Pending
    <2>2. Counted'
      BY <1>2, <1>9, <2>1, PendingJoins DEF Counted, ApiCall, NextRequest, reqVars
    <2>3. QED BY <1>8, <1>9, <2>2 DEF ApiCall, NextRequest, reqVars, linkVars
  <1>10. ASSUME UNCHANGED << tag_code, calls >>, Pending' = Pending
         PROVE  Counted'
    BY <1>2, <1>10 DEF Counted
  <1>11. ASSUME NEW t \in Thread,
                \/ ApiTake(t) \/ Responded(t) \/ RequestSend(t) \/ EndWait(t)
                \/ Give(t) \/ HandleTake(t) \/ MergeFlags(t) \/ ClearUser(t)
                \/ PickFlags(t) \/ Report(t)
         PROVE  Counted' /\ Messages'
    <2>1. Pending' = Pending
      BY <1>2, <1>11 DEF ApiTake, Responded, RequestSend, EndWait, Give, HandleTake, MergeFlags,
                         ClearUser, PickFlags, Report, Pending, GoTo
    <2>2. /\ UNCHANGED << tag_code, mes_req, calls, inbox, outbox >>
          /\ wire' \in { NoMessage, wire, mes_req }
      BY <1>11 DEF ApiTake, Responded, RequestSend, EndWait, Give, HandleTake, MergeFlags,
                   ClearUser, PickFlags, Report, reqVars, linkVars, callVars
    <2>3. QED BY <1>8, <1>10, <2>1, <2>2
  <1>12. ASSUME NEW t \in Thread, RequestInit(t)
         PROVE  Counted' /\ Messages'
    <2>1. /\ tag_code' = tag_code + 1 /\ wire' = NoMessage /\ mes_req'.tag = tag_code + 1
          /\ UNCHANGED << inbox, outbox >>
      BY <1>3, <1>12 DEF RequestInit
    <2>2. Given(mes_req)' /\ Given(wire)'
      BY <1>2, <1>7, <2>1
    <2>3. \A n \in Nat : n <= tag_code => n <= tag_code'
      BY <1>2, <2>1
    <2>4. Messages'
      BY <1>4, <2>1, <2>2, <2>3 DEF Messages
    <2>5. QED BY <1>3, <1>12, <2>4
  <1>13. ASSUME NEW t \in Thread, Poll(t) \/ PollTimesOut(t) \/ HandleIpc(t)
         PROVE  Counted' /\ Messages'
    <2>1. /\ IpcInterrupts /\ UNCHANGED << tag_code, mes_req, wire, inbox, calls >>
          /\ Pending' = Pending
      BY <1>2, <1>13 DEF Poll, PollTimesOut, HandleIpc, Waits, Pending, GoTo, apiVars, callVars
    <2>2. QED BY <1>8, <1>10, <2>1, ReceivedMessages
  <1>14. CASE Chip
    <2>1. UNCHANGED << pc, tag_code, mes_req, calls >>
      BY <1>14 DEF Chip, ChipReceives, ChipResponds, ChipNotifies, LinkLoses, LinkRepeats,
                   apiVars, reqVars, callVars
    <2>2. QED BY <1>8, <1>10, <1>14, <2>1, ChipMessages DEF Pending
  <1>15. CASE UNCHANGED vars
    <2>1. UNCHANGED << pc, tag_code, mes_req, wire, inbox, outbox, calls >>
      BY <1>15 DEF vars, apiVars, reqVars, linkVars, callVars
    <2>2. QED BY <1>8, <1>10, <2>1 DEF Pending
  <1>16. \A t \in Thread : ~HandleTakeExpires(t) /\ ~BootStat(t) /\ ~ParError(t)
    BY <1>2 DEF HandleTakeExpires, TakeExpires, BootStat, ParError, MutexInv
  <1>17. QED BY <1>9, <1>11, <1>12, <1>13, <1>14, <1>15, <1>16 DEF Next, Api, Handle

LEMMA CountInit == Init => CountInv
  <1> SUFFICES ASSUME Init PROVE CountInv
    OBVIOUS
  <1>1. Pending = {}
    BY DEF Init, Pending
  <1>2. IsFiniteSet(Pending) /\ Cardinality(Pending) = 0
    BY <1>1, FS_EmptySet
  <1>3. MutexInv
    BY DEF Init, MutexInv, MutualExclusion, Inside
  <1>4. QED BY <1>2, <1>3 DEF Init, CountInv, NoMessage

(* While there are fewer calls than tag codes, every new code is fresh and so *)
(* every success is the answer to its own call, with nothing assumed of steps. *)
THEOREM FewCallsAreFresh ==
  ASSUME ~SlowCalls, ~BootStatQuery, ~BadPars, MaxCalls < TagMod
  PROVE  Spec => [][TagIsFresh]_vars /\ []ResponseIsOwn
  <1>1. TypeOK /\ CountInv /\ [Next]_vars => CountInv' /\ [TagIsFresh]_vars
    BY CountStep
  <1>2. Spec => [][TagIsFresh]_vars
    BY CountInit, <1>1, ApiTypes, PTL DEF Spec
  <1>3. QED BY <1>2, SuccessIsOwnAnswer, PTL
=============================================================================
