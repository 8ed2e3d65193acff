------------------------------- MODULE OmxDec -------------------------------
(***************************************************************************)
(* The OpenMAX decoder sample, src/omxvdec/sample_omxvdec.c, from the      *)
(* moment Play_Decoder has handed every buffer to the component.  Four     *)
(* threads share one OmxTestInfo_S:                                        *)
(*   "M"  main: loop_function, process_current_command, the clean-up       *)
(*   "E"  ebd_thread: fills empty input buffers and hands them over        *)
(*   "F"  fbd_thread: hands output buffers over, reconfigures the port     *)
(*   "C"  the thread of the component that calls EventHandler,             *)
(*        EmptyBufferDone and FillBufferDone                               *)
(* The component is not in the repository: it is modelled from the calls   *)
(* and the call-backs.  E serves the "in" port and F the "out" port; sem,  *)
(* queue, flushing, flushSem and running hold both members of each pair    *)
(* (etb_sem and ftb_sem, ...).  A critical section that does one thing is  *)
(* one step; status_lock and ftb_lock are held over several steps and are  *)
(* told from the place where their holder is.                              *)
(***************************************************************************)
EXTENDS Naturals, Sequences, FiniteSets

CONSTANTS InBufs,        \* headers of the input port
          OutBufs,       \* headers of the output port
          NoBuf,         \* no header
          Commands,      \* the commands the user may type
          MaxCommands,   \* bound: commands typed
          MaxReconfigs,  \* bound: changes of the port settings
          MaxErrors      \* bound: errors the component reports

Bufs == InBufs \cup OutBufs
Ports == {"in", "out"}
Threads == {"M", "E", "F", "C"}
BufsOf(p) == IF p = "in" THEN InBufs ELSE OutBufs

ASSUME BufsAssumption == /\ InBufs \cap OutBufs = {}
                         /\ NoBuf \notin Bufs
                         /\ IsFiniteSet(Bufs)
ASSUME UserAssumption ==
    Commands \subseteq {"state", "seek", "flush", "flush_in", "flush_out", "quit"}
ASSUME BoundAssumption == /\ MaxCommands \in Nat
                          /\ MaxReconfigs \in Nat
                          /\ MaxErrors \in Nat

VARIABLES pc,            \* where each thread is
          held,          \* the buffer E, F or C has in hand
          todo,          \* the buffers M or F still has to hand over in a loop
          currentStatus, preStatus,
          seeking,       \* seeking_progress
          exiting,       \* ebd_thread_exit and fbd_thread_exit
          eos,           \* bInputEosReached
          sentDisabled,  \* sent_disabled
          running,       \* EtbStatus, FtbStatus = THREAD_RUNNING
          flushing,      \* flush_input_progress, flush_output_progress
          queue,         \* etb_queue, ftb_queue
          sem,           \* etb_sem, ftb_sem
          flushSem,      \* in_flush_sem, out_flush_sem
          seekSem,       \* seek_sem
          eventDone, lastCmd,
          comp,          \* how often the component has been given each buffer
          allocated,     \* the headers that exist
          pending,       \* the commands sent to the component, oldest first
          omxState,      \* the state of the component
          commands, reconfigs, errors

appVars == <<currentStatus, preStatus, seeking, exiting, eos, sentDisabled>>
queueVars == <<queue, sem>>
flushVars == <<flushing, flushSem, seekSem>>
eventVars == <<eventDone, lastCmd>>
compVars == <<comp, allocated, pending, omxState>>
boundVars == <<commands, reconfigs, errors>>
vars == <<pc, held, todo, appVars, running, queueVars, flushVars, eventVars,
          compVars, boundVars>>

-----------------------------------------------------------------------------
(* The pieces the threads are made of. *)

Goto(t, l) == pc' = [pc EXCEPT ![t] = l]
At(t, l) == pc[t] = l

WaitForAny(cmd) == eventDone /\ eventDone' = FALSE /\ UNCHANGED lastCmd \* mutant

\* wait_for_event: until an event of this command or an error, and take it.
WaitForEvent(cmd) == /\ eventDone
                     /\ lastCmd \in {cmd, "Error"}
                     /\ eventDone' = FALSE
                     /\ UNCHANGED lastCmd

\* event_complete: one flag and the last command, whoever waits.
EventComplete(cmd) == eventDone' = TRUE /\ lastCmd' = cmd

\* C holds ftb_lock from its look at sent_disabled to the push or the free;
\* F holds status_lock for the whole of output_port_reconfig.
FtbLockIgnored == TRUE                                           \* mutant
FtbLockFree == pc["C"] \notin {"ftb_push", "ftb_free"}
Reconfiguring == pc["F"] \in {"disable", "drain", "wait_disable", "enable",
                              "wait_enable", "refill"}

\* OMX_EmptyThisBuffer, OMX_FillThisBuffer: a component that is neither
\* executing nor paused refuses the buffer.
Give(b) == comp' = IF omxState \in {"Executing", "Pause"}
                   THEN [comp EXCEPT ![b] = @ + 1] ELSE comp

\* OMX_SendCommand; the component carries out commands in the order sent.
Send(c) == pending' = Append(pending, c)
Asked(c) == pending # <<>> /\ Head(pending) = c

\* pop of sample_queue.c: a queue of one element becomes empty.
PoppedAllButLast(q) == IF Len(q) = 1 THEN q ELSE Tail(q)          \* mutant
Popped(q) == Tail(q)

-----------------------------------------------------------------------------
(* ebd_thread and fbd_thread: what the two loops have in common. *)

PortOf(t) == IF t = "E" THEN "in" ELSE "out"

TopStaysRunning(t) ==                                             \* mutant
    /\ At(t, "top")
    /\ Goto(t, IF currentStatus = "ERROR" THEN "exit"
               ELSE IF flushing[PortOf(t)] THEN "flush_wait" ELSE "wait")
    /\ UNCHANGED <<held, todo, appVars, running, queueVars, flushVars,
                   eventVars, compVars, boundVars>>

\* The top of the loop: the status, WAITING, then the look at the flush flag.
Top(t) ==
    /\ At(t, "top")
    /\ running' = [running EXCEPT ![PortOf(t)] = FALSE]
    /\ Goto(t, IF currentStatus = "ERROR" THEN "exit"
               ELSE IF flushing[PortOf(t)] THEN "flush_wait" ELSE "wait")
    /\ UNCHANGED <<held, todo, appVars, queueVars, flushVars, eventVars,
                   compVars, boundVars>>

FlushWait(t) ==
    /\ At(t, "flush_wait")
    /\ flushSem[PortOf(t)] > 0
    /\ flushSem' = [flushSem EXCEPT ![PortOf(t)] = @ - 1]
    /\ Goto(t, "wait")
    /\ UNCHANGED <<held, todo, appVars, running, queueVars, flushing, seekSem,
                   eventVars, compVars, boundVars>>

SemWait(t) ==
    /\ At(t, "wait")
    /\ sem[PortOf(t)] > 0
    /\ sem' = [sem EXCEPT ![PortOf(t)] = @ - 1]
    /\ Goto(t, IF t = "E" THEN "seek_check" ELSE "exit_check")
    /\ UNCHANGED <<held, todo, appVars, running, queue, flushVars, eventVars,
                   compVars, boundVars>>

\* The head of the queue, under its lock; back to the top when it is empty.
PopBuffer(t) ==
    LET p == PortOf(t) IN
    /\ At(t, "pop")
    /\ p = "out" => FtbLockFree
    /\ IF queue[p] = <<>>
       THEN /\ Goto(t, "top")
            /\ UNCHANGED <<held, queue>>
       ELSE /\ Goto(t, "popped")
            /\ held' = [held EXCEPT ![t] = Head(queue[p])]
            /\ queue' = [queue EXCEPT ![p] = Popped(@)]
    /\ UNCHANGED <<todo, appVars, running, sem, flushVars, eventVars,
                   compVars, boundVars>>

\* The status says RUNNING only after the buffer has left the queue.
SetRunning(t) ==
    /\ At(t, "popped")
    /\ running' = [running EXCEPT ![PortOf(t)] = TRUE]
    /\ Goto(t, "check")
    /\ UNCHANGED <<held, todo, appVars, queueVars, flushVars, eventVars,
                   compVars, boundVars>>

HandOver(t) ==
    /\ At(t, "give")
    /\ Give(held[t])
    /\ held' = [held EXCEPT ![t] = NoBuf]
    /\ Goto(t, "top")
    /\ UNCHANGED <<todo, appVars, running, queueVars, flushVars, eventVars,
                   allocated, pending, omxState, boundVars>>

-----------------------------------------------------------------------------
(* ebd_thread *)

SeekCheckSkips ==                                                 \* mutant
    /\ At("E", "seek_check")
    /\ Goto("E", IF seeking THEN "top" ELSE "exit_check")
    /\ UNCHANGED <<held, todo, appVars, running, queueVars, flushVars,
                   eventVars, compVars, boundVars>>

SeekCheck ==
    /\ At("E", "seek_check")
    /\ Goto("E", IF seeking THEN "seek_wait" ELSE "exit_check")
    /\ UNCHANGED <<held, todo, appVars, running, queueVars, flushVars,
                   eventVars, compVars, boundVars>>

SeekWait ==
    /\ At("E", "seek_wait")
    /\ seekSem > 0
    /\ seekSem' = seekSem - 1
    /\ Goto("E", "exit_check")
    /\ UNCHANGED <<held, todo, appVars, running, queueVars, flushing,
                   flushSem, eventVars, compVars, boundVars>>

EbdExitCheck ==
    /\ At("E", "exit_check")
    /\ Goto("E", IF exiting THEN "exit" ELSE IF eos THEN "top" ELSE "pop")
    /\ UNCHANGED <<held, todo, appVars, running, queueVars, flushVars,
                   eventVars, compVars, boundVars>>

\* Read_Buffer_from_EsRawStream, then the flags: a seek or a flush that came
\* meanwhile drops the buffer.
ReadBuffer ==
    /\ At("E", "check")
    /\ IF seeking \/ flushing["in"] \/ exiting
       THEN /\ held' = [held EXCEPT !["E"] = NoBuf]
            /\ IF seeking \/ flushing["in"]
               THEN Goto("E", "top") /\ UNCHANGED running
               ELSE Goto("E", "exit") /\ running' = [running EXCEPT !["in"] = FALSE]
            /\ UNCHANGED eos
       ELSE /\ \E last \in BOOLEAN : eos' = (eos \/ last)
            /\ Goto("E", "give")
            /\ UNCHANGED <<held, running>>
    /\ UNCHANGED <<todo, currentStatus, preStatus, seeking, exiting,
                   sentDisabled, queueVars, flushVars, eventVars, compVars,
                   boundVars>>

EbdThread == \/ Top("E") \/ FlushWait("E") \/ SemWait("E")
             \/ SeekCheck \/ SeekWait \/ EbdExitCheck \/ PopBuffer("E")
             \/ SetRunning("E") \/ ReadBuffer \/ HandOver("E")

-----------------------------------------------------------------------------
(* fbd_thread *)

SemTimeout ==
    /\ At("F", "wait")
    /\ sem["out"] = 0
    /\ Goto("F", "top")
    /\ UNCHANGED <<held, todo, appVars, running, queueVars, flushVars,
                   eventVars, compVars, boundVars>>

\* The two looks at fbd_thread_exit, before and after status_lock.
FbdExitCheck ==
    \E l \in {"exit_check", "exit_check2"} :
        /\ At("F", l)
        /\ Goto("F", IF exiting THEN "exit"
                     ELSE IF l = "exit_check" THEN "status" ELSE "pop")
        /\ UNCHANGED <<held, todo, appVars, running, queueVars, flushVars,
                       eventVars, compVars, boundVars>>

\* With status_lock: kept for the reconfiguration, or given back at once.
StatusCheck ==
    /\ At("F", "status")
    /\ IF currentStatus = "PORT_SETTING_CHANGE"
       THEN /\ currentStatus' = "RECONFIG"
            /\ Goto("F", "disable")
       ELSE /\ Goto("F", "exit_check2")
            /\ UNCHANGED currentStatus
    /\ UNCHANGED <<held, todo, preStatus, seeking, exiting, eos, sentDisabled,
                   running, queueVars, flushVars, eventVars, compVars,
                   boundVars>>

\* disable_output_port
DisablePort ==
    /\ At("F", "disable")
    /\ sentDisabled' = TRUE
    /\ Send("PortDisable")
    /\ Goto("F", "drain")
    /\ UNCHANGED <<held, todo, currentStatus, preStatus, seeking, exiting, eos,
                   running, queueVars, flushVars, eventVars, comp, allocated,
                   omxState, boundVars>>

DrainPort ==
    /\ At("F", "drain")
    /\ FtbLockFree
    /\ IF queue["out"] = <<>>
       THEN /\ Goto("F", "wait_disable")
            /\ UNCHANGED <<queue, allocated>>
       ELSE /\ allocated' = allocated \ {Head(queue["out"])}
            /\ queue' = [queue EXCEPT !["out"] = Popped(@)]
            /\ UNCHANGED pc
    /\ UNCHANGED <<held, todo, appVars, running, sem, flushVars, eventVars,
                   comp, pending, omxState, boundVars>>

PortDisabled ==
    /\ At("F", "wait_disable")
    /\ WaitForEvent("PortDisable")
    /\ Goto("F", "enable")
    /\ UNCHANGED <<held, todo, appVars, running, queueVars, flushVars,
                   compVars, boundVars>>

\* enable_output_port: a clean-up that has begun is not waited for.
EnablePort ==
    /\ At("F", "enable")
    /\ Send("PortEnable")
    /\ allocated' = allocated \cup OutBufs
    /\ IF exiting
       THEN /\ currentStatus' = preStatus
            /\ Goto("F", "exit_check2")
       ELSE /\ Goto("F", "wait_enable")
            /\ UNCHANGED currentStatus
    /\ UNCHANGED <<held, todo, preStatus, seeking, exiting, eos, sentDisabled,
                   running, queueVars, flushVars, eventVars, comp, omxState,
                   boundVars>>

\* Every header the port now has, used_op_buf_cnt of them.
Headers == OutBufs

PortEnabled ==
    /\ At("F", "wait_enable")
    /\ WaitForEvent("PortEnable")
    /\ todo' = [todo EXCEPT !["F"] = Headers]
    /\ Goto("F", "refill")
    /\ UNCHANGED <<held, appVars, running, queueVars, flushVars, compVars,
                   boundVars>>

Refill ==
    /\ At("F", "refill")
    /\ \E b \in todo["F"] : /\ Give(b)
                            /\ todo' = [todo EXCEPT !["F"] = @ \ {b}]
    /\ UNCHANGED <<pc, held, appVars, running, queueVars, flushVars, eventVars,
                   allocated, pending, omxState, boundVars>>

ReconfigDone ==
    /\ At("F", "refill")
    /\ todo["F"] = {}
    /\ currentStatus' = preStatus
    /\ Goto("F", "exit_check2")
    /\ UNCHANGED <<held, todo, preStatus, seeking, exiting, eos, sentDisabled,
                   running, queueVars, flushVars, eventVars, compVars,
                   boundVars>>

NotToSendFlushed == flushing["out"]                               \* mutant
NotToSend == flushing["out"] \/ seeking

\* After an output flush the buffer is not sent, nor while a seek is pending.
FillCheck ==
    /\ At("F", "check")
    /\ IF NotToSend
       THEN /\ held' = [held EXCEPT !["F"] = NoBuf]
            /\ Goto("F", "top")
       ELSE /\ Goto("F", "give")
            /\ UNCHANGED held
    /\ UNCHANGED <<todo, appVars, running, queueVars, flushVars, eventVars,
                   compVars, boundVars>>

FbdThread == \/ Top("F") \/ FlushWait("F") \/ SemWait("F")
             \/ SemTimeout \/ FbdExitCheck \/ StatusCheck \/ DisablePort
             \/ DrainPort \/ PortDisabled \/ EnablePort \/ PortEnabled
             \/ Refill \/ ReconfigDone \/ PopBuffer("F") \/ SetRunning("F")
             \/ FillCheck \/ HandOver("F")

-----------------------------------------------------------------------------
(* The main thread: process_current_command. *)

Types == /\ At("M", "idle")
         /\ commands < MaxCommands
         /\ commands' = commands + 1

\* A command is rejected while a change of the port settings waits for F.
Accepted == Types /\ currentStatus # "PORT_SETTING_CHANGE"

StateCommand ==
    /\ Accepted
    /\ "state" \in Commands
    /\ \E s \in {"Pause", "Executing"} : Send(s)
    /\ Goto("M", "wait_state")
    /\ UNCHANGED <<held, todo, appVars, running, queueVars, flushVars,
                   eventVars, comp, allocated, omxState, reconfigs, errors>>

\* OMX_CommandFlush of one port or of both, input first.
SendFlush(ports) ==
    pending' = pending \o (IF "in" \in ports THEN <<"FlushIn">> ELSE <<>>)
                       \o (IF "out" \in ports THEN <<"FlushOut">> ELSE <<>>)

\* f, f0 and f1: the flag of each port, then the command.
FlushCommand ==
    /\ Accepted
    /\ \E ports \in {Ports, {"in"}, {"out"}} :
        /\ CASE ports = Ports  -> "flush" \in Commands
             [] ports = {"in"} -> "flush_in" \in Commands
             [] OTHER          -> "flush_out" \in Commands
        /\ flushing' = [p \in Ports |-> flushing[p] \/ p \in ports]
        /\ SendFlush(ports)
    /\ Goto("M", "wait_flush")
    /\ UNCHANGED <<held, todo, appVars, running, queueVars, flushSem, seekSem,
                   eventVars, comp, allocated, omxState, reconfigs, errors>>

SeekCommand ==
    /\ Accepted
    /\ "seek" \in Commands
    /\ seeking' = TRUE
    /\ flushing' = [p \in Ports |-> TRUE]
    /\ SendFlush(Ports)
    /\ Goto("M", "wait_seek")
    /\ UNCHANGED <<held, todo, currentStatus, preStatus, exiting, eos,
                   sentDisabled, running, queueVars, flushSem, seekSem,
                   eventVars, comp, allocated, omxState, reconfigs, errors>>

CommandDone ==
    /\ \/ At("M", "wait_state") /\ WaitForEvent("StateSet") /\ Goto("M", "idle")
       \/ At("M", "wait_flush") /\ WaitForEvent("Flush") /\ Goto("M", "idle")
       \/ At("M", "wait_seek") /\ WaitForEvent("Flush") /\ Goto("M", "idle_in")
    /\ UNCHANGED <<held, todo, appVars, running, queueVars, flushVars,
                   compVars, boundVars>>

\* seek_progress: not before one look each finds E, then F, not RUNNING.
ThreadsIdle ==
    /\ \/ At("M", "idle_in") /\ ~running["in"] /\ Goto("M", "idle_out")
       \/ /\ At("M", "idle_out")
          /\ Goto("M", IF running["out"] THEN "idle_in" ELSE "drain_in")
    /\ UNCHANGED <<held, todo, appVars, running, queueVars, flushVars,
                   eventVars, compVars, boundVars>>

DrainQueues ==
    /\ \E p \in Ports :
        /\ At("M", IF p = "in" THEN "drain_in" ELSE "drain_out")
        /\ p = "out" => FtbLockFree
        /\ IF queue[p] = <<>>
           THEN /\ Goto("M", IF p = "in" THEN "drain_out" ELSE "rewind")
                /\ UNCHANGED queue
           ELSE /\ queue' = [queue EXCEPT ![p] = Popped(@)]
                /\ UNCHANGED pc
    /\ UNCHANGED <<held, todo, appVars, running, sem, flushVars, eventVars,
                   compVars, boundVars>>

Rewind ==
    /\ At("M", "rewind")
    /\ eos' = FALSE
    /\ todo' = [todo EXCEPT !["M"] = OutBufs]
    /\ Goto("M", "fill")
    /\ UNCHANGED <<held, currentStatus, preStatus, seeking, exiting,
                   sentDisabled, running, queueVars, flushVars, eventVars,
                   compVars, boundVars>>

FillAll ==
    /\ At("M", "fill")
    /\ \/ \E b \in todo["M"] : /\ Give(b)
                               /\ todo' = [todo EXCEPT !["M"] = @ \ {b}]
                               /\ UNCHANGED pc
       \/ /\ todo["M"] = {}
          /\ todo' = [todo EXCEPT !["M"] = InBufs]
          /\ Goto("M", "empty")
          /\ UNCHANGED comp
    /\ UNCHANGED <<held, appVars, running, queueVars, flushVars, eventVars,
                   allocated, pending, omxState, boundVars>>

\* Every input buffer, or as many as the stream fills.
EmptyAll ==
    /\ At("M", "empty")
    /\ \/ \E b \in todo["M"], last \in BOOLEAN :
            /\ Give(b)
            /\ todo' = [todo EXCEPT !["M"] = IF last THEN {} ELSE @ \ {b}]
            /\ eos' = (eos \/ last)
            /\ UNCHANGED pc
       \/ /\ todo["M"] = {}
          /\ Goto("M", "seek_done")
          /\ UNCHANGED <<comp, todo, eos>>
    /\ UNCHANGED <<held, currentStatus, preStatus, seeking, exiting,
                   sentDisabled, running, queueVars, flushVars, eventVars,
                   allocated, pending, omxState, boundVars>>

SeekDone ==
    /\ \/ /\ At("M", "seek_done")
          /\ seeking' = FALSE
          /\ Goto("M", "seek_post")
          /\ UNCHANGED seekSem
       \/ /\ At("M", "seek_post")
          /\ seekSem' = seekSem + 1
          /\ Goto("M", "idle")
          /\ UNCHANGED seeking
    /\ UNCHANGED <<held, todo, currentStatus, preStatus, exiting, eos,
                   sentDisabled, running, queueVars, flushing, flushSem,
                   eventVars, compVars, boundVars>>

-----------------------------------------------------------------------------
(* The main thread: do_freeHandle_and_clean_up. *)

\* One post for each thread, so that it comes to see the flag.
PostBoth == [p \in Ports |-> sem[p] + 1]

Quit ==
    /\ Types
    /\ "quit" \in Commands
    /\ exiting' = TRUE
    /\ sem' = PostBoth
    /\ Goto("M", "quit_flush")
    /\ UNCHANGED <<held, todo, currentStatus, preStatus, seeking, eos,
                   sentDisabled, running, queue, flushVars, eventVars,
                   compVars, reconfigs, errors>>

QuitFlush ==
    /\ At("M", "quit_flush")
    /\ flushing' = [p \in Ports |-> TRUE]
    /\ SendFlush(Ports)
    /\ Goto("M", "quit_flushed")
    /\ UNCHANGED <<held, todo, appVars, running, queueVars, flushSem, seekSem,
                   eventVars, comp, allocated, omxState, boundVars>>

QuitIdle ==
    /\ \/ /\ At("M", "quit_flushed")
          /\ WaitForEvent("Flush")
          /\ Goto("M", "quit_idle")
          /\ UNCHANGED pending
       \/ /\ At("M", "quit_idle")
          /\ currentStatus # "RECONFIG"
          /\ Send("Idle")
          /\ Goto("M", "quit_idled")
          /\ UNCHANGED eventVars
    /\ UNCHANGED <<held, todo, appVars, running, queueVars, flushVars, comp,
                   allocated, omxState, boundVars>>

\* The component is told to unload, and every header is freed meanwhile; if
\* an error ended the wait for Idle, none is.
QuitLoaded ==
    /\ \/ /\ At("M", "quit_idled")
          /\ WaitForEvent("StateSet")
          /\ Goto("M", IF omxState = "Idle" THEN "quit_load" ELSE "quit_free")
          /\ UNCHANGED <<pending, allocated>>
       \/ /\ At("M", "quit_load")
          /\ Send("Loaded")
          /\ allocated' = {}
          /\ Goto("M", "quit_loaded")
          /\ UNCHANGED eventVars
       \/ /\ At("M", "quit_loaded")
          /\ WaitForEvent("StateSet")
          /\ Goto("M", "quit_free")
          /\ UNCHANGED <<pending, allocated>>
    /\ UNCHANGED <<held, todo, appVars, running, queueVars, flushVars, comp,
                   omxState, boundVars>>

\* OMX_FreeHandle ends the component, then the queues are freed.
QuitFree ==
    /\ At("M", "quit_free")
    /\ At("C", "idle")
    /\ omxState' = "Invalid"
    /\ queue' = [p \in Ports |-> <<>>]
    /\ Goto("M", "quit_join")
    /\ UNCHANGED <<held, todo, appVars, running, sem, flushVars, eventVars,
                   comp, allocated, pending, boundVars>>

QuitJoin ==
    /\ At("M", "quit_join")
    /\ At("E", "exit")
    /\ At("F", "exit")
    /\ Goto("M", "end")
    /\ UNCHANGED <<held, todo, appVars, running, queueVars, flushVars,
                   eventVars, compVars, boundVars>>

MainThread == \/ StateCommand \/ FlushCommand \/ SeekCommand \/ CommandDone
              \/ ThreadsIdle \/ DrainQueues \/ Rewind \/ FillAll \/ EmptyAll
              \/ SeekDone \/ Quit \/ QuitFlush \/ QuitIdle \/ QuitLoaded
              \/ QuitFree \/ QuitJoin

-----------------------------------------------------------------------------
(* The component and its call-backs, one at a time. *)

Idle == At("C", "idle") /\ omxState # "Invalid"

\* The component gives buffers back when it works, and when a flush, a
\* disabled port or the way to Idle asks for them.
AskedFor(p) == \/ Asked("Idle")
               \/ p = "in" /\ Asked("FlushIn")
               \/ p = "out" /\ (Asked("FlushOut") \/ Asked("PortDisable"))
Returns(p) == omxState = "Executing" \/ AskedFor(p)

\* EmptyBufferDone: nothing is queued after the end of the stream, during a
\* seek or during an input flush.
EmptyBufferDone ==
    /\ Idle /\ Returns("in")
    /\ \E b \in InBufs :
        /\ comp[b] > 0
        /\ comp' = [comp EXCEPT ![b] = @ - 1]
        /\ IF eos \/ seeking \/ flushing["in"]
           THEN UNCHANGED <<pc, held>>
           ELSE /\ held' = [held EXCEPT !["C"] = b]
                /\ Goto("C", "etb_push")
    /\ UNCHANGED <<todo, appVars, running, queueVars, flushVars, eventVars,
                   allocated, pending, omxState, boundVars>>

\* The push is under etb_lock, the post is not.
EtbPush ==
    /\ \/ /\ At("C", "etb_push")
          /\ queue' = [queue EXCEPT !["in"] = Append(@, held["C"])]
          /\ held' = [held EXCEPT !["C"] = NoBuf]
          /\ Goto("C", "etb_post")
          /\ UNCHANGED sem
       \/ /\ At("C", "etb_post")
          /\ sem' = [sem EXCEPT !["in"] = @ + 1]
          /\ Goto("C", "idle")
          /\ UNCHANGED <<queue, held>>
    /\ UNCHANGED <<todo, appVars, running, flushVars, eventVars, compVars,
                   boundVars>>

\* FillBufferDone: during an output flush the buffer is not queued.
FillBufferDone ==
    /\ Idle /\ Returns("out")
    /\ \E b \in OutBufs :
        /\ comp[b] > 0
        /\ comp' = [comp EXCEPT ![b] = @ - 1]
        /\ IF flushing["out"]
           THEN UNCHANGED <<pc, held>>
           ELSE /\ held' = [held EXCEPT !["C"] = b]
                /\ Goto("C", "ftb_lock")
    /\ UNCHANGED <<todo, appVars, running, queueVars, flushVars, eventVars,
                   allocated, pending, omxState, boundVars>>

\* With ftb_lock: sent_disabled decides between the queue and OMX_FreeBuffer.
FtbLock ==
    /\ At("C", "ftb_lock")
    /\ Goto("C", IF sentDisabled THEN "ftb_free" ELSE "ftb_push")
    /\ UNCHANGED <<held, todo, appVars, running, queueVars, flushVars,
                   eventVars, compVars, boundVars>>

PostIfEmpty == IF queue["out"] = <<>> THEN sem["out"] + 1 ELSE sem["out"] \* mutant
PostEach == sem["out"] + 1

FtbPush ==
    /\ At("C", "ftb_push")
    /\ queue' = [queue EXCEPT !["out"] = Append(@, held["C"])]
    /\ sem' = [sem EXCEPT !["out"] = PostEach]
    /\ held' = [held EXCEPT !["C"] = NoBuf]
    /\ Goto("C", "idle")
    /\ UNCHANGED <<todo, appVars, running, flushVars, eventVars, compVars,
                   boundVars>>

FtbFree ==
    /\ At("C", "ftb_free")
    /\ allocated' = allocated \ {held["C"]}
    /\ held' = [held EXCEPT !["C"] = NoBuf]
    /\ Goto("C", "idle")
    /\ UNCHANGED <<todo, appVars, running, queueVars, flushVars, eventVars,
                   comp, pending, omxState, boundVars>>

HasNone(bufs) == \A b \in bufs : comp[b] = 0

AnyFlushed(p) == TRUE                                             \* mutant
LastFlushed(p) == \A q \in Ports \ {p} : ~flushing[q]

\* EventHandler, OMX_CommandFlush: the last port of the two completes it.
FlushComplete ==
    \E p \in Ports :
        LET c == IF p = "in" THEN "FlushIn" ELSE "FlushOut" IN
            /\ Idle
            /\ Asked(c)
            /\ HasNone(BufsOf(p))
            /\ pending' = Tail(pending)
            /\ flushing' = [flushing EXCEPT ![p] = FALSE]
            /\ flushSem' = [flushSem EXCEPT ![p] = @ + 1]
            /\ IF LastFlushed(p) THEN EventComplete("Flush") ELSE UNCHANGED eventVars
            /\ UNCHANGED <<pc, held, todo, appVars, running, queueVars,
                           seekSem, comp, allocated, omxState, boundVars>>

\* The port is disabled when the last of its headers is freed, and enabled
\* when it has all of them.
PortComplete ==
    /\ Idle
    /\ \/ /\ Asked("PortDisable")
          /\ HasNone(OutBufs)
          /\ allocated \cap OutBufs = {}
          /\ pending' = Tail(pending)
          /\ EventComplete("PortDisable")
          /\ UNCHANGED sentDisabled
       \/ /\ Asked("PortEnable")
          /\ OutBufs \subseteq allocated
          /\ pending' = Tail(pending)
          /\ EventComplete("PortEnable")
          /\ sentDisabled' = FALSE
    /\ UNCHANGED <<pc, held, todo, currentStatus, preStatus, seeking, exiting,
                   eos, running, queueVars, flushVars, comp, allocated,
                   omxState, boundVars>>

StateComplete ==
    \E s \in {"Pause", "Executing", "Idle", "Loaded"} :
        /\ Idle
        /\ Asked(s)
        /\ s \in {"Idle", "Loaded"} => HasNone(Bufs)
        /\ s = "Loaded" => allocated = {}
        /\ omxState' = s
        /\ pending' = Tail(pending)
        /\ EventComplete("StateSet")
        /\ UNCHANGED <<pc, held, todo, appVars, running, queueVars, flushVars,
                       comp, allocated, boundVars>>

\* OMX_EventPortSettingsChanged, not again before the port is disabled and
\* enabled: under status_lock the old status is saved, then ftb_sem is posted.
PortSettingsChanged ==
    /\ \/ /\ Idle
          /\ omxState = "Executing"
          /\ reconfigs < MaxReconfigs
          /\ ~Reconfiguring
          /\ currentStatus # "PORT_SETTING_CHANGE"
          /\ preStatus' = currentStatus
          /\ currentStatus' = "PORT_SETTING_CHANGE"
          /\ reconfigs' = reconfigs + 1
          /\ Goto("C", "psc_post")
          /\ UNCHANGED sem
       \/ /\ At("C", "psc_post")
          /\ sem' = [sem EXCEPT !["out"] = @ + 1]
          /\ Goto("C", "idle")
          /\ UNCHANGED <<currentStatus, preStatus, reconfigs>>
    /\ UNCHANGED <<held, todo, seeking, exiting, eos, sentDisabled, running,
                   queue, flushVars, eventVars, compVars, commands, errors>>

\* OMX_EventError waits for status_lock, which F keeps while it reconfigures.
EventError ==
    /\ \/ /\ Idle
          /\ errors < MaxErrors
          /\ errors' = errors + 1
          /\ IF Reconfiguring
             THEN Goto("C", "error") /\ UNCHANGED currentStatus
             ELSE Goto("C", "error_event") /\ currentStatus' = "ERROR"
          /\ UNCHANGED eventVars
       \/ /\ At("C", "error")
          /\ ~Reconfiguring
          /\ currentStatus' = "ERROR"
          /\ Goto("C", "error_event")
          /\ UNCHANGED <<errors, eventVars>>
       \/ /\ At("C", "error_event")
          /\ EventComplete("Error")
          /\ Goto("C", "idle")
          /\ UNCHANGED <<currentStatus, errors>>
    /\ UNCHANGED <<held, todo, preStatus, seeking, exiting, eos, sentDisabled,
                   running, queueVars, flushVars, compVars, commands,
                   reconfigs>>

CallBacks == \/ EmptyBufferDone \/ EtbPush \/ FillBufferDone \/ FtbLock
             \/ FtbPush \/ FtbFree
CommandComplete == FlushComplete \/ PortComplete \/ StateComplete
Component == \/ CallBacks \/ CommandComplete
             \/ PortSettingsChanged \/ EventError

-----------------------------------------------------------------------------
Init ==
    /\ pc = [t \in Threads |-> IF t \in {"E", "F"} THEN "top" ELSE "idle"]
    /\ held = [t \in {"E", "F", "C"} |-> NoBuf]
    /\ todo = [t \in {"M", "F"} |-> {}]
    /\ currentStatus = "GOOD"
    /\ preStatus = "GOOD"
    /\ seeking = FALSE
    /\ exiting = FALSE
    /\ eos = FALSE
    /\ sentDisabled = FALSE
    /\ running = [p \in Ports |-> FALSE]
    /\ flushing = [p \in Ports |-> FALSE]
    /\ queue = [p \in Ports |-> <<>>]
    /\ sem = [p \in Ports |-> 0]
    /\ flushSem = [p \in Ports |-> 0]
    /\ seekSem = 0
    /\ eventDone = FALSE
    /\ lastCmd = "StateSet"
    /\ comp = [b \in Bufs |-> 1]
    /\ allocated = Bufs
    /\ pending = <<>>
    /\ omxState = "Executing"
    /\ commands = 0
    /\ reconfigs = 0
    /\ errors = 0

\* The clean-up has returned.
Ended == At("M", "end") /\ UNCHANGED vars

Next == MainThread \/ EbdThread \/ FbdThread \/ Component \/ Ended
Spec == Init /\ [][Next]_vars

\* Threads are scheduled.  The component ends the call-back it is in, gives
\* back the buffers a pending command asks for and completes the command; it
\* need not give back a buffer, change the port or fail by itself, and the
\* user need not type.
InCallBack == pc["C"] # "idle" /\ Component
Serve == \/ CommandComplete
         \/ AskedFor("in") /\ EmptyBufferDone
         \/ AskedFor("out") /\ FillBufferDone
Fairness == /\ WF_vars(pc["M"] # "idle" /\ MainThread)
            /\ WF_vars(EbdThread)
            /\ WF_vars(FbdThread)
            /\ WF_vars(InCallBack)
            /\ SF_vars(Serve)
LiveSpec == Spec /\ Fairness

-----------------------------------------------------------------------------
(* Properties *)

ThreadPlaces ==
    [M |-> {"idle", "wait_state", "wait_flush", "wait_seek", "idle_in",
            "idle_out", "drain_in", "drain_out", "rewind", "fill", "empty",
            "seek_done", "seek_post", "quit_flush", "quit_flushed",
            "quit_idle", "quit_idled", "quit_load", "quit_loaded",
            "quit_free", "quit_join", "end"},
     E |-> {"top", "flush_wait", "wait", "seek_check",
            "seek_wait", "exit_check", "pop", "popped", "check", "give",
            "exit"},
     F |-> {"top", "flush_wait", "wait", "exit_check",
            "status", "disable", "drain", "wait_disable", "enable",
            "wait_enable", "refill", "exit_check2", "pop", "popped", "check",
            "give", "exit"},
     C |-> {"idle", "etb_push", "etb_post", "ftb_lock", "ftb_push",
            "ftb_free", "psc_post", "error", "error_event"}]

Place == UNION {ThreadPlaces[t] : t \in Threads}
Statuses == {"GOOD", "PORT_SETTING_CHANGE", "RECONFIG", "ERROR"}
Events == {"Flush", "StateSet", "PortDisable", "PortEnable", "Error"}
Requests == {"FlushIn", "FlushOut", "PortDisable", "PortEnable", "Pause",
             "Executing", "Idle", "Loaded"}
OmxStates == {"Executing", "Pause", "Idle", "Loaded", "Invalid"}

PlacesOK == /\ pc \in [Threads -> Place]
            /\ \A t \in Threads : pc[t] \in ThreadPlaces[t]
BuffersOK == /\ held \in [{"E", "F", "C"} -> Bufs \cup {NoBuf}]
             /\ held["E"] \in InBufs \cup {NoBuf}
             /\ held["F"] \in OutBufs \cup {NoBuf}
             /\ pc["C"] = "etb_push" => held["C"] \in InBufs
             /\ pc["C"] \in {"ftb_lock", "ftb_push", "ftb_free"} =>
                    held["C"] \in OutBufs
             /\ \A t \in {"E", "F"} :
                    pc[t] \in {"popped", "check", "give"} => held[t] \in Bufs
             /\ todo \in [{"M", "F"} -> SUBSET Bufs]
             /\ comp \in [Bufs -> Nat]
             /\ allocated \subseteq Bufs
QueuesOK == /\ queue \in [Ports -> Seq(Bufs)]
            /\ queue["in"] \in Seq(InBufs) /\ queue["out"] \in Seq(OutBufs)
            /\ sem \in [Ports -> Nat]
            /\ flushSem \in [Ports -> Nat] /\ seekSem \in Nat
FlagsOK == /\ seeking \in BOOLEAN /\ exiting \in BOOLEAN /\ eos \in BOOLEAN
           /\ sentDisabled \in BOOLEAN /\ eventDone \in BOOLEAN
           /\ running \in [Ports -> BOOLEAN] /\ flushing \in [Ports -> BOOLEAN]
           /\ currentStatus \in Statuses /\ preStatus \in Statuses
RequestsOK == /\ lastCmd \in Events
              /\ pending \in Seq(Requests)
              /\ omxState \in OmxStates
              /\ commands \in 0..MaxCommands
              /\ reconfigs \in 0..MaxReconfigs
              /\ errors \in 0..MaxErrors

\* The type of the state: no queue holds a buffer of the other port, and a
\* thread that is to push, free or hand over a buffer has one in hand.
TypeOK == PlacesOK /\ BuffersOK /\ QueuesOK /\ FlagsOK /\ RequestsOK

\* No error came, and no clean-up meets a change of the port settings: the
\* two would wait for their events, and drop buffers, at the same time.
Undisturbed == errors = 0 /\ (exiting => reconfigs = 0)

\* How many places a buffer is in: the component, a queue, a thread's hand.
Places(b) ==
    comp[b] + Cardinality({k \in DOMAIN queue["in"] : queue["in"][k] = b})
            + Cardinality({k \in DOMAIN queue["out"] : queue["out"][k] = b})
            + Cardinality({t \in {"E", "F", "C"} : held[t] = b})

\* Without a seek no buffer is in two places, so none is given to the
\* component a second time before it came back: the drain of the port, its
\* wait for PortDisable and the drops of the flushes leave no second copy.
OneOwner == "seek" \notin Commands /\ Undisturbed =>
                \A b \in Bufs : Places(b) <= 1

\* A thread that has taken its token and not yet looked at the queue.
TokenTaken(t) == pc[t] \in {"seek_check", "seek_wait", "exit_check", "status",
                            "disable", "drain", "wait_disable", "enable",
                            "wait_enable", "refill", "exit_check2", "pop"}

\* No wake-up of fbd_thread is lost: every queued output buffer has a token of
\* ftb_sem of its own, or the one fbd_thread has taken, through flushes, seeks,
\* reconfigurations and errors, until the threads are told to exit.
FtbSignalled ==
    ~exiting => Len(queue["out"]) <= sem["out"] + (IF TokenTaken("F") THEN 1 ELSE 0)

\* The same of ebd_thread and etb_sem, whose post comes after the lock is given
\* back; at the end of the stream tokens are taken without a look at the queue,
\* and a seek has to empty the queue before the stream goes on.
EtbSignalled ==
    ~exiting /\ ~eos /\ errors = 0 =>
        Len(queue["in"]) <= sem["in"] + (IF TokenTaken("E") THEN 1 ELSE 0)
                                      + (IF At("C", "etb_post") THEN 1 ELSE 0)

\* Nobody asks for an output flush or a seek, which drop output buffers.
NothingDropped == Commands \cap {"seek", "flush", "flush_out"} = {}

\* While fbd_thread waits for the port to be disabled, no output buffer is left
\* where nobody frees it: it is with the component or in the hand of a
\* call-back that is going to free it.  (A buffer an output flush has dropped
\* is not freed, and the port is never disabled.)
DisabledPortIsDrained ==
    At("F", "wait_disable") /\ Undisturbed /\ NothingDropped =>
        /\ queue["out"] = <<>>
        /\ \A b \in allocated \cap OutBufs :
               comp[b] = 1 \/ (held["C"] = b /\ pc["C"] # "ftb_push")

\* As long as the component reports no error, an event is only ever set while
\* somebody waits for that command: none is left for a later command to take.
NoStaleEvent ==
    Undisturbed /\ eventDone =>
        \/ lastCmd = "StateSet" /\
               pc["M"] \in {"wait_state", "quit_idled", "quit_loaded"}
        \/ lastCmd = "Flush" /\
               pc["M"] \in {"wait_flush", "wait_seek", "quit_flushed"}
        \/ lastCmd = "PortDisable" /\ pc["F"] \in {"drain", "wait_disable"}
        \/ lastCmd = "PortEnable" /\ At("F", "wait_enable")

\* While seek_progress empties the queues and hands every buffer to the
\* component, neither thread is about to hand one over as well: the wait for
\* "EtbStatus&FtbStatus != THREAD_RUNNING" and seeking_progress see to it.
SeekHandsOutAlone ==
    pc["M"] \in {"drain_in", "drain_out", "rewind", "fill", "empty", "seek_done"}
        => ~At("E", "give") /\ ~At("F", "give")

\* What main or fbd_thread waits for, the requests that end in that event, and
\* whether one of them is still to be completed.
Awaited(e) ==
    CASE e = "StateSet" -> pc["M"] \in {"wait_state", "quit_idled", "quit_loaded"}
      [] e = "Flush"    -> pc["M"] \in {"wait_flush", "wait_seek", "quit_flushed"}
      [] e = "PortDisable" -> At("F", "wait_disable")
      [] e = "PortEnable"  -> At("F", "wait_enable")
RequestsFor(e) == CASE e = "Flush"    -> {"FlushIn", "FlushOut"}
                    [] e = "StateSet" -> {"Pause", "Executing", "Idle", "Loaded"}
                    [] OTHER          -> {e}
Due(e) == \E k \in DOMAIN pending : pending[k] \in RequestsFor(e)

\* event_complete has written the event of the other thread over one that was
\* set and not yet taken: its wait_for_event does not end.
EventOverwritten ==
    \E e \in Events \ {"Error"} : Awaited(e) /\ ~Due(e) /\ lastCmd # e

\* The port cannot be disabled, because a flush or a seek dropped a header that
\* nobody frees now, or not enabled, because a header a seek had handed over was
\* freed when it came back; what is asked for behind it waits too.
HeaderMissing ==
    \/ /\ At("F", "wait_disable") /\ Due("PortDisable")
       /\ \E b \in allocated \cap OutBufs : Places(b) = 0
    \/ /\ At("F", "wait_enable") /\ Due("PortEnable")
       /\ ~(OutBufs \subseteq allocated)

\* A command typed is carried out: every wait_for_event ends, a seek finds the
\* threads idle, and after q the component unloads and both threads, wherever
\* the flags found them, can be joined.  A command that meets a change of the
\* port settings, which only PORT_SETTING_CHANGE refuses, may hang, but for two
\* reasons alone: an event overwritten or a header missing for good.
CommandsReturn == pc["M"] # "idle" ~>
                      \/ pc["M"] \in {"idle", "end"}
                      \/ ~Undisturbed
                      \/ [](EventOverwritten \/ HeaderMissing)

\* A change of the port settings is followed by the port in use again, unless a
\* command typed meanwhile leaves it without its event or without a header.
ReconfigEnds == currentStatus = "PORT_SETTING_CHANGE" ~>
                    \/ currentStatus = "GOOD"
                    \/ ~Undisturbed
                    \/ [](EventOverwritten \/ HeaderMissing)

=============================================================================
