------------------------------- MODULE OmxEnc -------------------------------
(***************************************************************************)
(* The OpenMAX encoder sample, src/omxvenc/sample_omxvenc.c, from the      *)
(* moment the component executes: Play_Encoder hands it all buffers, the   *)
(* user types commands, main stops and joins the threads and cleans up.    *)
(*   "M"  main: Play_Encoder, loop_function, process_current_command       *)
(*   "E"  ebd_thread: fills empty input buffers and hands them over        *)
(*   "F"  fbd_thread: writes encoded output and hands the buffer back      *)
(*   "C"  the thread of the component that calls EventHandler,             *)
(*        EmptyBufferDone and FillBufferDone                               *)
(* The component is not in the repository: it is modelled from the calls   *)
(* and the call-backs.  sem, queue, flushing, flushSem, exiting and        *)
(* disabled hold both members of each pair (etb_sem and fbd_sem, ...), E   *)
(* serving the "in" port and F the "out" port.  A critical section that    *)
(* does one thing is one step; enable_lock is held over two steps of F and *)
(* is told from where F is.                                                *)
(***************************************************************************)
EXTENDS Naturals, Sequences, FiniteSets

CONSTANTS InBufs, OutBufs, \* what Allocate_Buffers allocates for each port
          NoBuf,           \* no header
          Commands,        \* the commands the user may type
          MaxEvents        \* bound: commands typed, errors and changes of the
                           \* port settings reported, all together

Ports == {"in", "out"}
Threads == {"M", "E", "F", "C"}
PortOf(t) == IF t = "E" THEN "in" ELSE "out"

(* A header and how often en-op had allocated the port when it was made.    *)
Generation == 0..MaxEvents
InHdrs == InBufs \X {0}
OutHdrs == OutBufs \X Generation
Hdrs == InHdrs \cup OutHdrs

ASSUME HeaderAssumption == /\ InBufs \cap OutBufs = {}
                           /\ IsFiniteSet(InBufs) /\ IsFiniteSet(OutBufs)
                           /\ NoBuf \notin Hdrs
ASSUME UserAssumption ==
    Commands \subseteq {"pause", "resume", "flush_in", "flush_out",
                        "flush_all", "dis-op", "en-op", "exit"}
ASSUME BoundAssumption == MaxEvents \in Nat

VARIABLES pc,            \* where each thread is
          held,          \* the header E or F has in hand
          todo,          \* the headers M still has to hand over in a loop
          generation,    \* which headers pOutputBufHdrs holds
          currentStatus, \* "GOOD", "PORT_SETTING_CHANGE" or "ERROR"
          firstEvent,    \* waitForPortSettingsChanged
          inputEos, outputEos,   \* bInputEosReached, bOutputEosReached
          exiting,       \* ebd_thread_exit, fbd_thread_exit
          disabled,      \* etb_disabled, ftb_disabled
          queue, sem,    \* etb_queue and fbd_queue, etb_sem and fbd_sem
          flushing,      \* flush_input_progress, flush_output_progress
          flushSem,      \* in_flush_sem, out_flush_sem
          eventDone, lastCmd,
          returnTo,      \* where do_freeHandle_and_clean_up returns to
          comp,          \* the headers the component has
          allocated,     \* the headers that exist
          pending,       \* the commands sent to the component, oldest first
          reported,      \* the command the component reports as complete
          omxState, portOn,
          commands, errors

flagVars == <<currentStatus, firstEvent, inputEos, outputEos, exiting, disabled>>
queueVars == <<queue, sem>>
flushVars == <<flushing, flushSem>>
eventVars == <<eventDone, lastCmd>>
mainVars == <<todo, generation, returnTo, allocated, commands>>
compVars == <<comp, pending, reported, omxState, portOn>>
vars == <<pc, held, mainVars, flagVars, queueVars, flushVars, eventVars,
          compVars, errors>>

-----------------------------------------------------------------------------
(* The pieces the threads are made of. *)

Goto(t, l) == pc' = [pc EXCEPT ![t] = l]
At(t, l) == pc[t] = l

\* wait_for_event: until the event of this command is there, and take it.
WaitForEvent(cmd) == /\ eventDone /\ lastCmd = cmd
                     /\ eventDone' = FALSE
                     /\ UNCHANGED lastCmd

\* event_complete: one flag and the last command, whoever waits.
EventComplete(cmd) == eventDone' = TRUE /\ lastCmd' = cmd

\* enable_lock: F keeps it from its look at the flush flag to the hand-over.
EnableLockFree == pc["F"] \notin {"give", "requeue"}

\* OMX_EmptyThisBuffer and OMX_FillThisBuffer: the component takes a header
\* when it executes or pauses and the port is enabled; ebd_thread is prepared
\* for a component that refuses input while it does not execute.
MayTake(h) == omxState \in {"Executing", "Pause"} /\ (h \in OutHdrs => portOn)
MayRefuse(h) == ~MayTake(h) \/ (h \in InHdrs /\ omxState = "Pause")
Taken(h) == MayTake(h) /\ comp' = comp \cup {h}
Refused(h) == MayRefuse(h) /\ comp' = comp

Send(c) == pending' = Append(pending, c)
Asked(c) == pending # <<>> /\ Head(pending) = c

-----------------------------------------------------------------------------
(* ebd_thread and fbd_thread: what the two loops have in common. *)

Top(t) ==
    /\ At(t, "top")
    /\ Goto(t, IF currentStatus = "ERROR" THEN "exit"
               ELSE IF flushing[PortOf(t)] THEN "flush_wait" ELSE "wait")
    /\ UNCHANGED <<held, mainVars, flagVars, queueVars, flushVars, eventVars,
                   compVars, errors>>

FlushWait(t) ==
    /\ At(t, "flush_wait")
    /\ flushSem[PortOf(t)] > 0
    /\ flushSem' = [flushSem EXCEPT ![PortOf(t)] = @ - 1]
    /\ Goto(t, "wait")
    /\ UNCHANGED <<held, mainVars, flagVars, queueVars, flushing, eventVars,
                   compVars, errors>>

SemWait(t) ==
    /\ At(t, "wait")
    /\ sem[PortOf(t)] > 0
    /\ sem' = [sem EXCEPT ![PortOf(t)] = @ - 1]
    /\ Goto(t, "check")
    /\ UNCHANGED <<held, mainVars, flagVars, queue, flushVars, eventVars,
                   compVars, errors>>

ExitCheck(t) ==
    /\ At(t, "check")
    /\ Goto(t, IF exiting[PortOf(t)] \/ inputEos THEN "exit" ELSE "pop")
    /\ UNCHANGED <<held, mainVars, flagVars, queueVars, flushVars, eventVars,
                   compVars, errors>>

\* The head of the queue, under its lock; back to the top when it is empty.
PopBuffer(t) ==
    LET p == PortOf(t) IN
    /\ At(t, "pop")
    /\ IF queue[p] = <<>>
       THEN /\ Goto(t, "top")
            /\ UNCHANGED <<held, queue>>
       ELSE /\ Goto(t, IF t = "E" THEN "read" ELSE "look")
            /\ held' = [held EXCEPT ![t] = Head(queue[p])]
            /\ queue' = [queue EXCEPT ![p] = Tail(@)]
    /\ UNCHANGED <<mainVars, flagVars, sem, flushVars, eventVars, compVars,
                   errors>>

-----------------------------------------------------------------------------
(* ebd_thread *)

\* Read_Buffer: a frame, or the end of the file, which the buffer tells the
\* component (test_option, which reads the file for ever, is not set).
ReadFrame ==
    /\ At("E", "read")
    /\ \/ Goto("E", "give") /\ UNCHANGED inputEos
       \/ Goto("E", "give_eos") /\ inputEos' = TRUE
    /\ UNCHANGED <<held, mainVars, currentStatus, firstEvent, outputEos,
                   exiting, disabled, queueVars, flushVars, eventVars,
                   compVars, errors>>

\* A component that does not execute refuses the frame: E polls its state,
\* then hands the frame over once more, whatever comes of it.
EmptyThisBuffer ==
    /\ \/ /\ pc["E"] \in {"give", "give_again", "give_eos"}
          /\ Taken(held["E"]) \/ (~At("E", "give") /\ Refused(held["E"]))
          /\ held' = [held EXCEPT !["E"] = NoBuf]
          /\ Goto("E", IF At("E", "give_eos") THEN "exit" ELSE "top")
       \/ /\ At("E", "give")
          /\ Refused(held["E"])
          /\ Goto("E", "poll")
          /\ UNCHANGED held
       \/ /\ At("E", "poll")
          /\ omxState = "Executing" \/ currentStatus = "ERROR"
          /\ Goto("E", "give_again")
          /\ UNCHANGED <<held, comp>>
    /\ UNCHANGED <<mainVars, flagVars, queueVars, flushVars, eventVars,
                   pending, reported, omxState, portOn, errors>>

EbdThread == \/ Top("E") \/ FlushWait("E") \/ SemWait("E") \/ ExitCheck("E")
             \/ PopBuffer("E") \/ ReadFrame \/ EmptyThisBuffer

-----------------------------------------------------------------------------
(* fbd_thread *)

\* With enable_lock: during an output flush the buffer goes back to the queue.
Look ==
    /\ At("F", "look")
    /\ Goto("F", IF flushing["out"] THEN "requeue" ELSE "give")
    /\ UNCHANGED <<held, mainVars, flagVars, queueVars, flushVars, eventVars,
                   compVars, errors>>

DroppedInFlush == UNCHANGED queueVars                                \* mutant
RequeuedSilently ==                                                  \* mutant
    queue' = [queue EXCEPT !["out"] = Append(@, held["F"])] /\ UNCHANGED sem
Requeued == /\ queue' = [queue EXCEPT !["out"] = Append(@, held["F"])]
            /\ sem' = [sem EXCEPT !["out"] = @ + 1]

Requeue ==
    /\ At("F", "requeue")
    /\ Requeued
    /\ held' = [held EXCEPT !["F"] = NoBuf]
    /\ Goto("F", "top")
    /\ UNCHANGED <<mainVars, flagVars, flushVars, eventVars, compVars, errors>>

FillThisBuffer ==
    /\ At("F", "give")
    /\ Taken(held["F"]) \/ Refused(held["F"])
    /\ held' = [held EXCEPT !["F"] = NoBuf]
    /\ Goto("F", "top")
    /\ UNCHANGED <<mainVars, flagVars, queueVars, flushVars, eventVars,
                   pending, reported, omxState, portOn, errors>>

FbdThread == \/ Top("F") \/ FlushWait("F") \/ SemWait("F") \/ ExitCheck("F")
             \/ PopBuffer("F") \/ Look \/ Requeue \/ FillThisBuffer

-----------------------------------------------------------------------------
(* The main thread: Play_Encoder and loop_function. *)

Current == OutBufs \X {generation}

\* Every output buffer, at the start and after en-op.
HandOutputs ==
    /\ pc["M"] \in {"fill", "refill"}
    /\ \/ /\ \E h \in todo : /\ Taken(h) \/ Refused(h)
                             /\ todo' = todo \ {h}
          /\ UNCHANGED pc
       \/ /\ todo = {}
          /\ IF At("M", "fill") THEN todo' = InHdrs /\ Goto("M", "empty")
                                ELSE todo' = {} /\ Goto("M", "loop")
          /\ UNCHANGED comp
    /\ UNCHANGED <<held, generation, returnTo, allocated, commands, flagVars,
                   queueVars, flushVars, eventVars, pending, reported,
                   omxState, portOn, errors>>

\* Every input buffer (the file has a frame for each); ebd_thread starts.
HandInputs ==
    /\ At("M", "empty")
    /\ \/ /\ \E h \in todo : Taken(h) /\ todo' = todo \ {h}
          /\ UNCHANGED pc
       \/ /\ todo = {}
          /\ pc' = [pc EXCEPT !["M"] = "loop", !["E"] = "top"]
          /\ UNCHANGED <<todo, comp>>
    /\ UNCHANGED <<held, generation, returnTo, allocated, commands, flagVars,
                   queueVars, flushVars, eventVars, pending, reported,
                   omxState, portOn, errors>>

Loop ==
    /\ At("M", "loop")
    /\ Goto("M", IF outputEos THEN "exit" ELSE "idle")
    /\ UNCHANGED <<held, mainVars, flagVars, queueVars, flushVars, eventVars,
                   compVars, errors>>

Types(c) == /\ At("M", "idle")
            /\ c \in Commands
            /\ commands + errors < MaxEvents
            /\ commands' = commands + 1

StateCommand ==
    /\ \/ Types("pause") /\ Send("Pause")
       \/ Types("resume") /\ Send("Executing")
    /\ Goto("M", "wait_state")
    /\ UNCHANGED <<held, todo, generation, returnTo, allocated, flagVars,
                   queueVars, flushVars, eventVars, comp, reported, omxState,
                   portOn, errors>>

RaisedAll(ports) == [p \in Ports |-> TRUE]                            \* mutant
Raised(ports) == [p \in Ports |-> flushing[p] \/ p \in ports]

\* The flag of each port, then the command, input first.
FlushCommand ==
    /\ \/ /\ Types("flush_in")
          /\ flushing' = Raised({"in"})
          /\ Send("FlushIn")
       \/ /\ Types("flush_out")
          /\ flushing' = Raised({"out"})
          /\ Send("FlushOut")
       \/ /\ Types("flush_all")
          /\ flushing' = Raised(Ports)
          /\ pending' = pending \o <<"FlushIn", "FlushOut">>
    /\ Goto("M", "wait_flush")
    /\ UNCHANGED <<held, todo, generation, returnTo, allocated, flagVars,
                   queueVars, flushSem, eventVars, comp, reported, omxState,
                   portOn, errors>>

\* disable_output_port: the flag under enable_lock, then the command.
DisablePort ==
    /\ \/ /\ Types("dis-op")
          /\ Goto("M", "disable")
          /\ UNCHANGED <<disabled, pending>>
       \/ /\ At("M", "disable")
          /\ EnableLockFree
          /\ disabled' = [disabled EXCEPT !["out"] = TRUE]
          /\ Send("PortDisable")
          /\ Goto("M", "wait_disable")
          /\ UNCHANGED commands
    /\ UNCHANGED <<held, todo, generation, returnTo, allocated, currentStatus,
                   firstEvent, inputEos, outputEos, exiting, queueVars,
                   flushVars, eventVars, comp, reported, omxState, portOn,
                   errors>>

\* enable_output_port: new headers replace the ones the port had.
EnablePort ==
    /\ Types("en-op")
    /\ Send("PortEnable")
    /\ generation' = generation + 1
    /\ allocated' = allocated \cup OutBufs \X {generation + 1}
    /\ Goto("M", "wait_enable")
    /\ UNCHANGED <<held, todo, returnTo, flagVars, queueVars, flushVars,
                   eventVars, comp, reported, omxState, portOn,
                   errors>>

\* The event of a command has come.  If there was an error meanwhile dis-op
\* and en-op clean up, and process_current_command cleans up once more.
CommandDone ==
    /\ \/ /\ \/ At("M", "wait_state") /\ WaitForEvent("StateSet")
             \/ At("M", "wait_flush") /\ WaitForEvent("Flush")
          /\ Goto("M", "loop")
          /\ UNCHANGED <<todo, returnTo>>
       \/ /\ \/ At("M", "wait_disable") /\ WaitForEvent("PortDisable")
             \/ At("M", "wait_enable") /\ WaitForEvent("PortEnable")
          /\ IF currentStatus = "ERROR"
             THEN Goto("M", "clean") /\ returnTo' = "clean" /\ UNCHANGED todo
             ELSE IF At("M", "wait_disable")
             THEN Goto("M", "loop") /\ UNCHANGED <<todo, returnTo>>
             ELSE Goto("M", "refill") /\ todo' = Current /\ UNCHANGED returnTo
    /\ UNCHANGED <<held, generation, allocated, commands, flagVars, queueVars,
                   flushVars, compVars, errors>>

-----------------------------------------------------------------------------
(* The main thread: the end. *)

JoinsOnlyEbd == At("E", "exit")                                      \* mutant
Joinable == At("E", "exit") /\ At("F", "exit")

\* The flags, without a post to the semaphores, then the two joins.
Exit ==
    /\ \/ /\ Types("exit")
          /\ Goto("M", "exit")
          /\ UNCHANGED <<exiting, returnTo>>
       \/ /\ At("M", "exit")
          /\ exiting' = [exiting EXCEPT !["in"] = TRUE]
          /\ Goto("M", "exit_fbd")
          /\ UNCHANGED <<commands, returnTo>>
       \/ /\ At("M", "exit_fbd")
          /\ exiting' = [exiting EXCEPT !["out"] = TRUE]
          /\ Goto("M", "join")
          /\ UNCHANGED <<commands, returnTo>>
       \/ /\ At("M", "join")
          /\ Joinable
          /\ returnTo' = "end"
          /\ Goto("M", "clean")
          /\ UNCHANGED <<commands, exiting>>
    /\ UNCHANGED <<held, todo, generation, allocated, currentStatus,
                   firstEvent, inputEos, outputEos, disabled, queueVars,
                   flushVars, eventVars, compVars, errors>>

CleanedUp == /\ Goto("M", returnTo)
             /\ returnTo' = IF returnTo = "clean" THEN "exit" ELSE returnTo

\* do_freeHandle_and_clean_up: to Idle, which brings the buffers back ...
CleanIdle ==
    /\ \/ /\ At("M", "clean")
          /\ omxState \in {"Executing", "Pause"}
          /\ disabled' = [p \in Ports |-> TRUE]
          /\ Send("Idle")
          /\ Goto("M", "clean_idle")
          /\ UNCHANGED <<returnTo, eventVars>>
       \/ /\ At("M", "clean")
          /\ omxState \in {"Idle", "Loaded"}
          /\ Goto("M", IF omxState = "Idle" THEN "clean_load" ELSE "clean_free")
          /\ UNCHANGED <<returnTo, disabled, pending, eventVars>>
       \/ /\ At("M", "clean_idle")
          /\ WaitForEvent("StateSet")
          /\ IF currentStatus = "ERROR" THEN CleanedUp
             ELSE Goto("M", "clean_load") /\ UNCHANGED returnTo
          /\ UNCHANGED <<disabled, pending>>
    /\ UNCHANGED <<held, todo, generation, allocated, commands, currentStatus,
                   firstEvent, inputEos, outputEos, exiting, queueVars,
                   flushVars, comp, reported, omxState, portOn,
                   errors>>

\* ... to Loaded, meanwhile freeing the headers the arrays hold ...
CleanLoaded ==
    /\ \/ /\ At("M", "clean_load")
          /\ Send("Loaded")
          /\ allocated' = allocated \ (InHdrs \cup Current)
          /\ Goto("M", "clean_loaded")
          /\ UNCHANGED <<returnTo, eventVars>>
       \/ /\ At("M", "clean_loaded")
          /\ WaitForEvent("StateSet")
          /\ IF currentStatus = "ERROR" THEN CleanedUp
             ELSE Goto("M", "clean_free") /\ UNCHANGED returnTo
          /\ UNCHANGED <<allocated, pending>>
    /\ UNCHANGED <<held, todo, generation, commands, flagVars, queueVars,
                   flushVars, comp, reported, omxState, portOn,
                   errors>>

\* ... and OMX_FreeHandle and the queues.
CleanFree ==
    /\ At("M", "clean_free")
    /\ At("C", "idle")
    /\ omxState' = "Invalid"
    /\ queue' = [p \in Ports |-> <<>>]
    /\ CleanedUp
    /\ UNCHANGED <<held, todo, generation, allocated, commands, flagVars, sem,
                   flushVars, eventVars, comp, pending, reported, portOn,
                   errors>>

MainThread == \/ HandOutputs \/ HandInputs \/ Loop \/ StateCommand
              \/ FlushCommand \/ DisablePort \/ EnablePort \/ CommandDone
              \/ Exit \/ CleanIdle \/ CleanLoaded \/ CleanFree

-----------------------------------------------------------------------------
(* The component and its call-backs, one at a time. *)

Idle == At("C", "idle") /\ omxState # "Invalid"
HdrsOf(p) == IF p = "in" THEN InHdrs ELSE OutHdrs
PostOf(p) == IF p = "in" THEN "post_in" ELSE "post_out"

\* The component gives buffers back when it works, and when a flush, a
\* disabled port or the way to Idle asks for them.
AskedFor(p) == \/ Asked("Idle")
               \/ p = "in" /\ Asked("FlushIn")
               \/ p = "out" /\ (Asked("FlushOut") \/ Asked("PortDisable"))
Returns(p) == omxState = "Executing" \/ AskedFor(p)

\* EmptyBufferDone and FillBufferDone: a buffer of a disabled port is not
\* queued but posted, and after the end of the file no input is looked at.
BufferDone(p) ==
    /\ Idle /\ Returns(p)
    /\ \E h \in comp \cap HdrsOf(p) :
        /\ comp' = comp \ {h}
        /\ IF p = "in" /\ inputEos
           THEN UNCHANGED <<pc, queue>>
           ELSE /\ queue' = IF disabled[p] THEN queue
                            ELSE [queue EXCEPT ![p] = Append(@, h)]
                /\ Goto("C", PostOf(p))
    /\ UNCHANGED <<held, mainVars, flagVars, sem, flushVars, eventVars,
                   pending, reported, omxState, portOn, errors>>

Post(p) ==
    /\ At("C", PostOf(p))
    /\ sem' = [sem EXCEPT ![p] = @ + 1]
    /\ Goto("C", "idle")
    /\ UNCHANGED <<held, mainVars, flagVars, queue, flushVars, eventVars,
                   compVars, errors>>

Completes(c) == Idle /\ Asked(c) /\ pending' = Tail(pending) /\ reported' = c

\* EventHandler, OMX_CommandFlush of a port: the flag, the post, the event.
FlushRequest(p) == IF p = "in" THEN "FlushIn" ELSE "FlushOut"
FlushComplete(p) ==
    /\ Completes(FlushRequest(p))
    /\ comp \cap HdrsOf(p) = {}
    /\ Goto("C", "flush_flag")
    /\ UNCHANGED <<held, mainVars, flagVars, queueVars, flushVars, eventVars,
                   comp, omxState, portOn, errors>>

Lower(p) == flushing' = [flushing EXCEPT ![p] = FALSE] /\ UNCHANGED flushSem
Wake(p) == flushSem' = [flushSem EXCEPT ![p] = @ + 1] /\ UNCHANGED flushing
PostsFirst(p) == IF At("C", "flush_flag") THEN Wake(p) ELSE Lower(p)  \* mutant
LowersFirst(p) == IF At("C", "flush_flag") THEN Lower(p) ELSE Wake(p)

FlushStep(p) ==
    /\ reported = FlushRequest(p)
    /\ pc["C"] \in {"flush_flag", "flush_post"}
    /\ LowersFirst(p)
    /\ Goto("C", IF At("C", "flush_flag") THEN "flush_post" ELSE "complete")
    /\ UNCHANGED <<held, mainVars, flagVars, queueVars, eventVars, compVars,
                   errors>>

\* The port is disabled when its headers are back; EventHandler takes
\* enable_lock to clear ftb_disabled when it is enabled.
PortComplete ==
    /\ \/ /\ Completes("PortDisable")
          /\ comp \cap OutHdrs = {}
          /\ portOn' = FALSE
          /\ Goto("C", "complete")
          /\ UNCHANGED disabled
       \/ /\ Completes("PortEnable")
          /\ portOn' = TRUE
          /\ Goto("C", "enable")
          /\ UNCHANGED disabled
       \/ /\ At("C", "enable")
          /\ EnableLockFree
          /\ disabled' = [disabled EXCEPT !["out"] = FALSE]
          /\ Goto("C", "complete")
          /\ UNCHANGED <<portOn, pending, reported>>
    /\ UNCHANGED <<held, mainVars, currentStatus, firstEvent, inputEos,
                   outputEos, exiting, queueVars, flushVars, eventVars, comp,
                   omxState, errors>>

StateComplete ==
    \E s \in {"Pause", "Executing", "Idle", "Loaded"} :
        /\ Completes(s)
        /\ s \in {"Idle", "Loaded"} => comp = {}
        /\ omxState' = s
        /\ Goto("C", "complete")
        /\ UNCHANGED <<held, mainVars, flagVars, queueVars, flushVars,
                       eventVars, comp, portOn, errors>>

\* The end of OMX_EventCmdComplete: no event as long as a port is flushed.
EventOf(c) == CASE c \in {"FlushIn", "FlushOut"} -> "Flush"
                [] c \in {"PortDisable", "PortEnable"} -> c
                [] OTHER -> "StateSet"
EachFlushed == TRUE                                                  \* mutant
AllFlushed == \A p \in Ports : ~flushing[p]
CommandComplete ==
    /\ At("C", "complete")
    /\ IF AllFlushed THEN EventComplete(EventOf(reported)) ELSE UNCHANGED eventVars
    /\ Goto("C", "idle")
    /\ UNCHANGED <<held, mainVars, flagVars, queueVars, flushVars, compVars,
                   errors>>

\* OMX_EventError and OMX_EventPortSettingsChanged: the status, then the end
\* of the stream if nobody waits for a command, then the first event of the
\* kind completes whatever is waited for.
Disturbance ==
    /\ \/ /\ Idle
          /\ commands + errors < MaxEvents
          /\ errors' = errors + 1
          /\ currentStatus' \in {"ERROR", "PORT_SETTING_CHANGE"}
          /\ reported' = currentStatus'
          /\ Goto("C", "disturbed")
          /\ UNCHANGED <<firstEvent, outputEos, eventVars>>
       \/ /\ At("C", "disturbed")
          /\ \E severe \in BOOLEAN :
                 outputEos' = (outputEos \/ (reported = "ERROR" /\ severe /\ ~eventDone))
          /\ firstEvent' = FALSE
          /\ IF firstEvent THEN EventComplete("none") ELSE UNCHANGED eventVars
          /\ Goto("C", "idle")
          /\ UNCHANGED <<currentStatus, reported, errors>>
    /\ UNCHANGED <<held, mainVars, inputEos, exiting, disabled, queueVars,
                   flushVars, comp, pending, omxState, portOn>>

\* OMX_EventBufferFlag: the last output buffer is done.
BufferFlag ==
    /\ Idle
    /\ omxState = "Executing" /\ inputEos /\ ~outputEos
    /\ outputEos' = TRUE
    /\ UNCHANGED <<pc, held, mainVars, currentStatus, firstEvent, inputEos,
                   exiting, disabled, queueVars, flushVars, eventVars,
                   compVars, errors>>

CallBack == \/ \E p \in Ports : Post(p) \/ FlushStep(p)
            \/ CommandComplete
Completion == (\E p \in Ports : FlushComplete(p)) \/ PortComplete \/ StateComplete
Component == \/ \E p \in Ports : BufferDone(p)
             \/ CallBack \/ Completion \/ Disturbance \/ BufferFlag

-----------------------------------------------------------------------------
Init ==
    /\ pc = [t \in Threads |-> CASE t = "M" -> "fill" [] t = "E" -> "off"
                                 [] t = "F" -> "top" [] t = "C" -> "idle"]
    /\ held = [t \in {"E", "F"} |-> NoBuf]
    /\ todo = OutBufs \X {0}
    /\ generation = 0
    /\ currentStatus = "GOOD"
    /\ firstEvent = TRUE
    /\ inputEos = FALSE /\ outputEos = FALSE
    /\ exiting = [p \in Ports |-> FALSE]
    /\ disabled = [p \in Ports |-> FALSE]
    /\ queue = [p \in Ports |-> <<>>]
    /\ sem = [p \in Ports |-> 0]
    /\ flushing = [p \in Ports |-> FALSE]
    /\ flushSem = [p \in Ports |-> 0]
    /\ eventDone = FALSE /\ lastCmd = "StateSet"
    /\ returnTo = "end"
    /\ comp = {}
    /\ allocated = InHdrs \cup OutBufs \X {0}
    /\ pending = <<>>
    /\ reported = "Executing"
    /\ omxState = "Executing" /\ portOn = TRUE
    /\ commands = 0 /\ errors = 0

Next == MainThread \/ EbdThread \/ FbdThread \/ Component
Spec == Init /\ [][Next]_vars

\* Threads are scheduled, and a thread that waits for enable_lock gets it in
\* the end, between two rounds of fbd_thread.  The component ends the call-back it is in, gives
\* back the buffers a pending command asks for and completes the command; it
\* need not give back a buffer by itself, and the user need not type.
Serve == Completion \/ \E p \in Ports : AskedFor(p) /\ BufferDone(p)
Fairness == /\ WF_vars(pc["M"] # "idle" /\ MainThread)
            /\ WF_vars(EbdThread)
            /\ WF_vars(FbdThread)
            /\ WF_vars(pc["C"] # "idle" /\ Component)
            /\ SF_vars(Serve)
            /\ SF_vars(At("M", "disable") /\ DisablePort)
            /\ SF_vars(At("C", "enable") /\ PortComplete)
LiveSpec == Spec /\ Fairness

-----------------------------------------------------------------------------
(* Properties *)

ThreadPlaces ==
    [M |-> {"fill", "empty", "loop", "idle", "wait_state", "wait_flush",
            "disable", "wait_disable", "wait_enable", "refill", "exit",
            "exit_fbd", "join", "clean", "clean_idle", "clean_load",
            "clean_loaded", "clean_free", "end"},
     E |-> {"off", "top", "flush_wait", "wait", "check", "pop", "read",
            "give", "poll", "give_again", "give_eos", "exit"},
     F |-> {"top", "flush_wait", "wait", "check", "pop", "look", "give",
            "requeue", "exit"},
     C |-> {"idle", "post_in", "post_out", "flush_flag", "flush_post",
            "enable", "complete", "disturbed"}]
Requests == {"FlushIn", "FlushOut", "PortDisable", "PortEnable", "Pause",
             "Executing", "Idle", "Loaded"}
Statuses == {"GOOD", "PORT_SETTING_CHANGE", "ERROR"}

PlacesOK ==
    /\ pc \in [Threads -> UNION {ThreadPlaces[t] : t \in Threads}]
    /\ \A t \in Threads : pc[t] \in ThreadPlaces[t]
    /\ At("C", "flush_flag") \/ At("C", "flush_post") =>
           reported \in {"FlushIn", "FlushOut"}
BuffersOK ==
    /\ held["E"] \in InHdrs \cup {NoBuf} /\ held["F"] \in OutHdrs \cup {NoBuf}
    /\ held \in [{"E", "F"} -> Hdrs \cup {NoBuf}]
    /\ pc["E"] \in {"read", "give", "poll", "give_again", "give_eos"} <=> held["E"] # NoBuf
    /\ pc["F"] \in {"look", "give", "requeue"} <=> held["F"] # NoBuf
    /\ queue \in [Ports -> Seq(Hdrs)]
    /\ queue["in"] \in Seq(InHdrs) /\ queue["out"] \in Seq(OutHdrs)
    /\ todo \subseteq Hdrs /\ comp \subseteq Hdrs /\ allocated \subseteq Hdrs
CountersOK ==
    /\ sem \in [Ports -> Nat] /\ flushSem \in [Ports -> Nat]
    /\ generation \in 0..commands
    /\ commands \in Nat /\ errors \in Nat /\ commands + errors <= MaxEvents
FlagsOK ==
    /\ exiting \in [Ports -> BOOLEAN] /\ disabled \in [Ports -> BOOLEAN]
    /\ flushing \in [Ports -> BOOLEAN]
    /\ {firstEvent, inputEos, outputEos, eventDone, portOn} \subseteq BOOLEAN
    /\ currentStatus \in Statuses
    /\ lastCmd \in {"StateSet", "Flush", "PortDisable", "PortEnable", "none"}
    /\ returnTo \in {"clean", "exit", "end"}
    /\ pending \in Seq(Requests) /\ reported \in Requests \cup Statuses
    /\ omxState \in {"Executing", "Pause", "Idle", "Loaded", "Invalid"}

\* The type of the state: no queue holds a header of the other port, a thread
\* that is to hand a header over has one and no other thread has.
TypeOK == PlacesOK /\ BuffersOK /\ CountersOK /\ FlagsOK

Undisturbed == errors = 0

\* A thread that has taken its token and not yet looked at the queue.
TokenTaken(t) == pc[t] \in {"check", "pop"}

\* No wake-up is lost: each queued buffer has a token of the port's semaphore,
\* or the one its thread has taken, or the one the call-back is about to post;
\* also the buffer an output flush made fbd_thread put back.  (At the end of
\* the file, and told to exit, a thread leaves its token unused.)
QueuedIsSignalled ==
    \A t \in {"E", "F"} :
        LET p == PortOf(t) IN
            ~inputEos /\ ~exiting[p] =>
                Len(queue[p]) <= sem[p] + (IF TokenTaken(t) THEN 1 ELSE 0)
                                        + (IF At("C", PostOf(p)) THEN 1 ELSE 0)

\* A thread waits only for a flush that is still to complete: the flag is
\* lowered before the semaphore is posted, and a token an earlier flush left
\* behind never stands for the one to come.
FlushWaitAnswered ==
    \A t \in {"E", "F"} : At(t, "flush_wait") =>
        \/ flushing[PortOf(t)] \/ flushSem[PortOf(t)] > 0
        \/ At("C", "flush_post") /\ reported = FlushRequest(PortOf(t))

\* Where a header is: still to be handed over, with the component, queued, or
\* in the hand of a thread.
Places(h) ==
    (IF h \in todo THEN 1 ELSE 0) + (IF h \in comp THEN 1 ELSE 0)
    + Cardinality({k \in DOMAIN queue["out"] : queue["out"][k] = h})
    + (IF held["F"] = h THEN 1 ELSE 0)

\* Whatever is flushed, paused and resumed, every header of the output port is
\* in one place and one only, as long as nobody has disabled the port.
EachHeaderInOnePlace ==
    Undisturbed /\ ~disabled["out"] /\ portOn /\ pc["M"] # "wait_enable" =>
        \A h \in Current : Places(h) = 1

\* A header that has been freed is neither with the component nor in the hand
\* of a thread: the threads have been joined and the component is Idle.
FreedIsUnused ==
    Undisturbed => /\ comp \subseteq allocated
                   /\ \A t \in {"E", "F"} : held[t] \in allocated \cup {NoBuf}

\* When main is ready for the next command the last one is over: no port is
\* being flushed, not the second one of flush_all either, and no event is left
\* that the wait for the next command would take for its own.
CommandIsOver ==
    pc["M"] \in {"loop", "idle"} =>
        /\ \A p \in Ports : ~flushing[p]
        /\ Undisturbed => ~eventDone

\* A command typed returns, if the component reports no error on the way.
CommandsReturn ==
    pc["M"] \notin {"idle", "join", "end"} ~>
        pc["M"] \in {"idle", "join", "end"} \/ ~Undisturbed

\* A thread is without a buffer, or has one the paused component refuses.
Starved == \/ \E t \in {"E", "F"} : At(t, "wait") /\ sem[PortOf(t)] = 0
           \/ pc["E"] = "poll"

\* main, having told the threads to exit without waking them, ends, unless one
\* of them waits for a buffer the component does not give back.
ExitHangsOnBuffersOnly ==
    At("M", "join") ~> (At("M", "end") \/ ~Undisturbed \/ []Starved)
=============================================================================
