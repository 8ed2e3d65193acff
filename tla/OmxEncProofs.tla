---------------------------- MODULE OmxEncProofs ----------------------------
(***************************************************************************)
(* Proofs about OmxEnc, for any headers, any commands and any bound: the   *)
(* types, that no wake-up of a thread is lost, that a command is over when *)
(* main takes the next one, that no freed header is used, and that each    *)
(* header is in one place.                                                 *)
(***************************************************************************)
EXTENDS OmxEnc, FiniteSetTheorems, TLAPS

-----------------------------------------------------------------------------
(* The types. *)

\* ebd_thread does not run until main has handed the input buffers out.
EbdStarts == pc["M"] \in {"fill", "empty"} => At("E", "off")

Place == UNION {ThreadPlaces[t] : t \in Threads}

LEMMA PlaceOf == \A t \in Threads : ThreadPlaces[t] \subseteq Place
BY DEF Place

(* A jump that is not into the completion of a flush, of a thread that has   *)
(* this place.                                                               *)
LEMMA GotoPlaces ==
  ASSUME PlacesOK, NEW t \in Threads, NEW l \in ThreadPlaces[t], Goto(t, l),
         \/ t # "C" /\ reported' = reported
         \/ t = "C" /\ l \notin {"flush_flag", "flush_post"}
         \/ t = "C" /\ reported' \in {"FlushIn", "FlushOut"}
  PROVE  PlacesOK'
BY PlaceOf DEF PlacesOK, Goto, At, Place, Threads

LEMMA TailOfQueue ==
  ASSUME NEW S, NEW q \in Seq(S), q # << >>
  PROVE  Head(q) \in S /\ Tail(q) \in Seq(S) /\ Len(Tail(q)) = Len(q) - 1
OBVIOUS

LEMMA SendTypes ==
  ASSUME pending \in Seq(Requests), NEW c \in Requests, Send(c)
  PROVE  pending' \in Seq(Requests)
BY DEF Send

LEMMA RequestsDone ==
  ASSUME pending \in Seq(Requests), NEW c, Completes(c)
  PROVE  pending' \in Seq(Requests) /\ reported' \in Requests
BY TailOfQueue DEF Completes, Asked


LEMMA LoopTypes ==
  ASSUME TypeOK, NEW t \in {"E", "F"},
         Top(t) \/ FlushWait(t) \/ SemWait(t) \/ ExitCheck(t) \/ PopBuffer(t)
  PROVE  TypeOK'
  <1>1. CASE Top(t)
    <2>1. PlacesOK'
      BY <1>1, GotoPlaces DEF TypeOK, PlacesOK, Top, ThreadPlaces, Threads,
          At, compVars
    <2>2. BuffersOK'
      BY <1>1 DEF TypeOK, BuffersOK, Top, PlacesOK, Goto, At, Threads,
          compVars, queueVars, mainVars
    <2>3. CountersOK'
      BY <1>1 DEF TypeOK, CountersOK, Top, mainVars, queueVars, flushVars
    <2>4. FlagsOK'
      BY <1>1 DEF TypeOK, FlagsOK, Top, flagVars, flushVars, eventVars,
          compVars, mainVars
    <2> QED BY <2>1, <2>2, <2>3, <2>4 DEF TypeOK
  <1>2. CASE FlushWait(t)
    <2>1. PlacesOK'
      BY <1>2, GotoPlaces DEF TypeOK, PlacesOK, FlushWait, ThreadPlaces,
          Threads, At, compVars
    <2>2. BuffersOK'
      BY <1>2 DEF TypeOK, BuffersOK, FlushWait, PlacesOK, Goto, At, Threads,
          compVars, queueVars, mainVars
    <2>3. CountersOK'
      BY <1>2 DEF TypeOK, CountersOK, FlushWait, mainVars, queueVars,
          flushVars, PortOf, Ports
    <2>4. FlagsOK'
      BY <1>2 DEF TypeOK, FlagsOK, FlushWait, flagVars, flushVars, eventVars,
          compVars, mainVars
    <2> QED BY <2>1, <2>2, <2>3, <2>4 DEF TypeOK
  <1>3. CASE SemWait(t)
    <2>1. PlacesOK'
      BY <1>3, GotoPlaces DEF TypeOK, PlacesOK, SemWait, ThreadPlaces,
          Threads, At, compVars
    <2>2. BuffersOK'
      BY <1>3 DEF TypeOK, BuffersOK, SemWait, PlacesOK, Goto, At, Threads,
          compVars, queueVars, mainVars
    <2>3. CountersOK'
      BY <1>3 DEF TypeOK, CountersOK, SemWait, mainVars, queueVars, flushVars,
          PortOf, Ports
    <2>4. FlagsOK'
      BY <1>3 DEF TypeOK, FlagsOK, SemWait, flagVars, flushVars, eventVars,
          compVars, mainVars
    <2> QED BY <2>1, <2>2, <2>3, <2>4 DEF TypeOK
  <1>4. CASE ExitCheck(t)
    <2>1. PlacesOK'
      BY <1>4, GotoPlaces DEF TypeOK, PlacesOK, ExitCheck, ThreadPlaces,
          Threads, At, compVars
    <2>2. BuffersOK'
      BY <1>4 DEF TypeOK, BuffersOK, ExitCheck, PlacesOK, Goto, At, Threads,
          compVars, queueVars, mainVars
    <2>3. CountersOK'
      BY <1>4 DEF TypeOK, CountersOK, ExitCheck, mainVars, queueVars,
          flushVars
    <2>4. FlagsOK'
      BY <1>4 DEF TypeOK, FlagsOK, ExitCheck, flagVars, flushVars, eventVars,
          compVars, mainVars
    <2> QED BY <2>1, <2>2, <2>3, <2>4 DEF TypeOK
  <1>5. CASE PopBuffer(t)
    <2>1. PlacesOK'
      BY <1>5, GotoPlaces DEF TypeOK, PlacesOK, PopBuffer, ThreadPlaces,
          Threads, At, compVars
    <2>2. BuffersOK'
      <3>1. PortOf(t) \in Ports
        BY DEF PortOf, Ports
      <3>2. CASE queue[PortOf(t)] = << >>
        BY <1>5, <3>2
           DEF TypeOK, BuffersOK, PlacesOK, PopBuffer, Threads, Goto, At,
               mainVars, compVars
      <3>3. CASE queue[PortOf(t)] # << >>
        <4>1. /\ held' = [held EXCEPT ![t] = Head(queue[PortOf(t)])]
              /\ queue' = [queue EXCEPT ![PortOf(t)] = Tail(@)]
              /\ Goto(t, IF t = "E" THEN "read" ELSE "look")
          BY <1>5, <3>3 DEF PopBuffer
        <4>2. /\ Head(queue[PortOf(t)]) \in Hdrs
              /\ t = "E" => Head(queue[PortOf(t)]) \in InHdrs
              /\ t = "F" => Head(queue[PortOf(t)]) \in OutHdrs
          BY <3>1, <3>3 DEF TypeOK, BuffersOK, PortOf
        <4>3. queue' \in [Ports -> Seq(Hdrs)]
          BY <3>1, <3>3, <4>1, TailOfQueue DEF TypeOK, BuffersOK
        <4>4. queue'["in"] \in Seq(InHdrs) /\ queue'["out"] \in Seq(OutHdrs)
          BY <3>1, <3>3, <4>1, TailOfQueue
             DEF TypeOK, BuffersOK, PortOf, Ports
        <4>5. QED
          BY <1>5, <4>1, <4>2, <4>3, <4>4, HeaderAssumption
             DEF TypeOK, BuffersOK, PlacesOK, PopBuffer, Threads, Goto, At,
                 mainVars, compVars
      <3> QED BY <3>2, <3>3
    <2>3. CountersOK'
      BY <1>5 DEF TypeOK, CountersOK, PopBuffer, mainVars, queueVars,
          flushVars
    <2>4. FlagsOK'
      BY <1>5 DEF TypeOK, FlagsOK, PopBuffer, flagVars, flushVars, eventVars,
          compVars, mainVars
    <2> QED BY <2>1, <2>2, <2>3, <2>4 DEF TypeOK
  <1> QED BY <1>1, <1>2, <1>3, <1>4, <1>5

LEMMA EbdTypes ==
  ASSUME TypeOK, EbdThread
  PROVE  TypeOK'
  <1>1. CASE ReadFrame
    <2>1. PlacesOK'
      BY <1>1, GotoPlaces DEF TypeOK, PlacesOK, ReadFrame, ThreadPlaces,
          Threads, At, compVars
    <2>2. BuffersOK'
      BY <1>1 DEF TypeOK, BuffersOK, ReadFrame, PlacesOK, Goto, At, Threads,
          compVars, queueVars, mainVars
    <2>3. CountersOK'
      BY <1>1 DEF TypeOK, CountersOK, ReadFrame, mainVars, queueVars,
          flushVars
    <2>4. FlagsOK'
      BY <1>1 DEF TypeOK, FlagsOK, ReadFrame, flagVars, flushVars, eventVars,
          compVars, mainVars
    <2> QED BY <2>1, <2>2, <2>3, <2>4 DEF TypeOK
  <1>2. CASE EmptyThisBuffer
    <2>1. PlacesOK'
      BY <1>2, GotoPlaces DEF TypeOK, PlacesOK, EmptyThisBuffer, ThreadPlaces,
          Threads, At, PlacesOK
    <2>2. BuffersOK'
      <3>1. comp' \subseteq Hdrs
        BY <1>2 DEF TypeOK, BuffersOK, EmptyThisBuffer, Taken, Refused, At, Hdrs,
            InHdrs
      <3>2. QED
        BY <1>2, <3>1
           DEF TypeOK, BuffersOK, PlacesOK, EmptyThisBuffer, Goto, At, Threads,
               queueVars, mainVars
    <2>3. CountersOK'
      BY <1>2 DEF TypeOK, CountersOK, EmptyThisBuffer, mainVars, queueVars,
          flushVars
    <2>4. FlagsOK'
      BY <1>2 DEF TypeOK, FlagsOK, EmptyThisBuffer, flagVars, flushVars,
          eventVars, compVars, mainVars
    <2> QED BY <2>1, <2>2, <2>3, <2>4 DEF TypeOK
  <1> QED BY <1>1, <1>2, LoopTypes DEF EbdThread

LEMMA FbdTypes ==
  ASSUME TypeOK, FbdThread
  PROVE  TypeOK'
  <1>1. CASE Look
    <2>1. PlacesOK'
      BY <1>1, GotoPlaces DEF TypeOK, PlacesOK, Look, ThreadPlaces, Threads,
          At, compVars
    <2>2. BuffersOK'
      BY <1>1 DEF TypeOK, BuffersOK, Look, PlacesOK, Goto, At, Threads,
          compVars, queueVars, mainVars
    <2>3. CountersOK'
      BY <1>1 DEF TypeOK, CountersOK, Look, mainVars, queueVars, flushVars
    <2>4. FlagsOK'
      BY <1>1 DEF TypeOK, FlagsOK, Look, flagVars, flushVars, eventVars,
          compVars, mainVars
    <2> QED BY <2>1, <2>2, <2>3, <2>4 DEF TypeOK
  <1>2. CASE Requeue
    <2>1. PlacesOK'
      BY <1>2, GotoPlaces DEF TypeOK, PlacesOK, Requeue, ThreadPlaces,
          Threads, At, compVars
    <2>2. BuffersOK'
      <3>1. held["F"] \in OutHdrs
        BY <1>2 DEF TypeOK, BuffersOK, Requeue, At
      <3>2. queue' \in [Ports -> Seq(Hdrs)] /\ queue'["out"] \in Seq(OutHdrs)
            /\ queue'["in"] \in Seq(InHdrs)
        BY <1>2, <3>1 DEF TypeOK, BuffersOK, Requeue, Requeued, Ports, Hdrs
      <3>3. QED
        BY <1>2, <3>2 DEF TypeOK, BuffersOK, PlacesOK, Requeue, Goto, At, Threads,
            mainVars, compVars
    <2>3. CountersOK'
      BY <1>2 DEF TypeOK, CountersOK, Requeue, mainVars, queueVars, flushVars,
          Requeued, Ports
    <2>4. FlagsOK'
      BY <1>2 DEF TypeOK, FlagsOK, Requeue, flagVars, flushVars, eventVars,
          compVars, mainVars
    <2> QED BY <2>1, <2>2, <2>3, <2>4 DEF TypeOK
  <1>3. CASE FillThisBuffer
    <2>1. PlacesOK'
      BY <1>3, GotoPlaces DEF TypeOK, PlacesOK, FillThisBuffer, ThreadPlaces,
          Threads, At, compVars
    <2>2. BuffersOK'
      <3>1. comp' \subseteq Hdrs
        BY <1>3 DEF TypeOK, BuffersOK, FillThisBuffer, Taken, Refused, At, Hdrs,
            InHdrs
      <3>2. QED
        BY <1>3, <3>1
           DEF TypeOK, BuffersOK, PlacesOK, FillThisBuffer, Goto, At, Threads,
               queueVars, mainVars
    <2>3. CountersOK'
      BY <1>3 DEF TypeOK, CountersOK, FillThisBuffer, mainVars, queueVars,
          flushVars
    <2>4. FlagsOK'
      BY <1>3 DEF TypeOK, FlagsOK, FillThisBuffer, flagVars, flushVars,
          eventVars, compVars, mainVars
    <2> QED BY <2>1, <2>2, <2>3, <2>4 DEF TypeOK
  <1> QED BY <1>1, <1>2, <1>3, LoopTypes DEF FbdThread

LEMMA MainTypes ==
  ASSUME TypeOK, EbdStarts, MainThread
  PROVE  TypeOK'
  <1>1. CASE HandOutputs
    <2>1. PlacesOK'
      BY <1>1, GotoPlaces DEF TypeOK, PlacesOK, HandOutputs, ThreadPlaces,
          Threads, At, PlacesOK
    <2>2. BuffersOK'
      <3>1. comp' \subseteq Hdrs /\ todo' \subseteq Hdrs
        BY <1>1 DEF TypeOK, BuffersOK, HandOutputs, Taken, Refused, Hdrs
      <3>2. QED
        BY <1>1, <3>1 DEF TypeOK, BuffersOK, PlacesOK, HandOutputs, Goto, At,
            Threads, queueVars
    <2>3. CountersOK'
      BY <1>1 DEF TypeOK, CountersOK, HandOutputs, mainVars, queueVars,
          flushVars
    <2>4. FlagsOK'
      BY <1>1 DEF TypeOK, FlagsOK, HandOutputs, flagVars, flushVars,
          eventVars, compVars, mainVars
    <2> QED BY <2>1, <2>2, <2>3, <2>4 DEF TypeOK
  <1>2. CASE HandInputs
    <2>1. PlacesOK'
      BY <1>2 DEF TypeOK, PlacesOK, HandInputs, ThreadPlaces, Threads, At,
          Goto
    <2>2. BuffersOK'
      <3>1. comp' \subseteq Hdrs /\ todo' \subseteq Hdrs
        BY <1>2 DEF TypeOK, BuffersOK, HandInputs, Taken, Hdrs
      <3>2. held["E"] = NoBuf
        BY <1>2 DEF TypeOK, BuffersOK, HandInputs, EbdStarts, At
      <3>3. QED
        BY <1>2, <3>1, <3>2 DEF TypeOK, BuffersOK, PlacesOK, HandInputs, Goto,
            At, Threads, queueVars
    <2>3. CountersOK'
      BY <1>2 DEF TypeOK, CountersOK, HandInputs, mainVars, queueVars,
          flushVars
    <2>4. FlagsOK'
      BY <1>2 DEF TypeOK, FlagsOK, HandInputs, flagVars, flushVars, eventVars,
          compVars, mainVars
    <2> QED BY <2>1, <2>2, <2>3, <2>4 DEF TypeOK
  <1>3. CASE Loop
    <2>1. PlacesOK'
      BY <1>3, GotoPlaces DEF TypeOK, PlacesOK, Loop, ThreadPlaces, Threads,
          At, compVars
    <2>2. BuffersOK'
      BY <1>3 DEF TypeOK, BuffersOK, Loop, PlacesOK, Goto, At, Threads,
          compVars, queueVars, mainVars
    <2>3. CountersOK'
      BY <1>3 DEF TypeOK, CountersOK, Loop, mainVars, queueVars, flushVars
    <2>4. FlagsOK'
      BY <1>3 DEF TypeOK, FlagsOK, Loop, flagVars, flushVars, eventVars,
          compVars, mainVars
    <2> QED BY <2>1, <2>2, <2>3, <2>4 DEF TypeOK
  <1>4. CASE StateCommand
    <2>1. PlacesOK'
      BY <1>4, GotoPlaces DEF TypeOK, PlacesOK, StateCommand, ThreadPlaces,
          Threads, At, Types
    <2>2. BuffersOK'
      BY <1>4 DEF TypeOK, BuffersOK, StateCommand, PlacesOK, Goto, At,
          Threads, compVars, queueVars, mainVars, Types
    <2>3. CountersOK'
      BY <1>4, BoundAssumption DEF TypeOK, CountersOK, StateCommand, mainVars,
          queueVars, flushVars, Types
    <2>4. FlagsOK'
      BY <1>4, SendTypes DEF TypeOK, FlagsOK, StateCommand, flagVars,
          flushVars, eventVars, compVars, mainVars, Types, Requests
    <2> QED BY <2>1, <2>2, <2>3, <2>4 DEF TypeOK
  <1>5. CASE FlushCommand
    <2>1. PlacesOK'
      BY <1>5, GotoPlaces DEF TypeOK, PlacesOK, FlushCommand, ThreadPlaces,
          Threads, At, Types
    <2>2. BuffersOK'
      BY <1>5 DEF TypeOK, BuffersOK, FlushCommand, PlacesOK, Goto, At,
          Threads, compVars, queueVars, mainVars, Types
    <2>3. CountersOK'
      BY <1>5, BoundAssumption DEF TypeOK, CountersOK, FlushCommand, mainVars,
          queueVars, flushVars, Types
    <2>4. FlagsOK'
      <3>1. pending' \in Seq(Requests)
        <4>1. "FlushIn" \in Requests /\ "FlushOut" \in Requests
          BY DEF Requests
        <4>2. \/ Send("FlushIn") \/ Send("FlushOut")
              \/ pending' = pending \o <<"FlushIn", "FlushOut">>
          BY <1>5 DEF FlushCommand
        <4>3. QED BY <4>1, <4>2, SendTypes DEF TypeOK, FlagsOK
      <3>2. flushing' \in [Ports -> BOOLEAN]
        BY <1>5 DEF TypeOK, FlagsOK, FlushCommand, Raised, Ports
      <3>3. QED
        BY <1>5, <3>1, <3>2 DEF TypeOK, FlagsOK, FlushCommand, flagVars,
            eventVars
    <2> QED BY <2>1, <2>2, <2>3, <2>4 DEF TypeOK
  <1>6. CASE DisablePort
    <2>1. PlacesOK'
      BY <1>6, GotoPlaces DEF TypeOK, PlacesOK, DisablePort, ThreadPlaces,
          Threads, At, Types
    <2>2. BuffersOK'
      BY <1>6 DEF TypeOK, BuffersOK, DisablePort, PlacesOK, Goto, At, Threads,
          compVars, queueVars, mainVars, Types
    <2>3. CountersOK'
      BY <1>6, BoundAssumption DEF TypeOK, CountersOK, DisablePort, mainVars,
          queueVars, flushVars, Types
    <2>4. FlagsOK'
      BY <1>6, SendTypes DEF TypeOK, FlagsOK, DisablePort, flagVars,
          flushVars, eventVars, compVars, mainVars, Types, Requests, Ports
    <2> QED BY <2>1, <2>2, <2>3, <2>4 DEF TypeOK
  <1>7. CASE EnablePort
    <2>1. PlacesOK'
      BY <1>7, GotoPlaces DEF TypeOK, PlacesOK, EnablePort, ThreadPlaces,
          Threads, At, Types
    <2>2. BuffersOK'
      <3>1. OutBufs \X {generation + 1} \subseteq Hdrs
        BY <1>7, BoundAssumption
           DEF TypeOK, CountersOK, EnablePort, Types, Hdrs, OutHdrs, Generation
      <3>2. QED
        BY <1>7, <3>1 DEF TypeOK, BuffersOK, PlacesOK, EnablePort, Types, Goto,
            At, Threads, queueVars
    <2>3. CountersOK'
      BY <1>7, BoundAssumption DEF TypeOK, CountersOK, EnablePort, mainVars,
          queueVars, flushVars, Types
    <2>4. FlagsOK'
      BY <1>7, SendTypes DEF TypeOK, FlagsOK, EnablePort, flagVars, flushVars,
          eventVars, compVars, mainVars, Types, Requests
    <2> QED BY <2>1, <2>2, <2>3, <2>4 DEF TypeOK
  <1>8. CASE CommandDone
    <2>1. PlacesOK'
      <3>1. \E l \in {"loop", "clean", "refill"} : Goto("M", l)
        BY <1>8 DEF CommandDone
      <3>2. reported' = reported
        BY <1>8 DEF CommandDone, compVars
      <3>3. {"loop", "clean", "refill"} \subseteq ThreadPlaces["M"]
        BY DEF ThreadPlaces
      <3>4. QED BY <3>1, <3>2, <3>3, GotoPlaces DEF TypeOK, Threads
    <2>2. BuffersOK'
      <3>1. Current \subseteq Hdrs
        BY BoundAssumption
           DEF TypeOK, CountersOK, Current, Hdrs, OutHdrs, Generation
      <3>2. todo' = todo \/ todo' = Current
        BY <1>8 DEF CommandDone
      <3>3. \E l \in {"loop", "clean", "refill"} : Goto("M", l)
        BY <1>8 DEF CommandDone
      <3>4. UNCHANGED <<held, queue, comp, allocated>>
        BY <1>8 DEF CommandDone, queueVars, compVars
      <3>5. QED
        BY <3>1, <3>2, <3>3, <3>4
           DEF TypeOK, BuffersOK, PlacesOK, Goto, Threads
    <2>3. CountersOK'
      BY <1>8 DEF TypeOK, CountersOK, CommandDone, mainVars, queueVars,
          flushVars
    <2>4. FlagsOK'
      BY <1>8 DEF TypeOK, FlagsOK, CommandDone, flagVars, flushVars,
          eventVars, compVars, mainVars, WaitForEvent
    <2> QED BY <2>1, <2>2, <2>3, <2>4 DEF TypeOK
  <1>9. CASE Exit
    <2>1. PlacesOK'
      BY <1>9, GotoPlaces DEF TypeOK, PlacesOK, Exit, ThreadPlaces, Threads,
          At, Types, compVars
    <2>2. BuffersOK'
      BY <1>9 DEF TypeOK, BuffersOK, Exit, PlacesOK, Goto, At, Threads,
          compVars, queueVars, mainVars, Types
    <2>3. CountersOK'
      BY <1>9, BoundAssumption DEF TypeOK, CountersOK, Exit, mainVars,
          queueVars, flushVars, Types
    <2>4. FlagsOK'
      BY <1>9 DEF TypeOK, FlagsOK, Exit, flagVars, flushVars, eventVars,
          compVars, mainVars, Types, Ports
    <2> QED BY <2>1, <2>2, <2>3, <2>4 DEF TypeOK
  <1>10. CASE CleanIdle
    <2>1. PlacesOK'
      BY <1>10, GotoPlaces DEF TypeOK, PlacesOK, CleanIdle, ThreadPlaces,
          Threads, At, CleanedUp, FlagsOK
    <2>2. BuffersOK'
      BY <1>10 DEF TypeOK, BuffersOK, CleanIdle, PlacesOK, Goto, At, Threads,
          compVars, queueVars, mainVars, CleanedUp
    <2>3. CountersOK'
      BY <1>10 DEF TypeOK, CountersOK, CleanIdle, mainVars, queueVars,
          flushVars
    <2>4. FlagsOK'
      BY <1>10, SendTypes DEF TypeOK, FlagsOK, CleanIdle, flagVars, flushVars,
          eventVars, compVars, mainVars, CleanedUp, Requests, WaitForEvent,
          Ports
    <2> QED BY <2>1, <2>2, <2>3, <2>4 DEF TypeOK
  <1>11. CASE CleanLoaded
    <2>1. PlacesOK'
      BY <1>11, GotoPlaces DEF TypeOK, PlacesOK, CleanLoaded, ThreadPlaces,
          Threads, At, CleanedUp, FlagsOK
    <2>2. BuffersOK'
      BY <1>11 DEF TypeOK, BuffersOK, CleanLoaded, PlacesOK, Goto, At,
          Threads, compVars, queueVars, mainVars, CleanedUp
    <2>3. CountersOK'
      BY <1>11 DEF TypeOK, CountersOK, CleanLoaded, mainVars, queueVars,
          flushVars
    <2>4. FlagsOK'
      BY <1>11, SendTypes DEF TypeOK, FlagsOK, CleanLoaded, flagVars,
          flushVars, eventVars, compVars, mainVars, CleanedUp, Requests,
          WaitForEvent
    <2> QED BY <2>1, <2>2, <2>3, <2>4 DEF TypeOK
  <1>12. CASE CleanFree
    <2>1. PlacesOK'
      BY <1>12, GotoPlaces DEF TypeOK, PlacesOK, CleanFree, ThreadPlaces,
          Threads, At, CleanedUp, FlagsOK
    <2>2. BuffersOK'
      BY <1>12 DEF TypeOK, BuffersOK, CleanFree, PlacesOK, Goto, At, Threads,
          compVars, queueVars, mainVars, CleanedUp, Ports
    <2>3. CountersOK'
      BY <1>12 DEF TypeOK, CountersOK, CleanFree, mainVars, queueVars,
          flushVars
    <2>4. FlagsOK'
      BY <1>12 DEF TypeOK, FlagsOK, CleanFree, flagVars, flushVars, eventVars,
          compVars, mainVars, CleanedUp
    <2> QED BY <2>1, <2>2, <2>3, <2>4 DEF TypeOK
  <1> QED BY <1>1, <1>2, <1>3, <1>4, <1>5, <1>6, <1>7, <1>8, <1>9, <1>10,
       <1>11, <1>12 DEF MainThread

LEMMA CallBackTypes ==
  ASSUME TypeOK, NEW p \in Ports,
         BufferDone(p) \/ Post(p) \/ FlushComplete(p) \/ FlushStep(p)
  PROVE  TypeOK'
  <1>1. CASE BufferDone(p)
    <2>1. PlacesOK'
      BY <1>1, GotoPlaces DEF TypeOK, PlacesOK, BufferDone, ThreadPlaces,
          Threads, At, PlacesOK, Idle, PostOf
    <2>2. BuffersOK'
      <3>1. PICK h \in comp \cap HdrsOf(p) :
              /\ comp' = comp \ {h}
              /\ \/ UNCHANGED <<pc, queue>>
                 \/ UNCHANGED queue /\ Goto("C", PostOf(p))
                 \/ /\ queue' = [queue EXCEPT ![p] = Append(@, h)]
                    /\ Goto("C", PostOf(p))
        BY <1>1 DEF BufferDone
      <3>2. CASE UNCHANGED queue
        BY <1>1, <3>1, <3>2 DEF TypeOK, BuffersOK, PlacesOK, BufferDone, Goto,
            Threads, mainVars
      <3>3. CASE queue' = [queue EXCEPT ![p] = Append(@, h)]
        <4>1. queue' \in [Ports -> Seq(Hdrs)] /\ queue'["out"] \in Seq(OutHdrs)
              /\ queue'["in"] \in Seq(InHdrs)
          BY <3>1, <3>3 DEF TypeOK, BuffersOK, Ports, Hdrs, HdrsOf
        <4>2. QED
          BY <1>1, <3>1, <4>1 DEF TypeOK, BuffersOK, PlacesOK, BufferDone, Goto,
              Threads, mainVars
      <3> QED BY <3>1, <3>2, <3>3
    <2>3. CountersOK'
      BY <1>1 DEF TypeOK, CountersOK, BufferDone, mainVars, queueVars,
          flushVars
    <2>4. FlagsOK'
      BY <1>1 DEF TypeOK, FlagsOK, BufferDone, flagVars, flushVars, eventVars,
          compVars, mainVars
    <2> QED BY <2>1, <2>2, <2>3, <2>4 DEF TypeOK
  <1>2. CASE Post(p)
    <2>1. PlacesOK'
      BY <1>2, GotoPlaces DEF TypeOK, PlacesOK, Post, ThreadPlaces, Threads,
          At, PostOf
    <2>2. BuffersOK'
      BY <1>2 DEF TypeOK, BuffersOK, Post, PlacesOK, Goto, At, Threads,
          compVars, queueVars, mainVars, PostOf
    <2>3. CountersOK'
      BY <1>2 DEF TypeOK, CountersOK, Post, mainVars, queueVars, flushVars
    <2>4. FlagsOK'
      BY <1>2 DEF TypeOK, FlagsOK, Post, flagVars, flushVars, eventVars,
          compVars, mainVars
    <2> QED BY <2>1, <2>2, <2>3, <2>4 DEF TypeOK
  <1>3. CASE FlushComplete(p)
    <2>1. PlacesOK'
      BY <1>3, GotoPlaces DEF TypeOK, PlacesOK, FlushComplete, ThreadPlaces,
          Threads, At, FlushRequest, Completes, Asked, Idle
    <2>2. BuffersOK'
      BY <1>3 DEF TypeOK, BuffersOK, FlushComplete, PlacesOK, Goto, At,
          Threads, compVars, queueVars, mainVars, Completes, Asked, Idle
    <2>3. CountersOK'
      BY <1>3 DEF TypeOK, CountersOK, FlushComplete, mainVars, queueVars,
          flushVars, Completes, Asked, Idle
    <2>4. FlagsOK'
      BY <1>3, RequestsDone DEF TypeOK, FlagsOK, FlushComplete, flagVars,
          flushVars, eventVars, compVars, mainVars, Completes, Asked, Idle,
          FlushRequest
    <2> QED BY <2>1, <2>2, <2>3, <2>4 DEF TypeOK
  <1>4. CASE FlushStep(p)
    <2>1. PlacesOK'
      BY <1>4, GotoPlaces DEF TypeOK, PlacesOK, FlushStep, ThreadPlaces,
          Threads, At, PlacesOK, compVars
    <2>2. BuffersOK'
      BY <1>4 DEF TypeOK, BuffersOK, FlushStep, PlacesOK, Goto, At, Threads,
          compVars, queueVars, mainVars
    <2>3. CountersOK'
      BY <1>4 DEF TypeOK, CountersOK, FlushStep, mainVars, queueVars,
          flushVars, LowersFirst, Lower, Wake
    <2>4. FlagsOK'
      BY <1>4 DEF TypeOK, FlagsOK, FlushStep, flagVars, flushVars, eventVars,
          compVars, mainVars, LowersFirst, Lower, Wake
    <2> QED BY <2>1, <2>2, <2>3, <2>4 DEF TypeOK
  <1> QED BY <1>1, <1>2, <1>3, <1>4

LEMMA ComponentTypes ==
  ASSUME TypeOK, Component
  PROVE  TypeOK'
  <1>1. CASE PortComplete
    <2>1. PlacesOK'
      BY <1>1, GotoPlaces DEF TypeOK, PlacesOK, PortComplete, ThreadPlaces,
          Threads, At, PlacesOK, Completes, Asked, Idle
    <2>2. BuffersOK'
      BY <1>1 DEF TypeOK, BuffersOK, PortComplete, PlacesOK, Goto, At,
          Threads, compVars, queueVars, mainVars, Completes, Asked, Idle
    <2>3. CountersOK'
      BY <1>1 DEF TypeOK, CountersOK, PortComplete, mainVars, queueVars,
          flushVars, Completes, Asked, Idle
    <2>4. FlagsOK'
      BY <1>1, RequestsDone DEF TypeOK, FlagsOK, PortComplete, flagVars,
          flushVars, eventVars, compVars, mainVars, Completes, Asked, Idle,
          Ports, Requests
    <2> QED BY <2>1, <2>2, <2>3, <2>4 DEF TypeOK
  <1>2. CASE StateComplete
    <2>1. PlacesOK'
      BY <1>2, GotoPlaces DEF TypeOK, PlacesOK, StateComplete, ThreadPlaces,
          Threads, At, PlacesOK, Completes, Asked, Idle
    <2>2. BuffersOK'
      BY <1>2 DEF TypeOK, BuffersOK, StateComplete, PlacesOK, Goto, At,
          Threads, compVars, queueVars, mainVars, Completes, Asked, Idle
    <2>3. CountersOK'
      BY <1>2 DEF TypeOK, CountersOK, StateComplete, mainVars, queueVars,
          flushVars, Completes, Asked, Idle
    <2>4. FlagsOK'
      BY <1>2, RequestsDone DEF TypeOK, FlagsOK, StateComplete, flagVars,
          flushVars, eventVars, compVars, mainVars, Completes, Asked, Idle,
          Requests
    <2> QED BY <2>1, <2>2, <2>3, <2>4 DEF TypeOK
  <1>3. CASE CommandComplete
    <2>1. PlacesOK'
      BY <1>3, GotoPlaces DEF TypeOK, PlacesOK, CommandComplete, ThreadPlaces,
          Threads, At, compVars
    <2>2. BuffersOK'
      BY <1>3 DEF TypeOK, BuffersOK, CommandComplete, PlacesOK, Goto, At,
          Threads, compVars, queueVars, mainVars
    <2>3. CountersOK'
      BY <1>3 DEF TypeOK, CountersOK, CommandComplete, mainVars, queueVars,
          flushVars
    <2>4. FlagsOK'
      BY <1>3 DEF TypeOK, FlagsOK, CommandComplete, flagVars, flushVars,
          eventVars, compVars, mainVars, EventComplete, EventOf
    <2> QED BY <2>1, <2>2, <2>3, <2>4 DEF TypeOK
  <1>4. CASE Disturbance
    <2>1. PlacesOK'
      BY <1>4, GotoPlaces DEF TypeOK, PlacesOK, Disturbance, ThreadPlaces,
          Threads, At, Idle
    <2>2. BuffersOK'
      BY <1>4 DEF TypeOK, BuffersOK, Disturbance, PlacesOK, Goto, At, Threads,
          compVars, queueVars, mainVars, Idle
    <2>3. CountersOK'
      BY <1>4, BoundAssumption DEF TypeOK, CountersOK, Disturbance, mainVars,
          queueVars, flushVars
    <2>4. FlagsOK'
      BY <1>4 DEF TypeOK, FlagsOK, Disturbance, flagVars, flushVars,
          eventVars, compVars, mainVars, Statuses, EventComplete
    <2> QED BY <2>1, <2>2, <2>3, <2>4 DEF TypeOK
  <1>5. CASE BufferFlag
    <2>1. PlacesOK'
      BY <1>5 DEF TypeOK, PlacesOK, BufferFlag, compVars, At
    <2>2. BuffersOK'
      BY <1>5 DEF TypeOK, BuffersOK, BufferFlag, PlacesOK, Goto, At, Threads,
          compVars, queueVars, mainVars, Idle
    <2>3. CountersOK'
      BY <1>5 DEF TypeOK, CountersOK, BufferFlag, mainVars, queueVars,
          flushVars
    <2>4. FlagsOK'
      BY <1>5 DEF TypeOK, FlagsOK, BufferFlag, flagVars, flushVars, eventVars,
          compVars, mainVars
    <2> QED BY <2>1, <2>2, <2>3, <2>4 DEF TypeOK
  <1> QED BY <1>1, <1>2, <1>3, <1>4, <1>5, CallBackTypes DEF Component,
       CallBack, Completion

LEMMA TypeInit == Init => TypeOK /\ EbdStarts
  <1> SUFFICES ASSUME Init PROVE TypeOK /\ EbdStarts
    OBVIOUS
  <1>1. PlacesOK
    BY PlaceOf DEF Init, PlacesOK, ThreadPlaces, Threads, At, Place
  <1>2. BuffersOK
    BY BoundAssumption
       DEF Init, BuffersOK, Threads, Hdrs, InHdrs, OutHdrs, Generation, Ports
  <1>3. CountersOK BY BoundAssumption DEF Init, CountersOK
  <1>4. FlagsOK
    <2>1. /\ pending \in Seq(Requests) /\ reported \in Requests
          /\ currentStatus \in Statuses
      BY DEF Init, Requests, Statuses
    <2>2. {firstEvent, inputEos, outputEos, eventDone, portOn} \subseteq BOOLEAN
      BY DEF Init
    <2> QED BY <2>1, <2>2 DEF Init, FlagsOK, Ports
  <1>5. EbdStarts BY DEF Init, EbdStarts, At, Threads
  <1> QED BY <1>1, <1>2, <1>3, <1>4, <1>5 DEF TypeOK

LEMMA EbdStartsStep ==
  ASSUME TypeOK, EbdStarts, Next
  PROVE  EbdStarts'
  <1>1. pc \in [Threads -> Place] /\ "M" \in Threads /\ "E" \in Threads
    BY DEF TypeOK, PlacesOK, Place, Threads
  <1>2. CASE EbdThread
    BY <1>1, <1>2
       DEF EbdStarts, EbdThread, Threads, At, Goto, Top, FlushWait, SemWait,
           ExitCheck, PopBuffer, ReadFrame, EmptyThisBuffer
  <1>3. CASE FbdThread
    BY <1>1, <1>3
       DEF EbdStarts, FbdThread, Threads, At, Goto, Top, FlushWait, SemWait,
           ExitCheck, PopBuffer, Look, Requeue, FillThisBuffer
  <1>4. CASE Component
    BY <1>1, <1>4
       DEF EbdStarts, Component, CallBack, Completion, Threads, At, Goto,
           BufferDone, Post, FlushComplete, FlushStep, PortComplete,
           StateComplete, CommandComplete, Disturbance, BufferFlag
  <1>5. CASE HandOutputs \/ HandInputs
    BY <1>1, <1>5 DEF EbdStarts, HandOutputs, HandInputs, Threads, At, Goto
  <1>6. CASE MainThread /\ ~(HandOutputs \/ HandInputs)
    <2>1. pc["M"] \notin {"fill", "empty"} /\ pc'["M"] \notin {"fill", "empty"}
      BY <1>1, <1>6
         DEF MainThread, Loop, StateCommand, FlushCommand, DisablePort,
             EnablePort, CommandDone, Exit, CleanIdle, CleanLoaded, CleanFree,
             CleanedUp, Types, Threads, At, Goto, TypeOK, FlagsOK
    <2> QED BY <2>1 DEF EbdStarts
  <1> QED BY <1>2, <1>3, <1>4, <1>5, <1>6 DEF Next

LEMMA TypeStep ==
  ASSUME TypeOK, EbdStarts, [Next]_vars
  PROVE  TypeOK' /\ EbdStarts'
  <1>1. CASE UNCHANGED vars
    <2> USE <1>1 DEF vars, mainVars, flagVars, queueVars, flushVars, eventVars,
                     compVars
    <2>1. PlacesOK' /\ EbdStarts'
      BY DEF TypeOK, PlacesOK, EbdStarts, At
    <2>2. BuffersOK'
      BY DEF TypeOK, BuffersOK
    <2>3. CountersOK'
      BY DEF TypeOK, CountersOK
    <2>4. FlagsOK'
      BY DEF TypeOK, FlagsOK
    <2> QED BY <2>1, <2>2, <2>3, <2>4 DEF TypeOK
  <1>2. CASE Next
    BY <1>2, MainTypes, EbdTypes, FbdTypes, ComponentTypes, EbdStartsStep DEF Next
  <1> QED BY <1>1, <1>2

(* In every state of every instance the variables have their types: no queue *)
(* holds a header of the other port, and a thread that is about to hand a    *)
(* header over has one.                                                      *)
THEOREM EncoderTypes == Spec => [](TypeOK /\ EbdStarts)
BY TypeInit, TypeStep, PTL DEF Spec

-----------------------------------------------------------------------------
(* The tokens of etb_sem and fbd_sem.  QueuedIsSignalled is inductive over   *)
(* the types; most steps leave the queue and the tokens of a port alone.     *)

Signalled(t) ==
    ~inputEos /\ ~exiting[PortOf(t)] =>
        Len(queue[PortOf(t)]) <= sem[PortOf(t)]
                                 + (IF TokenTaken(t) THEN 1 ELSE 0)
                                 + (IF At("C", PostOf(PortOf(t))) THEN 1 ELSE 0)

LEMMA SignalledAll == QueuedIsSignalled <=> \A t \in {"E", "F"} : Signalled(t)
BY DEF QueuedIsSignalled, Signalled

LEMMA TokenTypes ==
  ASSUME TypeOK, NEW t \in {"E", "F"}
  PROVE  /\ PortOf(t) \in Ports /\ sem[PortOf(t)] \in Nat
         /\ queue[PortOf(t)] \in Seq(Hdrs) /\ Len(queue[PortOf(t)]) \in Nat
BY DEF TypeOK, CountersOK, BuffersOK, PortOf, Ports

LEMMA SignalledFrame ==
  ASSUME TypeOK, NEW t \in {"E", "F"}, Signalled(t),
         inputEos => inputEos', exiting[PortOf(t)] => exiting'[PortOf(t)],
         queue'[PortOf(t)] = queue[PortOf(t)], sem'[PortOf(t)] = sem[PortOf(t)],
         TokenTaken(t) => TokenTaken(t)',
         At("C", PostOf(PortOf(t))) => At("C", PostOf(PortOf(t)))'
  PROVE  Signalled(t)'
BY TokenTypes DEF Signalled, PortOf

(* The steps of the other thread do not touch the port of this one. *)
LEMMA SignalledOther ==
  ASSUME TypeOK, NEW t \in {"E", "F"}, Signalled(t),
         (t = "F" /\ EbdThread) \/ (t = "E" /\ FbdThread)
  PROVE  Signalled(t)'
  <1> DEFINE u == IF t = "E" THEN "F" ELSE "E"
  <1>1. /\ pc \in [Threads -> Place] /\ t \in Threads /\ u \in Threads
        /\ "C" \in Threads /\ u # "C" /\ PortOf(t) \in Ports
        /\ PortOf(t) # PortOf(u)
        /\ queue \in [Ports -> Seq(Hdrs)] /\ sem \in [Ports -> Nat]
        /\ inputEos \in BOOLEAN
    BY DEF TypeOK, PlacesOK, Place, BuffersOK, CountersOK, FlagsOK, Threads,
           PortOf, Ports
  <1>2. /\ (inputEos => inputEos') /\ exiting' = exiting
        /\ queue'[PortOf(t)] = queue[PortOf(t)] /\ sem'[PortOf(t)] = sem[PortOf(t)]
        /\ pc'[t] = pc[t] /\ pc'["C"] = pc["C"]
    <2>1. CASE Top(u) \/ FlushWait(u) \/ SemWait(u) \/ ExitCheck(u) \/ PopBuffer(u)
      BY <1>1, <2>1 DEF Top, FlushWait, SemWait, ExitCheck, PopBuffer, Goto,
          flagVars, queueVars
    <2>2. CASE u = "E" /\ (ReadFrame \/ EmptyThisBuffer)
      BY <1>1, <2>2 DEF ReadFrame, EmptyThisBuffer, Goto, flagVars, queueVars
    <2>3. CASE u = "F" /\ (Look \/ Requeue \/ FillThisBuffer)
      BY <1>1, <2>3 DEF Look, Requeue, Requeued, FillThisBuffer, Goto, flagVars,
          queueVars, PortOf
    <2> QED BY <2>1, <2>2, <2>3 DEF EbdThread, FbdThread
  <1> QED BY <1>2, SignalledFrame DEF TokenTaken, At

(* A thread's own steps: it takes a token, and with it a buffer. *)
LEMMA SignalledOwn ==
  ASSUME TypeOK, NEW t \in {"E", "F"}, Signalled(t),
         (t = "E" /\ EbdThread) \/ (t = "F" /\ FbdThread)
  PROVE  Signalled(t)'
  <1> DEFINE p == PortOf(t)
  <1>1. /\ pc \in [Threads -> Place] /\ t \in Threads /\ t # "C" /\ "C" \in Threads
        /\ p \in Ports /\ sem[p] \in Nat /\ Len(queue[p]) \in Nat
        /\ queue \in [Ports -> Seq(Hdrs)] /\ sem \in [Ports -> Nat]
        /\ inputEos \in BOOLEAN /\ exiting \in [Ports -> BOOLEAN]
    BY TokenTypes
       DEF TypeOK, PlacesOK, Place, BuffersOK, CountersOK, FlagsOK, Threads
  <1>2. CASE Top(t) \/ FlushWait(t)
    BY <1>1, <1>2, SignalledFrame
       DEF Top, FlushWait, At, Goto, TokenTaken, flagVars, queueVars
  <1>3. CASE SemWait(t)
    <2>1. /\ exiting' = exiting /\ inputEos' = inputEos /\ queue' = queue
          /\ sem[p] > 0 /\ sem'[p] = sem[p] - 1
          /\ ~TokenTaken(t) /\ TokenTaken(t)' /\ pc'["C"] = pc["C"]
      BY <1>1, <1>3 DEF SemWait, At, Goto, TokenTaken, flagVars
    <2> QED BY <1>1, <2>1 DEF Signalled, At
  <1>4. CASE ExitCheck(t)
    <2>1. /\ exiting' = exiting /\ inputEos' = inputEos /\ queue' = queue
          /\ sem' = sem /\ pc'["C"] = pc["C"]
      BY <1>1, <1>4 DEF ExitCheck, Goto, flagVars, queueVars
    <2>2. ~inputEos /\ ~exiting[p] => TokenTaken(t)'
      BY <1>1, <1>4 DEF ExitCheck, Goto, TokenTaken
    <2> QED BY <1>1, <2>1, <2>2 DEF Signalled, At
  <1>5. CASE PopBuffer(t)
    <2>1. /\ exiting' = exiting /\ inputEos' = inputEos /\ sem' = sem
          /\ pc'["C"] = pc["C"] /\ TokenTaken(t) /\ ~TokenTaken(t)'
      BY <1>1, <1>5 DEF PopBuffer, At, Goto, TokenTaken, flagVars
    <2>2. CASE queue[p] = << >>
      BY <1>1, <1>5, <2>1, <2>2 DEF PopBuffer, Signalled, At
    <2>3. CASE queue[p] # << >>
      <3>1. queue'[p] = Tail(queue[p])
        BY <1>1, <1>5, <2>3 DEF PopBuffer
      <3>2. Len(queue'[p]) = Len(queue[p]) - 1
        BY <1>1, <2>3, <3>1, TailOfQueue
      <3> QED BY <1>1, <2>1, <3>2 DEF Signalled, At
    <2> QED BY <2>2, <2>3
  <1>6. CASE t = "E" /\ (ReadFrame \/ EmptyThisBuffer)
    <2>1. /\ exiting' = exiting /\ (inputEos => inputEos') /\ queue' = queue
          /\ sem' = sem /\ pc'["C"] = pc["C"] /\ ~TokenTaken(t)
      BY <1>1, <1>6
         DEF ReadFrame, EmptyThisBuffer, At, Goto, TokenTaken, flagVars, queueVars
    <2> QED BY <2>1, SignalledFrame DEF At
  <1>7. CASE t = "F" /\ (Look \/ FillThisBuffer)
    <2>1. /\ exiting' = exiting /\ inputEos' = inputEos /\ queue' = queue
          /\ sem' = sem /\ pc'["C"] = pc["C"] /\ ~TokenTaken(t)
      BY <1>1, <1>7
         DEF Look, FillThisBuffer, At, Goto, TokenTaken, flagVars, queueVars
    <2> QED BY <2>1, SignalledFrame DEF At
  <1>8. CASE t = "F" /\ Requeue
    <2>1. /\ exiting' = exiting /\ inputEos' = inputEos /\ pc'["C"] = pc["C"]
          /\ queue'[p] = Append(queue[p], held["F"]) /\ sem'[p] = sem[p] + 1
          /\ ~TokenTaken(t)
      BY <1>1, <1>8 DEF Requeue, Requeued, At, Goto, TokenTaken, flagVars, PortOf
    <2>2. Len(queue'[p]) = Len(queue[p]) + 1
      BY <1>1, <2>1
    <2> QED BY <1>1, <2>1, <2>2 DEF Signalled, At
  <1> QED
    BY <1>2, <1>3, <1>4, <1>5, <1>6, <1>7, <1>8 DEF EbdThread, FbdThread

LEMMA SignalledMain ==
  ASSUME TypeOK, EbdStarts, NEW t \in {"E", "F"}, Signalled(t), MainThread
  PROVE  Signalled(t)'
  <1>1. /\ pc \in [Threads -> Place] /\ Threads = {"M", "E", "F", "C"}
        /\ PortOf(t) \in Ports /\ exiting \in [Ports -> BOOLEAN]
        /\ t \in {"E", "F"}
    BY TokenTypes DEF TypeOK, PlacesOK, Place, FlagsOK, Threads
  <1>2. CASE CleanFree
    <2>1. queue'[PortOf(t)] = << >> /\ sem' = sem
      BY <1>1, <1>2 DEF CleanFree
    <2>2. Len(queue'[PortOf(t)]) = 0 /\ sem'[PortOf(t)] \in Nat
      BY <2>1, TokenTypes
    <2> QED BY <2>2 DEF Signalled
  <1>3. CASE HandOutputs \/ HandInputs
    <2>1. /\ exiting' = exiting /\ inputEos' = inputEos /\ queue' = queue
          /\ sem' = sem /\ pc'["C"] = pc["C"]
          /\ TokenTaken(t) => pc'[t] = pc[t]
      BY <1>1, <1>3
         DEF HandOutputs, HandInputs, EbdStarts, At, Goto, TokenTaken, flagVars,
             queueVars
    <2> QED BY <2>1, SignalledFrame DEF At, TokenTaken
  <1>4. CASE ~(CleanFree \/ HandOutputs \/ HandInputs)
    <2>1. /\ inputEos' = inputEos /\ queue' = queue /\ sem' = sem
          /\ pc'["C"] = pc["C"] /\ pc'[t] = pc[t]
          /\ exiting[PortOf(t)] => exiting'[PortOf(t)]
      BY <1>1, <1>4
         DEF MainThread, Loop, StateCommand, FlushCommand, DisablePort, EnablePort,
             CommandDone, Exit, CleanIdle, CleanLoaded, CleanedUp, Goto, flagVars,
             queueVars
    <2> QED BY <2>1, SignalledFrame DEF At, TokenTaken
  <1> QED BY <1>2, <1>3, <1>4

(* A call-back queues a buffer before it posts. *)
LEMMA SignalledComponent ==
  ASSUME TypeOK, NEW t \in {"E", "F"}, Signalled(t), Component
  PROVE  Signalled(t)'
  <1> DEFINE p == PortOf(t)
  <1>1. /\ pc \in [Threads -> Place] /\ Threads = {"M", "E", "F", "C"}
        /\ p \in Ports /\ sem[p] \in Nat /\ Len(queue[p]) \in Nat
        /\ queue \in [Ports -> Seq(Hdrs)] /\ sem \in [Ports -> Nat]
        /\ PostOf("in") # PostOf("out") /\ t \in {"E", "F"}
        /\ Ports = {"in", "out"}
    BY TokenTypes
       DEF TypeOK, PlacesOK, Place, BuffersOK, CountersOK, Threads, PostOf, Ports
  <1>2. inputEos' = inputEos /\ exiting' = exiting /\ pc'[t] = pc[t]
    BY <1>1 DEF Component, CallBack, Completion, BufferDone, Post, FlushComplete,
           FlushStep, PortComplete, StateComplete, CommandComplete, Disturbance,
           BufferFlag, Goto, flagVars
  <1>3. ASSUME NEW q \in Ports, BufferDone(q)
        PROVE  Signalled(t)'
    <2>1. sem' = sem /\ ~At("C", PostOf(p))
      BY <1>3 DEF BufferDone, Idle, At, PostOf
    <2>2. CASE queue'[p] = queue[p]
      BY <1>2, <2>1, <2>2, SignalledFrame DEF TokenTaken
    <2>3. CASE queue'[p] # queue[p]
      <3>1. PICK h \in comp : /\ queue' = [queue EXCEPT ![q] = Append(@, h)]
                              /\ Goto("C", PostOf(q))
        BY <1>3, <2>3 DEF BufferDone
      <3>2. p = q
        BY <1>1, <2>3, <3>1
      <3>3. At("C", PostOf(p))' /\ Len(queue'[p]) = Len(queue[p]) + 1
        BY <1>1, <3>1, <3>2 DEF At, Goto
      <3> QED BY <1>1, <1>2, <2>1, <3>3 DEF Signalled, TokenTaken
    <2> QED BY <2>2, <2>3
  <1>4. ASSUME NEW q \in Ports, Post(q)
        PROVE  Signalled(t)'
    <2>1. queue' = queue /\ At("C", PostOf(q)) /\ sem' = [sem EXCEPT ![q] = @ + 1]
          /\ ~At("C", PostOf(p))'
      BY <1>1, <1>4 DEF Post, At, Goto, PostOf
    <2>2. CASE p = q
      BY <1>1, <1>2, <2>1, <2>2 DEF Signalled, TokenTaken
    <2>3. CASE p # q
      <3>1. sem'[p] = sem[p] /\ ~At("C", PostOf(p))
        BY <1>1, <2>1, <2>3 DEF At
      <3> QED BY <1>2, <2>1, <3>1, SignalledFrame DEF TokenTaken
    <2> QED BY <2>2, <2>3
  <1>5. CASE \/ \E q \in Ports : FlushComplete(q) \/ FlushStep(q)
             \/ PortComplete \/ StateComplete \/ CommandComplete \/ Disturbance
             \/ BufferFlag
    <2>1. queue' = queue /\ sem' = sem /\ ~At("C", PostOf(p))
      BY <1>5 DEF FlushComplete, FlushStep, PortComplete, StateComplete,
          CommandComplete, Disturbance, BufferFlag, Completes, Idle, At, PostOf,
          queueVars
    <2> QED BY <1>2, <2>1, SignalledFrame DEF TokenTaken
  <1> QED
    BY <1>3, <1>4, <1>5 DEF Component, CallBack, Completion

LEMMA SignalledStep ==
  ASSUME TypeOK, EbdStarts, QueuedIsSignalled, [Next]_vars
  PROVE  QueuedIsSignalled'
  <1>1. CASE UNCHANGED vars
    BY <1>1 DEF QueuedIsSignalled, TokenTaken, At, vars, flagVars, queueVars
  <1>2. CASE Next
    <2>1. SUFFICES ASSUME NEW t \in {"E", "F"} PROVE Signalled(t)'
      BY DEF QueuedIsSignalled, Signalled
    <2>2. Signalled(t)
      BY SignalledAll
    <2>3. CASE MainThread \/ Component
      BY <2>2, <2>3, SignalledMain, SignalledComponent
    <2>4. CASE (t = "E" /\ EbdThread) \/ (t = "F" /\ FbdThread)
      BY <2>2, <2>4, SignalledOwn
    <2>5. CASE (t = "F" /\ EbdThread) \/ (t = "E" /\ FbdThread)
      BY <2>2, <2>5, SignalledOther
    <2> QED BY <1>2, <2>3, <2>4, <2>5 DEF Next
  <1> QED BY <1>1, <1>2

(* No wake-up is lost, whatever is flushed, disabled or paused: a queued     *)
(* buffer has a token of its semaphore, its thread's or the call-back's.     *)
THEOREM EncoderWakeUps == Spec => []QueuedIsSignalled
  <1>1. Init => QueuedIsSignalled
    BY DEF Init, QueuedIsSignalled, PortOf, PostOf, At, TokenTaken, Ports
  <1> QED BY <1>1, SignalledStep, EncoderTypes, PTL DEF Spec


-----------------------------------------------------------------------------
(* The wait for the end of a flush.                                          *)

Answered(t) ==
    At(t, "flush_wait") =>
        \/ flushing[PortOf(t)] \/ flushSem[PortOf(t)] > 0
        \/ At("C", "flush_post") /\ reported = FlushRequest(PortOf(t))

LEMMA AnsweredFrame ==
  ASSUME TypeOK, NEW t \in {"E", "F"}, Answered(t),
         At(t, "flush_wait")' => At(t, "flush_wait"),
         flushing[PortOf(t)] => flushing'[PortOf(t)],
         flushSem'[PortOf(t)] = flushSem[PortOf(t)],
         At("C", "flush_post") => At("C", "flush_post")' /\ reported' = reported
  PROVE  Answered(t)'
BY DEF Answered, FlushRequest

LEMMA AnsweredThreads ==
  ASSUME TypeOK, NEW t \in {"E", "F"}, Answered(t), EbdThread \/ FbdThread
  PROVE  Answered(t)'
  <1>1. /\ pc \in [Threads -> Place] /\ Threads = {"M", "E", "F", "C"}
        /\ flushSem \in [Ports -> Nat] /\ flushing \in [Ports -> BOOLEAN]
        /\ PortOf("E") = "in" /\ PortOf("F") = "out" /\ Ports = {"in", "out"}
    BY DEF TypeOK, PlacesOK, Place, CountersOK, FlagsOK, Threads, PortOf, Ports
  <1>2. flushing' = flushing /\ reported' = reported /\ pc'["C"] = pc["C"]
    BY <1>1 DEF EbdThread, FbdThread, Top, FlushWait, SemWait, ExitCheck, PopBuffer,
           ReadFrame, EmptyThisBuffer, Look, Requeue, FillThisBuffer, Goto,
           flushVars, compVars
  <1>3. CASE Top(t)
    <2>1. At(t, "flush_wait")' => flushing[PortOf(t)]
      BY <1>1, <1>3 DEF Top, Goto, At
    <2> QED BY <1>2, <2>1 DEF Answered
  <1>4. CASE FlushWait(t)
    <2>1. ~At(t, "flush_wait")'
      BY <1>1, <1>4 DEF FlushWait, Goto, At
    <2> QED BY <2>1 DEF Answered
  <1>5. CASE ~Top(t) /\ ~FlushWait(t)
    <2>1. /\ At(t, "flush_wait")' => At(t, "flush_wait")
          /\ flushSem'[PortOf(t)] = flushSem[PortOf(t)]
      BY <1>1, <1>5
         DEF EbdThread, FbdThread, Top, FlushWait, SemWait, ExitCheck, PopBuffer,
             ReadFrame, EmptyThisBuffer, Look, Requeue, FillThisBuffer, Goto, At,
             flushVars
    <2> QED BY <1>2, <2>1, AnsweredFrame DEF At
  <1> QED BY <1>3, <1>4, <1>5

LEMMA AnsweredMain ==
  ASSUME TypeOK, NEW t \in {"E", "F"}, Answered(t), MainThread
  PROVE  Answered(t)'
  <1>1. /\ pc \in [Threads -> Place] /\ Threads = {"M", "E", "F", "C"}
        /\ PortOf(t) \in Ports
    BY DEF TypeOK, PlacesOK, Place, Threads, PortOf, Ports
  <1>2. /\ flushing[PortOf(t)] => flushing'[PortOf(t)]
        /\ flushSem' = flushSem /\ reported' = reported /\ pc'["C"] = pc["C"]
    BY <1>1 DEF MainThread, HandOutputs, HandInputs, Loop, StateCommand,
           FlushCommand, DisablePort, EnablePort, CommandDone, Exit, CleanIdle,
           CleanLoaded, CleanFree, CleanedUp, Raised, Goto, flushVars, compVars
  <1>3. At(t, "flush_wait")' => At(t, "flush_wait")
    BY <1>1 DEF MainThread, HandOutputs, HandInputs, Loop, StateCommand,
           FlushCommand, DisablePort, EnablePort, CommandDone, Exit, CleanIdle,
           CleanLoaded, CleanFree, CleanedUp, Goto, At
  <1> QED BY <1>2, <1>3, AnsweredFrame DEF At

LEMMA AnsweredComponent ==
  ASSUME TypeOK, NEW t \in {"E", "F"}, Answered(t), Component
  PROVE  Answered(t)'
  <1>1. /\ pc \in [Threads -> Place] /\ Threads = {"M", "E", "F", "C"}
        /\ flushSem \in [Ports -> Nat] /\ flushing \in [Ports -> BOOLEAN]
        /\ PortOf(t) \in Ports /\ pc'[t] = pc[t]
    BY DEF TypeOK, PlacesOK, Place, CountersOK, FlagsOK, Threads, PortOf, Ports,
           Component, CallBack, Completion, BufferDone, Post, FlushComplete,
           FlushStep, PortComplete, StateComplete, CommandComplete, Disturbance,
           BufferFlag, Goto
  <1>2. ASSUME NEW p \in Ports, FlushStep(p)
        PROVE  Answered(t)'
    <2>1. reported = FlushRequest(p) /\ reported' = reported
      BY <1>2 DEF FlushStep, compVars
    <2>2. CASE At("C", "flush_flag")
      <3>1. /\ flushing' = [flushing EXCEPT ![p] = FALSE] /\ flushSem' = flushSem
            /\ At("C", "flush_post")' /\ ~At("C", "flush_post")
        BY <1>1, <1>2, <2>2 DEF FlushStep, LowersFirst, Lower, Goto, At
      <3>2. CASE p = PortOf(t)
        BY <2>1, <3>1, <3>2 DEF Answered
      <3>3. CASE p # PortOf(t)
        BY <1>1, <3>1, <3>3, AnsweredFrame DEF At
      <3> QED BY <3>2, <3>3
    <2>3. CASE At("C", "flush_post")
      <3>1. flushing' = flushing /\ flushSem' = [flushSem EXCEPT ![p] = @ + 1]
        BY <1>2, <2>3 DEF FlushStep, LowersFirst, Wake, At
      <3>2. CASE p = PortOf(t)
        <4>1. flushSem'[PortOf(t)] > 0
          BY <1>1, <3>1, <3>2
        <4> QED BY <4>1 DEF Answered
      <3>3. CASE p # PortOf(t)
        <4>1. reported # FlushRequest(PortOf(t))
          BY <1>1, <2>1, <3>3 DEF FlushRequest, Ports
        <4> QED BY <1>1, <3>1, <3>3, <4>1 DEF Answered, At
      <3> QED BY <3>2, <3>3
    <2> QED BY <1>2, <2>2, <2>3 DEF FlushStep, At
  <1>3. CASE ~\E p \in Ports : FlushStep(p)
    <2>1. flushing' = flushing /\ flushSem' = flushSem /\ ~At("C", "flush_post")
      BY <1>3 DEF Component, CallBack, Completion, BufferDone, Post, PostOf,
          FlushComplete, PortComplete, StateComplete, CommandComplete, Disturbance,
          BufferFlag, Completes, Idle, At, flushVars
    <2> QED BY <1>1, <2>1, AnsweredFrame DEF At
  <1> QED BY <1>2, <1>3

LEMMA AnsweredStep ==
  ASSUME TypeOK, FlushWaitAnswered, [Next]_vars
  PROVE  FlushWaitAnswered'
  <1> SUFFICES ASSUME NEW t \in {"E", "F"} PROVE Answered(t)'
    BY DEF FlushWaitAnswered, Answered
  <1>1. Answered(t)
    BY DEF FlushWaitAnswered, Answered
  <1>2. CASE UNCHANGED vars
    BY <1>1, <1>2 DEF Answered, At, vars, flushVars, compVars
  <1>3. CASE Next
    BY <1>1, <1>3, AnsweredThreads, AnsweredMain, AnsweredComponent DEF Next
  <1> QED BY <1>2, <1>3

(* A thread waits only for a flush that is still to complete: no token an    *)
(* earlier flush has left stands for the one to come.                        *)
THEOREM EncoderFlushes == Spec => []FlushWaitAnswered
  <1>1. Init => FlushWaitAnswered
    BY DEF Init, FlushWaitAnswered, At, Threads
  <1> QED BY <1>1, AnsweredStep, EncoderTypes, PTL DEF Spec

-----------------------------------------------------------------------------
(* What main waits for.  Main sends commands only when the last ones are     *)
(* over, so what is pending, what a call-back reports, which ports are       *)
(* flushed and which event has come are told from where main is.             *)

Asks == CASE At("M", "wait_state") -> {"Pause", "Executing"}
          [] At("M", "wait_flush") -> {"FlushIn", "FlushOut"}
          [] At("M", "wait_disable") -> {"PortDisable"}
          [] At("M", "wait_enable") -> {"PortEnable"}
          [] At("M", "clean_idle") -> {"Idle"}
          [] At("M", "clean_loaded") -> {"Loaded"}
          [] OTHER -> {}

Busy == pc["C"] \in {"flush_flag", "flush_post", "enable", "complete"}
Quiet == pending = << >> /\ ~Busy

\* At most one command is sent at a time, but for the two of flush_all.
OneCommand == \/ pending = << >>
              \/ \E c \in Asks : pending = <<c>>
              \/ At("M", "wait_flush") /\ pending = <<"FlushIn", "FlushOut">>
OneReport == Busy => /\ reported \in Asks
                     /\ pending # << >> =>
                            reported = "FlushIn" /\ pending = <<"FlushOut">>

\* A port is flushed until the call-back of its flush lowers the flag.
ToFlush(p) == \/ \E i \in DOMAIN pending : pending[i] = FlushRequest(p)
              \/ At("C", "flush_flag") /\ reported = FlushRequest(p)
FlushesPending == \A p \in Ports : flushing[p] <=> ToFlush(p)

\* An event is that of the commands main waits for, all of them over, or the
\* one of a disturbance.
EventOfCommand == eventDone => \/ lastCmd = "none" /\ ~Undisturbed
                               \/ Quiet /\ \E c \in Asks : lastCmd = EventOf(c)
DisturbedByError == At("C", "disturbed") => ~Undisturbed

Protocol == OneCommand /\ OneReport /\ FlushesPending /\ EventOfCommand
            /\ DisturbedByError

LEMMA RequestsApart ==
  /\ FlushRequest("in") = "FlushIn" /\ FlushRequest("out") = "FlushOut"
  /\ \A c : EventOf(c) # "none"
BY DEF FlushRequest, EventOf

\* Nothing is asked for: all is over, and no event is left but a disturbance.
LEMMA NothingAsked ==
  ASSUME TypeOK, Protocol, Asks = {}
  PROVE  /\ pending = << >> /\ ~Busy
         /\ \A p \in Ports : flushing[p] = FALSE
         /\ eventDone => lastCmd = "none" /\ ~Undisturbed
  <1>1. ~At("M", "wait_flush")
    BY DEF Asks, At
  <1>2. pending = << >> /\ ~Busy
    BY <1>1 DEF Protocol, OneCommand, OneReport
  <1>3. \A p \in Ports : ~ToFlush(p)
    BY <1>2 DEF ToFlush, Busy, At
  <1> QED
    BY <1>2, <1>3 DEF Protocol, FlushesPending, EventOfCommand, TypeOK, FlagsOK

(* A step that neither sends nor waits. *)
LEMMA ProtocolFrame ==
  ASSUME TypeOK, Protocol, Asks' = Asks,
         At("M", "wait_flush")' <=> At("M", "wait_flush"),
         pc'["C"] = pc["C"],
         UNCHANGED <<pending, reported, flushing, eventVars, errors>>
  PROVE  Protocol'
BY DEF Protocol, OneCommand, OneReport, FlushesPending, ToFlush, EventOfCommand,
    DisturbedByError, Busy, Quiet, At, eventVars, Undisturbed

LEMMA ProtocolSend ==
  ASSUME TypeOK, Protocol, Asks = {}, NEW c \in Requests \ {"FlushIn", "FlushOut"},
         Send(c), c \in Asks', ~At("M", "wait_flush")', pc'["C"] = pc["C"],
         UNCHANGED <<reported, flushing, eventVars, errors>>
  PROVE  Protocol'
  <1>1. pending' = <<c>> /\ ~Busy'
    BY NothingAsked DEF Send, Busy
  <1>2. OneCommand' /\ OneReport'
    BY <1>1 DEF OneCommand, OneReport
  <1>3. FlushesPending'
    <2>1. \A p \in Ports : ~ToFlush(p)'
      BY <1>1 DEF ToFlush, FlushRequest, Busy, At
    <2> QED BY <2>1, NothingAsked DEF FlushesPending
  <1>4. EventOfCommand' /\ DisturbedByError'
    BY NothingAsked
       DEF EventOfCommand, DisturbedByError, Protocol, At, eventVars, Undisturbed
  <1> QED BY <1>2, <1>3, <1>4 DEF Protocol

LEMMA ProtocolDone ==
  ASSUME TypeOK, Protocol, NEW c \in Asks, WaitForEvent(EventOf(c)),
         Asks' = {}, ~At("M", "wait_flush")', pc'["C"] = pc["C"],
         UNCHANGED <<pending, reported, flushing, errors>>
  PROVE  Protocol'
  <1>1. Quiet
    BY RequestsApart DEF WaitForEvent, Protocol, EventOfCommand
  <1>2. OneCommand' /\ OneReport'
    BY <1>1 DEF OneCommand, OneReport, Quiet, Busy
  <1>3. FlushesPending' /\ EventOfCommand' /\ DisturbedByError'
    BY DEF Protocol, FlushesPending, ToFlush, EventOfCommand, WaitForEvent,
           DisturbedByError, At, Undisturbed
  <1> QED BY <1>2, <1>3 DEF Protocol

LEMMA ProtocolFlush ==
  ASSUME TypeOK, Protocol, FlushCommand
  PROVE  Protocol'
  <1>1. /\ Asks = {} /\ Asks' = {"FlushIn", "FlushOut"} /\ At("M", "wait_flush")'
        /\ pc'["C"] = pc["C"] /\ Threads = {"M", "E", "F", "C"}
    BY DEF FlushCommand, Types, Asks, At, Goto, TypeOK, PlacesOK, Threads
  <1>2. UNCHANGED <<reported, eventDone, lastCmd, errors>>
    BY DEF FlushCommand, eventVars
  <1>3. ~Busy'
    BY <1>1, NothingAsked DEF Busy
  <1>4. \/ flushing' = Raised({"in"}) /\ pending' = <<"FlushIn">>
        \/ flushing' = Raised({"out"}) /\ pending' = <<"FlushOut">>
        \/ flushing' = Raised(Ports) /\ pending' = <<"FlushIn", "FlushOut">>
    BY <1>1, NothingAsked DEF FlushCommand, Send
  <1>5. OneCommand' /\ OneReport'
    BY <1>1, <1>3, <1>4 DEF OneCommand, OneReport
  <1>6. FlushesPending'
    <2>1. ~At("C", "flush_flag")'
      BY <1>3 DEF Busy, At
    <2>2. /\ ToFlush("in")' <=> \E i \in DOMAIN pending' : pending'[i] = "FlushIn"
          /\ ToFlush("out")' <=> \E i \in DOMAIN pending' : pending'[i] = "FlushOut"
      BY <2>1 DEF ToFlush, FlushRequest
    <2>3. flushing["in"] = FALSE /\ flushing["out"] = FALSE
      BY <1>1, NothingAsked DEF Ports
    <2>4. CASE flushing' = Raised({"in"}) /\ pending' = <<"FlushIn">>
      <3>1. ToFlush("in")' /\ ~ToFlush("out")'
        BY <2>2, <2>4
      <3>2. flushing'["in"] /\ ~flushing'["out"]
        BY <2>3, <2>4 DEF Raised, Ports
      <3> QED BY <3>1, <3>2 DEF FlushesPending, Ports
    <2>5. CASE flushing' = Raised({"out"}) /\ pending' = <<"FlushOut">>
      <3>1. ~ToFlush("in")' /\ ToFlush("out")'
        BY <2>2, <2>5
      <3>2. ~flushing'["in"] /\ flushing'["out"]
        BY <2>3, <2>5 DEF Raised, Ports
      <3> QED BY <3>1, <3>2 DEF FlushesPending, Ports
    <2>6. CASE flushing' = Raised(Ports) /\ pending' = <<"FlushIn", "FlushOut">>
      <3>1. ToFlush("in")' /\ ToFlush("out")'
        <4>1. 1 \in DOMAIN pending' /\ 2 \in DOMAIN pending'
          BY <2>6
        <4> QED BY <2>2, <2>6, <4>1
      <3>2. flushing'["in"] /\ flushing'["out"]
        BY <2>3, <2>6 DEF Raised, Ports
      <3> QED BY <3>1, <3>2 DEF FlushesPending, Ports
    <2> QED BY <1>4, <2>4, <2>5, <2>6
  <1>7. EventOfCommand' /\ DisturbedByError'
    BY <1>1, <1>2, NothingAsked
       DEF EventOfCommand, DisturbedByError, Protocol, At, Undisturbed
  <1> QED BY <1>5, <1>6, <1>7 DEF Protocol

LEMMA ProtocolMain ==
  ASSUME TypeOK, Protocol, MainThread
  PROVE  Protocol'
  <1>1. /\ pc \in [Threads -> Place] /\ Threads = {"M", "E", "F", "C"}
        /\ returnTo \in {"clean", "exit", "end"}
    BY DEF TypeOK, PlacesOK, Place, FlagsOK, Threads
  <1>2. CASE HandOutputs \/ HandInputs \/ Loop \/ Exit \/ CleanFree
    <2>1. /\ Asks = {} /\ Asks' = {} /\ pc'["C"] = pc["C"]
          /\ ~At("M", "wait_flush") /\ ~At("M", "wait_flush")'
      BY <1>1, <1>2 DEF HandOutputs, HandInputs, Loop, Exit, CleanFree, CleanedUp,
          Types, Asks, At, Goto
    <2>2. UNCHANGED <<pending, reported, flushing, eventVars, errors>>
      BY <1>2 DEF HandOutputs, HandInputs, Loop, Exit, CleanFree, compVars,
          flushVars, eventVars
    <2> QED BY <2>1, <2>2, ProtocolFrame
  <1>3. CASE StateCommand
    <2>1. /\ Asks = {} /\ Asks' = {"Pause", "Executing"} /\ pc'["C"] = pc["C"]
          /\ ~At("M", "wait_flush")'
      BY <1>1, <1>3 DEF StateCommand, Types, Asks, At, Goto
    <2>2. UNCHANGED <<reported, flushing, eventVars, errors>>
      BY <1>3 DEF StateCommand, flushVars, eventVars
    <2>3. Send("Pause") \/ Send("Executing")
      BY <1>3 DEF StateCommand
    <2> QED BY <2>1, <2>2, <2>3, ProtocolSend DEF Requests
  <1>4. CASE FlushCommand
    BY <1>4, ProtocolFlush
  <1>5. CASE DisablePort
    <2>1. /\ Asks = {} /\ pc'["C"] = pc["C"] /\ ~At("M", "wait_flush")'
          /\ ~At("M", "wait_flush")
          /\ \/ Asks' = {} /\ pending' = pending
             \/ Asks' = {"PortDisable"} /\ Send("PortDisable")
      BY <1>1, <1>5 DEF DisablePort, Types, Asks, At, Goto
    <2>2. UNCHANGED <<reported, flushing, eventVars, errors>>
      BY <1>5 DEF DisablePort, flushVars, eventVars
    <2> QED BY <2>1, <2>2, ProtocolSend, ProtocolFrame DEF Requests
  <1>6. CASE EnablePort
    <2>1. /\ Asks = {} /\ Asks' = {"PortEnable"} /\ pc'["C"] = pc["C"]
          /\ ~At("M", "wait_flush")' /\ Send("PortEnable")
      BY <1>1, <1>6 DEF EnablePort, Types, Asks, At, Goto
    <2>2. UNCHANGED <<reported, flushing, eventVars, errors>>
      BY <1>6 DEF EnablePort, flushVars, eventVars
    <2> QED BY <2>1, <2>2, ProtocolSend DEF Requests
  <1>7. CASE CommandDone
    <2>1. /\ Asks' = {} /\ pc'["C"] = pc["C"] /\ ~At("M", "wait_flush")'
      BY <1>1, <1>7 DEF CommandDone, Asks, At, Goto
    <2>2. \E c \in Asks : WaitForEvent(EventOf(c))
      BY <1>7 DEF CommandDone, Asks, At, EventOf
    <2>3. UNCHANGED <<pending, reported, flushing, errors>>
      BY <1>7 DEF CommandDone, compVars, flushVars
    <2> QED BY <2>1, <2>2, <2>3, ProtocolDone
  <1>8. CASE CleanIdle
    <2>1. /\ pc'["C"] = pc["C"] /\ ~At("M", "wait_flush")'
          /\ ~At("M", "wait_flush")
          /\ \/ Asks = {} /\ Asks' = {} /\ UNCHANGED <<pending, eventVars>>
             \/ Asks = {} /\ Asks' = {"Idle"} /\ Send("Idle") /\ UNCHANGED eventVars
             \/ /\ Asks = {"Idle"} /\ Asks' = {} /\ pending' = pending
                /\ WaitForEvent(EventOf("Idle"))
      BY <1>1, <1>8 DEF CleanIdle, CleanedUp, Asks, At, Goto, EventOf
    <2>2. UNCHANGED <<reported, flushing, errors>>
      BY <1>8 DEF CleanIdle, flushVars
    <2> QED
      BY <2>1, <2>2, ProtocolSend, ProtocolFrame, ProtocolDone DEF Requests
  <1>9. CASE CleanLoaded
    <2>1. /\ pc'["C"] = pc["C"] /\ ~At("M", "wait_flush")'
          /\ ~At("M", "wait_flush")
          /\ \/ /\ Asks = {} /\ Asks' = {"Loaded"} /\ Send("Loaded")
                /\ UNCHANGED eventVars
             \/ /\ Asks = {"Loaded"} /\ Asks' = {} /\ pending' = pending
                /\ WaitForEvent(EventOf("Loaded"))
      BY <1>1, <1>9 DEF CleanLoaded, CleanedUp, Asks, At, Goto, EventOf
    <2>2. UNCHANGED <<reported, flushing, errors>>
      BY <1>9 DEF CleanLoaded, flushVars
    <2> QED BY <2>1, <2>2, ProtocolSend, ProtocolDone DEF Requests
  <1> QED
    BY <1>2, <1>3, <1>4, <1>5, <1>6, <1>7, <1>8, <1>9 DEF MainThread


\* The component takes the oldest command.
LEMMA ProtocolTaken ==
  ASSUME TypeOK, Protocol, NEW c, Completes(c), Asks' = Asks,
         At("M", "wait_flush")' <=> At("M", "wait_flush"),
         \/ c \in {"FlushIn", "FlushOut"} /\ At("C", "flush_flag")'
         \/ c \notin {"FlushIn", "FlushOut"} /\ ~At("C", "flush_flag")'
                                            /\ Busy',
         ~At("C", "disturbed")',
         UNCHANGED <<flushing, eventVars, errors>>
  PROVE  Protocol'
  <1>1. ~Busy /\ pending # << >> /\ c = Head(pending) /\ reported' = c
        /\ pending' = Tail(pending)
    BY DEF Completes, Asked, Idle, At, Busy
  <1>2. /\ c \in Asks
        /\ \/ pending = <<c>> /\ pending' = << >>
           \/ /\ pending = <<"FlushIn", "FlushOut">> /\ pending' = <<"FlushOut">>
              /\ c = "FlushIn" /\ At("M", "wait_flush")
    <2>1. CASE \E d \in Asks : pending = <<d>>
      BY <1>1, <2>1
    <2>2. CASE At("M", "wait_flush") /\ pending = <<"FlushIn", "FlushOut">>
      BY <1>1, <2>2 DEF Asks, At
    <2> QED BY <1>1, <2>1, <2>2 DEF Protocol, OneCommand
  <1>3. OneCommand'
    BY <1>2 DEF OneCommand, Asks, At
  <1>4. OneReport'
    BY <1>1, <1>2 DEF OneReport
  <1>5. FlushesPending'
    <2>1. ASSUME NEW p \in Ports PROVE ToFlush(p)' <=> ToFlush(p)
      <3>1. /\ FlushRequest(p)' = FlushRequest(p)
            /\ FlushRequest(p) \in {"FlushIn", "FlushOut"}
        BY DEF FlushRequest
      <3>2. ~At("C", "flush_flag")
        BY <1>1 DEF Busy, At
      <3>3. CASE pending = <<c>> /\ pending' = << >>
        BY <1>1, <3>1, <3>2, <3>3 DEF ToFlush
      <3>4. CASE /\ pending = <<"FlushIn", "FlushOut">>
                 /\ pending' = <<"FlushOut">> /\ c = "FlushIn"
        BY <1>1, <3>1, <3>2, <3>4 DEF ToFlush
      <3> QED BY <1>2, <3>3, <3>4
    <2> QED BY <2>1 DEF Protocol, FlushesPending
  <1>6. EventOfCommand' /\ DisturbedByError'
    BY <1>1 DEF EventOfCommand, DisturbedByError, Protocol, Quiet, eventVars,
        Undisturbed
  <1> QED BY <1>3, <1>4, <1>5, <1>6 DEF Protocol

\* The call-back of a flush: the flag, the post.
LEMMA ProtocolFlushStep ==
  ASSUME TypeOK, Protocol, NEW p \in Ports, FlushStep(p)
  PROVE  Protocol'
  <1>1. /\ pc \in [Threads -> Place] /\ Threads = {"M", "E", "F", "C"}
        /\ flushing \in [Ports -> BOOLEAN] /\ Ports = {"in", "out"}
    BY DEF TypeOK, PlacesOK, Place, FlagsOK, Threads, Ports
  <1>2. /\ pc'["M"] = pc["M"] /\ Busy /\ Busy' /\ ~At("C", "disturbed")'
        /\ reported = FlushRequest(p)
    BY <1>1 DEF FlushStep, Goto, Busy, At
  <1>3. UNCHANGED <<pending, reported, eventDone, lastCmd, errors>>
    BY DEF FlushStep, compVars, eventVars
  <1>4. Asks' = Asks
    BY <1>2 DEF Asks, At
  <1>5. OneCommand' /\ OneReport' /\ EventOfCommand' /\ DisturbedByError'
    BY <1>2, <1>3, <1>4 DEF Protocol, OneCommand, OneReport, EventOfCommand,
        DisturbedByError, Quiet, Undisturbed, At
  <1>6. FlushesPending'
    <2>1. CASE At("C", "flush_flag")
      <3>1. flushing' = [flushing EXCEPT ![p] = FALSE] /\ ~At("C", "flush_flag")'
        BY <1>1, <2>1 DEF FlushStep, LowersFirst, Lower, At, Goto
      <3>2. pending = << >> \/ (pending = <<"FlushOut">> /\ p = "in")
        BY <1>2, RequestsApart DEF Protocol, OneReport, FlushRequest
      <3>3. ASSUME NEW q \in Ports PROVE flushing'[q] <=> ToFlush(q)'
        <4>1. CASE q = p
          BY <1>1, <1>3, <3>1, <3>2, <4>1 DEF ToFlush, FlushRequest
        <4>2. CASE q # p
          <5>1. flushing'[q] = flushing[q] /\ reported # FlushRequest(q)
            BY <1>1, <1>2, <3>1, <4>2 DEF FlushRequest
          <5> QED BY <1>3, <3>1, <5>1 DEF Protocol, FlushesPending, ToFlush
        <4> QED BY <4>1, <4>2
      <3> QED BY <3>3 DEF FlushesPending
    <2>2. CASE At("C", "flush_post")
      <3>1. flushing' = flushing /\ ~At("C", "flush_flag")'
            /\ ~At("C", "flush_flag")
        BY <1>1, <2>2 DEF FlushStep, LowersFirst, Wake, At, Goto
      <3> QED BY <1>3, <3>1 DEF Protocol, FlushesPending, ToFlush
    <2> QED BY <2>1, <2>2 DEF FlushStep, At
  <1> QED BY <1>5, <1>6 DEF Protocol

\* The event is not sent before both ports of flush_all are flushed.
LEMMA ProtocolComplete ==
  ASSUME TypeOK, Protocol, CommandComplete
  PROVE  Protocol'
  <1>1. /\ pc'["M"] = pc["M"] /\ Busy /\ ~Busy' /\ ~At("C", "flush_flag")
        /\ ~At("C", "flush_flag")' /\ ~At("C", "disturbed")'
    BY DEF CommandComplete, TypeOK, PlacesOK, Threads, Goto, At, Busy
  <1>2. UNCHANGED <<pending, reported, flushing, errors>> /\ Asks' = Asks
    BY <1>1 DEF CommandComplete, compVars, flushVars, Asks, At
  <1>3. OneCommand' /\ OneReport' /\ FlushesPending' /\ DisturbedByError'
    BY <1>1, <1>2 DEF Protocol, OneCommand, OneReport, FlushesPending, ToFlush,
        DisturbedByError, At
  <1>4. EventOfCommand'
    <2>1. CASE AllFlushed
      <3>1. eventDone' /\ lastCmd' = EventOf(reported)
        BY <2>1 DEF CommandComplete, EventComplete
      <3>2. pending = << >>
        <4>1. ~ToFlush("out")
          BY <2>1 DEF AllFlushed, Protocol, FlushesPending, Ports
        <4>2. pending # <<"FlushOut">>
          BY <4>1 DEF ToFlush, FlushRequest
        <4> QED BY <1>1, <4>2 DEF Protocol, OneReport
      <3>3. reported \in Asks
        BY <1>1 DEF Protocol, OneReport
      <3> QED BY <1>1, <1>2, <3>1, <3>2, <3>3 DEF EventOfCommand, Quiet
    <2>2. CASE ~AllFlushed
      BY <1>1, <1>2, <2>2
         DEF CommandComplete, eventVars, EventOfCommand, Protocol, Quiet, Undisturbed
    <2> QED BY <2>1, <2>2
  <1> QED BY <1>3, <1>4 DEF Protocol

LEMMA ProtocolDisturbed ==
  ASSUME TypeOK, Protocol, Disturbance
  PROVE  Protocol'
  <1>1. /\ pc'["M"] = pc["M"] /\ ~Busy /\ ~Busy' /\ ~At("C", "flush_flag")
        /\ ~At("C", "flush_flag")'
    BY DEF Disturbance, Idle, TypeOK, PlacesOK, Threads, Goto, At, Busy
  <1>2. UNCHANGED <<pending, flushing>> /\ Asks' = Asks
    BY <1>1 DEF Disturbance, flushVars, Asks, At
  <1>3. OneCommand' /\ OneReport' /\ FlushesPending'
    BY <1>1, <1>2 DEF Protocol, OneCommand, OneReport, FlushesPending, ToFlush, At
  <1>4. EventOfCommand' /\ DisturbedByError'
    <2>1. CASE At("C", "idle")
      <3>1. errors' = errors + 1 /\ UNCHANGED <<eventDone, lastCmd>>
        BY <2>1 DEF Disturbance, At, eventVars
      <3>2. ~Undisturbed'
        BY <3>1 DEF TypeOK, CountersOK, Undisturbed
      <3> QED BY <1>1, <1>2, <3>1, <3>2
                 DEF Protocol, EventOfCommand, DisturbedByError, Quiet
    <2>2. CASE At("C", "disturbed")
      <3>1. /\ errors' = errors /\ ~At("C", "disturbed")'
            /\ \/ eventDone' /\ lastCmd' = "none"
               \/ UNCHANGED <<eventDone, lastCmd>>
        BY <2>2 DEF Disturbance, At, Idle, Goto, EventComplete, eventVars, TypeOK,
            PlacesOK, Threads
      <3>2. ~Undisturbed /\ ~Undisturbed'
        BY <2>2, <3>1 DEF Protocol, DisturbedByError, Undisturbed
      <3> QED BY <1>1, <1>2, <3>1, <3>2
                 DEF Protocol, EventOfCommand, DisturbedByError, Quiet
    <2> QED BY <2>1, <2>2 DEF Disturbance, Idle, At
  <1> QED BY <1>3, <1>4 DEF Protocol

LEMMA ProtocolComponent ==
  ASSUME TypeOK, Protocol, Component
  PROVE  Protocol'
  <1>1. /\ pc \in [Threads -> Place] /\ Threads = {"M", "E", "F", "C"}
    BY DEF TypeOK, PlacesOK, Place, Threads
  <1>2. pc'["M"] = pc["M"]
    BY <1>1 DEF Component, CallBack, Completion, BufferDone, Post, FlushComplete,
           FlushStep, PortComplete, StateComplete, CommandComplete, Disturbance,
           BufferFlag, Goto
  <1>3. Asks' = Asks /\ (At("M", "wait_flush")' <=> At("M", "wait_flush"))
    BY <1>2 DEF Asks, At
  <1>4. CASE BufferFlag \/ \E p \in Ports : BufferDone(p) \/ Post(p)
    <2>1. UNCHANGED <<pending, reported, flushing, eventDone, lastCmd, errors>>
      BY <1>4 DEF BufferFlag, BufferDone, Post, compVars, flushVars, eventVars
    <2>2. /\ ~Busy /\ ~Busy'
          /\ ~At("C", "disturbed") /\ ~At("C", "disturbed")'
      BY <1>1, <1>4 DEF BufferFlag, BufferDone, Post, PostOf, Idle, At, Goto, Busy
    <2>3. ~At("C", "flush_flag") /\ ~At("C", "flush_flag")'
      BY <2>2 DEF Busy, At
    <2> QED
      BY <1>3, <2>1, <2>2, <2>3
         DEF Protocol, OneCommand, OneReport, FlushesPending, ToFlush,
             EventOfCommand, DisturbedByError, Quiet, Undisturbed
  <1>5. CASE Completion
    <2>1. ASSUME NEW p \in Ports, FlushComplete(p)
          PROVE  Protocol'
      <3>1. /\ Completes(FlushRequest(p)) /\ At("C", "flush_flag")'
            /\ ~At("C", "disturbed")'
            /\ FlushRequest(p) \in {"FlushIn", "FlushOut"}
            /\ UNCHANGED <<flushing, eventVars, errors>>
        BY <1>1, <2>1
           DEF FlushComplete, Goto, At, FlushRequest, flushVars, eventVars
      <3> QED BY <1>3, <3>1, ProtocolTaken
    <2>2. CASE PortComplete /\ ~At("C", "enable")
      <3>1. /\ Completes("PortDisable") \/ Completes("PortEnable")
            /\ ~At("C", "flush_flag")' /\ Busy' /\ ~At("C", "disturbed")'
            /\ UNCHANGED <<flushing, eventVars, errors>>
        BY <1>1, <2>2 DEF PortComplete, Goto, At, Busy, flushVars, eventVars
      <3> QED BY <1>3, <3>1, ProtocolTaken
    <2>3. CASE PortComplete /\ At("C", "enable")
      <3>1. /\ UNCHANGED <<pending, reported, flushing, eventDone, lastCmd, errors>>
            /\ Busy /\ Busy' /\ ~At("C", "disturbed")'
            /\ ~At("C", "flush_flag") /\ ~At("C", "flush_flag")'
        BY <1>1, <2>3 DEF PortComplete, Completes, Idle, Goto, At, Busy, flushVars,
            eventVars
      <3> QED
        BY <1>3, <3>1
           DEF Protocol, OneCommand, OneReport, FlushesPending, ToFlush,
               EventOfCommand, DisturbedByError, Quiet, Undisturbed
    <2>4. CASE StateComplete
      <3>1. PICK s \in {"Pause", "Executing", "Idle", "Loaded"} :
              /\ Completes(s) /\ Goto("C", "complete")
              /\ UNCHANGED <<flushing, eventVars, errors>>
        BY <2>4 DEF StateComplete, flushVars, eventVars
      <3>2. ~At("C", "flush_flag")' /\ Busy' /\ ~At("C", "disturbed")'
        BY <1>1, <3>1 DEF Goto, At, Busy
      <3> QED BY <1>3, <3>1, <3>2, ProtocolTaken
    <2> QED BY <1>5, <2>1, <2>2, <2>3, <2>4 DEF Completion
  <1>6. CASE Disturbance
    BY <1>6, ProtocolDisturbed
  <1>7. CASE CallBack
    BY <1>4, <1>7, ProtocolFlushStep, ProtocolComplete DEF CallBack
  <1> QED BY <1>4, <1>5, <1>6, <1>7 DEF Component

LEMMA ProtocolThreads ==
  ASSUME TypeOK, Protocol, EbdThread \/ FbdThread
  PROVE  Protocol'
  <1>1. pc'["M"] = pc["M"] /\ pc'["C"] = pc["C"]
    BY DEF EbdThread, FbdThread, Top, FlushWait, SemWait, ExitCheck, PopBuffer,
           ReadFrame, EmptyThisBuffer, Look, Requeue, FillThisBuffer, Goto, TypeOK,
           PlacesOK, Threads
  <1>2. UNCHANGED <<pending, reported, flushing, eventVars, errors>>
    BY DEF EbdThread, FbdThread, Top, FlushWait, SemWait, ExitCheck, PopBuffer,
           ReadFrame, EmptyThisBuffer, Look, Requeue, FillThisBuffer, compVars,
           flushVars, eventVars
  <1>3. Asks' = Asks /\ (At("M", "wait_flush")' <=> At("M", "wait_flush"))
    BY <1>1 DEF Asks, At
  <1> QED BY <1>1, <1>2, <1>3, ProtocolFrame

LEMMA ProtocolStep ==
  ASSUME TypeOK, Protocol, [Next]_vars
  PROVE  Protocol'
  <1>1. CASE UNCHANGED vars
    <2>1. /\ pc' = pc
          /\ UNCHANGED <<pending, reported, flushing, eventVars, errors>>
      BY <1>1 DEF vars, compVars, flushVars, eventVars
    <2>2. Asks' = Asks /\ (At("M", "wait_flush")' <=> At("M", "wait_flush"))
      BY <2>1 DEF Asks, At
    <2> QED BY <2>1, <2>2, ProtocolFrame
  <1>2. CASE Next
    BY <1>2, ProtocolMain, ProtocolThreads, ProtocolComponent DEF Next
  <1> QED BY <1>1, <1>2

LEMMA ProtocolInit == Init => Protocol
  <1> SUFFICES ASSUME Init PROVE Protocol
    OBVIOUS
  <1>1. /\ pending = << >> /\ eventDone = FALSE /\ At("C", "idle")
        /\ flushing = [p \in Ports |-> FALSE]
    BY DEF Init, At, Threads
  <1> QED
    BY <1>1 DEF Protocol, OneCommand, OneReport, FlushesPending, ToFlush,
        EventOfCommand, DisturbedByError, Busy, At

(* When main takes a command the last one is over: no port is being flushed, *)
(* and, unless the component has reported an error, no event is left.        *)
THEOREM EncoderCommands == Spec => []CommandIsOver
  <1>1. TypeOK /\ Protocol => CommandIsOver
    <2> SUFFICES ASSUME TypeOK, Protocol, pc["M"] \in {"loop", "idle"}
                 PROVE  /\ \A p \in Ports : ~flushing[p]
                        /\ Undisturbed => ~eventDone
      BY DEF CommandIsOver
    <2>1. Asks = {}
      BY DEF Asks, At
    <2> QED BY <2>1, NothingAsked
  <1>2. Spec => []Protocol
    BY ProtocolInit, ProtocolStep, EncoderTypes, PTL DEF Spec
  <1> QED BY <1>1, <1>2, EncoderTypes, PTL

-----------------------------------------------------------------------------
(* The headers.  Every header in use is one that has been made; main frees   *)
(* them when the threads have ended and the component, which is Idle, has    *)
(* none.                                                                     *)

Made == InHdrs \cup OutBufs \X (0..generation)
UsedAreMade == /\ todo \subseteq Made /\ comp \subseteq Made
               /\ \A t \in {"E", "F"} : held[t] \in Made \cup {NoBuf}
               /\ \A p \in Ports : queue[p] \in Seq(Made)

IdleHasNone == omxState \in {"Idle", "Loaded"} => comp = {}

Cleaning == {"clean", "clean_idle", "clean_load", "clean_loaded", "clean_free",
             "end"}
AfterFree == {"clean_loaded", "clean_free", "end"}
FreedLast ==
    Undisturbed =>
        /\ currentStatus # "ERROR"
        /\ pc["M"] \in Cleaning =>
               At("E", "exit") /\ At("F", "exit") /\ returnTo = "end"
        /\ pc["M"] \notin AfterFree => allocated = Made
        /\ pc["M"] \in AfterFree => comp = {}
        /\ At("M", "clean_load") => omxState = "Idle"
        /\ At("M", "clean_idle") /\ pending = << >> => omxState = "Idle"
        /\ pc["M"] \notin {"clean_idle", "clean_load"} \cup AfterFree =>
               omxState \in {"Executing", "Pause"}

HeaderInv == UsedAreMade /\ IdleHasNone /\ FreedLast

LEMMA SeqGrows ==
  ASSUME NEW S, NEW T, S \subseteq T, NEW q \in Seq(S)
  PROVE  q \in Seq(T)
OBVIOUS

LEMMA MadeGrows ==
  ASSUME TypeOK, generation' \in {generation, generation + 1}
  PROVE  Made \subseteq Made'
BY DEF TypeOK, CountersOK, Made

LEMMA CurrentIsMade ==
  ASSUME TypeOK
  PROVE  Current \subseteq Made /\ InHdrs \subseteq Made
BY DEF TypeOK, CountersOK, Made, Current

\* Nothing that matters to the headers in use changes but the generation.
LEMMA UsedFrame ==
  ASSUME TypeOK, UsedAreMade, generation' \in {generation, generation + 1},
         todo' \subseteq Made, comp' \subseteq Made, UNCHANGED <<held, queue>>
  PROVE  UsedAreMade'
  <1>1. Made \subseteq Made'
    BY MadeGrows
  <1>2. \A p \in Ports : queue'[p] \in Seq(Made')
    BY <1>1, SeqGrows DEF UsedAreMade
  <1> QED BY <1>1, <1>2 DEF UsedAreMade

\* A header goes from a queue to a hand, from a hand to a queue or to the
\* component.
LEMMA UsedByThreads ==
  ASSUME TypeOK, UsedAreMade, EbdThread \/ FbdThread
  PROVE  UsedAreMade'
  <1>1. /\ generation' = generation /\ todo' = todo
        /\ held \in [{"E", "F"} -> Hdrs \cup {NoBuf}] /\ queue \in [Ports -> Seq(Hdrs)]
        /\ Made' = Made
    BY DEF EbdThread, FbdThread, Top, FlushWait, SemWait, ExitCheck, PopBuffer,
           ReadFrame, EmptyThisBuffer, Look, Requeue, FillThisBuffer, mainVars,
           TypeOK, BuffersOK, Made
  <1>2. ASSUME NEW t \in {"E", "F"}, PopBuffer(t)
        PROVE  UsedAreMade'
    <2>1. comp' = comp /\ PortOf(t) \in Ports
      BY <1>2 DEF PopBuffer, compVars, PortOf, Ports
    <2>2. CASE UNCHANGED <<held, queue>>
      BY <1>1, <2>1, <2>2 DEF UsedAreMade
    <2>3. CASE /\ queue[PortOf(t)] # << >>
               /\ held' = [held EXCEPT ![t] = Head(queue[PortOf(t)])]
               /\ queue' = [queue EXCEPT ![PortOf(t)] = Tail(@)]
      <3>1. /\ Head(queue[PortOf(t)]) \in Made
            /\ Tail(queue[PortOf(t)]) \in Seq(Made)
        BY <2>1, <2>3, TailOfQueue DEF UsedAreMade
      <3>2. \A p \in Ports : queue'[p] \in Seq(Made)
        BY <1>1, <2>1, <2>3, <3>1 DEF UsedAreMade
      <3> QED BY <1>1, <2>1, <2>3, <3>1, <3>2 DEF UsedAreMade
    <2> QED BY <1>2, <2>2, <2>3 DEF PopBuffer
  <1>3. CASE Requeue
    <2>1. held["F"] \in Made
      BY <1>3, HeaderAssumption DEF TypeOK, BuffersOK, Requeue, At, UsedAreMade
    <2>2. Append(queue["out"], held["F"]) \in Seq(Made)
      BY <2>1 DEF UsedAreMade, Ports
    <2>3. \A p \in Ports : queue'[p] \in Seq(Made)
      BY <1>1, <1>3, <2>2 DEF Requeue, Requeued, UsedAreMade
    <2>4. comp' = comp /\ \A t \in {"E", "F"} : held'[t] \in {held[t], NoBuf}
      BY <1>1, <1>3 DEF Requeue, compVars
    <2> QED BY <1>1, <2>3, <2>4 DEF UsedAreMade
  <1>4. CASE EmptyThisBuffer \/ FillThisBuffer
    <2>1. /\ queue' = queue
          /\ \A t \in {"E", "F"} : held'[t] \in {held[t], NoBuf}
      BY <1>1, <1>4 DEF EmptyThisBuffer, FillThisBuffer, queueVars
    <2>2. comp' \subseteq Made
      BY <1>4, HeaderAssumption
         DEF EmptyThisBuffer, FillThisBuffer, Taken, Refused, TypeOK, BuffersOK,
             At, UsedAreMade
    <2> QED BY <1>1, <2>1, <2>2 DEF UsedAreMade
  <1>5. CASE \/ ReadFrame \/ Look
             \/ \E t \in {"E", "F"} :
                    Top(t) \/ FlushWait(t) \/ SemWait(t) \/ ExitCheck(t)
    <2>1. UNCHANGED <<held, queue, comp>>
      BY <1>5 DEF ReadFrame, Look, Top, FlushWait, SemWait, ExitCheck, compVars,
          queueVars
    <2> QED BY <1>1, <2>1 DEF UsedAreMade
  <1> QED BY <1>2, <1>3, <1>4, <1>5 DEF EbdThread, FbdThread

LEMMA UsedByMain ==
  ASSUME TypeOK, UsedAreMade, MainThread
  PROVE  UsedAreMade'
  <1>1. CASE CleanFree
    <2>1. /\ generation' = generation /\ UNCHANGED <<held, todo, comp>>
          /\ queue' = [p \in Ports |-> << >>]
      BY <1>1 DEF CleanFree
    <2> QED BY <2>1 DEF UsedAreMade, Made
  <1>2. CASE ~CleanFree
    <2>1. generation' \in {generation, generation + 1} /\ UNCHANGED <<held, queue>>
      BY <1>2 DEF MainThread, HandOutputs, HandInputs, Loop, StateCommand,
          FlushCommand, DisablePort, EnablePort, CommandDone, Exit, CleanIdle,
          CleanLoaded, queueVars, mainVars
    <2>2. todo' \subseteq todo \/ todo' = InHdrs \/ todo' = Current
      BY <1>2 DEF MainThread, HandOutputs, HandInputs, Loop, StateCommand,
          FlushCommand, DisablePort, EnablePort, CommandDone, Exit, CleanIdle,
          CleanLoaded, mainVars
    <2>3. comp' \subseteq comp \cup todo
      BY <1>2 DEF MainThread, HandOutputs, HandInputs, Loop, StateCommand,
          FlushCommand, DisablePort, EnablePort, CommandDone, Exit, CleanIdle,
          CleanLoaded, compVars, Taken, Refused
    <2>4. todo' \subseteq Made /\ comp' \subseteq Made
      BY <2>2, <2>3, CurrentIsMade DEF UsedAreMade
    <2> QED BY <2>1, <2>4, UsedFrame
  <1> QED BY <1>1, <1>2

LEMMA UsedByComponent ==
  ASSUME TypeOK, UsedAreMade, Component
  PROVE  UsedAreMade'
  <1>1. /\ generation' = generation /\ UNCHANGED <<held, todo>> /\ comp' \subseteq comp
    BY DEF Component, CallBack, Completion, BufferDone, Post, FlushComplete,
           FlushStep, PortComplete, StateComplete, CommandComplete, Disturbance,
           BufferFlag, mainVars, compVars
  <1>2. CASE queue' = queue
    BY <1>1, <1>2, UsedFrame DEF UsedAreMade
  <1>3. CASE queue' # queue
    <2>1. PICK p \in Ports, h \in comp : queue' = [queue EXCEPT ![p] = Append(@, h)]
      BY <1>3 DEF Component, CallBack, Completion, BufferDone, Post, FlushComplete,
          FlushStep, PortComplete, StateComplete, CommandComplete, Disturbance,
          BufferFlag, queueVars
    <2>2. Append(queue[p], h) \in Seq(Made)
      BY <2>1 DEF UsedAreMade
    <2>3. \A q \in Ports : queue'[q] \in Seq(Made)
      BY <2>1, <2>2 DEF UsedAreMade, TypeOK, BuffersOK
    <2> QED BY <1>1, <2>3 DEF UsedAreMade, Made
  <1> QED BY <1>2, <1>3

LEMMA IdleStep ==
  ASSUME TypeOK, IdleHasNone, Next
  PROVE  IdleHasNone'
  <1>1. CASE EbdThread \/ FbdThread
    <2>1. /\ omxState' = omxState
          /\ comp' = comp \/ omxState \in {"Executing", "Pause"}
      BY <1>1 DEF EbdThread, FbdThread, Top, FlushWait, SemWait, ExitCheck,
          PopBuffer, ReadFrame, EmptyThisBuffer, Look, Requeue, FillThisBuffer,
          compVars, Taken, Refused, MayTake
    <2> QED BY <2>1 DEF IdleHasNone
  <1>2. CASE MainThread
    <2>1. /\ omxState' \in {omxState, "Invalid"}
          /\ comp' = comp \/ omxState \in {"Executing", "Pause"}
      BY <1>2 DEF MainThread, HandOutputs, HandInputs, Loop, StateCommand,
          FlushCommand, DisablePort, EnablePort, CommandDone, Exit, CleanIdle,
          CleanLoaded, CleanFree, compVars, Taken, Refused, MayTake
    <2> QED BY <2>1 DEF IdleHasNone
  <1>3. CASE Component
    <2>1. comp' \subseteq comp /\ (omxState' = omxState \/ StateComplete)
      BY <1>3 DEF Component, CallBack, Completion, BufferDone, Post, FlushComplete,
          FlushStep, PortComplete, StateComplete, CommandComplete, Disturbance,
          BufferFlag, compVars
    <2> QED BY <2>1 DEF IdleHasNone, StateComplete
  <1> QED BY <1>1, <1>2, <1>3 DEF Next

\* What the clauses of FreedLast speak of, but for where main is.
LEMMA FreedFrame ==
  ASSUME FreedLast, errors' = errors, pc'["M"] = pc["M"],
         At("E", "exit") => At("E", "exit")', At("F", "exit") => At("F", "exit")',
         pc["M"] \in AfterFree => comp' \subseteq comp,
         pending = << >> \/ pending' # << >>,
         UNCHANGED <<currentStatus, returnTo, allocated, generation, omxState>>
  PROVE  FreedLast'
BY DEF FreedLast, Undisturbed, Made, At, Cleaning, AfterFree

LEMMA FreedThreads ==
  ASSUME TypeOK, FreedLast, EbdThread \/ FbdThread
  PROVE  FreedLast'
  <1>1. /\ pc \in [Threads -> Place] /\ Threads = {"M", "E", "F", "C"}
    BY DEF TypeOK, PlacesOK, Place, Threads
  <1>2. /\ errors' = errors /\ pc'["M"] = pc["M"]
        /\ UNCHANGED <<currentStatus, returnTo, allocated, generation, omxState,
                       pending>>
    BY <1>1 DEF EbdThread, FbdThread, Top, FlushWait, SemWait, ExitCheck, PopBuffer,
           ReadFrame, EmptyThisBuffer, Look, Requeue, FillThisBuffer, Goto,
           flagVars, mainVars, compVars
  <1>3. /\ At("E", "exit") => At("E", "exit")' /\ ~EbdThread
        /\ At("F", "exit") => At("F", "exit")' /\ ~FbdThread
    BY <1>1 DEF EbdThread, FbdThread, Top, FlushWait, SemWait, ExitCheck, PopBuffer,
           ReadFrame, EmptyThisBuffer, Look, Requeue, FillThisBuffer, Goto, At
  <1>4. CASE Undisturbed
    <2>1. pc["M"] \notin Cleaning
      BY <1>3, <1>4 DEF FreedLast
    <2>2. pc["M"] \notin AfterFree
      BY <2>1 DEF AfterFree, Cleaning
    <2> QED BY <1>2, <1>3, <2>2, FreedFrame
  <1>5. CASE ~Undisturbed
    BY <1>2, <1>5 DEF FreedLast, Undisturbed
  <1> QED BY <1>4, <1>5

\* The component takes only what main asks for.
LEMMA TakenIsAsked ==
  ASSUME Protocol, NEW c, Completes(c)
  PROVE  c \in Asks
  <1>1. CASE \E d \in Asks : pending = <<d>>
    BY <1>1 DEF Completes, Asked
  <1>2. CASE At("M", "wait_flush") /\ pending = <<"FlushIn", "FlushOut">>
    BY <1>2 DEF Completes, Asked, Asks, At
  <1> QED BY <1>1, <1>2 DEF Protocol, OneCommand, Completes, Asked

LEMMA FreedComponent ==
  ASSUME TypeOK, Protocol, FreedLast, Component
  PROVE  FreedLast'
  <1>1. /\ pc \in [Threads -> Place] /\ Threads = {"M", "E", "F", "C"}
        /\ errors \in Nat
    BY DEF TypeOK, PlacesOK, Place, CountersOK, Threads
  <1>2. /\ UNCHANGED <<returnTo, allocated, generation>> /\ comp' \subseteq comp
        /\ pc'["M"] = pc["M"] /\ pc'["E"] = pc["E"] /\ pc'["F"] = pc["F"]
        /\ errors' \in {errors, errors + 1}
    BY <1>1 DEF Component, CallBack, Completion, BufferDone, Post, FlushComplete,
           FlushStep, PortComplete, StateComplete, CommandComplete, Disturbance,
           BufferFlag, Goto, mainVars, compVars
  <1>3. SUFFICES ASSUME Undisturbed, errors' = errors
                 PROVE  FreedLast'
    BY <1>1, <1>2 DEF FreedLast, Undisturbed
  <1>4. CASE BufferFlag \/ CallBack \/ Disturbance \/ \E p \in Ports : BufferDone(p)
    <2>1. ~At("C", "disturbed")
      BY <1>3 DEF Protocol, DisturbedByError
    <2>2. UNCHANGED <<currentStatus, omxState, pending>>
      BY <1>1, <1>3, <1>4, <2>1
         DEF BufferFlag, CallBack, Disturbance, BufferDone, Post, FlushStep,
             CommandComplete, flagVars, compVars, At
    <2> QED BY <1>2, <1>3, <2>2, FreedFrame DEF At
  <1>5. CASE PortComplete \/ \E p \in Ports : FlushComplete(p)
    <2>1. UNCHANGED <<currentStatus, omxState>>
      BY <1>5 DEF PortComplete, FlushComplete, flagVars
    <2>2. CASE pending' = pending
      BY <1>2, <1>3, <2>1, <2>2, FreedFrame DEF At
    <2>3. CASE pending' # pending
      <3>1. \E c \in {"PortDisable", "PortEnable", "FlushIn", "FlushOut"} :
                Completes(c)
        BY <1>5, <2>3 DEF PortComplete, FlushComplete, FlushRequest
      <3>2. ~At("M", "clean_idle")
        BY <3>1, TakenIsAsked DEF Asks, At
      <3> QED
        BY <1>2, <1>3, <2>1, <3>2 DEF FreedLast, Undisturbed, Made, At, AfterFree
    <2> QED BY <2>2, <2>3
  <1>6. CASE StateComplete
    <2>1. PICK s \in {"Pause", "Executing", "Idle", "Loaded"} :
              Completes(s) /\ omxState' = s /\ currentStatus' = currentStatus
      BY <1>6 DEF StateComplete, flagVars
    <2>2. \/ At("M", "wait_state") /\ s \in {"Pause", "Executing"}
          \/ At("M", "clean_idle") /\ s = "Idle"
          \/ At("M", "clean_loaded")
      BY <2>1, TakenIsAsked DEF Asks, At
    <2> QED
      BY <1>2, <1>3, <2>1, <2>2
         DEF FreedLast, Undisturbed, Made, At, AfterFree, Cleaning
  <1> QED BY <1>4, <1>5, <1>6 DEF Component, Completion

LEMMA FreedMain ==
  ASSUME TypeOK, Protocol, HeaderInv, MainThread
  PROVE  FreedLast'
  <1>1. /\ pc \in [Threads -> Place] /\ Threads = {"M", "E", "F", "C"}
        /\ generation \in Nat
    BY DEF TypeOK, PlacesOK, Place, CountersOK, Threads
  <1>2. errors' = errors /\ currentStatus' = currentStatus
    BY DEF MainThread, HandOutputs, HandInputs, Loop, StateCommand, FlushCommand,
           DisablePort, EnablePort, CommandDone, Exit, CleanIdle, CleanLoaded,
           CleanFree, flagVars
  <1>3. SUFFICES ASSUME Undisturbed PROVE FreedLast'
    BY <1>2 DEF FreedLast, Undisturbed
  <1>4. currentStatus # "ERROR" /\ FreedLast
    BY <1>3 DEF HeaderInv, FreedLast
  <1>5. CASE HandOutputs \/ HandInputs \/ Loop \/ StateCommand \/ FlushCommand
             \/ DisablePort \/ CommandDone
    <2>1. /\ pc["M"] \notin Cleaning /\ pc'["M"] \notin Cleaning
          /\ UNCHANGED <<allocated, generation, omxState>>
      BY <1>1, <1>4, <1>5
         DEF HandOutputs, HandInputs, Loop, StateCommand, FlushCommand,
             DisablePort, CommandDone, Types, Goto, At, Cleaning, compVars, mainVars
    <2> QED BY <1>2, <1>3, <1>4, <2>1
            DEF FreedLast, Cleaning, AfterFree, Made, Undisturbed, At
  <1>6. CASE EnablePort
    <2>1. /\ pc["M"] \notin Cleaning /\ pc'["M"] \notin Cleaning
          /\ generation' = generation + 1 /\ omxState' = omxState
          /\ allocated' = allocated \cup OutBufs \X {generation + 1}
      BY <1>1, <1>6 DEF EnablePort, Types, Goto, At, Cleaning
    <2>2. allocated' = Made'
      <3>1. 0..(generation + 1) = (0..generation) \cup {generation + 1}
        BY <1>1
      <3>2. Made' = Made \cup OutBufs \X {generation + 1}
        BY <2>1, <3>1 DEF Made
      <3> QED BY <1>3, <1>4, <2>1, <3>2 DEF FreedLast, Cleaning, AfterFree
    <2> QED BY <1>2, <1>3, <1>4, <2>1, <2>2
            DEF FreedLast, Cleaning, AfterFree, Undisturbed, At
  <1>7. CASE Exit
    <2>1. /\ pc["M"] \notin Cleaning
          /\ UNCHANGED <<allocated, generation, omxState>>
          /\ \/ pc'["M"] \notin Cleaning
             \/ /\ pc'["M"] = "clean" /\ returnTo' = "end"
                /\ At("E", "exit")' /\ At("F", "exit")'
      BY <1>1, <1>7 DEF Exit, Joinable, Types, Goto, At, Cleaning, compVars
    <2> QED BY <1>2, <1>3, <1>4, <2>1
            DEF FreedLast, Cleaning, AfterFree, Made, Undisturbed, At
  <1>8. CASE CleanIdle
    <2>1. /\ pc["M"] \in {"clean", "clean_idle"}
          /\ At("E", "exit")' /\ At("F", "exit")' /\ returnTo' = "end"
          /\ UNCHANGED <<allocated, generation, omxState, comp>>
      BY <1>1, <1>3, <1>4, <1>8
         DEF CleanIdle, CleanedUp, Goto, At, FreedLast, Cleaning
    <2>2. \/ At("M", "clean") /\ pc'["M"] = "clean_idle" /\ pending' # << >>
          \/ At("M", "clean_idle") /\ pc'["M"] = "clean_load" /\ omxState = "Idle"
      <3>1. CASE At("M", "clean")
        <4>1. omxState \in {"Executing", "Pause"}
          BY <1>3, <1>4, <3>1 DEF FreedLast, At, AfterFree
        <4>2. pending' = Append(pending, "Idle") /\ pc'["M"] = "clean_idle"
          BY <1>1, <1>8, <3>1, <4>1 DEF CleanIdle, Send, Goto, At
        <4> QED BY <3>1, <4>2 DEF TypeOK, FlagsOK
      <3>2. CASE At("M", "clean_idle")
        <4>1. WaitForEvent("StateSet") /\ pc'["M"] = "clean_load"
          BY <1>1, <1>4, <1>8, <3>2 DEF CleanIdle, Goto, At
        <4>2. pending = << >>
          BY <1>3, <4>1 DEF Protocol, EventOfCommand, WaitForEvent, Quiet
        <4> QED BY <1>3, <1>4, <3>2, <4>1, <4>2 DEF FreedLast
      <3> QED BY <2>1, <3>1, <3>2 DEF At
    <2> QED BY <1>2, <1>3, <1>4, <2>1, <2>2
            DEF FreedLast, Cleaning, AfterFree, Made, Undisturbed, At
  <1>9. CASE CleanLoaded \/ CleanFree
    <2>1. /\ pc["M"] \in {"clean_load", "clean_loaded", "clean_free"}
          /\ returnTo = "end" /\ At("E", "exit") /\ At("F", "exit")
      BY <1>3, <1>4, <1>9 DEF CleanLoaded, CleanFree, At, FreedLast, Cleaning
    <2>2. comp = {}
      BY <1>3, <1>4, <2>1 DEF FreedLast, HeaderInv, IdleHasNone, At, AfterFree
    <2>3. /\ At("E", "exit")' /\ At("F", "exit")' /\ returnTo' = "end"
          /\ pc'["M"] \in AfterFree /\ comp' = comp
      BY <1>1, <1>4, <1>9, <2>1
         DEF CleanLoaded, CleanFree, CleanedUp, Goto, At, AfterFree
    <2> QED BY <1>2, <1>3, <1>4, <2>2, <2>3
            DEF FreedLast, Cleaning, AfterFree, Undisturbed, At
  <1> QED BY <1>5, <1>6, <1>7, <1>8, <1>9 DEF MainThread

LEMMA HeaderStep ==
  ASSUME TypeOK, Protocol, HeaderInv, [Next]_vars
  PROVE  HeaderInv'
  <1>1. CASE UNCHANGED vars
    BY <1>1 DEF HeaderInv, UsedAreMade, IdleHasNone, FreedLast, Made, Undisturbed, At,
        vars, mainVars, flagVars, queueVars, compVars
  <1>2. CASE Next
    <2>1. UsedAreMade'
      BY <1>2, UsedByThreads, UsedByMain, UsedByComponent DEF HeaderInv, Next
    <2>2. IdleHasNone'
      BY <1>2, IdleStep DEF HeaderInv
    <2>3. FreedLast'
      BY <1>2, FreedThreads, FreedMain, FreedComponent DEF HeaderInv, Next
    <2> QED BY <2>1, <2>2, <2>3 DEF HeaderInv
  <1> QED BY <1>1, <1>2

LEMMA HeaderInit == Init => HeaderInv
  <1> SUFFICES ASSUME Init PROVE HeaderInv
    OBVIOUS
  <1>1. UsedAreMade
    BY DEF Init, UsedAreMade, Made, Ports
  <1>2. Made = InHdrs \cup OutBufs \X {0}
    <2>1. 0..0 = {0}
      OBVIOUS
    <2> QED BY <2>1 DEF Init, Made
  <1>3. IdleHasNone /\ FreedLast
    BY <1>2 DEF Init, IdleHasNone, FreedLast, Cleaning, AfterFree, At, Threads
  <1> QED BY <1>1, <1>3 DEF HeaderInv

(* Whatever commands are typed, main frees no header a thread or the         *)
(* component still has, unless the component has reported an error.          *)
THEOREM EncoderFrees == Spec => []FreedIsUnused
  <1>1. TypeOK /\ HeaderInv => FreedIsUnused
    <2> SUFFICES ASSUME TypeOK, HeaderInv, Undisturbed
                 PROVE  /\ comp \subseteq allocated
                        /\ \A t \in {"E", "F"} : held[t] \in allocated \cup {NoBuf}
      BY DEF FreedIsUnused
    <2>1. CASE pc["M"] \in AfterFree
      <3>1. comp = {} /\ At("E", "exit") /\ At("F", "exit")
        BY <2>1 DEF HeaderInv, FreedLast, AfterFree, Cleaning
      <3>2. held["E"] = NoBuf /\ held["F"] = NoBuf
        BY <3>1 DEF TypeOK, BuffersOK, At
      <3> QED BY <3>1, <3>2
    <2>2. CASE pc["M"] \notin AfterFree
      BY <2>2 DEF HeaderInv, FreedLast, UsedAreMade
    <2> QED BY <2>1, <2>2
  <1>2. Spec => []Protocol
    BY ProtocolInit, ProtocolStep, EncoderTypes, PTL DEF Spec
  <1>3. Spec => []HeaderInv
    BY HeaderInit, HeaderStep, EncoderTypes, <1>2, PTL DEF Spec
  <1> QED BY <1>1, <1>3, EncoderTypes, PTL

-----------------------------------------------------------------------------
(* Where the headers of the output port are.  main makes new ones when it    *)
(* enables the port, they are nowhere until it hands them over, and then no  *)
(* header is in two places; one is lost only when the port is off or its     *)
(* buffers are no longer queued, and both last until main enables the port.  *)

Holds(q, h) == \E k \in DOMAIN q : q[k] = h
HoldsOnce(q, h) == \A j, k \in DOMAIN q : q[j] = h /\ q[k] = h => j = k
Queued(h) == Holds(queue["out"], h)
QueuedOnce(h) == HoldsOnce(queue["out"], h)

Somewhere(h) == h \in todo \/ h \in comp \/ Queued(h) \/ held["F"] = h
NotTwice(h) ==
    /\ QueuedOnce(h)
    /\ h \in todo => h \notin comp /\ ~Queued(h) /\ held["F"] # h
    /\ h \in comp => ~Queued(h) /\ held["F"] # h
    /\ Queued(h) => held["F"] # h

\* The port passes buffers on: it is not disabled, on the one side or the other.
Passes == ~disabled["out"] /\ portOn

EnableReported == At("C", "enable") => reported = "PortEnable"
ClosedInTheEnd == pc["M"] \in Cleaning \ {"clean"} => disabled["out"]
PlaceInv ==
    /\ EnableReported
    /\ Undisturbed =>
        /\ ClosedInTheEnd
        /\ \A h \in Current :
            /\ NotTwice(h)
            /\ At("M", "wait_enable") => ~Somewhere(h)
            /\ ~At("M", "wait_enable") /\ Passes => Somewhere(h)

\* What a queue holds after a header is put into it or taken out of it.
LEMMA AppendHolds ==
  ASSUME NEW S, NEW q \in Seq(S), NEW g \in S, NEW h
  PROVE  /\ Holds(Append(q, g), h) <=> Holds(q, h) \/ g = h
         /\ HoldsOnce(q, h) /\ (g = h => ~Holds(q, h)) => HoldsOnce(Append(q, g), h)
  <1>1. /\ DOMAIN q = 1..Len(q) /\ DOMAIN Append(q, g) = 1..(Len(q) + 1)
        /\ Append(q, g)[Len(q) + 1] = g /\ Len(q) \in Nat
        /\ \A k \in 1..Len(q) : Append(q, g)[k] = q[k]
    OBVIOUS
  <1>2. \A k \in 1..(Len(q) + 1) : k \in 1..Len(q) \/ k = Len(q) + 1
    BY <1>1
  <1>3. Len(q) + 1 \in 1..(Len(q) + 1) /\ 1..Len(q) \subseteq 1..(Len(q) + 1)
    BY <1>1
  <1> QED BY <1>1, <1>2, <1>3 DEF Holds, HoldsOnce

LEMMA TailHolds ==
  ASSUME NEW S, NEW q \in Seq(S), q # << >>, NEW h
  PROVE  /\ Holds(q, h) <=> Holds(Tail(q), h) \/ Head(q) = h
         /\ HoldsOnce(q, h) => /\ HoldsOnce(Tail(q), h)
                               /\ Head(q) = h => ~Holds(Tail(q), h)
  <1>1. /\ DOMAIN q = 1..Len(q) /\ DOMAIN Tail(q) = 1..(Len(q) - 1)
        /\ Head(q) = q[1] /\ Len(q) \in Nat /\ Len(q) > 0
        /\ \A k \in 1..(Len(q) - 1) : Tail(q)[k] = q[k + 1]
    OBVIOUS
  <1>2. \A k \in 1..Len(q) : k = 1 \/ k - 1 \in 1..(Len(q) - 1)
    BY <1>1
  <1>3. \A k \in 1..(Len(q) - 1) : k + 1 \in 1..Len(q) /\ k + 1 # 1
    BY <1>1
  <1>4. \A k \in 1..Len(q) : k # 1 => Tail(q)[k - 1] = q[k]
    BY <1>1, <1>2
  <1>5. 1 \in 1..Len(q)
    BY <1>1
  <1>6. Holds(q, h) <=> Holds(Tail(q), h) \/ Head(q) = h
    BY <1>1, <1>2, <1>3, <1>4, <1>5 DEF Holds
  <1>7. ASSUME HoldsOnce(q, h)
        PROVE  /\ HoldsOnce(Tail(q), h)
               /\ Head(q) = h => ~Holds(Tail(q), h)
    <2>1. ASSUME NEW j \in DOMAIN Tail(q), NEW k \in DOMAIN Tail(q),
                 Tail(q)[j] = h, Tail(q)[k] = h
          PROVE  j = k
      <3>1. j + 1 \in DOMAIN q /\ k + 1 \in DOMAIN q /\ q[j + 1] = h /\ q[k + 1] = h
        BY <1>1, <1>3, <2>1
      <3>2. j + 1 = k + 1
        BY <1>7, <3>1 DEF HoldsOnce
      <3> QED BY <1>1, <3>2
    <2>2. ASSUME Head(q) = h, NEW k \in DOMAIN Tail(q), Tail(q)[k] = h
          PROVE  FALSE
      BY <1>1, <1>3, <1>5, <1>7, <2>2 DEF HoldsOnce
    <2> QED BY <2>1, <2>2 DEF Holds, HoldsOnce
  <1> QED BY <1>6, <1>7

\* A header of the output port is none of the input port, nor no header.
LEMMA OutHdrsApart == \A h \in OutHdrs : h \notin InHdrs /\ h # NoBuf /\ h \in Hdrs
BY HeaderAssumption DEF OutHdrs, InHdrs, Hdrs

\* A step that does not move h.
LEMMA SamePlace ==
  ASSUME NEW h, NotTwice(h), h \in todo' <=> h \in todo, h \in comp' <=> h \in comp,
         queue'["out"] = queue["out"], held'["F"] = held["F"]
  PROVE  NotTwice(h)' /\ (Somewhere(h)' <=> Somewhere(h))
BY DEF NotTwice, Somewhere, Queued, QueuedOnce

\* The threads move a header from the queue to their hand, from there back to
\* the queue or to the component; it is lost if the component refuses it.
LEMMA MovedByThreads ==
  ASSUME TypeOK, EbdThread \/ FbdThread, NEW h \in OutHdrs, NotTwice(h)
  PROVE  /\ NotTwice(h)' /\ (Somewhere(h)' => Somewhere(h))
         /\ Somewhere(h) /\ ~Somewhere(h)' => At("F", "give") /\ ~MayTake(h)
  <1>0. /\ held \in [{"E", "F"} -> Hdrs \cup {NoBuf}] /\ queue \in [Ports -> Seq(Hdrs)]
        /\ queue["out"] \in Seq(OutHdrs) /\ Ports = {"in", "out"}
        /\ PortOf("E") = "in" /\ PortOf("F") = "out"
        /\ h \notin InHdrs /\ h # NoBuf /\ h \in Hdrs
    BY OutHdrsApart DEF TypeOK, BuffersOK, Ports, PortOf
  <1>1. CASE EbdThread
    <2>1. todo' = todo /\ queue'["out"] = queue["out"] /\ held'["F"] = held["F"]
      BY <1>0, <1>1 DEF EbdThread, Top, FlushWait, SemWait, ExitCheck, PopBuffer,
          ReadFrame, EmptyThisBuffer, mainVars, queueVars
    <2>2. comp' = comp \/ comp' = comp \cup {held["E"]}
      BY <1>1 DEF EbdThread, Top, FlushWait, SemWait, ExitCheck, PopBuffer, ReadFrame,
          EmptyThisBuffer, compVars, Taken, Refused
    <2>3. held["E"] # h
      BY <1>0 DEF TypeOK, BuffersOK
    <2> QED BY <2>1, <2>2, <2>3, SamePlace
  <1>2. CASE Top("F") \/ FlushWait("F") \/ SemWait("F") \/ ExitCheck("F") \/ Look
    BY <1>2, SamePlace DEF Top, FlushWait, SemWait, ExitCheck, Look, mainVars,
        queueVars, compVars
  <1>3. CASE PopBuffer("F")
    <2>1. CASE queue["out"] = << >>
      BY <1>0, <1>3, <2>1, SamePlace DEF PopBuffer, mainVars, compVars
    <2>2. CASE queue["out"] # << >>
      <3>1. /\ held'["F"] = Head(queue["out"]) /\ queue'["out"] = Tail(queue["out"])
            /\ todo' = todo /\ comp' = comp
        BY <1>0, <1>3, <2>2 DEF PopBuffer, mainVars, compVars
      <3>2. held["F"] # h
        BY <1>0, <1>3 DEF PopBuffer, At, TypeOK, BuffersOK
      <3>3. /\ Queued(h) <=> Queued(h)' \/ Head(queue["out"]) = h
            /\ QueuedOnce(h)' /\ (Head(queue["out"]) = h => ~Queued(h)')
        BY <1>0, <2>2, <3>1, TailHolds DEF Queued, QueuedOnce, NotTwice
      <3> QED BY <3>1, <3>2, <3>3 DEF NotTwice, Somewhere
    <2> QED BY <2>1, <2>2
  <1>4. CASE Requeue
    <2>1. /\ held'["F"] = NoBuf /\ queue'["out"] = Append(queue["out"], held["F"])
          /\ todo' = todo /\ comp' = comp
      BY <1>0, <1>4 DEF Requeue, Requeued, mainVars, compVars
    <2>2. held["F"] \in OutHdrs
      BY <1>4 DEF Requeue, At, TypeOK, BuffersOK
    <2>3. /\ Queued(h)' <=> Queued(h) \/ held["F"] = h
          /\ QueuedOnce(h)'
      BY <1>0, <2>1, <2>2, AppendHolds DEF Queued, QueuedOnce, NotTwice
    <2> QED BY <1>0, <2>1, <2>3 DEF NotTwice, Somewhere
  <1>5. CASE FillThisBuffer
    <2>1. /\ held'["F"] = NoBuf /\ queue' = queue /\ todo' = todo /\ At("F", "give")
          /\ \/ comp' = comp \cup {held["F"]}
             \/ comp' = comp /\ MayRefuse(held["F"])
      BY <1>0, <1>5 DEF FillThisBuffer, Taken, Refused, mainVars, queueVars
    <2>2. CASE held["F"] = h
      <3>1. MayRefuse(held["F"]) => ~MayTake(h)
        BY <1>0, <2>2 DEF MayRefuse
      <3> QED BY <1>0, <2>1, <2>2, <3>1 DEF NotTwice, Somewhere, Queued, QueuedOnce
    <2>3. CASE held["F"] # h
      BY <1>0, <2>1, <2>3 DEF NotTwice, Somewhere, Queued, QueuedOnce
    <2> QED BY <2>2, <2>3
  <1> QED BY <1>1, <1>2, <1>3, <1>4, <1>5 DEF FbdThread

\* The component gives a header back to the queue; it is lost if the port is
\* disabled.
LEMMA MovedByComponent ==
  ASSUME TypeOK, Component, NEW h \in OutHdrs, NotTwice(h)
  PROVE  /\ NotTwice(h)' /\ (Somewhere(h)' => Somewhere(h))
         /\ Somewhere(h) /\ ~Somewhere(h)' => disabled["out"] /\ disabled' = disabled
  <1>0. /\ queue \in [Ports -> Seq(Hdrs)] /\ queue["out"] \in Seq(OutHdrs)
        /\ Ports = {"in", "out"} /\ h \notin InHdrs /\ h \in Hdrs
    BY OutHdrsApart DEF TypeOK, BuffersOK, Ports
  <1>1. CASE BufferDone("out")
    <2>1. PICK g \in comp \cap OutHdrs :
              /\ comp' = comp \ {g}
              /\ queue' = IF disabled["out"] THEN queue
                          ELSE [queue EXCEPT !["out"] = Append(@, g)]
      BY <1>1 DEF BufferDone, HdrsOf
    <2>2. todo' = todo /\ held' = held /\ disabled' = disabled
      BY <1>1 DEF BufferDone, mainVars, flagVars
    <2>3. CASE disabled["out"]
      BY <2>1, <2>2, <2>3 DEF NotTwice, Somewhere, Queued, QueuedOnce
    <2>4. CASE ~disabled["out"]
      <3>1. queue'["out"] = Append(queue["out"], g)
        BY <1>0, <2>1, <2>4
      <3>2. /\ Queued(h)' <=> Queued(h) \/ g = h
            /\ QueuedOnce(h)'
        BY <1>0, <2>1, <3>1, AppendHolds DEF Queued, QueuedOnce, NotTwice
      <3> QED BY <2>1, <2>2, <3>2 DEF NotTwice, Somewhere
    <2> QED BY <2>3, <2>4
  <1>2. CASE BufferDone("in")
    <2>1. PICK g \in comp \cap InHdrs :
              /\ comp' = comp \ {g}
              /\ queue' = queue \/ queue' = [queue EXCEPT !["in"] = Append(@, g)]
      BY <1>2 DEF BufferDone, HdrsOf
    <2>2. todo' = todo /\ held' = held
      BY <1>2 DEF BufferDone, mainVars
    <2>3. queue'["out"] = queue["out"] /\ (h \in comp' <=> h \in comp)
      BY <1>0, <2>1
    <2> QED BY <2>2, <2>3, SamePlace
  <1>3. CASE CallBack \/ Completion \/ Disturbance \/ BufferFlag
    <2>1. UNCHANGED <<todo, comp, queue, held>>
      BY <1>3 DEF CallBack, Completion, Post, FlushComplete, FlushStep, PortComplete,
          StateComplete, CommandComplete, Disturbance, BufferFlag, mainVars, compVars,
          queueVars
    <2> QED BY <2>1, SamePlace
  <1> QED BY <1>0, <1>1, <1>2, <1>3 DEF Component

\* main hands a header over; it is lost if the component refuses it.
LEMMA MovedByMain ==
  ASSUME TypeOK, MainThread, ~CommandDone, ~CleanFree, NEW h \in OutHdrs, NotTwice(h)
  PROVE  /\ NotTwice(h)' /\ (Somewhere(h)' => Somewhere(h))
         /\ Somewhere(h) /\ ~Somewhere(h)' =>
                pc["M"] \in {"fill", "refill"} /\ ~MayTake(h)
  <1>0. h \notin InHdrs
    BY OutHdrsApart
  <1>1. CASE HandOutputs
    <2>1. queue' = queue /\ held' = held /\ pc["M"] \in {"fill", "refill"}
      BY <1>1 DEF HandOutputs, queueVars
    <2>2. ASSUME NEW g \in todo, Taken(g) \/ Refused(g), todo' = todo \ {g}
          PROVE  /\ NotTwice(h)' /\ (Somewhere(h)' => Somewhere(h))
                 /\ Somewhere(h) /\ ~Somewhere(h)' => ~MayTake(h)
      <3>1. CASE g # h
        BY <2>1, <2>2, <3>1, SamePlace DEF Taken, Refused
      <3>2. CASE g = h /\ Taken(g)
        BY <2>1, <2>2, <3>2 DEF Taken, NotTwice, Somewhere, Queued, QueuedOnce
      <3>3. CASE g = h /\ Refused(g)
        <4>1. ~MayTake(h)
          BY <1>0, <3>3 DEF Refused, MayRefuse
        <4> QED BY <2>1, <2>2, <3>3, <4>1
                DEF Refused, NotTwice, Somewhere, Queued, QueuedOnce
      <3> QED BY <2>2, <3>1, <3>2, <3>3
    <2>3. ASSUME todo = {}, comp' = comp, todo' = InHdrs \/ todo' = {}
          PROVE  NotTwice(h)' /\ (Somewhere(h)' <=> Somewhere(h))
      BY <1>0, <2>1, <2>3, SamePlace
    <2> QED BY <1>1, <2>1, <2>2, <2>3 DEF HandOutputs
  <1>2. CASE HandInputs
    <2>1. queue' = queue /\ held' = held
      BY <1>2 DEF HandInputs, queueVars
    <2>2. \/ UNCHANGED <<todo, comp>>
          \/ \E g \in todo : comp' = comp \cup {g} /\ todo' = todo \ {g}
      BY <1>2 DEF HandInputs, Taken
    <2>3. CASE UNCHANGED <<todo, comp>>
      BY <2>1, <2>3, SamePlace
    <2>4. ASSUME NEW g \in todo, comp' = comp \cup {g}, todo' = todo \ {g}
          PROVE  NotTwice(h)' /\ (Somewhere(h)' <=> Somewhere(h))
      BY <2>1, <2>4 DEF NotTwice, Somewhere, Queued, QueuedOnce
    <2> QED BY <2>2, <2>3, <2>4
  <1>3. CASE ~HandOutputs /\ ~HandInputs
    <2>1. UNCHANGED <<todo, comp, queue, held>>
      BY <1>3 DEF MainThread, Loop, StateCommand, FlushCommand, DisablePort, EnablePort,
          Exit, CleanIdle, CleanLoaded, mainVars, compVars, queueVars
    <2> QED BY <2>1, SamePlace
  <1> QED BY <1>1, <1>2, <1>3

\* What closes the port lasts until main enables it.
LEMMA StaysClosed ==
  ASSUME TypeOK, Protocol, EnableReported, Next, ~At("M", "wait_enable"), ~Passes
  PROVE  ~Passes'
  <1>1. CASE PortComplete
    <2>1. ~Completes("PortEnable")
      BY TakenIsAsked DEF Asks, At
    <2>2. ~At("C", "enable")
      BY DEF EnableReported, Protocol, OneReport, Busy, Asks, At
    <2> QED BY <1>1, <2>1, <2>2 DEF PortComplete, Passes
  <1>2. CASE ~PortComplete
    <2>1. portOn' = portOn
      BY <1>2 DEF Next, EbdThread, FbdThread, Top, FlushWait, SemWait, ExitCheck,
          PopBuffer, ReadFrame, EmptyThisBuffer, Look, Requeue, FillThisBuffer,
          MainThread, HandOutputs, HandInputs, Loop, StateCommand, FlushCommand,
          DisablePort, EnablePort, CommandDone, Exit, CleanIdle, CleanLoaded, CleanFree,
          Component, CallBack, Completion, BufferDone, Post, FlushComplete, FlushStep,
          StateComplete, CommandComplete, Disturbance, BufferFlag, compVars
    <2>2. disabled["out"] => disabled'["out"]
      BY <1>2 DEF Next, EbdThread, FbdThread, Top, FlushWait, SemWait, ExitCheck,
          PopBuffer, ReadFrame, EmptyThisBuffer, Look, Requeue, FillThisBuffer,
          MainThread, HandOutputs, HandInputs, Loop, StateCommand, FlushCommand,
          DisablePort, EnablePort, CommandDone, Exit, CleanIdle, CleanLoaded, CleanFree,
          Component, CallBack, Completion, BufferDone, Post, FlushComplete, FlushStep,
          StateComplete, CommandComplete, Disturbance, BufferFlag, flagVars,
          TypeOK, FlagsOK, Ports
    <2> QED BY <2>1, <2>2 DEF Passes
  <1> QED BY <1>1, <1>2

LEMMA EnableReportedStep ==
  ASSUME TypeOK, EnableReported, Next
  PROVE  EnableReported'
  <1>1. /\ pc \in [Threads -> Place] /\ Threads = {"M", "E", "F", "C"}
    BY DEF TypeOK, PlacesOK, Place, Threads
  <1>2. CASE MainThread \/ EbdThread \/ FbdThread
    <2>1. pc'["C"] = pc["C"] /\ reported' = reported
      BY <1>1, <1>2 DEF EbdThread, FbdThread, Top, FlushWait, SemWait, ExitCheck,
          PopBuffer, ReadFrame, EmptyThisBuffer, Look, Requeue, FillThisBuffer,
          MainThread, HandOutputs, HandInputs, Loop, StateCommand, FlushCommand,
          DisablePort, EnablePort, CommandDone, Exit, CleanIdle, CleanLoaded, CleanFree,
          CleanedUp, Types, Goto, compVars
    <2> QED BY <2>1 DEF EnableReported, At
  <1>3. CASE Component
    <2>1. CASE PortComplete
      BY <1>1, <2>1 DEF PortComplete, Completes, Goto, At, EnableReported
    <2>2. CASE ~PortComplete
      <3>1. pc'["C"] # "enable" \/ pc'["C"] = pc["C"]
        <4>1. ASSUME NEW p \in Ports, BufferDone(p)
              PROVE  pc'["C"] # "enable" \/ pc'["C"] = pc["C"]
          BY <1>1, <4>1 DEF BufferDone, PostOf, Goto
        <4>2. CASE CallBack \/ (\E p \in Ports : FlushComplete(p)) \/ StateComplete
          BY <1>1, <4>2 DEF CallBack, Post, FlushComplete, FlushStep, StateComplete,
              CommandComplete, Goto
        <4>3. CASE Disturbance \/ BufferFlag
          BY <1>1, <4>3 DEF Disturbance, BufferFlag, Goto
        <4> QED BY <1>3, <2>2, <4>1, <4>2, <4>3 DEF Component, Completion
      <3>2. pc'["C"] = pc["C"] => reported' = reported \/ pc["C"] # "enable"
        BY <1>3, <2>2 DEF Component, CallBack, Completion, BufferDone, Post, At,
            FlushComplete, FlushStep, StateComplete, CommandComplete, Disturbance,
            BufferFlag, Completes, Idle, compVars
      <3> QED BY <3>1, <3>2 DEF EnableReported, At
    <2> QED BY <2>1, <2>2
  <1> QED BY <1>2, <1>3 DEF Next

\* main cleans up with the port disabled.
LEMMA ClosedInTheEndStep ==
  ASSUME TypeOK, Protocol, FreedLast, EnableReported, Undisturbed, ClosedInTheEnd, Next
  PROVE  ClosedInTheEnd'
  <1>1. /\ pc \in [Threads -> Place] /\ Threads = {"M", "E", "F", "C"}
    BY DEF TypeOK, PlacesOK, Place, Threads
  <1>2. CASE EbdThread \/ FbdThread
    <2>1. pc'["M"] = pc["M"] /\ disabled' = disabled
      BY <1>1, <1>2 DEF EbdThread, FbdThread, Top, FlushWait, SemWait, ExitCheck,
          PopBuffer, ReadFrame, EmptyThisBuffer, Look, Requeue, FillThisBuffer, Goto,
          flagVars
    <2> QED BY <2>1 DEF ClosedInTheEnd
  <1>3. CASE Component
    <2>1. pc'["M"] = pc["M"]
      BY <1>1, <1>3 DEF Component, CallBack, Completion, BufferDone, Post,
          FlushComplete, FlushStep, PortComplete, StateComplete, CommandComplete,
          Disturbance, BufferFlag, Goto
    <2>2. disabled' = disabled \/ At("C", "enable")
      BY <1>3 DEF Component, CallBack, Completion, BufferDone, Post, FlushComplete,
          FlushStep, PortComplete, StateComplete, CommandComplete, Disturbance,
          BufferFlag, flagVars
    <2>3. At("C", "enable") => At("M", "wait_enable")
      BY DEF EnableReported, Protocol, OneReport, Busy, Asks, At
    <2> QED BY <2>1, <2>2, <2>3 DEF ClosedInTheEnd, Cleaning, At
  <1>4. CASE MainThread
    <2>1. CASE CleanIdle
      <3>1. At("M", "clean") => omxState \in {"Executing", "Pause"}
        BY DEF FreedLast, At, AfterFree
      <3>2. At("M", "clean_idle") => disabled["out"]
        BY DEF ClosedInTheEnd, Cleaning, At
      <3> QED BY <2>1, <3>1, <3>2 DEF CleanIdle, ClosedInTheEnd, At, Ports
    <2>2. CASE CleanLoaded \/ CleanFree
      <3>1. disabled' = disabled /\ disabled["out"]
        BY <2>2 DEF CleanLoaded, CleanFree, ClosedInTheEnd, Cleaning, At, flagVars
      <3> QED BY <3>1 DEF ClosedInTheEnd
    <2>3. CASE ~CleanIdle /\ ~CleanLoaded /\ ~CleanFree
      <3>1. pc'["M"] \notin Cleaning \ {"clean"}
        BY <1>1, <1>4, <2>3 DEF MainThread, HandOutputs, HandInputs, Loop,
            StateCommand, FlushCommand, DisablePort, EnablePort, CommandDone, Exit,
            Types, Goto, At, Cleaning
      <3> QED BY <3>1 DEF ClosedInTheEnd
    <2> QED BY <2>1, <2>2, <2>3
  <1> QED BY <1>2, <1>3, <1>4 DEF Next

\* A header that is refused is one of a port that is off.
LEMMA RefusedIsOff ==
  ASSUME TypeOK, FreedLast, Undisturbed, NEW h, ~MayTake(h),
         At("F", "give") \/ pc["M"] \in {"fill", "refill"}
  PROVE  ~Passes
  <1>1. pc["M"] \notin {"clean_idle", "clean_load"} \cup AfterFree
    BY DEF FreedLast, Cleaning, AfterFree, At
  <1> QED BY <1>1 DEF FreedLast, MayTake, Passes

\* The headers of the port before and after a step.
Housed(h) == /\ NotTwice(h)
             /\ At("M", "wait_enable") => ~Somewhere(h)
             /\ ~At("M", "wait_enable") /\ Passes => Somewhere(h)

LEMMA HousedMoves ==
  ASSUME TypeOK, Protocol, EnableReported, FreedLast, ClosedInTheEnd, Undisturbed, Next,
         ~EnablePort, ~CommandDone, ~CleanFree, NEW h \in OutHdrs, Housed(h)
  PROVE  Housed(h)'
  <1>1. /\ NotTwice(h)' /\ (Somewhere(h)' => Somewhere(h))
        /\ Somewhere(h) /\ ~Somewhere(h)' => ~Passes
    BY MovedByThreads, MovedByComponent, MovedByMain, RefusedIsOff
       DEF Next, Housed, Passes
  <1>2. At("M", "wait_enable")' <=> At("M", "wait_enable")
    <2>1. /\ pc \in [Threads -> Place] /\ Threads = {"M", "E", "F", "C"}
          /\ returnTo \in {"clean", "exit", "end"}
      BY DEF TypeOK, PlacesOK, Place, FlagsOK, Threads
    <2>2. CASE MainThread
      BY <2>1, <2>2 DEF MainThread, HandOutputs, HandInputs, Loop, StateCommand,
          FlushCommand, DisablePort, Exit, CleanIdle, CleanLoaded, CleanedUp, Types,
          Goto, At
    <2>3. CASE EbdThread \/ FbdThread \/ Component
      BY <2>1, <2>3 DEF EbdThread, FbdThread, Top, FlushWait, SemWait, ExitCheck,
          PopBuffer, ReadFrame, EmptyThisBuffer, Look, Requeue, FillThisBuffer,
          Component, CallBack, Completion, BufferDone, Post, FlushComplete, FlushStep,
          PortComplete, StateComplete, CommandComplete, Disturbance, BufferFlag, Goto, At
    <2> QED BY <2>2, <2>3 DEF Next
  <1> QED BY <1>1, <1>2, StaysClosed DEF Housed

LEMMA PlaceStep ==
  ASSUME TypeOK, Protocol, HeaderInv, PlaceInv, [Next]_vars
  PROVE  PlaceInv'
  <1>1. CASE UNCHANGED vars
    BY <1>1 DEF PlaceInv, EnableReported, ClosedInTheEnd, Undisturbed, Current, NotTwice,
        Somewhere, Queued, QueuedOnce, Passes, At, vars, mainVars, flagVars, queueVars,
        compVars
  <1>2. CASE Next
    <2>1. EnableReported'
      BY <1>2, EnableReportedStep DEF PlaceInv
    <2>2. SUFFICES ASSUME Undisturbed', Undisturbed
                   PROVE  ClosedInTheEnd' /\ \A h \in Current' : Housed(h)'
      <3>1. errors' \in {errors, errors + 1} /\ errors \in Nat
        BY <1>2 DEF Next, EbdThread, FbdThread, Top, FlushWait, SemWait, ExitCheck,
            PopBuffer, ReadFrame, EmptyThisBuffer, Look, Requeue, FillThisBuffer,
            MainThread, HandOutputs, HandInputs, Loop, StateCommand, FlushCommand,
            DisablePort, EnablePort, CommandDone, Exit, CleanIdle, CleanLoaded,
            CleanFree, Component, CallBack, Completion, BufferDone, Post, FlushComplete,
            FlushStep, PortComplete, StateComplete, CommandComplete, Disturbance,
            BufferFlag, TypeOK, CountersOK
      <3>2. Undisturbed' => Undisturbed
        BY <3>1 DEF Undisturbed
      <3> QED BY <2>1, <3>2 DEF PlaceInv, Housed
    <2>3. /\ FreedLast /\ ClosedInTheEnd /\ EnableReported /\ currentStatus # "ERROR"
          /\ \A h \in Current : Housed(h)
      BY <2>2 DEF HeaderInv, FreedLast, PlaceInv, Housed
    <2>4. ClosedInTheEnd'
      BY <1>2, <2>2, <2>3, ClosedInTheEndStep
    <2>5. /\ pc \in [Threads -> Place] /\ Threads = {"M", "E", "F", "C"}
          /\ generation \in Nat /\ Current \subseteq OutHdrs
      BY BoundAssumption DEF TypeOK, PlacesOK, Place, CountersOK, Threads, Current,
          OutHdrs, Generation
    <2>6. CASE EnablePort
      <3>1. /\ generation' = generation + 1 /\ At("M", "wait_enable")'
            /\ UNCHANGED <<todo, comp, queue, held>>
        BY <2>5, <2>6 DEF EnablePort, Types, Goto, At, queueVars
      <3>2. ASSUME NEW h \in Current' PROVE ~Somewhere(h)
        <4>1. h \notin Made /\ h # NoBuf
          <5>1. h \in OutBufs \X {generation + 1}
            BY <3>1, <3>2 DEF Current
          <5>2. generation + 1 \in Generation
            BY <2>5, <2>6, BoundAssumption
               DEF EnablePort, Types, TypeOK, CountersOK, Generation
          <5>3. h \in OutHdrs
            BY <5>1, <5>2 DEF OutHdrs
          <5>4. h \notin OutBufs \X (0..generation)
            BY <2>5, <5>1
          <5> QED BY <5>3, <5>4, OutHdrsApart DEF Made
        <4>2. /\ todo \subseteq Made /\ comp \subseteq Made /\ queue["out"] \in Seq(Made)
              /\ held["F"] \in Made \cup {NoBuf}
          BY DEF HeaderInv, UsedAreMade, Ports
        <4> QED BY <4>1, <4>2 DEF Somewhere, Queued, Holds
      <3>3. ASSUME NEW h \in Current' PROVE Housed(h)'
        <4>1. ~Somewhere(h)'
          BY <3>1, <3>2, <3>3 DEF Somewhere, Queued
        <4>2. QueuedOnce(h)'
          BY <4>1 DEF Somewhere, Queued, QueuedOnce, Holds, HoldsOnce
        <4> QED BY <3>1, <4>1, <4>2 DEF Housed, NotTwice, Somewhere
      <3> QED BY <2>4, <3>3
    <2>7. CASE CommandDone
      <3>1. /\ generation' = generation /\ UNCHANGED <<comp, queue, held, disabled, portOn>>
            /\ ~At("M", "wait_enable")'
            /\ \/ At("M", "wait_enable") /\ todo' = Current
               \/ ~At("M", "wait_enable") /\ todo' = todo
        BY <2>3, <2>5, <2>7 DEF CommandDone, Goto, At, flagVars, queueVars, compVars
      <3>2. ASSUME NEW h \in Current PROVE Housed(h)'
        <4>1. Housed(h)
          BY <2>3
        <4> QED BY <3>1, <4>1
                DEF Housed, NotTwice, Somewhere, Queued, QueuedOnce, Passes
      <3> QED BY <2>4, <3>1, <3>2 DEF Current
    <2>8. CASE CleanFree
      <3>1. /\ generation' = generation /\ UNCHANGED <<todo, comp, held, disabled>>
            /\ disabled["out"] /\ queue'["out"] = << >>
            /\ ~At("M", "wait_enable")'
        BY <2>3, <2>5, <2>8 DEF CleanFree, CleanedUp, Goto, At, flagVars, Ports,
            ClosedInTheEnd, Cleaning, TypeOK, FlagsOK
      <3>2. ASSUME NEW h \in Current PROVE Housed(h)'
        <4>1. Housed(h)
          BY <2>3
        <4>2. QueuedOnce(h)' /\ ~Queued(h)'
          BY <3>1 DEF Queued, QueuedOnce, Holds, HoldsOnce
        <4> QED BY <3>1, <4>1, <4>2 DEF Housed, NotTwice, Passes
      <3> QED BY <2>4, <3>1, <3>2 DEF Current
    <2>9. CASE ~EnablePort /\ ~CommandDone /\ ~CleanFree
      <3>1. generation' = generation
        BY <1>2, <2>9 DEF Next, EbdThread, FbdThread, Top, FlushWait, SemWait, ExitCheck,
            PopBuffer, ReadFrame, EmptyThisBuffer, Look, Requeue, FillThisBuffer,
            MainThread, HandOutputs, HandInputs, Loop, StateCommand, FlushCommand,
            DisablePort, Exit, CleanIdle, CleanLoaded, Component, CallBack, Completion,
            BufferDone, Post, FlushComplete, FlushStep, PortComplete, StateComplete,
            CommandComplete, Disturbance, BufferFlag, mainVars
      <3>2. \A h \in Current : Housed(h)'
        BY <1>2, <2>2, <2>3, <2>5, <2>9, HousedMoves
      <3> QED BY <2>4, <3>1, <3>2 DEF Current
    <2> QED BY <2>6, <2>7, <2>8, <2>9
  <1> QED BY <1>1, <1>2

LEMMA PlaceInit == Init => PlaceInv
  <1> SUFFICES ASSUME Init PROVE PlaceInv
    OBVIOUS
  <1>1. /\ Current = todo /\ comp = {} /\ queue["out"] = << >> /\ held["F"] = NoBuf
        /\ At("C", "idle") /\ At("M", "fill")
    BY DEF Init, Current, Ports, At, Threads
  <1>2. \A h \in todo : h # NoBuf
    BY OutHdrsApart, BoundAssumption DEF Init, OutHdrs, Generation
  <1> QED
    BY <1>1, <1>2 DEF PlaceInv, EnableReported, ClosedInTheEnd, NotTwice, Somewhere,
        Queued, QueuedOnce, Holds, HoldsOnce, Cleaning, At

(* Whatever is flushed, paused and resumed, every header of the output port  *)
(* stays in one place and one only, as long as the port passes buffers on    *)
(* and the component reports no error.                                       *)
THEOREM EncoderKeepsHeaders == Spec => []EachHeaderInOnePlace
  <1>1. TypeOK /\ PlaceInv => EachHeaderInOnePlace
    <2> SUFFICES ASSUME TypeOK, PlaceInv, Undisturbed, ~disabled["out"], portOn,
                        pc["M"] # "wait_enable", NEW h \in Current
                 PROVE  Places(h) = 1
      BY DEF EachHeaderInOnePlace
    <2> DEFINE K == {k \in DOMAIN queue["out"] : queue["out"][k] = h}
    <2>1. NotTwice(h) /\ Somewhere(h)
      BY DEF PlaceInv, Passes, At
    <2>2. CASE Queued(h)
      <3>1. PICK k \in K : TRUE
        BY <2>2 DEF Queued, Holds
      <3>2. K = {k}
        BY <2>1, <3>1 DEF NotTwice, QueuedOnce, HoldsOnce
      <3>3. Cardinality(K) = 1
        BY <3>2, FS_Singleton
      <3> HIDE DEF K
      <3>4. h \notin todo /\ h \notin comp /\ held["F"] # h
        BY <2>1, <2>2 DEF NotTwice
      <3> QED BY <3>3, <3>4 DEF Places, K
    <2>3. CASE ~Queued(h)
      <3>1. K = {}
        BY <2>3 DEF Queued, Holds
      <3>2. Cardinality(K) = 0
        BY <3>1, FS_EmptySet
      <3> HIDE DEF K
      <3> QED BY <2>1, <2>3, <3>2 DEF Places, K, NotTwice, Somewhere
    <2> QED BY <2>2, <2>3
  <1>2. Spec => []Protocol
    BY ProtocolInit, ProtocolStep, EncoderTypes, PTL DEF Spec
  <1>3. Spec => []HeaderInv
    BY HeaderInit, HeaderStep, EncoderTypes, <1>2, PTL DEF Spec
  <1>4. Spec => []PlaceInv
    BY PlaceInit, PlaceStep, EncoderTypes, <1>2, <1>3, PTL DEF Spec
  <1> QED BY <1>1, <1>4, EncoderTypes, PTL

=============================================================================
