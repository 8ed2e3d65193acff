---------------------------- MODULE OmxDecProofs ----------------------------
(***************************************************************************)
(* Proofs about OmxDec, for any sets of headers, any commands and any      *)
(* bounds.  In this order: the types; that no wake-up of fbd_thread is     *)
(* lost; that a seek hands the buffers out alone; that the conversations   *)
(* with the component are kept apart; that no wake-up of ebd_thread is     *)
(* lost; that each buffer is in one place; that the component waits for    *)
(* no buffer the sample has lost when the port is disabled.                *)
(***************************************************************************)
EXTENDS OmxDec, FiniteSetTheorems, TLAPS

-----------------------------------------------------------------------------
(* What the pieces of the threads do to the types. *)

LEMMA PlaceOf == \A t \in Threads : ThreadPlaces[t] \subseteq Place
BY DEF Place

LEMMA GotoPlaces ==
  ASSUME PlacesOK, NEW t \in Threads, NEW l \in ThreadPlaces[t], Goto(t, l)
  PROVE  PlacesOK'
BY PlaceOf DEF PlacesOK, Goto

LEMMA PoppedTypes ==
  ASSUME NEW S, NEW q \in Seq(S), q # << >>
  PROVE  /\ Head(q) \in S
         /\ Popped(q) \in Seq(S)
         /\ Len(q) \in Nat /\ Len(Popped(q)) = Len(q) - 1
BY DEF Popped

(* The queue of a port stays one of headers of that port. *)
LEMMA PopKeepsQueues ==
  ASSUME QueuesOK, NEW p \in Ports, queue[p] # << >>,
         queue' = [queue EXCEPT ![p] = Popped(@)],
         UNCHANGED << sem, flushSem, seekSem >>
  PROVE  QueuesOK'
  <1>1. queue[p] \in Seq(Bufs) /\ Popped(queue[p]) \in Seq(Bufs)
    BY PoppedTypes DEF QueuesOK
  <1>2. p = "in" => Popped(queue[p]) \in Seq(InBufs)
    BY PoppedTypes DEF QueuesOK
  <1>3. p = "out" => Popped(queue[p]) \in Seq(OutBufs)
    BY PoppedTypes DEF QueuesOK
  <1>4. QED BY <1>1, <1>2, <1>3 DEF QueuesOK, Ports

LEMMA PushKeepsQueues ==
  ASSUME QueuesOK, NEW p \in Ports, NEW b \in BufsOf(p),
         queue' = [queue EXCEPT ![p] = Append(@, b)],
         \/ UNCHANGED sem
         \/ sem' = [sem EXCEPT ![p] = @ + 1],
         UNCHANGED << flushSem, seekSem >>
  PROVE  QueuesOK'
  <1>1. sem' \in [Ports -> Nat]
    BY DEF QueuesOK
  <1>2. queue[p] \in Seq(Bufs) /\ Append(queue[p], b) \in Seq(Bufs)
    BY DEF QueuesOK, BufsOf, Bufs
  <1>3. p = "in" => Append(queue[p], b) \in Seq(InBufs)
    BY DEF QueuesOK, BufsOf
  <1>4. p = "out" => Append(queue[p], b) \in Seq(OutBufs)
    BY DEF QueuesOK, BufsOf
  <1>5. QED BY <1>1, <1>2, <1>3, <1>4 DEF QueuesOK, Ports

LEMMA GiveTypes ==
  ASSUME comp \in [Bufs -> Nat], NEW b \in Bufs, Give(b)
  PROVE  comp' \in [Bufs -> Nat]
BY DEF Give

LEMMA SendTypes ==
  ASSUME pending \in Seq(Requests), NEW c \in Requests, Send(c)
  PROVE  pending' \in Seq(Requests)
BY DEF Send

LEMMA SendFlushTypes ==
  ASSUME pending \in Seq(Requests), NEW ports, SendFlush(ports)
  PROVE  pending' \in Seq(Requests)
  <1> DEFINE a == IF "in" \in ports THEN << "FlushIn" >> ELSE << >>
             b == IF "out" \in ports THEN << "FlushOut" >> ELSE << >>
  <1>0. "FlushIn" \in Requests /\ "FlushOut" \in Requests
    BY DEF Requests
  <1>1. a \in Seq(Requests) /\ b \in Seq(Requests)
    BY <1>0
  <1>2. pending' = (pending \o a) \o b
    BY DEF SendFlush
  <1> HIDE DEF a, b
  <1>3. QED BY <1>1, <1>2

(* The steps that ebd_thread and fbd_thread have in common. *)
LEMMA LoopTypes ==
  ASSUME TypeOK, NEW t \in {"E", "F"},
         \/ Top(t) \/ FlushWait(t) \/ SemWait(t) \/ PopBuffer(t)
         \/ SetRunning(t) \/ HandOver(t)
  PROVE  TypeOK'
  <1>1. CASE Top(t)
    <2>1. PlacesOK'
      BY <1>1, GotoPlaces DEF TypeOK, Top, ThreadPlaces, Threads, At
    <2>2. BuffersOK'
      BY <1>1 DEF TypeOK, BuffersOK, PlacesOK, Top, Goto, At, PortOf,
            compVars, Threads
    <2>3. QueuesOK'
      BY <1>1 DEF TypeOK, QueuesOK, Top, At, PortOf, queueVars, flushVars
    <2>4. FlagsOK'
      BY <1>1 DEF TypeOK, FlagsOK, Top, appVars, eventVars, flushVars,
            PortOf, Ports
    <2>5. RequestsOK'
      BY <1>1 DEF TypeOK, RequestsOK, Top, eventVars, compVars, boundVars
    <2> QED BY <2>1, <2>2, <2>3, <2>4, <2>5 DEF TypeOK
  <1>2. CASE FlushWait(t)
    <2>1. PlacesOK'
      BY <1>2, GotoPlaces DEF TypeOK, FlushWait, ThreadPlaces, Threads, At
    <2>2. BuffersOK'
      BY <1>2 DEF TypeOK, BuffersOK, PlacesOK, FlushWait, Goto, At, PortOf,
            compVars, Threads
    <2>3. QueuesOK'
      BY <1>2 DEF TypeOK, QueuesOK, FlushWait, At, PortOf, queueVars, Ports
    <2>4. FlagsOK'
      BY <1>2 DEF TypeOK, FlagsOK, FlushWait, appVars, eventVars, PortOf
    <2>5. RequestsOK'
      BY <1>2 DEF TypeOK, RequestsOK, FlushWait, eventVars, compVars,
            boundVars
    <2> QED BY <2>1, <2>2, <2>3, <2>4, <2>5 DEF TypeOK
  <1>3. CASE SemWait(t)
    <2>1. PlacesOK'
      BY <1>3, GotoPlaces DEF TypeOK, SemWait, ThreadPlaces, Threads, At
    <2>2. BuffersOK'
      BY <1>3 DEF TypeOK, BuffersOK, PlacesOK, SemWait, Goto, At, PortOf,
            compVars, Threads
    <2>3. QueuesOK'
      BY <1>3 DEF TypeOK, QueuesOK, SemWait, At, PortOf, flushVars, Ports
    <2>4. FlagsOK'
      BY <1>3 DEF TypeOK, FlagsOK, SemWait, appVars, eventVars, flushVars,
            PortOf
    <2>5. RequestsOK'
      BY <1>3 DEF TypeOK, RequestsOK, SemWait, eventVars, compVars,
            boundVars
    <2> QED BY <2>1, <2>2, <2>3, <2>4, <2>5 DEF TypeOK
  <1>4. CASE PopBuffer(t)
    <2>1. PlacesOK'
      BY <1>4, GotoPlaces DEF TypeOK, PopBuffer, ThreadPlaces, Threads, At
    <2>2. BuffersOK'
      <3>1. PortOf(t) \in Ports
        BY DEF PortOf, Ports
      <3>2. CASE queue[PortOf(t)] = << >>
        BY <1>4, <3>2
           DEF TypeOK, BuffersOK, PlacesOK, PopBuffer, Threads, Goto, compVars
      <3>3. CASE queue[PortOf(t)] # << >>
        <4>1. held' = [held EXCEPT ![t] = Head(queue[PortOf(t)])]
          BY <1>4, <3>3 DEF PopBuffer
        <4>2. /\ Head(queue[PortOf(t)]) \in Bufs
              /\ t = "E" => Head(queue[PortOf(t)]) \in InBufs
              /\ t = "F" => Head(queue[PortOf(t)]) \in OutBufs
          BY <3>1, <3>3, PoppedTypes DEF TypeOK, QueuesOK, PortOf
        <4>3. QED
          BY <1>4, <3>3, <4>1, <4>2
             DEF TypeOK, BuffersOK, PlacesOK, PopBuffer, Threads, Goto, compVars
      <3> QED BY <3>2, <3>3
    <2>3. QueuesOK'
      <3>1. CASE queue[PortOf(t)] = << >>
        BY <1>4, <3>1 DEF TypeOK, QueuesOK, PopBuffer, flushVars
      <3>2. CASE queue[PortOf(t)] # << >>
        BY <1>4, <3>2, PopKeepsQueues
           DEF TypeOK, PopBuffer, PortOf, Ports, flushVars
      <3> QED BY <3>1, <3>2
    <2>4. FlagsOK'
      BY <1>4 DEF TypeOK, FlagsOK, PopBuffer, appVars, eventVars, flushVars,
            PortOf
    <2>5. RequestsOK'
      BY <1>4 DEF TypeOK, RequestsOK, PopBuffer, eventVars, compVars,
            boundVars
    <2> QED BY <2>1, <2>2, <2>3, <2>4, <2>5 DEF TypeOK
  <1>5. CASE SetRunning(t)
    <2>1. PlacesOK'
      BY <1>5, GotoPlaces DEF TypeOK, SetRunning, ThreadPlaces, Threads, At
    <2>2. BuffersOK'
      BY <1>5 DEF TypeOK, BuffersOK, PlacesOK, SetRunning, Goto, At, PortOf,
            compVars, Threads
    <2>3. QueuesOK'
      BY <1>5 DEF TypeOK, QueuesOK, SetRunning, At, PortOf, queueVars,
            flushVars
    <2>4. FlagsOK'
      BY <1>5 DEF TypeOK, FlagsOK, SetRunning, appVars, eventVars,
            flushVars, PortOf, Ports
    <2>5. RequestsOK'
      BY <1>5 DEF TypeOK, RequestsOK, SetRunning, eventVars, compVars,
            boundVars
    <2> QED BY <2>1, <2>2, <2>3, <2>4, <2>5 DEF TypeOK
  <1>6. CASE HandOver(t)
    <2>1. PlacesOK'
      BY <1>6, GotoPlaces DEF TypeOK, HandOver, ThreadPlaces, Threads, At
    <2>2. BuffersOK'
      BY <1>6 DEF TypeOK, BuffersOK, PlacesOK, HandOver, Goto, At, Give,
            Threads
    <2>3. QueuesOK'
      BY <1>6 DEF TypeOK, QueuesOK, HandOver, At, queueVars, flushVars
    <2>4. FlagsOK'
      BY <1>6 DEF TypeOK, FlagsOK, HandOver, appVars, eventVars, flushVars
    <2>5. RequestsOK'
      BY <1>6 DEF TypeOK, RequestsOK, HandOver, eventVars, boundVars
    <2> QED BY <2>1, <2>2, <2>3, <2>4, <2>5 DEF TypeOK
  <1> QED BY <1>1, <1>2, <1>3, <1>4, <1>5, <1>6

LEMMA EbdTypes ==
  ASSUME TypeOK, EbdThread
  PROVE  TypeOK'
  <1>1. CASE SeekCheck
    <2>1. PlacesOK'
      BY <1>1, GotoPlaces DEF TypeOK, SeekCheck, ThreadPlaces, Threads, At
    <2>2. BuffersOK'
      BY <1>1 DEF TypeOK, BuffersOK, PlacesOK, SeekCheck, Goto, At,
            compVars, Threads
    <2>3. QueuesOK'
      BY <1>1 DEF TypeOK, QueuesOK, SeekCheck, At, queueVars, flushVars
    <2>4. FlagsOK'
      BY <1>1 DEF TypeOK, FlagsOK, SeekCheck, appVars, eventVars, flushVars
    <2>5. RequestsOK'
      BY <1>1 DEF TypeOK, RequestsOK, SeekCheck, eventVars, compVars,
            boundVars
    <2> QED BY <2>1, <2>2, <2>3, <2>4, <2>5 DEF TypeOK
  <1>2. CASE SeekWait
    <2>1. PlacesOK'
      BY <1>2, GotoPlaces DEF TypeOK, SeekWait, ThreadPlaces, Threads, At
    <2>2. BuffersOK'
      BY <1>2 DEF TypeOK, BuffersOK, PlacesOK, SeekWait, Goto, At, compVars,
            Threads
    <2>3. QueuesOK'
      BY <1>2 DEF TypeOK, QueuesOK, SeekWait, At, queueVars
    <2>4. FlagsOK'
      BY <1>2 DEF TypeOK, FlagsOK, SeekWait, appVars, eventVars
    <2>5. RequestsOK'
      BY <1>2 DEF TypeOK, RequestsOK, SeekWait, eventVars, compVars,
            boundVars
    <2> QED BY <2>1, <2>2, <2>3, <2>4, <2>5 DEF TypeOK
  <1>3. CASE EbdExitCheck
    <2>1. PlacesOK'
      BY <1>3, GotoPlaces DEF TypeOK, EbdExitCheck, ThreadPlaces, Threads,
            At
    <2>2. BuffersOK'
      BY <1>3 DEF TypeOK, BuffersOK, PlacesOK, EbdExitCheck, Goto, At,
            compVars, Threads
    <2>3. QueuesOK'
      BY <1>3 DEF TypeOK, QueuesOK, EbdExitCheck, At, queueVars, flushVars
    <2>4. FlagsOK'
      BY <1>3 DEF TypeOK, FlagsOK, EbdExitCheck, appVars, eventVars,
            flushVars
    <2>5. RequestsOK'
      BY <1>3 DEF TypeOK, RequestsOK, EbdExitCheck, eventVars, compVars,
            boundVars
    <2> QED BY <2>1, <2>2, <2>3, <2>4, <2>5 DEF TypeOK
  <1>4. CASE ReadBuffer
    <2>1. PlacesOK'
      BY <1>4, GotoPlaces DEF TypeOK, ReadBuffer, ThreadPlaces, Threads, At
    <2>2. BuffersOK'
      BY <1>4 DEF TypeOK, BuffersOK, PlacesOK, ReadBuffer, Goto, At,
            compVars, Threads
    <2>3. QueuesOK'
      BY <1>4 DEF TypeOK, QueuesOK, ReadBuffer, At, queueVars, flushVars
    <2>4. FlagsOK'
      BY <1>4 DEF TypeOK, FlagsOK, ReadBuffer, eventVars, flushVars, Ports
    <2>5. RequestsOK'
      BY <1>4 DEF TypeOK, RequestsOK, ReadBuffer, eventVars, compVars,
            boundVars
    <2> QED BY <2>1, <2>2, <2>3, <2>4, <2>5 DEF TypeOK
  <1> QED BY <1>1, <1>2, <1>3, <1>4, LoopTypes DEF EbdThread

LEMMA FbdTypes ==
  ASSUME TypeOK, FbdThread
  PROVE  TypeOK'
  <1>1. CASE SemTimeout
    <2>1. PlacesOK'
      BY <1>1, GotoPlaces DEF TypeOK, SemTimeout, ThreadPlaces, Threads, At
    <2>2. BuffersOK'
      BY <1>1 DEF TypeOK, BuffersOK, PlacesOK, SemTimeout, Goto, At,
            compVars, Threads
    <2>3. QueuesOK'
      BY <1>1 DEF TypeOK, QueuesOK, SemTimeout, At, queueVars, flushVars
    <2>4. FlagsOK'
      BY <1>1 DEF TypeOK, FlagsOK, SemTimeout, appVars, eventVars, flushVars
    <2>5. RequestsOK'
      BY <1>1 DEF TypeOK, RequestsOK, SemTimeout, eventVars, compVars,
            boundVars
    <2> QED BY <2>1, <2>2, <2>3, <2>4, <2>5 DEF TypeOK
  <1>2. CASE FbdExitCheck
    <2>1. PlacesOK'
      BY <1>2, GotoPlaces DEF TypeOK, FbdExitCheck, ThreadPlaces, Threads,
            At
    <2>2. BuffersOK'
      BY <1>2 DEF TypeOK, BuffersOK, PlacesOK, FbdExitCheck, Goto, At,
            compVars, Threads
    <2>3. QueuesOK'
      BY <1>2 DEF TypeOK, QueuesOK, FbdExitCheck, At, queueVars, flushVars
    <2>4. FlagsOK'
      BY <1>2 DEF TypeOK, FlagsOK, FbdExitCheck, appVars, eventVars,
            flushVars
    <2>5. RequestsOK'
      BY <1>2 DEF TypeOK, RequestsOK, FbdExitCheck, eventVars, compVars,
            boundVars
    <2> QED BY <2>1, <2>2, <2>3, <2>4, <2>5 DEF TypeOK
  <1>3. CASE StatusCheck
    <2>1. PlacesOK'
      BY <1>3, GotoPlaces DEF TypeOK, StatusCheck, ThreadPlaces, Threads, At
    <2>2. BuffersOK'
      BY <1>3 DEF TypeOK, BuffersOK, PlacesOK, StatusCheck, Goto, At,
            compVars, Threads
    <2>3. QueuesOK'
      BY <1>3 DEF TypeOK, QueuesOK, StatusCheck, At, queueVars, flushVars
    <2>4. FlagsOK'
      BY <1>3 DEF TypeOK, FlagsOK, StatusCheck, eventVars, flushVars,
            Statuses
    <2>5. RequestsOK'
      BY <1>3 DEF TypeOK, RequestsOK, StatusCheck, eventVars, compVars,
            boundVars
    <2> QED BY <2>1, <2>2, <2>3, <2>4, <2>5 DEF TypeOK
  <1>4. CASE DisablePort
    <2>1. PlacesOK'
      BY <1>4, GotoPlaces DEF TypeOK, DisablePort, ThreadPlaces, Threads, At
    <2>2. BuffersOK'
      BY <1>4 DEF TypeOK, BuffersOK, PlacesOK, DisablePort, Goto, At,
            Threads
    <2>3. QueuesOK'
      BY <1>4 DEF TypeOK, QueuesOK, DisablePort, At, queueVars, flushVars
    <2>4. FlagsOK'
      BY <1>4 DEF TypeOK, FlagsOK, DisablePort, eventVars, flushVars
    <2>5. RequestsOK'
      BY <1>4, SendTypes DEF TypeOK, RequestsOK, DisablePort, eventVars,
            boundVars, Requests
    <2> QED BY <2>1, <2>2, <2>3, <2>4, <2>5 DEF TypeOK
  <1>5. CASE DrainPort
    <2>1. PlacesOK'
      BY <1>5, GotoPlaces DEF TypeOK, PlacesOK, DrainPort, ThreadPlaces,
            Threads, At
    <2>2. BuffersOK'
      BY <1>5, PoppedTypes DEF TypeOK, BuffersOK, PlacesOK, DrainPort, Goto,
            At, Threads, QueuesOK, Bufs
    <2>3. QueuesOK'
      <3>1. CASE queue["out"] = << >>
        BY <1>5, <3>1 DEF TypeOK, QueuesOK, DrainPort, flushVars
      <3>2. CASE queue["out"] # << >>
        BY <1>5, <3>2, PopKeepsQueues DEF TypeOK, DrainPort, Ports, flushVars
      <3> QED BY <3>1, <3>2
    <2>4. FlagsOK'
      BY <1>5 DEF TypeOK, FlagsOK, DrainPort, appVars, eventVars, flushVars
    <2>5. RequestsOK'
      BY <1>5 DEF TypeOK, RequestsOK, DrainPort, eventVars, boundVars
    <2> QED BY <2>1, <2>2, <2>3, <2>4, <2>5 DEF TypeOK
  <1>6. CASE PortDisabled
    <2>1. PlacesOK'
      BY <1>6, GotoPlaces DEF TypeOK, PortDisabled, ThreadPlaces, Threads,
            At
    <2>2. BuffersOK'
      BY <1>6 DEF TypeOK, BuffersOK, PlacesOK, PortDisabled, Goto, At,
            compVars, Threads
    <2>3. QueuesOK'
      BY <1>6 DEF TypeOK, QueuesOK, PortDisabled, At, queueVars, flushVars
    <2>4. FlagsOK'
      BY <1>6 DEF TypeOK, FlagsOK, PortDisabled, appVars, flushVars,
            WaitForEvent
    <2>5. RequestsOK'
      BY <1>6 DEF TypeOK, RequestsOK, PortDisabled, compVars, boundVars,
            WaitForEvent
    <2> QED BY <2>1, <2>2, <2>3, <2>4, <2>5 DEF TypeOK
  <1>7. CASE EnablePort
    <2>1. PlacesOK'
      BY <1>7, GotoPlaces DEF TypeOK, EnablePort, ThreadPlaces, Threads, At
    <2>2. BuffersOK'
      BY <1>7 DEF TypeOK, BuffersOK, PlacesOK, EnablePort, Goto, At,
            Threads, Bufs
    <2>3. QueuesOK'
      BY <1>7 DEF TypeOK, QueuesOK, EnablePort, At, queueVars, flushVars
    <2>4. FlagsOK'
      BY <1>7 DEF TypeOK, FlagsOK, EnablePort, eventVars, flushVars,
            Statuses
    <2>5. RequestsOK'
      BY <1>7, SendTypes DEF TypeOK, RequestsOK, EnablePort, eventVars,
            boundVars, Requests
    <2> QED BY <2>1, <2>2, <2>3, <2>4, <2>5 DEF TypeOK
  <1>8. CASE PortEnabled
    <2>1. PlacesOK'
      BY <1>8, GotoPlaces DEF TypeOK, PortEnabled, ThreadPlaces, Threads, At
    <2>2. BuffersOK'
      BY <1>8 DEF TypeOK, BuffersOK, PlacesOK, PortEnabled, Goto, At,
            Headers, compVars, Threads, Bufs
    <2>3. QueuesOK'
      BY <1>8 DEF TypeOK, QueuesOK, PortEnabled, At, queueVars, flushVars
    <2>4. FlagsOK'
      BY <1>8 DEF TypeOK, FlagsOK, PortEnabled, appVars, flushVars,
            WaitForEvent
    <2>5. RequestsOK'
      BY <1>8 DEF TypeOK, RequestsOK, PortEnabled, compVars, boundVars,
            WaitForEvent
    <2> QED BY <2>1, <2>2, <2>3, <2>4, <2>5 DEF TypeOK
  <1>9. CASE Refill
    <2>1. PlacesOK'
      BY <1>9 DEF TypeOK, PlacesOK, Refill
    <2>2. BuffersOK'
      BY <1>9 DEF TypeOK, BuffersOK, PlacesOK, Refill, At, Give, Bufs
    <2>3. QueuesOK'
      BY <1>9 DEF TypeOK, QueuesOK, Refill, At, queueVars, flushVars
    <2>4. FlagsOK'
      BY <1>9 DEF TypeOK, FlagsOK, Refill, appVars, eventVars, flushVars
    <2>5. RequestsOK'
      BY <1>9 DEF TypeOK, RequestsOK, Refill, eventVars, boundVars
    <2> QED BY <2>1, <2>2, <2>3, <2>4, <2>5 DEF TypeOK
  <1>10. CASE ReconfigDone
    <2>1. PlacesOK'
      BY <1>10, GotoPlaces DEF TypeOK, ReconfigDone, ThreadPlaces, Threads,
            At
    <2>2. BuffersOK'
      BY <1>10 DEF TypeOK, BuffersOK, PlacesOK, ReconfigDone, Goto, At,
            compVars, Threads
    <2>3. QueuesOK'
      BY <1>10 DEF TypeOK, QueuesOK, ReconfigDone, At, queueVars, flushVars
    <2>4. FlagsOK'
      BY <1>10 DEF TypeOK, FlagsOK, ReconfigDone, eventVars, flushVars,
            Statuses
    <2>5. RequestsOK'
      BY <1>10 DEF TypeOK, RequestsOK, ReconfigDone, eventVars, compVars,
            boundVars
    <2> QED BY <2>1, <2>2, <2>3, <2>4, <2>5 DEF TypeOK
  <1>11. CASE FillCheck
    <2>1. PlacesOK'
      BY <1>11, GotoPlaces DEF TypeOK, FillCheck, ThreadPlaces, Threads, At
    <2>2. BuffersOK'
      BY <1>11 DEF TypeOK, BuffersOK, PlacesOK, FillCheck, Goto, At,
            compVars, Threads
    <2>3. QueuesOK'
      BY <1>11 DEF TypeOK, QueuesOK, FillCheck, At, queueVars, flushVars
    <2>4. FlagsOK'
      BY <1>11 DEF TypeOK, FlagsOK, FillCheck, appVars, eventVars, flushVars
    <2>5. RequestsOK'
      BY <1>11 DEF TypeOK, RequestsOK, FillCheck, eventVars, compVars,
            boundVars
    <2> QED BY <2>1, <2>2, <2>3, <2>4, <2>5 DEF TypeOK
  <1> QED BY <1>1, <1>2, <1>3, <1>4, <1>5, <1>6, <1>7, <1>8, <1>9, <1>10, <1>11, LoopTypes
         DEF FbdThread

LEMMA MainTypes ==
  ASSUME TypeOK, MainThread
  PROVE  TypeOK'
  <1>1. CASE StateCommand
    <2>1. PlacesOK'
      BY <1>1, GotoPlaces DEF TypeOK, StateCommand, ThreadPlaces, Threads,
            At, Types, Accepted
    <2>2. BuffersOK'
      BY <1>1 DEF TypeOK, BuffersOK, PlacesOK, StateCommand, Goto, At,
            Threads
    <2>3. QueuesOK'
      BY <1>1 DEF TypeOK, QueuesOK, StateCommand, At, queueVars, flushVars
    <2>4. FlagsOK'
      BY <1>1 DEF TypeOK, FlagsOK, StateCommand, appVars, eventVars,
            flushVars
    <2>5. RequestsOK'
      BY <1>1, SendTypes, BoundAssumption DEF TypeOK, RequestsOK,
            StateCommand, eventVars, Accepted, Types, Requests
    <2> QED BY <2>1, <2>2, <2>3, <2>4, <2>5 DEF TypeOK
  <1>2. CASE FlushCommand
    <2>1. PlacesOK'
      BY <1>2, GotoPlaces DEF TypeOK, FlushCommand, ThreadPlaces, Threads,
            At, Types, Accepted
    <2>2. BuffersOK'
      BY <1>2 DEF TypeOK, BuffersOK, PlacesOK, FlushCommand, Goto, At,
            Ports, Threads
    <2>3. QueuesOK'
      BY <1>2 DEF TypeOK, QueuesOK, FlushCommand, At, Ports, queueVars
    <2>4. FlagsOK'
      BY <1>2 DEF TypeOK, FlagsOK, FlushCommand, appVars, eventVars, Ports
    <2>5. RequestsOK'
      BY <1>2, SendTypes, SendFlushTypes, BoundAssumption DEF TypeOK,
            RequestsOK, FlushCommand, eventVars, Accepted, Types, Requests
    <2> QED BY <2>1, <2>2, <2>3, <2>4, <2>5 DEF TypeOK
  <1>3. CASE SeekCommand
    <2>1. PlacesOK'
      BY <1>3, GotoPlaces DEF TypeOK, SeekCommand, ThreadPlaces, Threads,
            At, Types, Accepted
    <2>2. BuffersOK'
      BY <1>3 DEF TypeOK, BuffersOK, PlacesOK, SeekCommand, Goto, At, Ports,
            Threads
    <2>3. QueuesOK'
      BY <1>3 DEF TypeOK, QueuesOK, SeekCommand, At, Ports, queueVars
    <2>4. FlagsOK'
      BY <1>3 DEF TypeOK, FlagsOK, SeekCommand, eventVars, Ports
    <2>5. RequestsOK'
      BY <1>3, SendTypes, SendFlushTypes, BoundAssumption DEF TypeOK,
            RequestsOK, SeekCommand, eventVars, Accepted, Types, Requests
    <2> QED BY <2>1, <2>2, <2>3, <2>4, <2>5 DEF TypeOK
  <1>4. CASE CommandDone
    <2>1. PlacesOK'
      BY <1>4, GotoPlaces DEF TypeOK, CommandDone, ThreadPlaces, Threads, At
    <2>2. BuffersOK'
      BY <1>4 DEF TypeOK, BuffersOK, PlacesOK, CommandDone, Goto, At,
            compVars, Threads
    <2>3. QueuesOK'
      BY <1>4 DEF TypeOK, QueuesOK, CommandDone, At, queueVars, flushVars
    <2>4. FlagsOK'
      BY <1>4 DEF TypeOK, FlagsOK, CommandDone, appVars, flushVars,
            WaitForEvent
    <2>5. RequestsOK'
      BY <1>4 DEF TypeOK, RequestsOK, CommandDone, compVars, boundVars,
            WaitForEvent
    <2> QED BY <2>1, <2>2, <2>3, <2>4, <2>5 DEF TypeOK
  <1>5. CASE ThreadsIdle
    <2>1. PlacesOK'
      BY <1>5, GotoPlaces DEF TypeOK, ThreadsIdle, ThreadPlaces, Threads, At
    <2>2. BuffersOK'
      BY <1>5 DEF TypeOK, BuffersOK, PlacesOK, ThreadsIdle, Goto, At,
            compVars, Threads
    <2>3. QueuesOK'
      BY <1>5 DEF TypeOK, QueuesOK, ThreadsIdle, At, queueVars, flushVars
    <2>4. FlagsOK'
      BY <1>5 DEF TypeOK, FlagsOK, ThreadsIdle, appVars, eventVars,
            flushVars
    <2>5. RequestsOK'
      BY <1>5 DEF TypeOK, RequestsOK, ThreadsIdle, eventVars, compVars,
            boundVars
    <2> QED BY <2>1, <2>2, <2>3, <2>4, <2>5 DEF TypeOK
  <1>6. CASE DrainQueues
    <2>1. PlacesOK'
      BY <1>6, GotoPlaces DEF TypeOK, PlacesOK, DrainQueues, ThreadPlaces,
            Threads, At
    <2>2. BuffersOK'
      BY <1>6, PoppedTypes DEF TypeOK, BuffersOK, PlacesOK, DrainQueues,
            Goto, At, Ports, compVars, Threads, QueuesOK
    <2>3. QueuesOK'
      <3>1. PICK p \in Ports :
              \/ /\ queue[p] = << >>
                 /\ UNCHANGED queue
              \/ /\ queue[p] # << >>
                 /\ queue' = [queue EXCEPT ![p] = Popped(@)]
        BY <1>6 DEF DrainQueues
      <3>2. CASE UNCHANGED queue
        BY <1>6, <3>2 DEF TypeOK, QueuesOK, DrainQueues, flushVars
      <3>3. CASE queue[p] # << >> /\ queue' = [queue EXCEPT ![p] = Popped(@)]
        BY <1>6, <3>3, PopKeepsQueues DEF TypeOK, DrainQueues, flushVars
      <3> QED BY <3>1, <3>2, <3>3
    <2>4. FlagsOK'
      BY <1>6 DEF TypeOK, FlagsOK, DrainQueues, appVars, eventVars,
            flushVars, Ports
    <2>5. RequestsOK'
      BY <1>6 DEF TypeOK, RequestsOK, DrainQueues, eventVars, compVars,
            boundVars
    <2> QED BY <2>1, <2>2, <2>3, <2>4, <2>5 DEF TypeOK
  <1>7. CASE Rewind
    <2>1. PlacesOK'
      BY <1>7, GotoPlaces DEF TypeOK, Rewind, ThreadPlaces, Threads, At
    <2>2. BuffersOK'
      BY <1>7 DEF TypeOK, BuffersOK, PlacesOK, Rewind, Goto, At, compVars,
            Threads, Bufs
    <2>3. QueuesOK'
      BY <1>7 DEF TypeOK, QueuesOK, Rewind, At, queueVars, flushVars
    <2>4. FlagsOK'
      BY <1>7 DEF TypeOK, FlagsOK, Rewind, eventVars, flushVars
    <2>5. RequestsOK'
      BY <1>7 DEF TypeOK, RequestsOK, Rewind, eventVars, compVars, boundVars
    <2> QED BY <2>1, <2>2, <2>3, <2>4, <2>5 DEF TypeOK
  <1>8. CASE FillAll
    <2>1. PlacesOK'
      BY <1>8, GotoPlaces DEF TypeOK, PlacesOK, FillAll, ThreadPlaces,
            Threads, At
    <2>2. BuffersOK'
      <3>1. CASE todo["M"] = {} /\ UNCHANGED comp
        BY <1>8, <3>1
           DEF TypeOK, BuffersOK, PlacesOK, FillAll, Threads, At, Goto, Bufs
      <3>2. CASE \E b \in todo["M"] : /\ Give(b)
                                      /\ todo' = [todo EXCEPT !["M"] = @ \ {b}]
                                      /\ UNCHANGED pc
        BY <1>8, <3>2, GiveTypes DEF TypeOK, BuffersOK, FillAll
      <3> QED BY <1>8, <3>1, <3>2 DEF FillAll
    <2>3. QueuesOK'
      BY <1>8 DEF TypeOK, QueuesOK, FillAll, At, queueVars, flushVars
    <2>4. FlagsOK'
      BY <1>8 DEF TypeOK, FlagsOK, FillAll, appVars, eventVars, flushVars
    <2>5. RequestsOK'
      BY <1>8 DEF TypeOK, RequestsOK, FillAll, eventVars, boundVars
    <2> QED BY <2>1, <2>2, <2>3, <2>4, <2>5 DEF TypeOK
  <1>9. CASE EmptyAll
    <2>1. PlacesOK'
      BY <1>9, GotoPlaces DEF TypeOK, PlacesOK, EmptyAll, ThreadPlaces,
            Threads, At
    <2>2. BuffersOK'
      <3>1. CASE UNCHANGED << comp, todo >>
        BY <1>9, <3>1
           DEF TypeOK, BuffersOK, PlacesOK, EmptyAll, Threads, At, Goto
      <3>2. CASE \E b \in todo["M"], last \in BOOLEAN :
                   /\ Give(b)
                   /\ todo' = [todo EXCEPT !["M"] = IF last THEN {} ELSE @ \ {b}]
                   /\ UNCHANGED pc
        BY <1>9, <3>2, GiveTypes DEF TypeOK, BuffersOK, EmptyAll
      <3> QED BY <1>9, <3>1, <3>2 DEF EmptyAll
    <2>3. QueuesOK'
      BY <1>9 DEF TypeOK, QueuesOK, EmptyAll, At, queueVars, flushVars
    <2>4. FlagsOK'
      BY <1>9 DEF TypeOK, FlagsOK, EmptyAll, eventVars, flushVars
    <2>5. RequestsOK'
      BY <1>9 DEF TypeOK, RequestsOK, EmptyAll, eventVars, boundVars
    <2> QED BY <2>1, <2>2, <2>3, <2>4, <2>5 DEF TypeOK
  <1>10. CASE SeekDone
    <2>1. PlacesOK'
      BY <1>10, GotoPlaces DEF TypeOK, SeekDone, ThreadPlaces, Threads, At
    <2>2. BuffersOK'
      BY <1>10 DEF TypeOK, BuffersOK, PlacesOK, SeekDone, Goto, At,
            compVars, Threads
    <2>3. QueuesOK'
      BY <1>10 DEF TypeOK, QueuesOK, SeekDone, At, queueVars
    <2>4. FlagsOK'
      BY <1>10 DEF TypeOK, FlagsOK, SeekDone, eventVars
    <2>5. RequestsOK'
      BY <1>10 DEF TypeOK, RequestsOK, SeekDone, eventVars, compVars,
            boundVars
    <2> QED BY <2>1, <2>2, <2>3, <2>4, <2>5 DEF TypeOK
  <1>11. CASE Quit
    <2>1. PlacesOK'
      BY <1>11, GotoPlaces DEF TypeOK, Quit, ThreadPlaces, Threads, At,
            Types
    <2>2. BuffersOK'
      BY <1>11 DEF TypeOK, BuffersOK, PlacesOK, Quit, Goto, At, Ports,
            compVars, Threads
    <2>3. QueuesOK'
      BY <1>11 DEF TypeOK, QueuesOK, Quit, At, Ports, PostBoth, flushVars
    <2>4. FlagsOK'
      BY <1>11 DEF TypeOK, FlagsOK, Quit, eventVars, flushVars, Ports
    <2>5. RequestsOK'
      BY <1>11, BoundAssumption DEF TypeOK, RequestsOK, Quit, eventVars,
            compVars, Types
    <2> QED BY <2>1, <2>2, <2>3, <2>4, <2>5 DEF TypeOK
  <1>12. CASE QuitFlush
    <2>1. PlacesOK'
      BY <1>12, GotoPlaces DEF TypeOK, QuitFlush, ThreadPlaces, Threads, At
    <2>2. BuffersOK'
      BY <1>12 DEF TypeOK, BuffersOK, PlacesOK, QuitFlush, Goto, At, Ports,
            Threads
    <2>3. QueuesOK'
      BY <1>12 DEF TypeOK, QueuesOK, QuitFlush, At, Ports, queueVars
    <2>4. FlagsOK'
      BY <1>12 DEF TypeOK, FlagsOK, QuitFlush, appVars, eventVars, Ports
    <2>5. RequestsOK'
      BY <1>12, SendTypes, SendFlushTypes DEF TypeOK, RequestsOK, QuitFlush,
            eventVars, boundVars, Requests
    <2> QED BY <2>1, <2>2, <2>3, <2>4, <2>5 DEF TypeOK
  <1>13. CASE QuitIdle
    <2>1. PlacesOK'
      BY <1>13, GotoPlaces DEF TypeOK, QuitIdle, ThreadPlaces, Threads, At,
            Idle
    <2>2. BuffersOK'
      BY <1>13 DEF TypeOK, BuffersOK, PlacesOK, QuitIdle, Goto, At, Idle,
            Threads
    <2>3. QueuesOK'
      BY <1>13 DEF TypeOK, QueuesOK, QuitIdle, At, queueVars, flushVars
    <2>4. FlagsOK'
      BY <1>13 DEF TypeOK, FlagsOK, QuitIdle, appVars, eventVars, flushVars,
            WaitForEvent
    <2>5. RequestsOK'
      BY <1>13, SendTypes DEF TypeOK, RequestsOK, QuitIdle, eventVars,
            boundVars, WaitForEvent, Requests
    <2> QED BY <2>1, <2>2, <2>3, <2>4, <2>5 DEF TypeOK
  <1>14. CASE QuitLoaded
    <2>1. PlacesOK'
      BY <1>14, GotoPlaces DEF TypeOK, QuitLoaded, ThreadPlaces, Threads,
            At, Idle
    <2>2. BuffersOK'
      BY <1>14 DEF TypeOK, BuffersOK, PlacesOK, QuitLoaded, Goto, At, Idle,
            Threads
    <2>3. QueuesOK'
      BY <1>14 DEF TypeOK, QueuesOK, QuitLoaded, At, queueVars, flushVars
    <2>4. FlagsOK'
      BY <1>14 DEF TypeOK, FlagsOK, QuitLoaded, appVars, eventVars,
            flushVars, WaitForEvent
    <2>5. RequestsOK'
      BY <1>14, SendTypes DEF TypeOK, RequestsOK, QuitLoaded, eventVars,
            boundVars, WaitForEvent, Requests
    <2> QED BY <2>1, <2>2, <2>3, <2>4, <2>5 DEF TypeOK
  <1>15. CASE QuitFree
    <2>1. PlacesOK'
      BY <1>15, GotoPlaces DEF TypeOK, QuitFree, ThreadPlaces, Threads, At
    <2>2. BuffersOK'
      BY <1>15 DEF TypeOK, BuffersOK, PlacesOK, QuitFree, Goto, At, Ports,
            Threads
    <2>3. QueuesOK'
      BY <1>15 DEF TypeOK, QueuesOK, QuitFree, At, Ports, flushVars
    <2>4. FlagsOK'
      BY <1>15 DEF TypeOK, FlagsOK, QuitFree, appVars, eventVars, flushVars,
            Ports
    <2>5. RequestsOK'
      BY <1>15 DEF TypeOK, RequestsOK, QuitFree, eventVars, boundVars,
            OmxStates
    <2> QED BY <2>1, <2>2, <2>3, <2>4, <2>5 DEF TypeOK
  <1>16. CASE QuitJoin
    <2>1. PlacesOK'
      BY <1>16, GotoPlaces DEF TypeOK, QuitJoin, ThreadPlaces, Threads, At
    <2>2. BuffersOK'
      BY <1>16 DEF TypeOK, BuffersOK, PlacesOK, QuitJoin, Goto, At,
            compVars, Threads
    <2>3. QueuesOK'
      BY <1>16 DEF TypeOK, QueuesOK, QuitJoin, At, queueVars, flushVars
    <2>4. FlagsOK'
      BY <1>16 DEF TypeOK, FlagsOK, QuitJoin, appVars, eventVars, flushVars
    <2>5. RequestsOK'
      BY <1>16 DEF TypeOK, RequestsOK, QuitJoin, eventVars, compVars,
            boundVars
    <2> QED BY <2>1, <2>2, <2>3, <2>4, <2>5 DEF TypeOK
  <1> QED BY <1>1, <1>2, <1>3, <1>4, <1>5, <1>6, <1>7, <1>8, <1>9, <1>10, <1>11,
          <1>12, <1>13, <1>14, <1>15, <1>16
         DEF MainThread

LEMMA ComponentTypes ==
  ASSUME TypeOK, Component
  PROVE  TypeOK'
  <1>1. CASE EmptyBufferDone
    <2>1. PlacesOK'
      BY <1>1, GotoPlaces DEF TypeOK, PlacesOK, EmptyBufferDone,
            ThreadPlaces, Threads, At, Idle
    <2>2. BuffersOK'
      <3>1. PICK b \in InBufs :
              /\ comp[b] > 0
              /\ comp' = [comp EXCEPT ![b] = @ - 1]
              /\ \/ UNCHANGED << pc, held >>
                 \/ /\ held' = [held EXCEPT !["C"] = b]
                    /\ Goto("C", "etb_push")
        BY <1>1 DEF EmptyBufferDone
      <3>2. comp' \in [Bufs -> Nat]
        BY <3>1 DEF TypeOK, BuffersOK, Bufs
      <3>3. QED
        BY <1>1, <3>1, <3>2
           DEF TypeOK, BuffersOK, PlacesOK, EmptyBufferDone, Threads, Goto, Bufs
    <2>3. QueuesOK'
      BY <1>1 DEF TypeOK, QueuesOK, EmptyBufferDone, At, queueVars,
            flushVars
    <2>4. FlagsOK'
      BY <1>1 DEF TypeOK, FlagsOK, EmptyBufferDone, appVars, eventVars,
            flushVars
    <2>5. RequestsOK'
      BY <1>1 DEF TypeOK, RequestsOK, EmptyBufferDone, eventVars, boundVars,
            Asked
    <2> QED BY <2>1, <2>2, <2>3, <2>4, <2>5 DEF TypeOK
  <1>2. CASE EtbPush
    <2>1. PlacesOK'
      BY <1>2, GotoPlaces DEF TypeOK, EtbPush, ThreadPlaces, Threads, At
    <2>2. BuffersOK'
      BY <1>2 DEF TypeOK, BuffersOK, PlacesOK, EtbPush, Goto, At, compVars,
            Threads
    <2>3. QueuesOK'
      <3>1. CASE /\ At("C", "etb_push")
                 /\ queue' = [queue EXCEPT !["in"] = Append(@, held["C"])]
                 /\ UNCHANGED sem
        <4>1. held["C"] \in BufsOf("in")
          BY <3>1 DEF TypeOK, BuffersOK, At, BufsOf
        <4>2. QED
          BY <1>2, <3>1, <4>1, PushKeepsQueues
             DEF TypeOK, EtbPush, Ports, flushVars
      <3>2. CASE UNCHANGED queue /\ sem' = [sem EXCEPT !["in"] = @ + 1]
        BY <1>2, <3>2 DEF TypeOK, QueuesOK, EtbPush, Ports, flushVars
      <3> QED BY <1>2, <3>1, <3>2 DEF EtbPush
    <2>4. FlagsOK'
      BY <1>2 DEF TypeOK, FlagsOK, EtbPush, appVars, eventVars, flushVars
    <2>5. RequestsOK'
      BY <1>2 DEF TypeOK, RequestsOK, EtbPush, eventVars, compVars,
            boundVars
    <2> QED BY <2>1, <2>2, <2>3, <2>4, <2>5 DEF TypeOK
  <1>3. CASE FillBufferDone
    <2>1. PlacesOK'
      BY <1>3, GotoPlaces DEF TypeOK, PlacesOK, FillBufferDone,
            ThreadPlaces, Threads, At, Idle
    <2>2. BuffersOK'
      <3>1. PICK b \in OutBufs :
              /\ comp[b] > 0
              /\ comp' = [comp EXCEPT ![b] = @ - 1]
              /\ \/ UNCHANGED << pc, held >>
                 \/ /\ held' = [held EXCEPT !["C"] = b]
                    /\ Goto("C", "ftb_lock")
        BY <1>3 DEF FillBufferDone
      <3>2. comp' \in [Bufs -> Nat]
        BY <3>1 DEF TypeOK, BuffersOK, Bufs
      <3>3. QED
        BY <1>3, <3>1, <3>2
           DEF TypeOK, BuffersOK, PlacesOK, FillBufferDone, Threads, Goto, Bufs
    <2>3. QueuesOK'
      BY <1>3 DEF TypeOK, QueuesOK, FillBufferDone, At, queueVars, flushVars
    <2>4. FlagsOK'
      BY <1>3 DEF TypeOK, FlagsOK, FillBufferDone, appVars, eventVars,
            flushVars
    <2>5. RequestsOK'
      BY <1>3 DEF TypeOK, RequestsOK, FillBufferDone, eventVars, boundVars,
            Asked
    <2> QED BY <2>1, <2>2, <2>3, <2>4, <2>5 DEF TypeOK
  <1>4. CASE FtbLock
    <2>1. PlacesOK'
      BY <1>4, GotoPlaces DEF TypeOK, FtbLock, ThreadPlaces, Threads, At
    <2>2. BuffersOK'
      BY <1>4 DEF TypeOK, BuffersOK, PlacesOK, FtbLock, Goto, At, compVars,
            Threads
    <2>3. QueuesOK'
      BY <1>4 DEF TypeOK, QueuesOK, FtbLock, At, queueVars, flushVars
    <2>4. FlagsOK'
      BY <1>4 DEF TypeOK, FlagsOK, FtbLock, appVars, eventVars, flushVars
    <2>5. RequestsOK'
      BY <1>4 DEF TypeOK, RequestsOK, FtbLock, eventVars, compVars,
            boundVars
    <2> QED BY <2>1, <2>2, <2>3, <2>4, <2>5 DEF TypeOK
  <1>5. CASE FtbPush
    <2>1. PlacesOK'
      BY <1>5, GotoPlaces DEF TypeOK, FtbPush, ThreadPlaces, Threads, At
    <2>2. BuffersOK'
      BY <1>5 DEF TypeOK, BuffersOK, PlacesOK, FtbPush, Goto, At, compVars,
            Threads
    <2>3. QueuesOK'
      <3>1. held["C"] \in BufsOf("out")
        BY <1>5 DEF TypeOK, BuffersOK, FtbPush, At, BufsOf
      <3>2. QED
        BY <1>5, <3>1, PushKeepsQueues
           DEF TypeOK, FtbPush, PostEach, Ports, flushVars
    <2>4. FlagsOK'
      BY <1>5 DEF TypeOK, FlagsOK, FtbPush, appVars, eventVars, flushVars
    <2>5. RequestsOK'
      BY <1>5 DEF TypeOK, RequestsOK, FtbPush, eventVars, compVars,
            boundVars
    <2> QED BY <2>1, <2>2, <2>3, <2>4, <2>5 DEF TypeOK
  <1>6. CASE FtbFree
    <2>1. PlacesOK'
      BY <1>6, GotoPlaces DEF TypeOK, FtbFree, ThreadPlaces, Threads, At
    <2>2. BuffersOK'
      BY <1>6 DEF TypeOK, BuffersOK, PlacesOK, FtbFree, Goto, At, Threads
    <2>3. QueuesOK'
      BY <1>6 DEF TypeOK, QueuesOK, FtbFree, At, queueVars, flushVars
    <2>4. FlagsOK'
      BY <1>6 DEF TypeOK, FlagsOK, FtbFree, appVars, eventVars, flushVars
    <2>5. RequestsOK'
      BY <1>6 DEF TypeOK, RequestsOK, FtbFree, eventVars, boundVars
    <2> QED BY <2>1, <2>2, <2>3, <2>4, <2>5 DEF TypeOK
  <1>7. CASE FlushComplete
    <2>1. PlacesOK'
      BY <1>7 DEF TypeOK, PlacesOK, FlushComplete
    <2>2. BuffersOK'
      BY <1>7 DEF TypeOK, BuffersOK, PlacesOK, FlushComplete, At, Ports,
            BufsOf, Idle
    <2>3. QueuesOK'
      BY <1>7 DEF TypeOK, QueuesOK, FlushComplete, At, Ports, queueVars
    <2>4. FlagsOK'
      BY <1>7 DEF TypeOK, FlagsOK, FlushComplete, appVars, eventVars, Ports,
            EventComplete
    <2>5. RequestsOK'
      BY <1>7 DEF TypeOK, RequestsOK, FlushComplete, eventVars, boundVars,
            Asked, EventComplete, Events
    <2> QED BY <2>1, <2>2, <2>3, <2>4, <2>5 DEF TypeOK
  <1>8. CASE PortComplete
    <2>1. PlacesOK'
      BY <1>8 DEF TypeOK, PlacesOK, PortComplete
    <2>2. BuffersOK'
      BY <1>8 DEF TypeOK, BuffersOK, PlacesOK, PortComplete, At, Idle
    <2>3. QueuesOK'
      BY <1>8 DEF TypeOK, QueuesOK, PortComplete, At, queueVars, flushVars
    <2>4. FlagsOK'
      BY <1>8 DEF TypeOK, FlagsOK, PortComplete, flushVars, EventComplete
    <2>5. RequestsOK'
      BY <1>8 DEF TypeOK, RequestsOK, PortComplete, boundVars, Asked,
            EventComplete, Events
    <2> QED BY <2>1, <2>2, <2>3, <2>4, <2>5 DEF TypeOK
  <1>9. CASE StateComplete
    <2>1. PlacesOK'
      BY <1>9 DEF TypeOK, PlacesOK, StateComplete
    <2>2. BuffersOK'
      BY <1>9 DEF TypeOK, BuffersOK, PlacesOK, StateComplete, At, Bufs, Idle
    <2>3. QueuesOK'
      BY <1>9 DEF TypeOK, QueuesOK, StateComplete, At, queueVars, flushVars
    <2>4. FlagsOK'
      BY <1>9 DEF TypeOK, FlagsOK, StateComplete, appVars, flushVars,
            EventComplete
    <2>5. RequestsOK'
      BY <1>9 DEF TypeOK, RequestsOK, StateComplete, boundVars, Asked,
            EventComplete, Events, OmxStates
    <2> QED BY <2>1, <2>2, <2>3, <2>4, <2>5 DEF TypeOK
  <1>10. CASE PortSettingsChanged
    <2>1. PlacesOK'
      BY <1>10, GotoPlaces DEF TypeOK, PortSettingsChanged, ThreadPlaces,
            Threads, At, Idle
    <2>2. BuffersOK'
      BY <1>10 DEF TypeOK, BuffersOK, PlacesOK, PortSettingsChanged, Goto,
            At, Idle, compVars, Threads
    <2>3. QueuesOK'
      BY <1>10 DEF TypeOK, QueuesOK, PortSettingsChanged, At, flushVars,
            Ports
    <2>4. FlagsOK'
      BY <1>10 DEF TypeOK, FlagsOK, PortSettingsChanged, eventVars,
            flushVars, Statuses
    <2>5. RequestsOK'
      BY <1>10, BoundAssumption DEF TypeOK, RequestsOK, PortSettingsChanged,
            eventVars, compVars
    <2> QED BY <2>1, <2>2, <2>3, <2>4, <2>5 DEF TypeOK
  <1>11. CASE EventError
    <2>1. PlacesOK'
      BY <1>11, GotoPlaces DEF TypeOK, EventError, ThreadPlaces, Threads,
            At, Idle
    <2>2. BuffersOK'
      BY <1>11 DEF TypeOK, BuffersOK, PlacesOK, EventError, Goto, At, Idle,
            compVars, Threads
    <2>3. QueuesOK'
      BY <1>11 DEF TypeOK, QueuesOK, EventError, At, queueVars, flushVars
    <2>4. FlagsOK'
      BY <1>11 DEF TypeOK, FlagsOK, EventError, eventVars, flushVars,
            EventComplete, Statuses
    <2>5. RequestsOK'
      BY <1>11, BoundAssumption DEF TypeOK, RequestsOK, EventError,
            eventVars, compVars, EventComplete, Events
    <2> QED BY <2>1, <2>2, <2>3, <2>4, <2>5 DEF TypeOK
  <1> QED BY <1>1, <1>2, <1>3, <1>4, <1>5, <1>6, <1>7, <1>8, <1>9, <1>10, <1>11
         DEF Component, CallBacks, CommandComplete

LEMMA TypeInit == Init => TypeOK
  <1> SUFFICES ASSUME Init PROVE TypeOK
    OBVIOUS
  <1>1. PlacesOK BY PlaceOf DEF Init, PlacesOK, ThreadPlaces, Threads
  <1>2. BuffersOK BY DEF Init, BuffersOK, Threads, Bufs
  <1>3. QueuesOK BY DEF Init, QueuesOK, Ports
  <1>4. FlagsOK BY DEF Init, FlagsOK, Statuses
  <1>5. RequestsOK BY BoundAssumption DEF Init, RequestsOK, Events, OmxStates
  <1> QED BY <1>1, <1>2, <1>3, <1>4, <1>5 DEF TypeOK

LEMMA TypeStep ==
  ASSUME TypeOK, [Next]_vars
  PROVE  TypeOK'
  <1>1. CASE UNCHANGED vars
    BY <1>1 DEF TypeOK, PlacesOK, BuffersOK, QueuesOK, FlagsOK, RequestsOK, vars,
               appVars, queueVars, flushVars, eventVars, compVars, boundVars
  <1>2. CASE Ended
    BY <1>1, <1>2 DEF Ended
  <1>3. QED
    BY <1>1, <1>2, MainTypes, EbdTypes, FbdTypes, ComponentTypes DEF Next

(* In every state of every instance the variables have their types. *)
THEOREM OmxTypes == Spec => []TypeOK
BY TypeInit, TypeStep, PTL DEF Spec

-----------------------------------------------------------------------------
(* The tokens of ftb_sem.  FtbSignalled is inductive over the types: the     *)
(* steps that take a token or push a buffer are the interesting ones, the    *)
(* rest leave the queue, the semaphore and the token of fbd_thread alone.    *)

LEMMA FtbFrame ==
  ASSUME TypeOK, FtbSignalled, exiting' = exiting,
         queue'["out"] = queue["out"], sem'["out"] = sem["out"],
         TokenTaken("F") => TokenTaken("F")'
  PROVE  FtbSignalled'
  <1>1. sem["out"] \in Nat /\ Len(queue["out"]) \in Nat
    BY DEF TypeOK, QueuesOK, Ports
  <1>2. QED BY <1>1 DEF FtbSignalled

LEMMA FtbFbd ==
  ASSUME TypeOK, FtbSignalled, FbdThread
  PROVE  FtbSignalled'
  <1>1. /\ sem["out"] \in Nat /\ Len(queue["out"]) \in Nat
        /\ "F" \in Threads /\ pc \in [Threads -> Place]
        /\ queue \in [Ports -> Seq(Bufs)] /\ queue["out"] \in Seq(OutBufs)
        /\ PortOf("F") = "out"
    BY DEF TypeOK, PlacesOK, QueuesOK, Ports, Threads, PortOf
  <1>2. CASE Top("F") \/ FlushWait("F") \/ SemTimeout
    BY <1>1, <1>2, FtbFrame
       DEF Top, FlushWait, SemTimeout, At, Goto, TokenTaken, appVars, queueVars
  <1>3. CASE SemWait("F")
    <2>1. /\ exiting' = exiting /\ queue' = queue
          /\ sem["out"] > 0 /\ sem'["out"] = sem["out"] - 1
          /\ ~TokenTaken("F") /\ TokenTaken("F")'
      BY <1>1, <1>3
         DEF SemWait, At, Goto, TokenTaken, appVars, TypeOK, QueuesOK, Ports
    <2>2. QED BY <1>1, <2>1 DEF FtbSignalled
  <1>4. CASE FbdExitCheck
    BY <1>1, <1>4, FtbFrame
       DEF FbdExitCheck, At, Goto, TokenTaken, appVars, queueVars, FtbSignalled
  <1>5. CASE \/ StatusCheck \/ DisablePort \/ PortDisabled \/ EnablePort
             \/ PortEnabled \/ Refill \/ ReconfigDone
    BY <1>1, <1>5, FtbFrame
       DEF StatusCheck, DisablePort, PortDisabled, EnablePort, PortEnabled,
           Refill, ReconfigDone, At, Goto, TokenTaken, appVars, queueVars
  <1>6. CASE DrainPort
    <2>1. /\ exiting' = exiting /\ sem' = sem
          /\ TokenTaken("F") /\ TokenTaken("F")'
      BY <1>1, <1>6 DEF DrainPort, At, Goto, TokenTaken, appVars
    <2>2. CASE queue["out"] = << >>
      BY <1>1, <1>6, <2>1, <2>2, FtbFrame DEF DrainPort
    <2>3. CASE queue["out"] # << >>
      <3>1. queue'["out"] = Popped(queue["out"])
        BY <1>1, <1>6, <2>3 DEF DrainPort, Ports
      <3>2. QED BY <1>1, <2>1, <2>3, <3>1, PoppedTypes DEF FtbSignalled
    <2>4. QED BY <2>2, <2>3
  <1>7. CASE PopBuffer("F")
    <2>1. exiting' = exiting /\ sem' = sem /\ TokenTaken("F")
      BY <1>1, <1>7 DEF PopBuffer, At, TokenTaken, appVars
    <2>2. CASE queue["out"] = << >>
      BY <1>1, <1>7, <2>1, <2>2 DEF PopBuffer, FtbSignalled
    <2>3. CASE queue["out"] # << >>
      <3>1. queue'["out"] = Popped(queue["out"])
        BY <1>1, <1>7, <2>3 DEF PopBuffer, Ports
      <3>2. QED BY <1>1, <2>1, <2>3, <3>1, PoppedTypes DEF FtbSignalled
    <2>4. QED BY <2>2, <2>3
  <1>8. CASE SetRunning("F") \/ FillCheck \/ HandOver("F")
    BY <1>1, <1>8, FtbFrame
       DEF SetRunning, FillCheck, HandOver, At, Goto, TokenTaken, appVars,
           queueVars
  <1>9. QED
    BY <1>2, <1>3, <1>4, <1>5, <1>6, <1>7, <1>8 DEF FbdThread

LEMMA FtbEbd ==
  ASSUME TypeOK, FtbSignalled, EbdThread
  PROVE  FtbSignalled'
  <1>1. /\ exiting' = exiting /\ sem'["out"] = sem["out"]
        /\ queue'["out"] = queue["out"] /\ pc'["F"] = pc["F"]
    BY DEF EbdThread, Top, FlushWait, SemWait, SeekCheck, SeekWait, EbdExitCheck,
           PopBuffer, SetRunning, ReadBuffer, HandOver, Goto, PortOf, appVars,
           queueVars, TypeOK, PlacesOK, QueuesOK, Ports, Threads
  <1>2. QED BY <1>1, FtbFrame DEF TokenTaken

LEMMA FtbMain ==
  ASSUME TypeOK, FtbSignalled, MainThread
  PROVE  FtbSignalled'
  <1>1. /\ sem["out"] \in Nat /\ Len(queue["out"]) \in Nat
        /\ "M" \in Threads /\ "F" \in Threads /\ pc \in [Threads -> Place]
        /\ queue \in [Ports -> Seq(Bufs)] /\ queue["out"] \in Seq(OutBufs)
    BY DEF TypeOK, PlacesOK, QueuesOK, Ports, Threads
  <1>2. CASE \/ StateCommand \/ FlushCommand \/ SeekCommand \/ CommandDone
             \/ ThreadsIdle \/ Rewind \/ SeekDone
    BY <1>1, <1>2, FtbFrame
       DEF StateCommand, FlushCommand, SeekCommand, CommandDone, ThreadsIdle,
           Rewind, SeekDone, Goto, TokenTaken, appVars, queueVars
  <1>3. CASE FillAll \/ EmptyAll
    BY <1>1, <1>3, FtbFrame
       DEF FillAll, EmptyAll, Goto, TokenTaken, appVars, queueVars
  <1>4. CASE DrainQueues
    <2>1. /\ exiting' = exiting /\ sem' = sem /\ pc'["F"] = pc["F"]
      BY <1>1, <1>4 DEF DrainQueues, Goto, appVars
    <2>2. \/ queue'["out"] = queue["out"]
          \/ /\ queue["out"] # << >>
             /\ queue'["out"] = Popped(queue["out"])
      BY <1>1, <1>4 DEF DrainQueues, Ports
    <2>3. Len(queue'["out"]) \in Nat /\ Len(queue'["out"]) <= Len(queue["out"])
      BY <1>1, <2>2, PoppedTypes
    <2>4. QED BY <1>1, <2>1, <2>3 DEF FtbSignalled, TokenTaken
  <1>5. CASE Quit
    BY <1>5 DEF Quit, FtbSignalled
  <1>6. CASE \/ QuitFlush \/ QuitIdle \/ QuitLoaded \/ QuitJoin
    BY <1>1, <1>6, FtbFrame
       DEF QuitFlush, QuitIdle, QuitLoaded, QuitJoin, Goto, TokenTaken, appVars,
           queueVars
  <1>7. CASE QuitFree
    <2>1. queue'["out"] = << >> /\ sem' = sem
      BY <1>7 DEF QuitFree, Ports
    <2>2. QED BY <1>1, <2>1 DEF FtbSignalled
  <1>8. QED
    BY <1>2, <1>3, <1>4, <1>5, <1>6, <1>7 DEF MainThread

LEMMA FtbComponent ==
  ASSUME TypeOK, FtbSignalled, Component
  PROVE  FtbSignalled'
  <1>1. /\ sem["out"] \in Nat /\ Len(queue["out"]) \in Nat
        /\ "C" \in Threads /\ "F" \in Threads /\ pc \in [Threads -> Place]
        /\ queue \in [Ports -> Seq(Bufs)] /\ queue["out"] \in Seq(OutBufs)
        /\ sem \in [Ports -> Nat]
    BY DEF TypeOK, PlacesOK, QueuesOK, Ports, Threads
  <1>2. CASE \/ EmptyBufferDone \/ EtbPush \/ FillBufferDone \/ FtbLock \/ FtbFree
    BY <1>1, <1>2, FtbFrame
       DEF EmptyBufferDone, EtbPush, FillBufferDone, FtbLock, FtbFree, Goto,
           TokenTaken, appVars, queueVars, Ports
  <1>3. CASE FtbPush
    <2>1. /\ exiting' = exiting /\ pc'["F"] = pc["F"]
          /\ sem'["out"] = sem["out"] + 1
          /\ queue'["out"] = Append(queue["out"], held["C"])
      BY <1>1, <1>3 DEF FtbPush, PostEach, Goto, appVars, Ports
    <2>2. held["C"] \in OutBufs
      BY <1>3 DEF FtbPush, At, TypeOK, BuffersOK
    <2>3. Len(queue'["out"]) = Len(queue["out"]) + 1
      BY <1>1, <2>1, <2>2
    <2>4. QED BY <1>1, <2>1, <2>3 DEF FtbSignalled, TokenTaken
  <1>4. CASE CommandComplete
    BY <1>1, <1>4, FtbFrame
       DEF CommandComplete, FlushComplete, PortComplete, StateComplete,
           TokenTaken, appVars, queueVars
  <1>5. CASE PortSettingsChanged
    <2>1. /\ exiting' = exiting /\ pc'["F"] = pc["F"] /\ queue' = queue
          /\ sem'["out"] = sem["out"] \/ sem'["out"] = sem["out"] + 1
      BY <1>1, <1>5 DEF PortSettingsChanged, Goto, queueVars, Ports
    <2>2. QED BY <1>1, <2>1 DEF FtbSignalled, TokenTaken
  <1>6. CASE EventError
    BY <1>1, <1>6, FtbFrame DEF EventError, Goto, TokenTaken, queueVars
  <1>7. QED
    BY <1>2, <1>3, <1>4, <1>5, <1>6 DEF Component, CallBacks

LEMMA FtbStep ==
  ASSUME TypeOK, FtbSignalled, [Next]_vars
  PROVE  FtbSignalled'
  <1>1. CASE UNCHANGED vars
    BY <1>1, FtbFrame DEF vars, appVars, queueVars, TokenTaken
  <1>2. CASE Ended
    BY <1>1, <1>2 DEF Ended
  <1>3. QED
    BY <1>1, <1>2, FtbFbd, FtbEbd, FtbMain, FtbComponent DEF Next

(* fbd_thread can never sleep on ftb_sem while a buffer of its queue has no    *)
(* token: whatever the user types, however often the port changes.            *)
THEOREM FtbNeverForgotten == Spec => []FtbSignalled
  <1>1. Init => FtbSignalled
    BY DEF Init, FtbSignalled, Ports
  <1>2. QED BY <1>1, OmxTypes, FtbStep, PTL DEF Spec

-----------------------------------------------------------------------------
(* The seek.  What SeekHandsOutAlone needs to be inductive: seeking_progress   *)
(* is up from the command to seek_done, a thread that is about to check or to  *)
(* hand over says RUNNING, and the two looks of seek_progress at the statuses  *)
(* are kept one after the other.                                               *)

Seeks == {"wait_seek", "idle_in", "idle_out", "drain_in", "drain_out", "rewind",
          "fill", "empty", "seek_done"}
HandsOut == {"drain_in", "drain_out", "rewind", "fill", "empty", "seek_done"}

SeekInv ==
  /\ pc["M"] \in Seeks => seeking
  /\ \A t \in {"E", "F"} : pc[t] \in {"check", "give"} => running[PortOf(t)]
  /\ pc["M"] \in HandsOut \cup {"idle_out"} => pc["E"] # "give"
  /\ pc["M"] \in HandsOut => pc["F"] # "give"

LEMMA SeekFrame ==
  ASSUME SeekInv, pc'["M"] = pc["M"], pc'["E"] = pc["E"], pc'["F"] = pc["F"],
         seeking' = seeking, running' = running
  PROVE  SeekInv'
BY DEF SeekInv

(* A thread that does not go to hand a buffer over disturbs nothing.           *)
LEMMA SeekLoop ==
  ASSUME TypeOK, SeekInv, NEW t \in {"E", "F"},
         \/ Top(t) \/ FlushWait(t) \/ SemWait(t) \/ PopBuffer(t)
         \/ SetRunning(t) \/ HandOver(t)
  PROVE  SeekInv'
  <1>1. /\ pc \in [Threads -> Place] /\ running \in [Ports -> BOOLEAN]
        /\ "E" \in Threads /\ "F" \in Threads /\ "M" \in Threads
        /\ "in" \in Ports /\ "out" \in Ports
    BY DEF TypeOK, PlacesOK, FlagsOK, Threads, Ports
  <1>2. seeking' = seeking
    BY DEF Top, FlushWait, SemWait, PopBuffer, SetRunning, HandOver, appVars
  <1>3. CASE t = "E"
    BY <1>1, <1>2, <1>3
       DEF Top, FlushWait, SemWait, PopBuffer, SetRunning, HandOver, Goto,
           PortOf, SeekInv
  <1>4. CASE t = "F"
    BY <1>1, <1>2, <1>4
       DEF Top, FlushWait, SemWait, PopBuffer, SetRunning, HandOver, Goto,
           PortOf, SeekInv
  <1>5. QED BY <1>3, <1>4

LEMMA SeekEbd ==
  ASSUME TypeOK, SeekInv, EbdThread
  PROVE  SeekInv'
  <1>1. /\ pc \in [Threads -> Place] /\ running \in [Ports -> BOOLEAN]
        /\ "E" \in Threads /\ "F" \in Threads /\ "M" \in Threads
        /\ "in" \in Ports /\ "out" \in Ports
        /\ seeking \in BOOLEAN
    BY DEF TypeOK, PlacesOK, FlagsOK, Threads, Ports
  <1>2. CASE SeekCheck \/ SeekWait \/ EbdExitCheck
    BY <1>1, <1>2
       DEF SeekCheck, SeekWait, EbdExitCheck, Goto, PortOf, SeekInv, appVars
  <1>3. CASE ReadBuffer
    <2>1. seeking' = seeking /\ pc'["M"] = pc["M"] /\ pc'["F"] = pc["F"]
      BY <1>1, <1>3 DEF ReadBuffer, Goto
    <2>2. CASE seeking
      BY <1>1, <1>3, <2>1, <2>2 DEF ReadBuffer, Goto, PortOf, SeekInv
    <2>3. CASE ~seeking
      BY <1>1, <1>3, <2>1, <2>3
         DEF ReadBuffer, At, Goto, PortOf, SeekInv, Seeks, HandsOut
    <2>4. QED BY <1>1, <2>2, <2>3
  <1>4. QED BY <1>2, <1>3, SeekLoop DEF EbdThread

LEMMA SeekFbd ==
  ASSUME TypeOK, SeekInv, FbdThread
  PROVE  SeekInv'
  <1>1. /\ pc \in [Threads -> Place] /\ running \in [Ports -> BOOLEAN]
        /\ "E" \in Threads /\ "F" \in Threads /\ "M" \in Threads
        /\ "in" \in Ports /\ "out" \in Ports
        /\ seeking \in BOOLEAN
    BY DEF TypeOK, PlacesOK, FlagsOK, Threads, Ports
  <1>2. CASE FillCheck
    <2>1. /\ seeking' = seeking /\ running' = running
          /\ pc'["M"] = pc["M"] /\ pc'["E"] = pc["E"]
      BY <1>1, <1>2 DEF FillCheck, Goto, appVars
    <2>2. CASE seeking
      BY <1>1, <1>2, <2>1, <2>2
         DEF FillCheck, NotToSend, Goto, PortOf, SeekInv
    <2>3. CASE ~seeking
      BY <1>1, <1>2, <2>1, <2>3
         DEF FillCheck, At, Goto, PortOf, SeekInv, Seeks, HandsOut
    <2>4. QED BY <1>1, <2>2, <2>3
  <1>3. CASE SemTimeout \/ FbdExitCheck \/ StatusCheck
    BY <1>1, <1>3
       DEF SemTimeout, FbdExitCheck, StatusCheck, Goto, PortOf, SeekInv, appVars
  <1>4. CASE DisablePort \/ DrainPort \/ PortDisabled
    BY <1>1, <1>4
       DEF DisablePort, DrainPort, PortDisabled, Goto, PortOf, SeekInv, appVars
  <1>5. CASE EnablePort \/ PortEnabled \/ Refill \/ ReconfigDone
    BY <1>1, <1>5
       DEF EnablePort, PortEnabled, Refill, ReconfigDone, Goto, PortOf, SeekInv,
           appVars
  <1>6. QED BY <1>2, <1>3, <1>4, <1>5, SeekLoop DEF FbdThread

LEMMA SeekMain ==
  ASSUME TypeOK, SeekInv, MainThread
  PROVE  SeekInv'
  <1>1. /\ pc \in [Threads -> Place]
        /\ "E" \in Threads /\ "F" \in Threads /\ "M" \in Threads
    BY DEF TypeOK, PlacesOK, Threads
  <1>2. pc'["E"] = pc["E"] /\ pc'["F"] = pc["F"] /\ running' = running
    BY <1>1 DEF MainThread, StateCommand, FlushCommand, SeekCommand, CommandDone,
           ThreadsIdle, DrainQueues, Rewind, FillAll, EmptyAll, SeekDone, Quit,
           QuitFlush, QuitIdle, QuitLoaded, QuitFree, QuitJoin, Goto
  <1>3. CASE StateCommand \/ FlushCommand \/ SeekCommand
    BY <1>1, <1>2, <1>3
       DEF StateCommand, FlushCommand, SeekCommand, Goto, SeekInv, Seeks,
           HandsOut, appVars
  <1>4. CASE CommandDone
    BY <1>1, <1>2, <1>4
       DEF CommandDone, At, Goto, SeekInv, Seeks, HandsOut, appVars
  <1>5. CASE ThreadsIdle
    <2>1. seeking' = seeking
      BY <1>5 DEF ThreadsIdle, appVars
    <2>2. CASE At("M", "idle_in")
      <3>1. pc'["M"] = "idle_out" /\ ~running["in"]
        BY <1>1, <1>5, <2>2 DEF ThreadsIdle, At, Goto
      <3>2. pc["E"] # "give"
        BY <3>1 DEF SeekInv, PortOf
      <3>3. QED
        BY <1>2, <2>1, <2>2, <3>1, <3>2 DEF At, SeekInv, Seeks, HandsOut
    <2>3. CASE At("M", "idle_out") /\ running["out"]
      BY <1>1, <1>2, <1>5, <2>1, <2>3
         DEF ThreadsIdle, At, Goto, SeekInv, Seeks, HandsOut
    <2>4. CASE At("M", "idle_out") /\ ~running["out"]
      <3>1. pc'["M"] = "drain_in"
        BY <1>1, <1>5, <2>4 DEF ThreadsIdle, At, Goto
      <3>2. pc["E"] # "give" /\ pc["F"] # "give"
        BY <2>4 DEF At, SeekInv, PortOf
      <3>3. QED
        BY <1>2, <2>1, <2>4, <3>1, <3>2 DEF At, SeekInv, Seeks, HandsOut
    <2>5. QED BY <1>5, <2>2, <2>3, <2>4 DEF ThreadsIdle
  <1>6. CASE DrainQueues \/ Rewind
    BY <1>1, <1>2, <1>6
       DEF DrainQueues, Rewind, At, Goto, SeekInv, Seeks, HandsOut, Ports,
           appVars
  <1>7. CASE FillAll \/ EmptyAll
    BY <1>1, <1>2, <1>7
       DEF FillAll, EmptyAll, At, Goto, SeekInv, Seeks, HandsOut, appVars
  <1>8. CASE SeekDone
    BY <1>1, <1>2, <1>8 DEF SeekDone, At, Goto, SeekInv, Seeks, HandsOut
  <1>9. CASE Quit \/ QuitFlush \/ QuitIdle \/ QuitLoaded \/ QuitFree \/ QuitJoin
    BY <1>1, <1>2, <1>9
       DEF Quit, QuitFlush, QuitIdle, QuitLoaded, QuitFree, QuitJoin, Goto,
           SeekInv, Seeks, HandsOut
  <1>10. QED
    BY <1>3, <1>4, <1>5, <1>6, <1>7, <1>8, <1>9 DEF MainThread

LEMMA SeekComponent ==
  ASSUME TypeOK, SeekInv, Component
  PROVE  SeekInv'
  <1>1. /\ pc \in [Threads -> Place] /\ "C" \in Threads
        /\ "E" \in Threads /\ "F" \in Threads /\ "M" \in Threads
    BY DEF TypeOK, PlacesOK, Threads
  <1>2. /\ pc'["M"] = pc["M"] /\ pc'["E"] = pc["E"] /\ pc'["F"] = pc["F"]
    BY <1>1 DEF Component, CallBacks, CommandComplete, EmptyBufferDone, EtbPush,
           FillBufferDone, FtbLock, FtbPush, FtbFree, FlushComplete,
           PortComplete, StateComplete, PortSettingsChanged, EventError, Goto
  <1>3. seeking' = seeking /\ running' = running
    BY DEF Component, CallBacks, CommandComplete, EmptyBufferDone, EtbPush,
           FillBufferDone, FtbLock, FtbPush, FtbFree, FlushComplete,
           PortComplete, StateComplete, PortSettingsChanged, EventError, appVars
  <1>4. QED BY <1>2, <1>3, SeekFrame

LEMMA SeekStep ==
  ASSUME TypeOK, SeekInv, [Next]_vars
  PROVE  SeekInv'
  <1>1. CASE UNCHANGED vars
    BY <1>1, SeekFrame DEF vars, appVars
  <1>2. CASE Ended
    BY <1>1, <1>2 DEF Ended
  <1>3. QED
    BY <1>1, <1>2, SeekEbd, SeekFbd, SeekMain, SeekComponent DEF Next

(* From the moment seek_progress starts to empty the queues until it clears    *)
(* seeking_progress, neither thread is about to hand a buffer over.            *)
THEOREM SeekIsAlone == Spec => []SeekHandsOutAlone
  <1>1. Init => SeekInv
    BY DEF Init, SeekInv, Seeks, HandsOut, Threads
  <1>2. SeekInv => SeekHandsOutAlone
    BY DEF SeekInv, SeekHandsOutAlone, HandsOut, At
  <1>3. QED BY <1>1, <1>2, OmxTypes, SeekStep, PTL DEF Spec
-----------------------------------------------------------------------------
(* What a queue or the list of commands holds, and how often.                  *)

Holds(q, x) == \E k \in DOMAIN q : q[k] = x
HoldsOnce(q, x) == \A j, k \in DOMAIN q : q[j] = x /\ q[k] = x => j = k

LEMMA EmptyHolds == \A x : ~Holds(<< >>, x) /\ HoldsOnce(<< >>, x)
BY DEF Holds, HoldsOnce

LEMMA AppendHolds ==
  ASSUME NEW S, NEW q \in Seq(S), NEW y \in S, NEW x
  PROVE  /\ Holds(Append(q, y), x) <=> Holds(q, x) \/ y = x
         /\ HoldsOnce(q, x) /\ (y = x => ~Holds(q, x)) => HoldsOnce(Append(q, y), x)
  <1>1. /\ DOMAIN q = 1..Len(q) /\ DOMAIN Append(q, y) = 1..(Len(q) + 1)
        /\ Append(q, y)[Len(q) + 1] = y /\ Len(q) \in Nat
        /\ \A k \in 1..Len(q) : Append(q, y)[k] = q[k]
    OBVIOUS
  <1>2. \A k \in 1..(Len(q) + 1) : k \in 1..Len(q) \/ k = Len(q) + 1
    BY <1>1
  <1>3. Len(q) + 1 \in 1..(Len(q) + 1) /\ 1..Len(q) \subseteq 1..(Len(q) + 1)
    BY <1>1
  <1> QED BY <1>1, <1>2, <1>3 DEF Holds, HoldsOnce

LEMMA TailHolds ==
  ASSUME NEW S, NEW q \in Seq(S), q # << >>, NEW x
  PROVE  /\ Holds(q, x) <=> Holds(Tail(q), x) \/ Head(q) = x
         /\ HoldsOnce(q, x) => /\ HoldsOnce(Tail(q), x)
                               /\ Head(q) = x => ~Holds(Tail(q), x)
  <1>1. /\ DOMAIN q = 1..Len(q) /\ DOMAIN Tail(q) = 1..(Len(q) - 1)
        /\ Head(q) = q[1] /\ Len(q) \in Nat /\ Len(q) > 0
        /\ \A k \in 1..(Len(q) - 1) : Tail(q)[k] = q[k + 1]
    OBVIOUS
  <1>2. \A k \in 1..Len(q) : k = 1 \/ k - 1 \in 1..(Len(q) - 1)
    BY <1>1
  <1>3. \A k \in 1..(Len(q) - 1) : k + 1 \in 1..Len(q) /\ k + 1 # 1
    BY <1>1
  <1>4. \A k \in 1..Len(q) : k # 1 => Tail(q)[k - 1] = q[k]
    BY <1>1, <1>2
  <1>5. 1 \in 1..Len(q)
    BY <1>1
  <1>6. Holds(q, x) <=> Holds(Tail(q), x) \/ Head(q) = x
    BY <1>1, <1>2, <1>3, <1>4, <1>5 DEF Holds
  <1>7. ASSUME HoldsOnce(q, x)
        PROVE  /\ HoldsOnce(Tail(q), x)
               /\ Head(q) = x => ~Holds(Tail(q), x)
    <2>1. ASSUME NEW j \in DOMAIN Tail(q), NEW k \in DOMAIN Tail(q),
                 Tail(q)[j] = x, Tail(q)[k] = x
          PROVE  j = k
      <3>1. j + 1 \in DOMAIN q /\ k + 1 \in DOMAIN q /\ q[j + 1] = x /\ q[k + 1] = x
        BY <1>1, <1>3, <2>1
      <3>2. j + 1 = k + 1
        BY <1>7, <3>1 DEF HoldsOnce
      <3> QED BY <1>1, <3>2
    <2>2. ASSUME Head(q) = x, NEW k \in DOMAIN Tail(q), Tail(q)[k] = x
          PROVE  FALSE
      BY <1>1, <1>3, <1>5, <1>7, <2>2 DEF HoldsOnce
    <2> QED BY <2>1, <2>2 DEF Holds, HoldsOnce
  <1> QED BY <1>6, <1>7

-----------------------------------------------------------------------------
(* Two threads wait for the component.  What main and fbd_thread have asked    *)
(* for is told from where they are; each command is pending once at most, a    *)
(* port is flushed while the command to flush it is pending, and an event is   *)
(* the one of commands somebody waits for, all of them over.                   *)

MAsks == CASE At("M", "wait_state") -> {"Pause", "Executing"}
           [] pc["M"] \in {"wait_flush", "wait_seek", "quit_flushed"} ->
                  {"FlushIn", "FlushOut"}
           [] At("M", "quit_idled") -> {"Idle"}
           [] At("M", "quit_loaded") -> {"Loaded"}
           [] OTHER -> {}
FAsks == CASE pc["F"] \in {"drain", "wait_disable"} -> {"PortDisable"}
           [] At("F", "wait_enable") -> {"PortEnable"}
           [] OTHER -> {}
Asks == MAsks \cup FAsks

FlushRequest(p) == IF p = "in" THEN "FlushIn" ELSE "FlushOut"
StateRequests == {"Pause", "Executing", "Idle", "Loaded"}
Kind(c) == IF c \in StateRequests THEN "StateSet" ELSE c
EventOf(c) == IF c \in {"FlushIn", "FlushOut"} THEN "Flush" ELSE Kind(c)

Pends(c) == Holds(pending, c)
NoTwoAlike(q) == \A j, k \in DOMAIN q : Kind(q[j]) = Kind(q[k]) => j = k

PendingIsAsked == \A c \in Requests : Pends(c) => c \in Asks
FlushesPending == \A p \in Ports : flushing[p] <=> Pends(FlushRequest(p))
EventIsAsked == eventDone => /\ \E c \in Asks : lastCmd = EventOf(c)
                             /\ \A c \in Requests : Pends(c) => EventOf(c) # lastCmd
NoErrorYet == pc["C"] \notin {"error", "error_event"}
NoChangeYet == reconfigs = 0 =>
                   /\ ~Reconfiguring
                   /\ currentStatus \notin {"PORT_SETTING_CHANGE", "RECONFIG"}
                   /\ preStatus \notin {"PORT_SETTING_CHANGE", "RECONFIG"}

Orderly == PendingIsAsked /\ NoTwoAlike(pending) /\ FlushesPending /\ EventIsAsked
           /\ NoErrorYet /\ NoChangeYet
Protocol == Undisturbed => Orderly

LEMMA AppendAlike ==
  ASSUME NEW S, NEW q \in Seq(S), NEW y \in S, NoTwoAlike(q),
         \A x \in S : Holds(q, x) => Kind(x) # Kind(y)
  PROVE  NoTwoAlike(Append(q, y))
  <1>1. /\ DOMAIN q = 1..Len(q) /\ DOMAIN Append(q, y) = 1..(Len(q) + 1)
        /\ Append(q, y)[Len(q) + 1] = y /\ Len(q) \in Nat
        /\ \A k \in 1..Len(q) : Append(q, y)[k] = q[k] /\ q[k] \in S
    OBVIOUS
  <1>2. \A k \in 1..(Len(q) + 1) : k \in 1..Len(q) \/ k = Len(q) + 1
    BY <1>1
  <1>3. \A k \in 1..Len(q) : Kind(q[k]) # Kind(y)
    BY <1>1 DEF Holds
  <1> QED BY <1>1, <1>2, <1>3 DEF NoTwoAlike

LEMMA TailAlike ==
  ASSUME NEW S, NEW q \in Seq(S), q # << >>, NoTwoAlike(q)
  PROVE  /\ NoTwoAlike(Tail(q))
         /\ \A x : Holds(Tail(q), x) => Kind(x) # Kind(Head(q))
  <1>1. /\ DOMAIN q = 1..Len(q) /\ DOMAIN Tail(q) = 1..(Len(q) - 1)
        /\ Head(q) = q[1] /\ Len(q) \in Nat /\ Len(q) > 0
        /\ \A k \in 1..(Len(q) - 1) : Tail(q)[k] = q[k + 1]
    OBVIOUS
  <1>2. \A k \in 1..(Len(q) - 1) : k + 1 \in 1..Len(q) /\ k + 1 # 1
    BY <1>1
  <1>3. 1 \in 1..Len(q)
    BY <1>1
  <1>4. ASSUME NEW j \in DOMAIN Tail(q), NEW k \in DOMAIN Tail(q),
               Kind(Tail(q)[j]) = Kind(Tail(q)[k])
        PROVE  j = k
    <2>1. j + 1 = k + 1
      BY <1>1, <1>2, <1>4 DEF NoTwoAlike
    <2> QED BY <1>1, <2>1
  <1>5. ASSUME NEW k \in DOMAIN Tail(q)
        PROVE  Kind(Tail(q)[k]) # Kind(Head(q))
    BY <1>1, <1>2, <1>3 DEF NoTwoAlike
  <1> QED BY <1>4, <1>5 DEF NoTwoAlike, Holds

Conversation ==
    PendingIsAsked /\ NoTwoAlike(pending) /\ FlushesPending /\ EventIsAsked

LEMMA RequestFacts ==
  /\ FlushRequest("in") = "FlushIn" /\ FlushRequest("out") = "FlushOut"
  /\ MAsks \subseteq Requests /\ FAsks \subseteq Requests
  /\ \A c \in Requests : EventOf(c) # "Error"
  /\ \A c, d \in Requests : Kind(c) = Kind(d) => EventOf(c) = EventOf(d)
  /\ \A c \in MAsks, d \in FAsks : EventOf(c) # EventOf(d)
  <1>1. /\ MAsks \subseteq {"FlushIn", "FlushOut"} \cup StateRequests
        /\ FAsks \subseteq {"PortDisable", "PortEnable"}
    BY DEF MAsks, FAsks, StateRequests
  <1>2. \A c \in {"FlushIn", "FlushOut"} : Kind(c) = c /\ EventOf(c) = "Flush"
    BY DEF Kind, EventOf, StateRequests
  <1>3. \A c \in StateRequests : Kind(c) = "StateSet" /\ EventOf(c) = "StateSet"
    BY DEF Kind, EventOf, StateRequests
  <1>4. \A c \in {"PortDisable", "PortEnable"} : Kind(c) = c /\ EventOf(c) = c
    BY DEF Kind, EventOf, StateRequests
  <1>5. Requests = {"FlushIn", "FlushOut"} \cup StateRequests
                   \cup {"PortDisable", "PortEnable"}
    BY DEF Requests, StateRequests
  <1>6. \A c, d \in Requests : Kind(c) = Kind(d) => EventOf(c) = EventOf(d)
    BY <1>2, <1>3, <1>4, <1>5
  <1>7. \A c \in Requests : EventOf(c) # "Error"
    BY <1>2, <1>3, <1>4, <1>5
  <1>8. \A c \in MAsks, d \in FAsks : EventOf(c) # EventOf(d)
    BY <1>1, <1>2, <1>3, <1>4
  <1> QED BY <1>1, <1>5, <1>6, <1>7, <1>8 DEF FlushRequest

(* A step that neither sends, nor waits, nor completes a command.              *)
LEMMA ConversationFrame ==
  ASSUME Conversation, MAsks' = MAsks, FAsks' = FAsks,
         UNCHANGED << pending, flushing, eventVars >>
  PROVE  Conversation'
BY DEF Conversation, PendingIsAsked, FlushesPending, EventIsAsked, Pends, Asks,
       eventVars

(* A command is sent when none that ends in the same event is asked for.       *)
LEMMA ConversationSend ==
  ASSUME TypeOK, Conversation, NEW c \in Requests \ {"FlushIn", "FlushOut"},
         Send(c), c \in Asks', Asks \subseteq Asks',
         \A d \in Asks : EventOf(d) # EventOf(c),
         UNCHANGED << flushing, eventVars >>
  PROVE  Conversation'
  <1>1. pending \in Seq(Requests) /\ pending' = Append(pending, c)
    BY DEF TypeOK, RequestsOK, Send
  <1>2. \A d : Pends(d)' <=> Pends(d) \/ d = c
    BY <1>1, AppendHolds DEF Pends
  <1>3. \A d \in Requests : Pends(d) => EventOf(d) # EventOf(c)
    BY DEF Conversation, PendingIsAsked
  <1>4. PendingIsAsked'
    BY <1>2 DEF Conversation, PendingIsAsked
  <1>5. NoTwoAlike(pending)'
    <2>1. \A d \in Requests : Holds(pending, d) => Kind(d) # Kind(c)
      BY <1>3, RequestFacts DEF Pends
    <2> QED BY <1>1, <2>1, AppendAlike DEF Conversation
  <1>6. FlushesPending'
    BY <1>2 DEF Conversation, FlushesPending, FlushRequest
  <1>7. EventIsAsked'
    BY <1>2 DEF Conversation, EventIsAsked, eventVars
  <1> QED BY <1>4, <1>5, <1>6, <1>7 DEF Conversation

(* SendFlush appends one command or two.                                       *)
LEMMA SendFlushPends ==
  ASSUME TypeOK, NoTwoAlike(pending), ~Pends("FlushIn"), ~Pends("FlushOut"),
         NEW ports \in {Ports, {"in"}, {"out"}}, SendFlush(ports)
  PROVE  /\ NoTwoAlike(pending')
         /\ \A d : Holds(pending', d) <=>
                Pends(d) \/ \E p \in ports : d = FlushRequest(p)
  <1>0. /\ pending \in Seq(Requests)
        /\ "FlushIn" \in Requests /\ "FlushOut" \in Requests
        /\ FlushRequest("in") = "FlushIn" /\ FlushRequest("out") = "FlushOut"
    BY RequestFacts DEF TypeOK, RequestsOK, Requests
  <1>1. \A d \in Requests : (Kind(d) = Kind("FlushIn") => d = "FlushIn")
                            /\ (Kind(d) = Kind("FlushOut") => d = "FlushOut")
    BY DEF Requests, Kind, StateRequests
  <1>2. /\ Append(pending, "FlushIn") \in Seq(Requests)
        /\ NoTwoAlike(Append(pending, "FlushIn"))
        /\ \A d : Holds(Append(pending, "FlushIn"), d) <=> Pends(d) \/ d = "FlushIn"
    BY <1>0, <1>1, AppendAlike, AppendHolds DEF Pends
  <1>3. CASE ports = {"in"}
    <2>1. pending' = (pending \o << "FlushIn" >>) \o << >>
      BY <1>3 DEF SendFlush
    <2>2. pending' = Append(pending, "FlushIn")
      BY <1>0, <2>1
    <2> QED BY <1>0, <1>2, <1>3, <2>2
  <1>4. CASE ports = {"out"}
    <2>1. pending' = (pending \o << >>) \o << "FlushOut" >>
      BY <1>4 DEF SendFlush
    <2>2. pending' = Append(pending, "FlushOut")
      BY <1>0, <2>1
    <2>3. /\ NoTwoAlike(Append(pending, "FlushOut"))
          /\ \A d : Holds(Append(pending, "FlushOut"), d) <=>
                 Pends(d) \/ d = "FlushOut"
      BY <1>0, <1>1, AppendAlike, AppendHolds DEF Pends
    <2> QED BY <1>0, <1>4, <2>2, <2>3
  <1>5. CASE ports = Ports
    <2> DEFINE q == Append(pending, "FlushIn")
    <2>1. pending' = (pending \o << "FlushIn" >>) \o << "FlushOut" >>
      BY <1>5 DEF SendFlush, Ports
    <2>2. pending' = Append(q, "FlushOut")
      BY <1>0, <2>1
    <2>3. q \in Seq(Requests) /\ NoTwoAlike(q) /\ ~Holds(q, "FlushOut")
          /\ \A d : Holds(q, d) <=> Pends(d) \/ d = "FlushIn"
      BY <1>2
    <2> HIDE DEF q
    <2>4. NoTwoAlike(pending')
      BY <1>0, <1>1, <2>2, <2>3, AppendAlike
    <2>5. \A d : Holds(pending', d) <=> Holds(q, d) \/ d = "FlushOut"
      BY <1>0, <2>2, <2>3, AppendHolds
    <2> QED BY <1>0, <1>5, <2>3, <2>4, <2>5 DEF Ports
  <1> QED BY <1>3, <1>4, <1>5

(* main, which waits for nothing, asks for a flush of one port or of both.     *)
LEMMA ConversationFlush ==
  ASSUME TypeOK, Conversation, NEW ports \in {Ports, {"in"}, {"out"}},
         SendFlush(ports), flushing' = [p \in Ports |-> flushing[p] \/ p \in ports],
         MAsks = {}, MAsks' = {"FlushIn", "FlushOut"}, FAsks' = FAsks,
         UNCHANGED eventVars
  PROVE  Conversation'
  <1>1. /\ "FlushIn" \in Requests /\ "FlushOut" \in Requests
        /\ FAsks \subseteq {"PortDisable", "PortEnable"}
    BY DEF Requests, FAsks
  <1>2. ~Pends("FlushIn") /\ ~Pends("FlushOut")
    BY <1>1 DEF Conversation, PendingIsAsked, Asks
  <1>3. /\ NoTwoAlike(pending)'
        /\ \A d : Pends(d)' <=> Pends(d) \/ \E p \in ports : d = FlushRequest(p)
    BY <1>2, SendFlushPends DEF Conversation, Pends
  <1>4. ports \subseteq Ports /\ \A p \in Ports : FlushRequest(p) \in MAsks'
    BY DEF Ports, FlushRequest
  <1>5. PendingIsAsked'
    BY <1>3, <1>4 DEF Conversation, PendingIsAsked, Asks
  <1>6. FlushesPending'
    <2>1. \A p, q \in Ports : FlushRequest(p) = FlushRequest(q) => p = q
      BY DEF FlushRequest, Ports
    <2>2. \A p \in Ports : FlushRequest(p) = "FlushIn" \/ FlushRequest(p) = "FlushOut"
      BY DEF FlushRequest
    <2>3. \A p \in Ports : ~flushing[p] /\ (Pends(FlushRequest(p))' <=> p \in ports)
      BY <1>2, <1>3, <1>4, <2>1, <2>2 DEF Conversation, FlushesPending
    <2> QED BY <2>3 DEF FlushesPending, FlushRequest
  <1>7. EventIsAsked'
    <2>1. \A p \in Ports : EventOf(FlushRequest(p)) = "Flush"
      BY DEF EventOf, FlushRequest
    <2>2. \A c \in FAsks : EventOf(c) # "Flush"
      BY <1>1 DEF EventOf, Kind, StateRequests
    <2> QED BY <1>3, <1>4, <2>1, <2>2
            DEF Conversation, EventIsAsked, Asks, eventVars
  <1> QED BY <1>3, <1>5, <1>6, <1>7 DEF Conversation

(* The event of a command is taken: all that end in that event are over.       *)
LEMMA ConversationDone ==
  ASSUME Conversation, NEW c \in Asks, WaitForEvent(EventOf(c)),
         \A d \in Asks : EventOf(d) # EventOf(c) => d \in Asks',
         UNCHANGED << pending, flushing >>
  PROVE  Conversation'
  <1>1. Asks \subseteq Requests /\ lastCmd # "Error"
    BY RequestFacts DEF Asks, WaitForEvent, Conversation, EventIsAsked
  <1>2. lastCmd = EventOf(c) /\ eventDone /\ ~eventDone'
    BY <1>1 DEF WaitForEvent
  <1>3. PendingIsAsked'
    BY <1>2 DEF Conversation, PendingIsAsked, EventIsAsked, Pends
  <1> QED BY <1>2, <1>3 DEF Conversation, FlushesPending, EventIsAsked, Pends

(* The component completes the oldest command; of two flushes the second one   *)
(* sends the event.                                                            *)
LEMMA ConversationTaken ==
  ASSUME TypeOK, Conversation, NEW c \in Requests, Asked(c),
         pending' = Tail(pending), MAsks' = MAsks, FAsks' = FAsks,
         \/ /\ EventComplete(EventOf(c))
            /\ \A p \in Ports : flushing'[p] => c \notin {"FlushIn", "FlushOut"}
         \/ UNCHANGED eventVars,
         \A p \in Ports : flushing'[p] <=> flushing[p] /\ FlushRequest(p) # c
  PROVE  Conversation'
  <1>1. pending \in Seq(Requests) /\ pending # << >> /\ Head(pending) = c
    BY DEF TypeOK, RequestsOK, Asked
  <1>2. \A d : Pends(d) <=> Pends(d)' \/ d = c
    BY <1>1, TailHolds DEF Pends
  <1>3. /\ NoTwoAlike(pending)'
        /\ \A d : Pends(d)' => Kind(d) # Kind(c)
    BY <1>1, TailAlike DEF Conversation, Pends
  <1>4. ~Pends(c)'
    BY <1>3
  <1>5. PendingIsAsked'
    BY <1>2 DEF Conversation, PendingIsAsked, Asks
  <1>6. FlushesPending'
    BY <1>2, <1>4 DEF Conversation, FlushesPending, FlushRequest
  <1>7. EventIsAsked'
    <2>1. CASE UNCHANGED eventVars
      BY <1>2, <2>1 DEF Conversation, EventIsAsked, Asks, eventVars
    <2>2. CASE /\ EventComplete(EventOf(c))
               /\ \A p \in Ports : flushing'[p] => c \notin {"FlushIn", "FlushOut"}
      <3>1. c \in Asks'
        BY <1>2 DEF Conversation, PendingIsAsked, Asks
      <3>2. ASSUME NEW d \in Requests, Pends(d)', EventOf(d) = EventOf(c)
            PROVE  FALSE
        <4>1. Kind(d) # Kind(c)
          BY <1>3, <3>2
        <4>2. c \in {"FlushIn", "FlushOut"} /\ d \in {"FlushIn", "FlushOut"}
          BY <3>2, <4>1 DEF EventOf, Kind, Requests, StateRequests
        <4>3. \E p \in Ports : flushing'[p]
          BY <1>6, <3>2, <4>2 DEF FlushesPending, FlushRequest, Ports
        <4> QED BY <2>2, <4>2, <4>3
      <3> QED BY <2>2, <3>1, <3>2 DEF EventIsAsked, EventComplete
    <2> QED BY <2>1, <2>2
  <1> QED BY <1>3, <1>5, <1>6, <1>7 DEF Conversation

(* Disturbed once is disturbed for good.                                       *)
LEMMA StaysDisturbed ==
  ASSUME TypeOK, Next, Undisturbed'
  PROVE  Undisturbed /\ errors' = errors
  <1>1. errors \in Nat /\ reconfigs \in Nat /\ errors' \in Nat
    <2>1. TypeOK'
      BY TypeStep
    <2> QED BY <2>1, BoundAssumption DEF TypeOK, RequestsOK
  <1>2. errors' \in {errors, errors + 1} /\ reconfigs' \in {reconfigs, reconfigs + 1}
    BY DEF Next, MainThread, StateCommand, FlushCommand, SeekCommand, CommandDone,
           ThreadsIdle, DrainQueues, Rewind, FillAll, EmptyAll, SeekDone, Quit,
           QuitFlush, QuitIdle, QuitLoaded, QuitFree, QuitJoin, EbdThread, FbdThread,
           Top, FlushWait, SemWait, PopBuffer, SetRunning, HandOver, SeekCheck,
           SeekWait, EbdExitCheck, ReadBuffer, SemTimeout, FbdExitCheck, StatusCheck,
           DisablePort, DrainPort, PortDisabled, EnablePort, PortEnabled, Refill,
           ReconfigDone, FillCheck, Component, CallBacks, CommandComplete,
           EmptyBufferDone, EtbPush, FillBufferDone, FtbLock, FtbPush, FtbFree,
           FlushComplete, PortComplete, StateComplete, PortSettingsChanged, EventError,
           Ended, vars, boundVars
  <1>3. exiting => exiting'
    BY DEF Next, MainThread, StateCommand, FlushCommand, SeekCommand, CommandDone,
           ThreadsIdle, DrainQueues, Rewind, FillAll, EmptyAll, SeekDone, Quit,
           QuitFlush, QuitIdle, QuitLoaded, QuitFree, QuitJoin, EbdThread, FbdThread,
           Top, FlushWait, SemWait, PopBuffer, SetRunning, HandOver, SeekCheck,
           SeekWait, EbdExitCheck, ReadBuffer, SemTimeout, FbdExitCheck, StatusCheck,
           DisablePort, DrainPort, PortDisabled, EnablePort, PortEnabled, Refill,
           ReconfigDone, FillCheck, Component, CallBacks, CommandComplete,
           EmptyBufferDone, EtbPush, FillBufferDone, FtbLock, FtbPush, FtbFree,
           FlushComplete, PortComplete, StateComplete, PortSettingsChanged, EventError,
           Ended, vars, appVars
  <1> QED BY <1>1, <1>2, <1>3 DEF Undisturbed

(* Without a disturbance the component has no error to report, and without a   *)
(* change of the port nothing is reconfigured.                                 *)
LEMMA QuietStep ==
  ASSUME TypeOK, NoErrorYet, NoChangeYet, Next, Undisturbed'
  PROVE  NoErrorYet' /\ NoChangeYet'
  <1>1. /\ pc \in [Threads -> Place] /\ Threads = {"M", "E", "F", "C"}
        /\ reconfigs \in Nat /\ errors \in Nat /\ errors' = errors
    BY StaysDisturbed, BoundAssumption DEF TypeOK, PlacesOK, Threads, RequestsOK
  <1>2. CASE MainThread \/ EbdThread
    <2>1. /\ pc'["C"] = pc["C"] /\ pc'["F"] = pc["F"]
          /\ UNCHANGED << currentStatus, preStatus, reconfigs >>
      BY <1>1, <1>2
         DEF MainThread, StateCommand, FlushCommand, SeekCommand, CommandDone,
             ThreadsIdle, DrainQueues, Rewind, FillAll, EmptyAll, SeekDone, Quit,
             QuitFlush, QuitIdle, QuitLoaded, QuitFree, QuitJoin, Accepted, Types,
             EbdThread, Top, FlushWait, SemWait, PopBuffer, SetRunning, HandOver,
             SeekCheck, SeekWait, EbdExitCheck, ReadBuffer, Goto, boundVars, appVars
    <2> QED BY <2>1 DEF NoErrorYet, NoChangeYet, Reconfiguring
  <1>3. CASE FbdThread
    <2>1. pc'["C"] = pc["C"] /\ reconfigs' = reconfigs
      BY <1>1, <1>3
         DEF FbdThread, Top, FlushWait, SemWait, PopBuffer, SetRunning, HandOver,
             SemTimeout, FbdExitCheck, StatusCheck, DisablePort, DrainPort,
             PortDisabled, EnablePort, PortEnabled, Refill, ReconfigDone, FillCheck,
             Goto, boundVars
    <2>2. ASSUME reconfigs = 0
          PROVE  ~Reconfiguring' /\ UNCHANGED << currentStatus, preStatus >>
      BY <1>1, <1>3, <2>2
         DEF FbdThread, Top, FlushWait, SemWait, PopBuffer, SetRunning, HandOver,
             SemTimeout, FbdExitCheck, StatusCheck, DisablePort, DrainPort,
             PortDisabled, EnablePort, PortEnabled, Refill, ReconfigDone, FillCheck,
             NoChangeYet, Reconfiguring, Goto, At, appVars
    <2> QED BY <2>1, <2>2 DEF NoErrorYet, NoChangeYet
  <1>4. CASE CallBacks \/ CommandComplete
    <2>1. /\ pc'["C"] \notin {"error", "error_event"} /\ pc'["F"] = pc["F"]
          /\ UNCHANGED << currentStatus, preStatus, reconfigs >>
      BY <1>1, <1>4
         DEF CallBacks, EmptyBufferDone, EtbPush, FillBufferDone, FtbLock, FtbPush,
             FtbFree, CommandComplete, FlushComplete, PortComplete, StateComplete,
             NoErrorYet, Goto, At, boundVars, appVars
    <2> QED BY <2>1 DEF NoErrorYet, NoChangeYet, Reconfiguring
  <1>5. CASE PortSettingsChanged
    BY <1>1, <1>5 DEF PortSettingsChanged, NoErrorYet, NoChangeYet, Reconfiguring,
        Goto, At
  <1>6. CASE EventError
    BY <1>1, <1>6 DEF EventError, NoErrorYet, At
  <1>7. CASE Ended
    BY <1>7 DEF Ended, vars, appVars, boundVars, NoErrorYet, NoChangeYet, Reconfiguring
  <1> QED BY <1>2, <1>3, <1>4, <1>5, <1>6, <1>7 DEF Next, Component

(* Which events end the commands of main, which those of fbd_thread.           *)
LEMMA EventsOfAsks ==
  /\ \A c \in MAsks : EventOf(c) \in {"Flush", "StateSet"}
  /\ \A c \in FAsks : EventOf(c) = c /\ c \in {"PortDisable", "PortEnable"}
  /\ \A c \in {"PortDisable", "PortEnable"} : EventOf(c) = c /\ c \in Requests
  /\ \A c \in StateRequests : EventOf(c) = "StateSet" /\ c \in Requests
  /\ \A c \in {"FlushIn", "FlushOut"} : EventOf(c) = "Flush" /\ c \in Requests
  <1>1. /\ MAsks \subseteq {"FlushIn", "FlushOut"} \cup StateRequests
        /\ FAsks \subseteq {"PortDisable", "PortEnable"}
    BY DEF MAsks, FAsks, StateRequests
  <1>2. \A c \in {"FlushIn", "FlushOut"} : EventOf(c) = "Flush" /\ c \in Requests
    BY DEF Kind, EventOf, StateRequests, Requests
  <1>3. \A c \in StateRequests : EventOf(c) = "StateSet" /\ c \in Requests
    BY DEF Kind, EventOf, StateRequests, Requests
  <1>4. \A c \in {"PortDisable", "PortEnable"} : EventOf(c) = c /\ c \in Requests
    BY DEF Kind, EventOf, StateRequests, Requests
  <1> QED BY <1>1, <1>2, <1>3, <1>4

LEMMA ConversationFbd ==
  ASSUME TypeOK, Undisturbed, Orderly, FbdThread
  PROVE  Conversation'
  <1>1. /\ pc \in [Threads -> Place] /\ Threads = {"M", "E", "F", "C"}
        /\ Conversation
    BY DEF TypeOK, PlacesOK, Threads, Orderly, Conversation
  <1>2. /\ pc'["M"] = pc["M"] /\ flushing' = flushing
        /\ pc' = [pc EXCEPT !["F"] = pc'["F"]]
    BY <1>1 DEF FbdThread, Top, FlushWait, SemWait, PopBuffer, SetRunning, HandOver,
           SemTimeout, FbdExitCheck, StatusCheck, DisablePort, DrainPort,
           PortDisabled, EnablePort, PortEnabled, Refill, ReconfigDone, FillCheck,
           Goto, flushVars
  <1>3. MAsks' = MAsks
    BY <1>2 DEF MAsks, At
  <1>4. CASE DisablePort
    <2>1. /\ FAsks = {} /\ FAsks' = {"PortDisable"} /\ Send("PortDisable")
          /\ UNCHANGED eventVars
      BY <1>1, <1>4 DEF DisablePort, FAsks, At, Goto
    <2> QED BY <1>1, <1>2, <1>3, <2>1, EventsOfAsks, ConversationSend DEF Asks
  <1>5. CASE PortDisabled
    <2>1. /\ FAsks = {"PortDisable"} /\ FAsks' = {} /\ WaitForEvent("PortDisable")
          /\ UNCHANGED pending
      BY <1>1, <1>5 DEF PortDisabled, FAsks, At, Goto, compVars
    <2> QED BY <1>1, <1>2, <1>3, <2>1, EventsOfAsks, ConversationDone DEF Asks
  <1>6. CASE EnablePort
    <2>1. ~exiting
      BY <1>6 DEF EnablePort, Undisturbed, Orderly, NoChangeYet, Reconfiguring, At
    <2>2. /\ FAsks = {} /\ FAsks' = {"PortEnable"} /\ Send("PortEnable")
          /\ UNCHANGED eventVars
      BY <1>1, <1>6, <2>1 DEF EnablePort, FAsks, At, Goto
    <2> QED BY <1>1, <1>2, <1>3, <2>2, EventsOfAsks, ConversationSend DEF Asks
  <1>7. CASE PortEnabled
    <2>1. /\ FAsks = {"PortEnable"} /\ FAsks' = {} /\ WaitForEvent("PortEnable")
          /\ UNCHANGED pending
      BY <1>1, <1>7 DEF PortEnabled, FAsks, At, Goto, compVars
    <2> QED BY <1>1, <1>2, <1>3, <2>1, EventsOfAsks, ConversationDone DEF Asks
  <1>8. CASE ~DisablePort /\ ~PortDisabled /\ ~EnablePort /\ ~PortEnabled
    <2>1. UNCHANGED << pending, eventVars >>
      BY <1>8 DEF FbdThread, Top, FlushWait, SemWait, PopBuffer, SetRunning, HandOver,
             SemTimeout, FbdExitCheck, StatusCheck, DrainPort, Refill, ReconfigDone,
             FillCheck, compVars, eventVars
    <2>2. FAsks' = FAsks
      BY <1>1, <1>8 DEF FbdThread, Top, FlushWait, SemWait, PopBuffer, SetRunning,
             HandOver, SemTimeout, FbdExitCheck, StatusCheck, DrainPort, Refill,
             ReconfigDone, FillCheck, FAsks, At, Goto
    <2> QED BY <1>1, <1>2, <1>3, <2>1, <2>2, ConversationFrame
  <1> QED BY <1>4, <1>5, <1>6, <1>7, <1>8

LEMMA ConversationMain ==
  ASSUME TypeOK, Undisturbed, Orderly, MainThread
  PROVE  Conversation'
  <1>1. /\ pc \in [Threads -> Place] /\ Threads = {"M", "E", "F", "C"}
        /\ Conversation /\ flushing \in [Ports -> BOOLEAN]
    BY DEF TypeOK, PlacesOK, Threads, Orderly, Conversation, FlagsOK
  <1>2. pc'["F"] = pc["F"]
    BY <1>1 DEF MainThread, StateCommand, FlushCommand, SeekCommand, CommandDone,
           ThreadsIdle, DrainQueues, Rewind, FillAll, EmptyAll, SeekDone, Quit,
           QuitFlush, QuitIdle, QuitLoaded, QuitFree, QuitJoin, Goto
  <1>3. FAsks' = FAsks
    BY <1>2 DEF FAsks, At
  <1>4. CASE StateCommand
    <2>1. /\ MAsks = {} /\ MAsks' = {"Pause", "Executing"}
          /\ Send("Pause") \/ Send("Executing")
          /\ UNCHANGED << flushing, eventVars >>
      BY <1>1, <1>4 DEF StateCommand, Accepted, Types, MAsks, At, Goto, flushVars
    <2> QED BY <1>1, <1>3, <2>1, EventsOfAsks, ConversationSend
            DEF Asks, StateRequests
  <1>5. CASE FlushCommand
    <2>1. /\ MAsks = {} /\ MAsks' = {"FlushIn", "FlushOut"} /\ UNCHANGED eventVars
      BY <1>1, <1>5 DEF FlushCommand, Accepted, Types, MAsks, At, Goto
    <2>2. PICK ports \in {Ports, {"in"}, {"out"}} :
              /\ SendFlush(ports)
              /\ flushing' = [p \in Ports |-> flushing[p] \/ p \in ports]
      BY <1>5 DEF FlushCommand
    <2> QED BY <1>1, <1>3, <2>1, <2>2, ConversationFlush
  <1>6. CASE SeekCommand \/ QuitFlush
    <2>1. /\ MAsks = {} /\ MAsks' = {"FlushIn", "FlushOut"} /\ UNCHANGED eventVars
          /\ SendFlush(Ports)
      BY <1>1, <1>6 DEF SeekCommand, QuitFlush, Accepted, Types, MAsks, At, Goto
    <2>2. flushing' = [p \in Ports |-> TRUE]
      BY <1>6 DEF SeekCommand, QuitFlush
    <2>3. flushing' = [p \in Ports |-> flushing[p] \/ p \in Ports]
      BY <2>2
    <2> QED BY <1>1, <1>3, <2>1, <2>3, ConversationFlush
  <1>7. CASE CommandDone
    <2>1. /\ MAsks' = {} /\ UNCHANGED << pending, flushing >>
          /\ \/ MAsks = {"Pause", "Executing"} /\ WaitForEvent("StateSet")
             \/ MAsks = {"FlushIn", "FlushOut"} /\ WaitForEvent("Flush")
      BY <1>1, <1>7 DEF CommandDone, MAsks, At, Goto, compVars, flushVars
    <2> QED BY <1>1, <1>3, <2>1, EventsOfAsks, ConversationDone
            DEF Asks, StateRequests
  <1>8. CASE QuitIdle \/ QuitLoaded
    <2>1. /\ UNCHANGED flushing
          /\ \/ /\ MAsks = {"FlushIn", "FlushOut"} /\ MAsks' = {}
                /\ WaitForEvent("Flush") /\ UNCHANGED pending
             \/ /\ MAsks = {} /\ MAsks' = {"Idle"} /\ Send("Idle")
                /\ UNCHANGED eventVars
             \/ /\ MAsks = {"Idle"} /\ MAsks' = {} /\ WaitForEvent("StateSet")
                /\ UNCHANGED pending
             \/ /\ MAsks = {} /\ MAsks' = {"Loaded"} /\ Send("Loaded")
                /\ UNCHANGED eventVars
             \/ /\ MAsks = {"Loaded"} /\ MAsks' = {} /\ WaitForEvent("StateSet")
                /\ UNCHANGED pending
      BY <1>1, <1>8 DEF QuitIdle, QuitLoaded, MAsks, At, Goto, flushVars
    <2>2. CASE WaitForEvent("Flush") \/ WaitForEvent("StateSet")
      BY <1>1, <1>3, <2>1, <2>2, EventsOfAsks, ConversationDone, ConversationSend
         DEF Asks, StateRequests
    <2>3. CASE ~WaitForEvent("Flush") /\ ~WaitForEvent("StateSet")
      BY <1>1, <1>3, <2>1, <2>3, EventsOfAsks, ConversationSend
         DEF Asks, StateRequests
    <2> QED BY <2>2, <2>3
  <1>9. CASE \/ ThreadsIdle \/ DrainQueues \/ Rewind \/ FillAll \/ EmptyAll
             \/ SeekDone \/ Quit \/ QuitFree \/ QuitJoin
    <2>1. UNCHANGED << pending, flushing, eventVars >>
      BY <1>9 DEF ThreadsIdle, DrainQueues, Rewind, FillAll, EmptyAll, SeekDone, Quit,
             QuitFree, QuitJoin, compVars, flushVars
    <2>2. MAsks = {} /\ MAsks' = {}
      BY <1>1, <1>9 DEF ThreadsIdle, DrainQueues, Rewind, FillAll, EmptyAll, SeekDone,
             Quit, QuitFree, QuitJoin, Types, MAsks, At, Goto
    <2> QED BY <1>1, <1>3, <2>1, <2>2, ConversationFrame
  <1> QED BY <1>4, <1>5, <1>6, <1>7, <1>8, <1>9 DEF MainThread

LEMMA ConversationComponent ==
  ASSUME TypeOK, Orderly, Component, Undisturbed'
  PROVE  Conversation'
  <1>1. /\ pc \in [Threads -> Place] /\ Threads = {"M", "E", "F", "C"}
        /\ Conversation /\ flushing \in [Ports -> BOOLEAN] /\ errors \in Nat
    BY BoundAssumption
       DEF TypeOK, PlacesOK, Threads, Orderly, Conversation, FlagsOK, RequestsOK
  <1>2. pc'["F"] = pc["F"] /\ pc'["M"] = pc["M"]
    BY <1>1 DEF Component, CallBacks, CommandComplete, EmptyBufferDone, EtbPush,
           FillBufferDone, FtbLock, FtbPush, FtbFree, FlushComplete,
           PortComplete, StateComplete, PortSettingsChanged, EventError, Goto
  <1>3. MAsks' = MAsks /\ FAsks' = FAsks
    BY <1>2 DEF MAsks, FAsks, At
  <1>4. CASE CallBacks \/ PortSettingsChanged
    <2>1. UNCHANGED << pending, flushing, eventVars >>
      BY <1>4 DEF CallBacks, EmptyBufferDone, EtbPush, FillBufferDone, FtbLock,
             FtbPush, FtbFree, PortSettingsChanged, compVars, flushVars
    <2> QED BY <1>1, <1>3, <2>1, ConversationFrame
  <1>5. CASE FlushComplete
    <2>1. PICK p \in Ports :
              /\ Asked(FlushRequest(p))
              /\ pending' = Tail(pending)
              /\ flushing' = [flushing EXCEPT ![p] = FALSE]
              /\ \/ LastFlushed(p) /\ EventComplete("Flush")
                 \/ UNCHANGED eventVars
      BY <1>5 DEF FlushComplete, FlushRequest
    <2>2. /\ FlushRequest(p) \in {"FlushIn", "FlushOut"}
          /\ \A q \in Ports : FlushRequest(q) = FlushRequest(p) <=> q = p
      BY DEF FlushRequest, Ports
    <2>3. \A q \in Ports : flushing'[q] <=> flushing[q] /\ FlushRequest(q) # FlushRequest(p)
      BY <1>1, <2>1, <2>2
    <2>4. LastFlushed(p) => \A q \in Ports : ~flushing'[q]
      BY <1>1, <2>1 DEF LastFlushed
    <2> QED BY <1>1, <1>3, <2>1, <2>2, <2>3, <2>4, EventsOfAsks, ConversationTaken
  <1>6. CASE PortComplete \/ StateComplete
    <2>1. PICK c \in StateRequests \cup {"PortDisable", "PortEnable"} :
              /\ Asked(c) /\ pending' = Tail(pending)
              /\ EventComplete(EventOf(c)) /\ UNCHANGED flushing
      BY <1>6, EventsOfAsks
         DEF PortComplete, StateComplete, StateRequests, flushVars
    <2>2. /\ c \in Requests /\ c \notin {"FlushIn", "FlushOut"}
          /\ \A q \in Ports : FlushRequest(q) # c
      BY DEF StateRequests, Requests, FlushRequest
    <2> QED BY <1>1, <1>3, <2>1, <2>2, ConversationTaken
  <1>7. CASE EventError
    BY <1>1, <1>7 DEF EventError, Orderly, NoErrorYet, At, Undisturbed
  <1> QED BY <1>4, <1>5, <1>6, <1>7 DEF Component, CommandComplete

LEMMA ProtocolStep ==
  ASSUME TypeOK, Protocol, [Next]_vars
  PROVE  Protocol'
  <1>1. CASE UNCHANGED vars
    BY <1>1 DEF vars, appVars, flushVars, eventVars, compVars, boundVars, Protocol,
        Undisturbed, Orderly, PendingIsAsked, FlushesPending, EventIsAsked, NoErrorYet,
        NoChangeYet, Reconfiguring, Pends, Asks, MAsks, FAsks, At
  <1>2. CASE Next
    <2> SUFFICES ASSUME Undisturbed' PROVE Orderly'
      BY DEF Protocol
    <2>1. Undisturbed /\ Orderly
      BY <1>2, StaysDisturbed DEF Protocol
    <2>2. NoErrorYet' /\ NoChangeYet'
      BY <1>2, <2>1, QuietStep DEF Orderly
    <2>3. Conversation'
      <3>1. CASE EbdThread
        <4>1. pc'["M"] = pc["M"] /\ pc'["F"] = pc["F"]
          BY <3>1 DEF EbdThread, Top, FlushWait, SemWait, PopBuffer, SetRunning,
              HandOver, SeekCheck, SeekWait, EbdExitCheck, ReadBuffer, Goto, TypeOK,
              PlacesOK, Threads
        <4>2. UNCHANGED << pending, flushing, eventVars >>
          BY <3>1 DEF EbdThread, Top, FlushWait, SemWait, PopBuffer, SetRunning,
              HandOver, SeekCheck, SeekWait, EbdExitCheck, ReadBuffer, compVars,
              flushVars
        <4>3. MAsks' = MAsks /\ FAsks' = FAsks
          BY <4>1 DEF MAsks, FAsks, At
        <4> QED BY <2>1, <4>2, <4>3, ConversationFrame DEF Orderly, Conversation
      <3>2. CASE Ended
        BY <1>1, <2>1, <3>2 DEF Ended, vars, flushVars, eventVars, compVars, Orderly,
            Conversation, PendingIsAsked, FlushesPending, EventIsAsked, Pends, Asks,
            MAsks, FAsks, At
      <3> QED BY <1>2, <2>1, <3>1, <3>2, ConversationMain, ConversationFbd,
                 ConversationComponent DEF Next
    <2> QED BY <2>2, <2>3 DEF Orderly, Conversation
  <1> QED BY <1>1, <1>2

LEMMA ProtocolInit == Init => Protocol
  <1> SUFFICES ASSUME Init PROVE Orderly
    BY DEF Protocol
  <1>1. /\ pending = << >> /\ eventDone = FALSE /\ pc["C"] = "idle" /\ pc["F"] = "top"
        /\ flushing = [p \in Ports |-> FALSE]
        /\ currentStatus = "GOOD" /\ preStatus = "GOOD"
    BY DEF Init, Threads
  <1>2. NoTwoAlike(pending)
    BY <1>1 DEF NoTwoAlike
  <1> QED BY <1>1, <1>2, EmptyHolds
          DEF Orderly, PendingIsAsked, FlushesPending, EventIsAsked, NoErrorYet,
              NoChangeYet, Reconfiguring, Pends

(* As long as nothing disturbs the two conversations, an event is set only     *)
(* while somebody waits for that command, and so nobody takes the event of     *)
(* an earlier one for his own.                                                 *)
THEOREM EventsAreAwaited == Spec => []NoStaleEvent
  <1>1. Protocol => NoStaleEvent
    <2> SUFFICES ASSUME Protocol, Undisturbed, eventDone
                 PROVE  NoStaleEvent
      BY DEF NoStaleEvent
    <2>1. PICK c \in Asks : lastCmd = EventOf(c)
      BY DEF Protocol, Orderly, EventIsAsked
    <2>2. CASE c \in FAsks
      <3>1. lastCmd = c
        BY <2>1, <2>2, EventsOfAsks
      <3> QED BY <2>2, <3>1 DEF FAsks, NoStaleEvent, At
    <2>3. CASE c \in MAsks
      <3>1. \/ c \in {"FlushIn", "FlushOut"} /\
                  pc["M"] \in {"wait_flush", "wait_seek", "quit_flushed"}
            \/ c \in StateRequests /\
                  pc["M"] \in {"wait_state", "quit_idled", "quit_loaded"}
        BY <2>3 DEF MAsks, At, StateRequests
      <3> QED BY <2>1, <3>1, EventsOfAsks DEF NoStaleEvent
    <2> QED BY <2>2, <2>3 DEF Asks
  <1>2. Spec => []Protocol
    BY ProtocolInit, ProtocolStep, OmxTypes, PTL DEF Spec
  <1> QED BY <1>1, <1>2, PTL

-----------------------------------------------------------------------------
(* The wake-ups of ebd_thread.  At the end of the stream it takes its tokens   *)
(* without a look at the queue, and the stream goes on after a seek only: so   *)
(* the queue has to be empty when seek_progress says it does.  The flush that  *)
(* begins the seek waits for the call-back that is about to push, and after it *)
(* no other one pushes until the seek is over.                                 *)

PushBeforeSeek == At("C", "etb_push") => ~seeking \/ flushing["in"]
SeekEmpties == Undisturbed /\ pc["M"] \in {"drain_out", "rewind"} => queue["in"] = << >>

LEMMA PushBeforeSeekStep ==
  ASSUME TypeOK, PushBeforeSeek, Next
  PROVE  PushBeforeSeek'
  <1>1. /\ pc \in [Threads -> Place] /\ Threads = {"M", "E", "F", "C"}
        /\ flushing \in [Ports -> BOOLEAN] /\ Ports = {"in", "out"}
    BY DEF TypeOK, PlacesOK, Threads, FlagsOK, Ports
  <1>2. CASE EbdThread \/ FbdThread
    <2>1. pc'["C"] = pc["C"] /\ seeking' = seeking /\ flushing' = flushing
      BY <1>1, <1>2
         DEF EbdThread, FbdThread, Top, FlushWait, SemWait, PopBuffer, SetRunning,
             HandOver, SeekCheck, SeekWait, EbdExitCheck, ReadBuffer, SemTimeout,
             FbdExitCheck, StatusCheck, DisablePort, DrainPort, PortDisabled,
             EnablePort, PortEnabled, Refill, ReconfigDone, FillCheck, Goto, appVars,
             flushVars
    <2> QED BY <2>1 DEF PushBeforeSeek, At
  <1>3. CASE MainThread
    <2>1. pc'["C"] = pc["C"]
      BY <1>1, <1>3
         DEF MainThread, StateCommand, FlushCommand, SeekCommand, CommandDone,
             ThreadsIdle, DrainQueues, Rewind, FillAll, EmptyAll, SeekDone, Quit,
             QuitFlush, QuitIdle, QuitLoaded, QuitFree, QuitJoin, Goto
    <2>2. \/ flushing'["in"]
          \/ flushing'["in"] = flushing["in"] /\ (seeking' = seeking \/ ~seeking')
      BY <1>1, <1>3
         DEF MainThread, StateCommand, FlushCommand, SeekCommand, CommandDone,
             ThreadsIdle, DrainQueues, Rewind, FillAll, EmptyAll, SeekDone, Quit,
             QuitFlush, QuitIdle, QuitLoaded, QuitFree, QuitJoin, appVars, flushVars
    <2> QED BY <2>1, <2>2 DEF PushBeforeSeek, At
  <1>4. CASE CommandComplete
    <2>1. pc["C"] = "idle" /\ pc' = pc
      BY <1>4 DEF CommandComplete, FlushComplete, PortComplete, StateComplete, Idle, At
    <2> QED BY <2>1 DEF PushBeforeSeek, At
  <1>5. CASE EmptyBufferDone
    <2>1. seeking' = seeking /\ flushing' = flushing
      BY <1>5 DEF EmptyBufferDone, appVars, flushVars
    <2>2. pc'["C"] = "etb_push" => ~seeking
      BY <1>1, <1>5 DEF EmptyBufferDone, Idle, At, Goto
    <2> QED BY <2>1, <2>2 DEF PushBeforeSeek, At
  <1>6. CASE \/ EtbPush \/ FillBufferDone \/ FtbLock \/ FtbPush \/ FtbFree
             \/ PortSettingsChanged \/ EventError
    <2>1. pc'["C"] # "etb_push"
      BY <1>1, <1>6
         DEF EtbPush, FillBufferDone, FtbLock, FtbPush, FtbFree, PortSettingsChanged,
             EventError, Idle, At, Goto
    <2> QED BY <2>1 DEF PushBeforeSeek, At
  <1>7. CASE Ended
    BY <1>7 DEF Ended, vars, appVars, flushVars, PushBeforeSeek, At
  <1> QED BY <1>2, <1>3, <1>4, <1>5, <1>6, <1>7 DEF Next, Component, CallBacks

LEMMA SeekEmptiesStep ==
  ASSUME TypeOK, SeekInv, Protocol, PushBeforeSeek, SeekEmpties, Next
  PROVE  SeekEmpties'
  <1> SUFFICES ASSUME Undisturbed', pc'["M"] \in {"drain_out", "rewind"}
               PROVE  queue'["in"] = << >>
    BY DEF SeekEmpties
  <1>1. /\ pc \in [Threads -> Place] /\ Threads = {"M", "E", "F", "C"}
        /\ queue \in [Ports -> Seq(Bufs)] /\ Ports = {"in", "out"}
    BY DEF TypeOK, PlacesOK, Threads, QueuesOK, Ports
  <1>2. Undisturbed /\ Orderly
    BY StaysDisturbed DEF Protocol
  <1>3. CASE MainThread
    <2>1. DrainQueues
      BY <1>1, <1>3
         DEF MainThread, StateCommand, FlushCommand, SeekCommand, CommandDone,
             ThreadsIdle, Rewind, FillAll, EmptyAll, SeekDone, Quit,
             QuitFlush, QuitIdle, QuitLoaded, QuitFree, QuitJoin, Accepted, Types,
             Goto, At
    <2>2. CASE At("M", "drain_in")
      BY <1>1, <2>1, <2>2 DEF DrainQueues, At, Goto
    <2>3. CASE At("M", "drain_out")
      <3>1. queue["in"] = << >>
        BY <1>2, <2>3 DEF SeekEmpties, At
      <3> QED BY <1>1, <2>1, <2>3, <3>1 DEF DrainQueues, At
    <2> QED BY <2>1, <2>2, <2>3 DEF DrainQueues
  <1>4. CASE ~MainThread
    <2>1. pc'["M"] = pc["M"]
      BY <1>1, <1>4
         DEF Next, EbdThread, FbdThread, Top, FlushWait, SemWait, PopBuffer,
             SetRunning, HandOver, SeekCheck, SeekWait, EbdExitCheck, ReadBuffer,
             SemTimeout, FbdExitCheck, StatusCheck, DisablePort, DrainPort,
             PortDisabled, EnablePort, PortEnabled, Refill, ReconfigDone, FillCheck,
             Component, CallBacks, CommandComplete, EmptyBufferDone, EtbPush,
             FillBufferDone, FtbLock, FtbPush, FtbFree, FlushComplete, PortComplete,
             StateComplete, PortSettingsChanged, EventError, Goto, Ended, vars
    <2>2. queue["in"] = << >> /\ seeking
      BY <1>2, <2>1 DEF SeekEmpties, SeekInv, Seeks
    <2>3. ~flushing["in"]
      <3>1. "FlushIn" \notin Asks
        BY <2>1 DEF Asks, MAsks, FAsks, At
      <3>2. ~Pends("FlushIn")
        BY <1>2, <3>1 DEF Orderly, PendingIsAsked, Requests
      <3> QED BY <1>1, <1>2, <3>2 DEF Orderly, FlushesPending, FlushRequest
    <2>4. ~At("C", "etb_push")
      BY <2>2, <2>3 DEF PushBeforeSeek
    <2>5. queue'["in"] = queue["in"]
      BY <1>1, <1>4, <2>2, <2>4
         DEF Next, EbdThread, FbdThread, Top, FlushWait, SemWait, PopBuffer,
             SetRunning, HandOver, SeekCheck, SeekWait, EbdExitCheck, ReadBuffer,
             SemTimeout, FbdExitCheck, StatusCheck, DisablePort, DrainPort,
             PortDisabled, EnablePort, PortEnabled, Refill, ReconfigDone, FillCheck,
             Component, CallBacks, CommandComplete, EmptyBufferDone, EtbPush,
             FillBufferDone, FtbLock, FtbPush, FtbFree, FlushComplete, PortComplete,
             StateComplete, PortSettingsChanged, EventError, Ended, vars, queueVars,
             PortOf
    <2> QED BY <2>2, <2>5
  <1> QED BY <1>3, <1>4

(* What the steps of ebd_thread do to its tokens.                              *)
LEMMA EtbEbd ==
  ASSUME TypeOK, EtbSignalled, EbdThread
  PROVE  EtbSignalled'
  <1>1. /\ pc \in [Threads -> Place] /\ Threads = {"M", "E", "F", "C"}
        /\ sem \in [Ports -> Nat] /\ Ports = {"in", "out"} /\ PortOf("E") = "in"
        /\ queue \in [Ports -> Seq(Bufs)] /\ queue["in"] \in Seq(InBufs)
        /\ Len(queue["in"]) \in Nat /\ eos \in BOOLEAN
    BY DEF TypeOK, PlacesOK, Threads, QueuesOK, FlagsOK, Ports, PortOf
  <1>2. /\ pc'["C"] = pc["C"] /\ exiting' = exiting /\ errors' = errors
        /\ eos => eos'
    BY <1>1 DEF EbdThread, Top, FlushWait, SemWait, PopBuffer, SetRunning, HandOver,
        SeekCheck, SeekWait, EbdExitCheck, ReadBuffer, Goto, appVars, boundVars
  <1> SUFFICES ASSUME ~exiting, ~eos, ~eos', errors = 0,
                      Len(queue["in"]) <=
                          sem["in"] + (IF TokenTaken("E") THEN 1 ELSE 0)
                                    + (IF At("C", "etb_post") THEN 1 ELSE 0)
               PROVE  Len(queue'["in"]) <=
                          sem'["in"] + (IF TokenTaken("E")' THEN 1 ELSE 0)
                                     + (IF At("C", "etb_post") THEN 1 ELSE 0)
    BY <1>2 DEF EtbSignalled, At
  <1>3. CASE \/ Top("E") \/ FlushWait("E") \/ SetRunning("E") \/ ReadBuffer
             \/ HandOver("E")
    <2>1. UNCHANGED << queue, sem >> /\ ~TokenTaken("E") /\ ~TokenTaken("E")'
      BY <1>1, <1>3 DEF Top, FlushWait, SetRunning, ReadBuffer, HandOver, queueVars,
          TokenTaken, At, Goto
    <2> QED BY <2>1
  <1>4. CASE SemWait("E")
    <2>1. /\ queue' = queue /\ sem'["in"] = sem["in"] - 1
          /\ ~TokenTaken("E") /\ TokenTaken("E")'
      BY <1>1, <1>4 DEF SemWait, TokenTaken, At, Goto
    <2> QED BY <1>1, <2>1
  <1>5. CASE SeekCheck \/ SeekWait \/ EbdExitCheck
    <2>1. UNCHANGED << queue, sem >> /\ TokenTaken("E") /\ TokenTaken("E")'
      BY <1>1, <1>5 DEF SeekCheck, SeekWait, EbdExitCheck, queueVars, TokenTaken, At,
          Goto
    <2> QED BY <2>1
  <1>6. CASE PopBuffer("E")
    <2>1. sem' = sem /\ TokenTaken("E")
      BY <1>6 DEF PopBuffer, TokenTaken, At
    <2>2. CASE queue["in"] = << >>
      BY <1>1, <1>6, <2>1, <2>2 DEF PopBuffer
    <2>3. CASE queue["in"] # << >>
      <3>1. queue'["in"] = Popped(queue["in"])
        BY <1>1, <1>6, <2>3 DEF PopBuffer
      <3>2. Len(queue'["in"]) = Len(queue["in"]) - 1
        BY <1>1, <2>3, <3>1, PoppedTypes
      <3> QED BY <1>1, <2>1, <3>2
    <2> QED BY <2>2, <2>3
  <1> QED BY <1>3, <1>4, <1>5, <1>6 DEF EbdThread

LEMMA EtbFrame ==
  ASSUME EtbSignalled, exiting => exiting', eos => eos', errors' = 0 => errors = 0,
         pc'["E"] = pc["E"], pc'["C"] = "etb_post" <=> pc["C"] = "etb_post",
         queue'["in"] = queue["in"], sem'["in"] = sem["in"]
  PROVE  EtbSignalled'
BY DEF EtbSignalled, TokenTaken, At

LEMMA EtbMain ==
  ASSUME TypeOK, SeekEmpties, EtbSignalled, MainThread
  PROVE  EtbSignalled'
  <1>1. /\ pc \in [Threads -> Place] /\ Threads = {"M", "E", "F", "C"}
        /\ sem \in [Ports -> Nat] /\ Ports = {"in", "out"}
        /\ queue \in [Ports -> Seq(Bufs)] /\ queue["in"] \in Seq(InBufs)
        /\ Len(queue["in"]) \in Nat /\ sem["in"] \in Nat
    BY DEF TypeOK, PlacesOK, Threads, QueuesOK, Ports
  <1>2. /\ pc'["E"] = pc["E"] /\ pc'["C"] = pc["C"] /\ errors' = errors
        /\ exiting => exiting'
    BY <1>1 DEF MainThread, StateCommand, FlushCommand, SeekCommand, CommandDone,
        ThreadsIdle, DrainQueues, Rewind, FillAll, EmptyAll, SeekDone, Quit,
        QuitFlush, QuitIdle, QuitLoaded, QuitFree, QuitJoin, Goto, appVars, boundVars
  <1>3. CASE Rewind
    <2>1. queue' = queue /\ exiting' = exiting /\ sem' = sem
      BY <1>3 DEF Rewind, queueVars
    <2>2. errors = 0 /\ ~exiting => queue["in"] = << >>
      BY <1>3 DEF Rewind, SeekEmpties, Undisturbed, At
    <2> QED BY <1>1, <1>2, <2>1, <2>2 DEF EtbSignalled
  <1>4. CASE DrainQueues
    <2>1. exiting' = exiting /\ eos' = eos /\ sem' = sem
      BY <1>4 DEF DrainQueues, appVars
    <2>2. \/ queue'["in"] = queue["in"]
          \/ queue["in"] # << >> /\ queue'["in"] = Popped(queue["in"])
      BY <1>1, <1>4 DEF DrainQueues
    <2>3. Len(queue'["in"]) \in Nat /\ Len(queue'["in"]) <= Len(queue["in"])
      BY <1>1, <2>2, PoppedTypes
    <2> QED BY <1>1, <1>2, <2>1, <2>3 DEF EtbSignalled, TokenTaken, At
  <1>5. CASE Quit
    BY <1>5 DEF Quit, EtbSignalled
  <1>6. CASE QuitFree
    <2>1. queue'["in"] = << >> /\ sem' = sem
      BY <1>1, <1>6 DEF QuitFree
    <2> QED BY <1>1, <2>1 DEF EtbSignalled
  <1>7. CASE ~Rewind /\ ~DrainQueues /\ ~Quit /\ ~QuitFree
    <2>1. queue' = queue /\ sem' = sem /\ eos \in BOOLEAN /\ (eos => eos')
      BY <1>7 DEF TypeOK, FlagsOK, MainThread, StateCommand, FlushCommand, SeekCommand, CommandDone,
          ThreadsIdle, FillAll, EmptyAll, SeekDone, QuitFlush, QuitIdle, QuitLoaded,
          QuitJoin, appVars, queueVars
    <2> QED BY <1>2, <2>1, EtbFrame
  <1> QED BY <1>3, <1>4, <1>5, <1>6, <1>7

LEMMA EtbComponent ==
  ASSUME TypeOK, EtbSignalled, Component
  PROVE  EtbSignalled'
  <1>1. /\ pc \in [Threads -> Place] /\ Threads = {"M", "E", "F", "C"}
        /\ sem \in [Ports -> Nat] /\ Ports = {"in", "out"}
        /\ queue \in [Ports -> Seq(Bufs)] /\ queue["in"] \in Seq(InBufs)
        /\ Len(queue["in"]) \in Nat /\ sem["in"] \in Nat /\ errors \in Nat
    BY BoundAssumption DEF TypeOK, PlacesOK, Threads, QueuesOK, Ports, RequestsOK
  <1>2. /\ pc'["E"] = pc["E"] /\ exiting' = exiting /\ eos' = eos
        /\ errors' \in {errors, errors + 1}
    BY <1>1 DEF Component, CallBacks, CommandComplete, EmptyBufferDone, EtbPush,
           FillBufferDone, FtbLock, FtbPush, FtbFree, FlushComplete,
           PortComplete, StateComplete, PortSettingsChanged, EventError, Goto,
           appVars, boundVars
  <1>3. CASE EtbPush /\ At("C", "etb_push")
    <2>1. /\ queue'["in"] = Append(queue["in"], held["C"]) /\ sem' = sem
          /\ ~At("C", "etb_post") /\ At("C", "etb_post")'
      BY <1>1, <1>3 DEF EtbPush, At, Goto
    <2>2. held["C"] \in InBufs
      BY <1>3 DEF TypeOK, BuffersOK, At
    <2>3. Len(queue'["in"]) = Len(queue["in"]) + 1
      BY <1>1, <2>1, <2>2
    <2> QED BY <1>1, <1>2, <1>3, <2>1, <2>3 DEF EtbSignalled, EtbPush, boundVars,
            TokenTaken
  <1>4. CASE EtbPush /\ At("C", "etb_post")
    <2>1. /\ queue' = queue /\ sem'["in"] = sem["in"] + 1 /\ errors' = errors
          /\ ~At("C", "etb_post")'
      BY <1>1, <1>4 DEF EtbPush, At, Goto, boundVars
    <2> QED BY <1>1, <1>2, <1>4, <2>1 DEF EtbSignalled, TokenTaken, At
  <1>5. CASE ~EtbPush
    <2>1. queue'["in"] = queue["in"] /\ sem'["in"] = sem["in"]
      BY <1>1, <1>5 DEF Component, CallBacks, CommandComplete, EmptyBufferDone,
             FillBufferDone, FtbLock, FtbPush, FtbFree, FlushComplete, PortComplete,
             StateComplete, PortSettingsChanged, EventError, queueVars
    <2>2. pc'["C"] = "etb_post" <=> pc["C"] = "etb_post"
      BY <1>1, <1>5 DEF Component, CallBacks, CommandComplete, EmptyBufferDone,
             FillBufferDone, FtbLock, FtbPush, FtbFree, FlushComplete, PortComplete,
             StateComplete, PortSettingsChanged, EventError, Idle, At, Goto
    <2> QED BY <1>1, <1>2, <2>1, <2>2, EtbFrame
  <1> QED BY <1>3, <1>4, <1>5 DEF EtbPush

LEMMA EtbStep ==
  ASSUME TypeOK, SeekEmpties, EtbSignalled, [Next]_vars
  PROVE  EtbSignalled'
  <1>1. CASE UNCHANGED vars
    BY <1>1, EtbFrame DEF vars, appVars, queueVars, boundVars
  <1>2. CASE FbdThread
    <2>1. /\ exiting' = exiting /\ eos' = eos /\ errors' = errors
          /\ pc'["E"] = pc["E"] /\ pc'["C"] = pc["C"]
          /\ queue'["in"] = queue["in"] /\ sem'["in"] = sem["in"]
      BY <1>2 DEF FbdThread, Top, FlushWait, SemWait, PopBuffer, SetRunning, HandOver,
             SemTimeout, FbdExitCheck, StatusCheck, DisablePort, DrainPort,
             PortDisabled, EnablePort, PortEnabled, Refill, ReconfigDone, FillCheck,
             Goto, PortOf, appVars, queueVars, boundVars, TypeOK, PlacesOK, QueuesOK,
             Ports, Threads
    <2> QED BY <2>1, EtbFrame
  <1>3. CASE Ended
    BY <1>1, <1>3 DEF Ended
  <1> QED BY <1>1, <1>2, <1>3, EtbEbd, EtbMain, EtbComponent DEF Next

(* ebd_thread can never sleep on etb_sem while a buffer of its queue has no    *)
(* token, through flushes, seeks and changes of the port, until the end of the *)
(* stream, an error of the component or the end of the sample.                 *)
THEOREM EtbNeverForgotten == Spec => []EtbSignalled
  <1>1. Init => /\ SeekInv /\ PushBeforeSeek /\ SeekEmpties /\ EtbSignalled
    BY DEF Init, SeekInv, Seeks, HandsOut, PushBeforeSeek, SeekEmpties, EtbSignalled,
        Threads, Ports, At
  <1>2. ASSUME TypeOK, PushBeforeSeek, [Next]_vars PROVE PushBeforeSeek'
    <2>1. CASE UNCHANGED vars
      BY <1>2, <2>1 DEF vars, appVars, flushVars, PushBeforeSeek, At
    <2> QED BY <1>2, <2>1, PushBeforeSeekStep
  <1>3. ASSUME TypeOK, SeekInv, Protocol, PushBeforeSeek, SeekEmpties, [Next]_vars
        PROVE  SeekEmpties'
    <2>1. CASE UNCHANGED vars
      BY <1>3, <2>1 DEF vars, appVars, queueVars, boundVars, SeekEmpties, Undisturbed
    <2> QED BY <1>3, <2>1, SeekEmptiesStep
  <1>4. Spec => [](TypeOK /\ SeekInv /\ Protocol)
    BY <1>1, OmxTypes, SeekStep, ProtocolInit, ProtocolStep, PTL DEF Spec
  <1>5. Spec => []SeekEmpties
    BY <1>1, <1>2, <1>3, <1>4, PTL DEF Spec
  <1> QED BY <1>1, <1>4, <1>5, EtbStep, PTL DEF Spec

-----------------------------------------------------------------------------
(* Where the buffers are, as long as nobody seeks: a seek hands every buffer   *)
(* out, wherever it is.  The component, a queue or the hand of a thread holds  *)
(* a buffer, never two of them and none twice; fbd_thread makes new ones while *)
(* it reconfigures, when the old ones are freed, and so they are nowhere until *)
(* it hands them over.                                                         *)

Quits == {"quit_flush", "quit_flushed", "quit_idle", "quit_idled", "quit_load",
          "quit_loaded", "quit_free", "quit_join", "end"}
Hands == {"E", "F", "C"}

InQueue(b) == Holds(queue["in"], b) \/ Holds(queue["out"], b)
InHand(b) == \E t \in Hands : held[t] = b
Somewhere(b) == comp[b] > 0 \/ InQueue(b) \/ InHand(b)
NotTwice(b) ==
  /\ comp[b] <= 1
  /\ HoldsOnce(queue["in"], b) /\ HoldsOnce(queue["out"], b)
  /\ comp[b] > 0 => ~InQueue(b) /\ ~InHand(b)
  /\ InQueue(b) => ~InHand(b)
  /\ \A t, u \in Hands : held[t] = b /\ held[u] = b => t = u

\* A thread has a buffer in hand only where it is going to do something with it.
EmptyHands ==
  /\ \A t \in {"E", "F"} : held[t] # NoBuf => pc[t] \in {"popped", "check", "give"}
  /\ held["C"] # NoBuf => pc["C"] \in {"etb_push", "ftb_lock", "ftb_push", "ftb_free"}
QuitExits == pc["M"] \in Quits => exiting
NobodySeeks == "seek" \notin Commands => pc["M"] \notin Seeks \cup {"seek_post"} /\ ~seeking

\* The headers that are in use have not been freed; the port that is disabled
\* has none, and those fbd_thread has made it still has to hand over.
UsedAreAllocated == ~exiting => \A b \in OutBufs : Somewhere(b) => b \in allocated
DisabledHasNone ==
  /\ eventDone /\ lastCmd = "PortDisable" => allocated \cap OutBufs = {}
  /\ pc["F"] \in {"enable", "wait_enable"} => \A b \in OutBufs : ~Somewhere(b)
  /\ At("F", "wait_enable") => OutBufs \subseteq allocated
  /\ At("F", "refill") => \A b \in todo["F"] : ~Somewhere(b) /\ b \in allocated
Owned == (\A b \in Bufs : NotTwice(b)) /\ UsedAreAllocated /\ DisabledHasNone
OwnerInv == "seek" \notin Commands /\ Undisturbed => Owned

LEMMA EmptyHandsStep ==
  ASSUME TypeOK, EmptyHands, Next
  PROVE  EmptyHands'
  <1>1. /\ pc \in [Threads -> Place] /\ Threads = {"M", "E", "F", "C"}
        /\ held \in [{"E", "F", "C"} -> Bufs \cup {NoBuf}]
    BY DEF TypeOK, PlacesOK, Threads, BuffersOK
  <1>2. CASE EbdThread
    <2>1. pc'["F"] = pc["F"] /\ pc'["C"] = pc["C"]
          /\ held'["F"] = held["F"] /\ held'["C"] = held["C"]
      BY <1>1, <1>2 DEF EbdThread, Top, FlushWait, SemWait, PopBuffer, SetRunning,
          HandOver, SeekCheck, SeekWait, EbdExitCheck, ReadBuffer, Goto
    <2>2. held'["E"] # NoBuf => pc'["E"] \in {"popped", "check", "give"}
      BY <1>1, <1>2 DEF EmptyHands, EbdThread, Top, FlushWait, SemWait, PopBuffer,
          SetRunning, HandOver, SeekCheck, SeekWait, EbdExitCheck, ReadBuffer, Goto, At
    <2> QED BY <2>1, <2>2 DEF EmptyHands
  <1>3. CASE FbdThread
    <2>1. pc'["E"] = pc["E"] /\ pc'["C"] = pc["C"]
          /\ held'["E"] = held["E"] /\ held'["C"] = held["C"]
      BY <1>1, <1>3 DEF FbdThread, Top, FlushWait, SemWait, PopBuffer, SetRunning,
             HandOver, SemTimeout, FbdExitCheck, StatusCheck, DisablePort, DrainPort,
             PortDisabled, EnablePort, PortEnabled, Refill, ReconfigDone, FillCheck,
             Goto
    <2>2. held'["F"] # NoBuf => pc'["F"] \in {"popped", "check", "give"}
      <3>1. CASE Top("F") \/ FlushWait("F") \/ SemWait("F") \/ PopBuffer("F")
                 \/ SetRunning("F") \/ HandOver("F") \/ SemTimeout \/ FillCheck
        BY <1>1, <3>1 DEF EmptyHands, Top, FlushWait, SemWait, PopBuffer, SetRunning,
            HandOver, SemTimeout, FillCheck, Goto, At
      <3>2. CASE FbdExitCheck \/ StatusCheck \/ DisablePort \/ DrainPort \/ PortDisabled
                 \/ EnablePort \/ PortEnabled \/ Refill \/ ReconfigDone
        BY <1>1, <3>2 DEF EmptyHands, FbdExitCheck, StatusCheck, DisablePort, DrainPort,
            PortDisabled, EnablePort, PortEnabled, Refill, ReconfigDone, Goto, At
      <3> QED BY <1>3, <3>1, <3>2 DEF FbdThread
    <2> QED BY <2>1, <2>2 DEF EmptyHands
  <1>4. CASE MainThread
    <2>1. /\ pc'["E"] = pc["E"] /\ pc'["F"] = pc["F"] /\ pc'["C"] = pc["C"]
          /\ held' = held
      BY <1>1, <1>4
         DEF MainThread, StateCommand, FlushCommand, SeekCommand, CommandDone,
             ThreadsIdle, DrainQueues, Rewind, FillAll, EmptyAll, SeekDone, Quit,
             QuitFlush, QuitIdle, QuitLoaded, QuitFree, QuitJoin, Goto
    <2> QED BY <2>1 DEF EmptyHands
  <1>5. CASE Component
    <2>1. pc'["E"] = pc["E"] /\ pc'["F"] = pc["F"]
          /\ held'["E"] = held["E"] /\ held'["F"] = held["F"]
      BY <1>1, <1>5 DEF Component, CallBacks, CommandComplete, EmptyBufferDone, EtbPush,
             FillBufferDone, FtbLock, FtbPush, FtbFree, FlushComplete, PortComplete,
             StateComplete, PortSettingsChanged, EventError, Goto
    <2>2. held'["C"] # NoBuf =>
              pc'["C"] \in {"etb_push", "ftb_lock", "ftb_push", "ftb_free"}
      BY <1>1, <1>5 DEF EmptyHands, Component, CallBacks, CommandComplete,
             EmptyBufferDone, EtbPush, FillBufferDone, FtbLock, FtbPush, FtbFree,
             FlushComplete, PortComplete, StateComplete, PortSettingsChanged,
             EventError, Idle, Goto, At
    <2> QED BY <2>1, <2>2 DEF EmptyHands
  <1>6. CASE Ended
    BY <1>6 DEF Ended, vars, EmptyHands
  <1> QED BY <1>2, <1>3, <1>4, <1>5, <1>6 DEF Next

LEMMA QuitsAndSeeksStep ==
  ASSUME TypeOK, QuitExits, NobodySeeks, Next
  PROVE  QuitExits' /\ NobodySeeks'
  <1>1. /\ pc \in [Threads -> Place] /\ Threads = {"M", "E", "F", "C"}
    BY DEF TypeOK, PlacesOK, Threads
  <1>2. CASE MainThread
    <2>1. CASE StateCommand \/ FlushCommand \/ SeekCommand \/ CommandDone \/ ThreadsIdle
               \/ DrainQueues
      BY <1>1, <2>1
         DEF StateCommand, FlushCommand, SeekCommand, CommandDone, ThreadsIdle,
             DrainQueues, Accepted, Types, QuitExits, NobodySeeks, Quits, Seeks, Goto,
             At, appVars
    <2>2. CASE Rewind \/ FillAll \/ EmptyAll \/ SeekDone
      BY <1>1, <2>2
         DEF Rewind, FillAll, EmptyAll, SeekDone, QuitExits, NobodySeeks, Quits, Seeks,
             Goto, At, appVars
    <2>3. CASE Quit \/ QuitFlush \/ QuitIdle \/ QuitLoaded \/ QuitFree \/ QuitJoin
      BY <1>1, <2>3
         DEF Quit, QuitFlush, QuitIdle, QuitLoaded, QuitFree, QuitJoin, Types, QuitExits,
             NobodySeeks, Quits, Seeks, Goto, At, appVars
    <2> QED BY <1>2, <2>1, <2>2, <2>3 DEF MainThread
  <1>3. CASE ~MainThread
    <2>1. pc'["M"] = pc["M"] /\ exiting' = exiting /\ seeking' = seeking
      BY <1>1, <1>3
         DEF Next, EbdThread, FbdThread, Top, FlushWait, SemWait, PopBuffer,
             SetRunning, HandOver, SeekCheck, SeekWait, EbdExitCheck, ReadBuffer,
             SemTimeout, FbdExitCheck, StatusCheck, DisablePort, DrainPort,
             PortDisabled, EnablePort, PortEnabled, Refill, ReconfigDone, FillCheck,
             Component, CallBacks, CommandComplete, EmptyBufferDone, EtbPush,
             FillBufferDone, FtbLock, FtbPush, FtbFree, FlushComplete, PortComplete,
             StateComplete, PortSettingsChanged, EventError, Goto, Ended, vars, appVars
    <2> QED BY <2>1 DEF QuitExits, NobodySeeks
  <1> QED BY <1>2, <1>3

\* Why a buffer is dropped instead of passed on.
Loses == \/ flushing["out"] \/ seeking \/ exiting
         \/ omxState \notin {"Executing", "Pause"}

\* A step makes no second copy of b and no new buffer, frees b only from the
\* place where it is, and loses it for one of the reasons.
Moves(b) ==
  /\ NotTwice(b)'
  /\ Somewhere(b)' => Somewhere(b)
  /\ b \in allocated \ allocated' => exiting \/ (Somewhere(b) /\ ~Somewhere(b)')
  /\ Somewhere(b) /\ ~Somewhere(b)' /\ b \in OutBufs => b \notin allocated' \/ Loses

LEMMA StaysPut ==
  ASSUME NEW b, NotTwice(b), UNCHANGED << comp, queue, held >>,
         allocated \subseteq allocated' \/ exiting
  PROVE  Moves(b)
BY DEF Moves, NotTwice, Somewhere, InQueue, InHand

LEMMA BufFacts ==
  ASSUME TypeOK, NEW b \in Bufs
  PROVE  /\ b # NoBuf /\ comp \in [Bufs -> Nat] /\ comp[b] \in Nat
         /\ held \in [Hands -> Bufs \cup {NoBuf}] /\ Hands = {"E", "F", "C"}
         /\ queue \in [Ports -> Seq(Bufs)] /\ Ports = {"in", "out"}
         /\ b \in OutBufs => b \notin InBufs
BY BufsAssumption DEF TypeOK, BuffersOK, QueuesOK, Ports, Hands, Bufs

(* The head of a queue into the hand of its thread.                            *)
LEMMA PopMoves ==
  ASSUME TypeOK, EmptyHands, NEW t \in {"E", "F"}, PopBuffer(t), NEW b \in Bufs, NotTwice(b)
  PROVE  Moves(b)
  <1> DEFINE p == PortOf(t)
  <1>1. /\ p \in Ports /\ held[t] = NoBuf /\ allocated' = allocated /\ comp' = comp
    BY DEF PortOf, Ports, PopBuffer, EmptyHands, At, compVars
  <1>2. CASE queue[p] = << >>
    BY <1>1, <1>2, StaysPut DEF PopBuffer
  <1>3. CASE queue[p] # << >>
    <2> DEFINE q == queue[p]
    <2>1. /\ held' = [held EXCEPT ![t] = Head(q)]
          /\ queue' = [queue EXCEPT ![p] = Tail(q)]
      BY <1>3 DEF PopBuffer, Popped
    <2>2. /\ Holds(q, b) <=> Holds(Tail(q), b) \/ Head(q) = b
          /\ HoldsOnce(Tail(q), b) /\ (Head(q) = b => ~Holds(Tail(q), b))
      BY <1>1, <1>3, BufFacts, TailHolds DEF NotTwice, Ports
    <2>3. /\ q = queue[p] /\ queue'[p] = Tail(q)
          /\ \A r \in Ports \ {p} : queue'[r] = queue[r]
          /\ held'[t] = Head(q)
          /\ \A u \in Hands \ {t} : held'[u] = held[u]
      BY <1>1, <2>1, BufFacts
    <2> HIDE DEF q, p
    <2>4. \/ p = "in" /\ queue'["out"] = queue["out"]
          \/ p = "out" /\ queue'["in"] = queue["in"]
      BY <1>1, <2>3 DEF Ports
    <2>5. ~(Holds(queue["in"], b) /\ Holds(queue["out"], b))
      <3>1. queue["in"] \in Seq(InBufs) /\ queue["out"] \in Seq(OutBufs)
        BY DEF TypeOK, QueuesOK
      <3> QED BY <3>1, BufsAssumption DEF Holds
    <2>6. /\ InQueue(b) <=> InQueue(b)' \/ Head(q) = b
          /\ Head(q) = b => ~InQueue(b)'
      BY <2>2, <2>3, <2>4, <2>5 DEF InQueue
    <2>7. HoldsOnce(queue["in"], b)' /\ HoldsOnce(queue["out"], b)'
      BY <2>2, <2>3, <2>4 DEF NotTwice
    <2>8. InHand(b)' <=> InHand(b) \/ Head(q) = b
      BY <1>1, <2>3, BufFacts DEF InHand
    <2>9. \A u, v \in Hands : held'[u] = b /\ held'[v] = b => u = v
      BY <1>1, <2>3, <2>6, BufFacts DEF NotTwice, InHand
    <2> QED BY <1>1, <2>6, <2>7, <2>8, <2>9 DEF Moves, NotTwice, Somewhere
  <1> QED BY <1>2, <1>3

(* The hand is emptied: the buffer is dropped, or given to the component.      *)
LEMMA HandMoves ==
  ASSUME TypeOK, NEW t \in Hands, held' = [held EXCEPT ![t] = NoBuf],
         comp' = comp \/ (held[t] \in Bufs /\ Give(held[t])),
         queue' = queue, allocated' = allocated, NEW b \in Bufs, NotTwice(b),
         held[t] = b /\ comp' = comp /\ b \in OutBufs => Loses
  PROVE  Moves(b)
  <1>1. /\ ~(held'[t] = b) /\ \A u \in Hands \ {t} : held'[u] = held[u]
        /\ b # NoBuf /\ comp[b] \in Nat
    BY BufFacts
  <1>2. \/ comp' = comp
        \/ held[t] \in Bufs /\ comp' = [comp EXCEPT ![held[t]] = @ + 1]
    BY DEF Give
  <1>3. CASE held[t] = b
    <2>1. ~InHand(b)' /\ InHand(b) /\ ~InQueue(b) /\ comp[b] = 0
      BY <1>1, <1>3, BufFacts DEF NotTwice, InHand
    <2>2. InQueue(b)' <=> InQueue(b)
      BY DEF InQueue
    <2>3. comp'[b] \in {0, 1} /\ (comp'[b] = 0 => comp' = comp)
      BY <1>2, <1>3, <2>1, BufFacts
    <2> QED BY <1>1, <1>3, <2>1, <2>2, <2>3 DEF Moves, NotTwice, Somewhere
  <1>4. CASE held[t] # b
    <2>1. (InHand(b)' <=> InHand(b)) /\ comp'[b] = comp[b] /\ (InQueue(b)' <=> InQueue(b))
      BY <1>1, <1>2, <1>4, BufFacts DEF InHand, InQueue
    <2>2. \A u, v \in Hands : held'[u] = b /\ held'[v] = b => u = v
      BY <1>1, <1>4 DEF NotTwice
    <2> QED BY <2>1, <2>2 DEF Moves, NotTwice, Somewhere
  <1> QED BY <1>3, <1>4

(* A queue loses its head: DrainPort frees it.                                 *)
LEMMA DrainMoves ==
  ASSUME TypeOK, DrainPort, NEW b \in Bufs, NotTwice(b)
  PROVE  Moves(b)
  <1>1. CASE queue["out"] = << >>
    BY <1>1, StaysPut DEF DrainPort
  <1>2. CASE queue["out"] # << >>
    <2> DEFINE q == queue["out"]
    <2>1. /\ queue'["out"] = Tail(q) /\ queue'["in"] = queue["in"]
          /\ allocated' = allocated \ {Head(q)} /\ held' = held /\ comp' = comp
      BY <1>2, BufFacts DEF DrainPort, Popped
    <2>2. /\ Holds(q, b) <=> Holds(Tail(q), b) \/ Head(q) = b
          /\ HoldsOnce(Tail(q), b) /\ (Head(q) = b => ~Holds(Tail(q), b))
      BY <1>2, BufFacts, TailHolds DEF NotTwice
    <2>3. Head(q) = b => b \notin InBufs /\ ~Holds(queue["in"], b)
      <3>1. queue["in"] \in Seq(InBufs) /\ (q # << >> => Head(q) \in OutBufs)
        BY PoppedTypes DEF TypeOK, QueuesOK
      <3> QED BY <1>2, <3>1, BufsAssumption DEF Holds
    <2> HIDE DEF q
    <2>4. /\ InQueue(b) <=> InQueue(b)' \/ Head(q) = b
          /\ Head(q) = b => ~InQueue(b)'
      BY <2>1, <2>2, <2>3 DEF InQueue, q
    <2>5. InHand(b)' <=> InHand(b)
      BY <2>1 DEF InHand
    <2> QED BY <2>1, <2>2, <2>4, <2>5 DEF Moves, NotTwice, Somewhere
  <1> QED BY <1>1, <1>2

(* The component gives a buffer back, into the hand of the call-back or to     *)
(* nobody.                                                                     *)
LEMMA ReturnMoves ==
  ASSUME TypeOK, EmptyHands, NEW g \in Bufs, comp[g] > 0, Idle,
         comp' = [comp EXCEPT ![g] = @ - 1],
         held' = held \/ held' = [held EXCEPT !["C"] = g],
         queue' = queue, allocated' = allocated, NEW b \in Bufs, NotTwice(b),
         g \in OutBufs /\ held' = held => Loses
  PROVE  Moves(b)
  <1>1. /\ held["C"] = NoBuf /\ b # NoBuf /\ comp[b] \in Nat
        /\ (InQueue(b)' <=> InQueue(b))
    BY BufFacts DEF EmptyHands, Idle, At, InQueue
  <1>2. CASE g = b
    <2>1. comp[b] = 1 /\ comp'[b] = 0 /\ ~InQueue(b) /\ ~InHand(b)
      BY <1>1, <1>2, BufFacts DEF NotTwice
    <2>2. \A u \in Hands : held'[u] = b => u = "C"
      BY <1>2, <2>1, BufFacts DEF InHand
    <2>3. held' # held => InHand(b)'
      BY <1>2, BufFacts DEF InHand
    <2> QED BY <1>1, <1>2, <2>1, <2>2, <2>3 DEF Moves, NotTwice, Somewhere
  <1>3. CASE g # b
    <2>1. comp'[b] = comp[b] /\ \A u \in Hands : held'[u] = b <=> held[u] = b
      BY <1>1, <1>3, BufFacts
    <2>2. InHand(b)' <=> InHand(b)
      BY <2>1 DEF InHand
    <2> QED BY <1>1, <2>1, <2>2 DEF Moves, NotTwice, Somewhere
  <1> QED BY <1>2, <1>3

(* The call-back puts the buffer in its hand into the queue.                   *)
LEMMA PushMoves ==
  ASSUME TypeOK, NEW p \in Ports, held["C"] \in BufsOf(p),
         queue' = [queue EXCEPT ![p] = Append(@, held["C"])],
         held' = [held EXCEPT !["C"] = NoBuf], comp' = comp, allocated' = allocated,
         NEW b \in Bufs, NotTwice(b)
  PROVE  Moves(b)
  <1> DEFINE q == queue[p]
             g == held["C"]
  <1>1. /\ q \in Seq(Bufs) /\ g \in Bufs /\ b # NoBuf
        /\ queue'[p] = Append(q, g) /\ \A r \in Ports \ {p} : queue'[r] = queue[r]
        /\ held'["C"] = NoBuf /\ \A u \in Hands \ {"C"} : held'[u] = held[u]
    BY BufFacts DEF BufsOf, Bufs
  <1>2. g = b => ~InQueue(b) /\ InHand(b)
    BY BufFacts DEF NotTwice, InHand
  <1>3. Holds(q, b) => InQueue(b)
    BY DEF InQueue, Ports
  <1>4. HoldsOnce(q, b)
    BY DEF NotTwice, Ports
  <1>5. /\ Holds(Append(q, g), b) <=> Holds(q, b) \/ g = b
        /\ HoldsOnce(Append(q, g), b)
    BY <1>1, <1>2, <1>3, <1>4, AppendHolds
  <1>6. q = queue[p] /\ g = held["C"]
    OBVIOUS
  <1> HIDE DEF q, g
  <1>7. \/ p = "in" /\ queue'["out"] = queue["out"]
        \/ p = "out" /\ queue'["in"] = queue["in"]
    BY <1>1 DEF Ports
  <1>8. /\ InQueue(b)' <=> InQueue(b) \/ g = b
        /\ HoldsOnce(queue["in"], b)' /\ HoldsOnce(queue["out"], b)'
    BY <1>1, <1>5, <1>6, <1>7 DEF InQueue, NotTwice
  <1>9. /\ InHand(b)' => InHand(b) /\ g # b
        /\ InHand(b) => InHand(b)' \/ g = b
        /\ \A u, v \in Hands : held'[u] = b /\ held'[v] = b => u = v
    BY <1>1, <1>6, BufFacts DEF InHand, NotTwice
  <1> QED BY <1>2, <1>8, <1>9 DEF Moves, NotTwice, Somewhere

LEMMA FreeMoves ==
  ASSUME TypeOK, FtbFree, NEW b \in Bufs, NotTwice(b)
  PROVE  Moves(b)
  <1>1. /\ held' = [held EXCEPT !["C"] = NoBuf] /\ comp' = comp /\ queue' = queue
        /\ allocated' = allocated \ {held["C"]}
    BY DEF FtbFree, queueVars
  <1>2. /\ held'["C"] = NoBuf /\ \A u \in Hands \ {"C"} : held'[u] = held[u]
        /\ b # NoBuf /\ (InQueue(b)' <=> InQueue(b))
    BY <1>1, BufFacts DEF InQueue
  <1>3. CASE held["C"] = b
    <2>1. InHand(b) /\ ~InHand(b)' /\ ~InQueue(b) /\ ~(comp[b] > 0)
      BY <1>2, <1>3, BufFacts DEF NotTwice, InHand
    <2> QED BY <1>1, <1>2, <1>3, <2>1 DEF Moves, NotTwice, Somewhere, InHand
  <1>4. CASE held["C"] # b
    <2>1. /\ InHand(b)' <=> InHand(b)
          /\ \A u, v \in Hands : held'[u] = b /\ held'[v] = b => u = v
      BY <1>2, <1>4, BufFacts DEF InHand, NotTwice
    <2> QED BY <1>1, <1>2, <1>4, <2>1 DEF Moves, NotTwice, Somewhere
  <1> QED BY <1>3, <1>4

(* Every step but the hand-over of a new buffer moves the buffers so.          *)
LEMMA ThreadMoves ==
  ASSUME TypeOK, EmptyHands, EbdThread \/ (FbdThread /\ ~Refill),
         NEW b \in Bufs, NotTwice(b)
  PROVE  Moves(b)
  <1>1. CASE PopBuffer("E") \/ PopBuffer("F")
    BY <1>1, PopMoves
  <1>2. CASE HandOver("E") \/ HandOver("F")
    <2>1. PICK t \in {"E", "F"} : HandOver(t)
      BY <1>2
    <2>2. held[t] \in Bufs
      BY <2>1 DEF HandOver, At, TypeOK, BuffersOK
    <2>3. /\ held' = [held EXCEPT ![t] = NoBuf] /\ Give(held[t])
          /\ queue' = queue /\ allocated' = allocated
      BY <2>1 DEF HandOver, queueVars
    <2>4. comp' = comp => omxState \notin {"Executing", "Pause"}
      <3>1. comp[held[t]] \in Nat
        BY <2>2 DEF TypeOK, BuffersOK
      <3> QED BY <2>2, <2>3, <3>1 DEF Give, TypeOK, BuffersOK
    <2> QED BY <2>2, <2>3, <2>4, HandMoves DEF Loses, Hands
  <1>3. CASE ReadBuffer \/ FillCheck
    <2>1. comp' = comp /\ queue' = queue /\ allocated' = allocated
      BY <1>3 DEF ReadBuffer, FillCheck, compVars, queueVars
    <2>2. CASE held' = held
      BY <2>1, <2>2, StaysPut
    <2>3. CASE ReadBuffer /\ held' = [held EXCEPT !["E"] = NoBuf]
      <3>1. held["E"] = b => b \notin OutBufs
        BY BufFacts, BufsAssumption DEF TypeOK, BuffersOK
      <3> QED BY <2>1, <2>3, <3>1, HandMoves DEF Hands
    <2>4. CASE FillCheck /\ held' = [held EXCEPT !["F"] = NoBuf]
      <3>1. Loses \/ held' = held
        BY <2>4 DEF FillCheck, NotToSend, Loses
      <3> QED BY <2>1, <2>2, <2>4, <3>1, HandMoves DEF Hands
    <2> QED BY <1>3, <2>2, <2>3, <2>4 DEF ReadBuffer, FillCheck
  <1>4. CASE DrainPort
    BY <1>4, DrainMoves
  <1>5. CASE \/ Top("E") \/ FlushWait("E") \/ SemWait("E") \/ SetRunning("E")
             \/ SeekCheck \/ SeekWait \/ EbdExitCheck
             \/ Top("F") \/ FlushWait("F") \/ SemWait("F") \/ SetRunning("F")
    <2>1. UNCHANGED << comp, queue, held, allocated >>
      BY <1>5 DEF Top, FlushWait, SemWait, SetRunning, SeekCheck, SeekWait,
          EbdExitCheck, compVars, queueVars
    <2> QED BY <2>1, StaysPut
  <1>6. CASE \/ SemTimeout \/ FbdExitCheck \/ StatusCheck \/ DisablePort
             \/ PortDisabled \/ EnablePort \/ PortEnabled \/ ReconfigDone
    <2>1. UNCHANGED << comp, queue, held >> /\ allocated \subseteq allocated'
      BY <1>6 DEF SemTimeout, FbdExitCheck, StatusCheck, DisablePort, PortDisabled,
          EnablePort, PortEnabled, ReconfigDone, compVars, queueVars
    <2> QED BY <2>1, StaysPut
  <1> QED BY <1>1, <1>2, <1>3, <1>4, <1>5, <1>6 DEF EbdThread, FbdThread

LEMMA ComponentMoves ==
  ASSUME TypeOK, EmptyHands, Component, NEW b \in Bufs, NotTwice(b)
  PROVE  Moves(b)
  <1>1. CASE EmptyBufferDone
    <2>1. PICK g \in InBufs :
              /\ comp[g] > 0 /\ comp' = [comp EXCEPT ![g] = @ - 1]
              /\ held' = held \/ held' = [held EXCEPT !["C"] = g]
      BY <1>1 DEF EmptyBufferDone
    <2>2. g \in Bufs /\ g \notin OutBufs
      BY BufsAssumption DEF Bufs
    <2>3. queue' = queue /\ allocated' = allocated /\ Idle
      BY <1>1 DEF EmptyBufferDone, queueVars
    <2> QED BY <2>1, <2>2, <2>3, ReturnMoves
  <1>2. CASE FillBufferDone
    <2>1. PICK g \in OutBufs :
              /\ comp[g] > 0 /\ comp' = [comp EXCEPT ![g] = @ - 1]
              /\ \/ flushing["out"] /\ held' = held
                 \/ held' = [held EXCEPT !["C"] = g]
      BY <1>2 DEF FillBufferDone
    <2>2. g \in Bufs
      BY DEF Bufs
    <2>3. queue' = queue /\ allocated' = allocated /\ Idle
      BY <1>2 DEF FillBufferDone, queueVars
    <2>4. held' = held => Loses
      <3>1. held["C"] = NoBuf /\ g # NoBuf
        BY <2>2, <2>3, BufsAssumption DEF EmptyHands, Idle, At
      <3> QED BY <2>1, <3>1, BufFacts DEF Loses
    <2> QED BY <2>1, <2>2, <2>3, <2>4, ReturnMoves
  <1>3. CASE EtbPush /\ At("C", "etb_push")
    <2>1. held["C"] \in BufsOf("in") /\ "in" \in Ports
      BY <1>3 DEF TypeOK, BuffersOK, BufsOf, At, Ports
    <2>2. /\ queue' = [queue EXCEPT !["in"] = Append(@, held["C"])]
          /\ held' = [held EXCEPT !["C"] = NoBuf] /\ comp' = comp
          /\ allocated' = allocated
      BY <1>3 DEF EtbPush, At, compVars
    <2> QED BY <2>1, <2>2, PushMoves
  <1>4. CASE FtbPush
    <2>1. held["C"] \in BufsOf("out") /\ "out" \in Ports
      BY <1>4 DEF FtbPush, TypeOK, BuffersOK, BufsOf, At, Ports
    <2>2. /\ queue' = [queue EXCEPT !["out"] = Append(@, held["C"])]
          /\ held' = [held EXCEPT !["C"] = NoBuf] /\ comp' = comp
          /\ allocated' = allocated
      BY <1>4 DEF FtbPush, compVars
    <2> QED BY <2>1, <2>2, PushMoves
  <1>5. CASE FtbFree
    BY <1>5, FreeMoves
  <1>6. CASE \/ (EtbPush /\ At("C", "etb_post")) \/ FtbLock \/ CommandComplete
             \/ PortSettingsChanged \/ EventError
    <2>1. UNCHANGED << comp, queue, held, allocated >>
      BY <1>6 DEF EtbPush, FtbLock, CommandComplete, FlushComplete, PortComplete,
          StateComplete, PortSettingsChanged, EventError, At, compVars, queueVars
    <2> QED BY <2>1, StaysPut
  <1> QED BY <1>1, <1>2, <1>3, <1>4, <1>5, <1>6 DEF Component, CallBacks, EtbPush

LEMMA MainMoves ==
  ASSUME TypeOK, QuitExits, NobodySeeks, "seek" \notin Commands, MainThread,
         NEW b \in Bufs, NotTwice(b)
  PROVE  Moves(b)
  <1>1. ~DrainQueues /\ ~FillAll /\ ~EmptyAll
    BY DEF NobodySeeks, Seeks, DrainQueues, FillAll, EmptyAll, At
  <1>2. CASE QuitFree
    <2>1. /\ queue'["in"] = << >> /\ queue'["out"] = << >>
          /\ UNCHANGED << comp, held, allocated >>
      BY <1>2 DEF QuitFree, Ports
    <2>2. exiting
      BY <1>2 DEF QuitFree, QuitExits, Quits, At
    <2>3. /\ ~InQueue(b)' /\ (InHand(b)' <=> InHand(b))
          /\ HoldsOnce(queue["in"], b)' /\ HoldsOnce(queue["out"], b)'
      BY <2>1, EmptyHolds DEF InQueue, InHand
    <2> QED BY <2>1, <2>2, <2>3 DEF Moves, NotTwice, Somewhere, Loses
  <1>3. CASE ~QuitFree
    <2>1. UNCHANGED << comp, queue, held >> /\ (allocated' = allocated \/ QuitLoaded)
      BY <1>1, <1>3
         DEF MainThread, StateCommand, FlushCommand, SeekCommand, CommandDone,
             ThreadsIdle, Rewind, SeekDone, Quit, QuitFlush, QuitIdle, QuitLoaded,
             QuitJoin, compVars, queueVars
    <2>2. QuitLoaded => exiting
      BY DEF QuitLoaded, QuitExits, Quits, At
    <2> QED BY <2>1, <2>2, StaysPut
  <1> QED BY <1>2, <1>3

LEMMA StepMoves ==
  ASSUME TypeOK, EmptyHands, QuitExits, NobodySeeks, "seek" \notin Commands,
         Next, ~Refill, NEW b \in Bufs, NotTwice(b)
  PROVE  Moves(b)
  <1>1. CASE Ended
    BY <1>1, StaysPut DEF Ended, vars, compVars, queueVars
  <1> QED BY <1>1, ThreadMoves, MainMoves, ComponentMoves DEF Next

(* A buffer that is nowhere is handed over.                                    *)
LEMMA RefillMoves ==
  ASSUME TypeOK, NEW g \in todo["F"], Give(g), UNCHANGED << queue, held, allocated >>,
         ~Somewhere(g), NEW b \in Bufs, NotTwice(b)
  PROVE  /\ NotTwice(b)'
         /\ b # g => (Somewhere(b)' <=> Somewhere(b))
         /\ Somewhere(g)' \/ omxState \notin {"Executing", "Pause"}
  <1>1. /\ comp \in [Bufs -> Nat] /\ g \in Bufs /\ comp[b] \in Nat /\ comp[g] \in Nat
        /\ (InQueue(b)' <=> InQueue(b)) /\ (InHand(b)' <=> InHand(b))
    BY DEF TypeOK, BuffersOK, InQueue, InHand
  <1>2. CASE b # g
    <2>1. comp'[b] = comp[b]
      BY <1>1, <1>2 DEF Give
    <2>2. Somewhere(g)' \/ omxState \notin {"Executing", "Pause"}
      BY <1>1 DEF Give, Somewhere
    <2> QED BY <1>1, <1>2, <2>1, <2>2 DEF NotTwice, Somewhere
  <1>3. CASE b = g
    <2>1. /\ comp[b] = 0 /\ ~InQueue(b) /\ ~InHand(b)
          /\ comp'[b] \in {0, 1}
          /\ comp'[b] = 1 \/ omxState \notin {"Executing", "Pause"}
      BY <1>1, <1>3 DEF Give, Somewhere
    <2> QED BY <1>1, <1>3, <2>1 DEF NotTwice, Somewhere
  <1> QED BY <1>2, <1>3

(* The port being disabled: the call-back frees what comes back, so the queue  *)
(* that was emptied stays empty; and when nobody flushes the output port no    *)
(* buffer of it is dropped.                                                    *)
PortCloses ==
  /\ pc["F"] \in {"drain", "wait_disable"} => sentDisabled
  /\ At("F", "wait_disable") => queue["out"] = << >> /\ pc["C"] # "ftb_push"
Works == ~flushing["out"] /\ omxState \in {"Executing", "Pause"}
Housed(b) == Somewhere(b) \/ At("F", "wait_enable") \/ (At("F", "refill") /\ b \in todo["F"])
KeptInv ==
  Undisturbed =>
    /\ PortCloses
    /\ NothingDropped /\ ~exiting => Works /\ \A b \in allocated \cap OutBufs : Housed(b)

(* The sample never takes back that it exits, and only fbd_thread, when it     *)
(* enables the port, makes headers.                                            *)
LEMMA ExitsAndHeaders ==
  ASSUME Next
  PROVE  /\ exiting => exiting'
         /\ EnablePort \/ allocated' \subseteq allocated
  <1>1. CASE MainThread
    BY <1>1 DEF MainThread, StateCommand, FlushCommand, SeekCommand, CommandDone,
           ThreadsIdle, DrainQueues, Rewind, FillAll, EmptyAll, SeekDone, Quit,
           QuitFlush, QuitIdle, QuitLoaded, QuitFree, QuitJoin, appVars, compVars
  <1>2. CASE EbdThread
    BY <1>2 DEF EbdThread, Top, FlushWait, SemWait, PopBuffer, SetRunning, HandOver,
           SeekCheck, SeekWait, EbdExitCheck, ReadBuffer, appVars, compVars
  <1>3. CASE FbdThread
    BY <1>3 DEF FbdThread, Top, FlushWait, SemWait, PopBuffer, SetRunning, HandOver,
           SemTimeout, FbdExitCheck, StatusCheck, DisablePort, DrainPort, PortDisabled,
           EnablePort, PortEnabled, Refill, ReconfigDone, FillCheck, appVars, compVars
  <1>4. CASE Component
    BY <1>4 DEF Component, CallBacks, CommandComplete, EmptyBufferDone, EtbPush,
           FillBufferDone, FtbLock, FtbPush, FtbFree, FlushComplete, PortComplete,
           StateComplete, PortSettingsChanged, EventError, appVars, compVars
  <1>5. CASE Ended
    BY <1>5 DEF Ended, vars, appVars, compVars
  <1> QED BY <1>1, <1>2, <1>3, <1>4, <1>5 DEF Next

(* The steps by which fbd_thread comes to a place of the reconfiguration.      *)
LEMMA ReconfigPlaces ==
  ASSUME TypeOK, Next
  PROVE  /\ pc'["F"] = "drain" => pc["F"] = "drain" \/ DisablePort
         /\ pc'["F"] = "wait_disable" =>
                pc["F"] = "wait_disable" \/ (DrainPort /\ queue["out"] = << >>)
         /\ pc'["F"] = "enable" => pc["F"] = "enable" \/ PortDisabled
         /\ pc'["F"] = "wait_enable" => pc["F"] = "wait_enable" \/ EnablePort
         /\ pc'["F"] = "refill" =>
                PortEnabled \/ Refill \/ (pc["F"] = "refill" /\ todo'["F"] = todo["F"])
         /\ pc["F"] = "wait_enable" => pc'["F"] = "wait_enable" \/ PortEnabled
         /\ pc["F"] = "refill" => pc'["F"] = "refill" \/ ReconfigDone
  <1>1. /\ pc \in [Threads -> Place] /\ Threads = {"M", "E", "F", "C"}
        /\ todo \in [{"M", "F"} -> SUBSET Bufs]
    BY DEF TypeOK, PlacesOK, Threads, BuffersOK
  <1>2. CASE ~FbdThread
    <2>1. pc'["F"] = pc["F"]
      BY <1>1, <1>2
         DEF Next, MainThread, StateCommand, FlushCommand, SeekCommand, CommandDone,
             ThreadsIdle, DrainQueues, Rewind, FillAll, EmptyAll, SeekDone, Quit,
             QuitFlush, QuitIdle, QuitLoaded, QuitFree, QuitJoin, EbdThread, Top,
             FlushWait, SemWait, PopBuffer, SetRunning, HandOver, SeekCheck, SeekWait,
             EbdExitCheck, ReadBuffer, Component, CallBacks, CommandComplete,
             EmptyBufferDone, EtbPush, FillBufferDone, FtbLock, FtbPush, FtbFree,
             FlushComplete, PortComplete, StateComplete, PortSettingsChanged,
             EventError, Goto, Ended, vars
    <2>2. todo'["F"] = todo["F"]
      BY <1>1, <1>2
         DEF Next, MainThread, StateCommand, FlushCommand, SeekCommand, CommandDone,
             ThreadsIdle, DrainQueues, Rewind, FillAll, EmptyAll, SeekDone, Quit,
             QuitFlush, QuitIdle, QuitLoaded, QuitFree, QuitJoin, EbdThread, Top,
             FlushWait, SemWait, PopBuffer, SetRunning, HandOver, SeekCheck, SeekWait,
             EbdExitCheck, ReadBuffer, Component, CallBacks, CommandComplete,
             EmptyBufferDone, EtbPush, FillBufferDone, FtbLock, FtbPush, FtbFree,
             FlushComplete, PortComplete, StateComplete, PortSettingsChanged,
             EventError, Ended, vars
    <2> QED BY <2>1, <2>2
  <1>3. CASE FbdThread
    <2>1. CASE \/ Top("F") \/ FlushWait("F") \/ SemWait("F") \/ PopBuffer("F")
               \/ SetRunning("F") \/ HandOver("F") \/ SemTimeout \/ FbdExitCheck
               \/ StatusCheck \/ FillCheck
      BY <1>1, <2>1 DEF Top, FlushWait, SemWait, PopBuffer, SetRunning, HandOver,
          SemTimeout, FbdExitCheck, StatusCheck, FillCheck, Goto, At
    <2>2. CASE \/ DisablePort \/ DrainPort \/ PortDisabled \/ EnablePort \/ PortEnabled
               \/ Refill \/ ReconfigDone
      BY <1>1, <2>2 DEF DisablePort, DrainPort, PortDisabled, EnablePort, PortEnabled,
          Refill, ReconfigDone, Goto, At
    <2> QED BY <1>3, <2>1, <2>2 DEF FbdThread
  <1> QED BY <1>2, <1>3

(* While the port is reconfigured nobody has told the threads to exit.         *)
LEMMA ReconfigIsNoExit ==
  ASSUME Undisturbed, Orderly, Reconfiguring
  PROVE  ~exiting
BY DEF Undisturbed, Orderly, NoChangeYet

LEMMA OwnerStep ==
  ASSUME TypeOK, EmptyHands, QuitExits, NobodySeeks, Protocol, OwnerInv, Next,
         "seek" \notin Commands, Undisturbed'
  PROVE  Owned'
  <1>1. /\ Undisturbed /\ Orderly /\ Owned
    BY StaysDisturbed DEF Protocol, OwnerInv
  <1>2. OutBufs \subseteq Bufs /\ (exiting => exiting')
    BY ExitsAndHeaders DEF Bufs
  <1>3. CASE Refill
    <2>1. PICK g \in todo["F"] : Give(g) /\ todo' = [todo EXCEPT !["F"] = @ \ {g}]
      BY <1>3 DEF Refill
    <2>2. /\ UNCHANGED << pc, queue, held, allocated, exiting, eventDone, lastCmd >>
          /\ pc["F"] = "refill" /\ todo'["F"] = todo["F"] \ {g}
          /\ todo["F"] \subseteq Bufs
      BY <1>3, <2>1 DEF Refill, queueVars, appVars, eventVars, At, TypeOK, BuffersOK
    <2>3. ~Somewhere(g) /\ g \in allocated
      BY <1>1, <2>2 DEF Owned, DisabledHasNone, At
    <2>4. ASSUME NEW b \in Bufs
          PROVE  NotTwice(b)' /\ (b # g => (Somewhere(b)' <=> Somewhere(b)))
      BY <1>1, <2>1, <2>2, <2>3, RefillMoves DEF Owned
    <2>5. UsedAreAllocated'
      BY <1>1, <1>2, <2>2, <2>3, <2>4 DEF Owned, UsedAreAllocated
    <2>6. DisabledHasNone'
      BY <1>1, <2>2, <2>4 DEF Owned, DisabledHasNone, At
    <2> QED BY <2>4, <2>5, <2>6 DEF Owned
  <1>4. CASE ~Refill
    <2>1. \A b \in Bufs : Moves(b)
      BY <1>1, <1>4, StepMoves DEF Owned
    <2>2. \A b \in Bufs : NotTwice(b)'
      BY <2>1 DEF Moves
    <2>3. UsedAreAllocated'
      <3> SUFFICES ASSUME ~exiting', NEW b \in OutBufs, Somewhere(b)'
                   PROVE  b \in allocated'
        BY DEF UsedAreAllocated
      <3>1. Somewhere(b) /\ ~exiting
        BY <1>2, <2>1 DEF Moves
      <3> QED BY <1>1, <1>2, <2>1, <3>1 DEF Moves, Owned, UsedAreAllocated
    <2>4. ASSUME eventDone', lastCmd' = "PortDisable"
          PROVE  allocated' \cap OutBufs = {}
      <3>1. CASE PortComplete
        BY <2>4, <3>1 DEF PortComplete, EventComplete
      <3>2. CASE ~PortComplete
        <4>1. eventDone /\ lastCmd = "PortDisable"
          BY <2>4, <3>2
             DEF Next, MainThread, StateCommand, FlushCommand, SeekCommand, CommandDone,
                 ThreadsIdle, DrainQueues, Rewind, FillAll, EmptyAll, SeekDone, Quit,
                 QuitFlush, QuitIdle, QuitLoaded, QuitFree, QuitJoin, EbdThread, Top,
                 FlushWait, SemWait, PopBuffer, SetRunning, HandOver, SeekCheck,
                 SeekWait, EbdExitCheck, ReadBuffer, FbdThread, SemTimeout,
                 FbdExitCheck, StatusCheck, DisablePort, DrainPort, PortDisabled,
                 EnablePort, PortEnabled, Refill, ReconfigDone, FillCheck, Component,
                 CallBacks, CommandComplete, EmptyBufferDone, EtbPush, FillBufferDone,
                 FtbLock, FtbPush, FtbFree, FlushComplete, StateComplete,
                 PortSettingsChanged, EventError, Ended, vars, eventVars, WaitForEvent,
                 EventComplete
        <4>2. allocated \cap OutBufs = {}
          BY <1>1, <4>1 DEF Owned, DisabledHasNone
        <4>3. ~EnablePort
          <5>1. pc["F"] # "enable"
            <6>1. PICK c \in Asks : lastCmd = EventOf(c)
              BY <1>1, <4>1 DEF Orderly, EventIsAsked
            <6>2. c \notin MAsks
              BY <4>1, <6>1, EventsOfAsks
            <6> QED BY <6>1, <6>2 DEF Asks, FAsks, At
          <5> QED BY <5>1 DEF EnablePort, At
        <4> QED BY <4>2, <4>3, ExitsAndHeaders
      <3> QED BY <3>1, <3>2
    <2>5. ASSUME PortDisabled, NEW b \in OutBufs
          PROVE  ~Somewhere(b)'
      <3>1. eventDone /\ lastCmd \in {"PortDisable", "Error"}
        BY <2>5 DEF PortDisabled, WaitForEvent
      <3>2. lastCmd # "Error"
        BY <1>1, <3>1, RequestFacts DEF Orderly, EventIsAsked, Asks
      <3>3. ~exiting
        BY <1>1, <2>5, ReconfigIsNoExit DEF PortDisabled, At, Reconfiguring
      <3>4. ~Somewhere(b)
        BY <1>1, <3>1, <3>2, <3>3 DEF Owned, DisabledHasNone, UsedAreAllocated
      <3> QED BY <1>2, <2>1, <3>4 DEF Moves
    <2>6. ASSUME pc'["F"] \in {"enable", "wait_enable"}, NEW b \in OutBufs
          PROVE  ~Somewhere(b)'
      <3>1. CASE PortDisabled
        BY <2>5, <3>1
      <3>2. CASE ~PortDisabled
        <4>1. pc["F"] \in {"enable", "wait_enable"}
          BY <2>6, <3>2, ReconfigPlaces DEF EnablePort, At
        <4>2. ~Somewhere(b)
          BY <1>1, <4>1 DEF Owned, DisabledHasNone
        <4> QED BY <1>2, <2>1, <4>2 DEF Moves
      <3> QED BY <3>1, <3>2
    <2>7. ASSUME pc'["F"] = "wait_enable"
          PROVE  OutBufs \subseteq allocated'
      <3>1. CASE EnablePort
        BY <3>1 DEF EnablePort
      <3>2. CASE ~EnablePort
        <4>1. pc["F"] = "wait_enable"
          BY <2>7, <3>2, ReconfigPlaces
        <4>2. ~exiting
          BY <1>1, <4>1, ReconfigIsNoExit DEF Reconfiguring
        <4>3. \A b \in OutBufs : ~Somewhere(b) /\ b \in allocated
          BY <1>1, <4>1 DEF Owned, DisabledHasNone, At
        <4> QED BY <1>2, <2>1, <4>2, <4>3 DEF Moves
      <3> QED BY <3>1, <3>2
    <2>8. ASSUME pc'["F"] = "refill", NEW b \in todo'["F"]
          PROVE  ~Somewhere(b)' /\ b \in allocated'
      <3>1. CASE PortEnabled
        <4>1. /\ pc["F"] = "wait_enable" /\ b \in OutBufs
              /\ UNCHANGED << comp, queue, held, allocated >>
          BY <2>8, <3>1 DEF PortEnabled, Headers, At, compVars, queueVars, TypeOK,
              BuffersOK
        <4>2. ~Somewhere(b) /\ b \in allocated
          BY <1>1, <4>1 DEF Owned, DisabledHasNone, At
        <4> QED BY <4>1, <4>2 DEF Somewhere, InQueue, InHand
      <3>2. CASE ~PortEnabled
        <4>1. pc["F"] = "refill" /\ b \in todo["F"] /\ todo["F"] \subseteq Bufs
          BY <1>4, <2>8, <3>2, ReconfigPlaces DEF TypeOK, BuffersOK
        <4>2. ~exiting
          BY <1>1, <4>1, ReconfigIsNoExit DEF Reconfiguring
        <4>3. ~Somewhere(b) /\ b \in allocated
          BY <1>1, <4>1 DEF Owned, DisabledHasNone, At
        <4> QED BY <2>1, <4>1, <4>2, <4>3 DEF Moves
      <3> QED BY <3>1, <3>2
    <2>9. DisabledHasNone'
      BY <2>4, <2>6, <2>7, <2>8 DEF DisabledHasNone, At
    <2> QED BY <2>2, <2>3, <2>9 DEF Owned
  <1> QED BY <1>3, <1>4

LEMMA PortClosesStep ==
  ASSUME TypeOK, Orderly, PortCloses, Next
  PROVE  PortCloses'
  <1>1. /\ pc \in [Threads -> Place] /\ Threads = {"M", "E", "F", "C"}
        /\ queue \in [Ports -> Seq(Bufs)] /\ Ports = {"in", "out"}
    BY DEF TypeOK, PlacesOK, Threads, QueuesOK, Ports
  <1>2. ASSUME pc'["F"] \in {"drain", "wait_disable"}
        PROVE  sentDisabled'
    <2>1. CASE DisablePort
      BY <2>1 DEF DisablePort
    <2>2. CASE ~DisablePort
      <3>1. pc["F"] \in {"drain", "wait_disable"}
        BY <1>2, <2>2, ReconfigPlaces DEF DrainPort, At
      <3>2. ~Asked("PortEnable")
        <4>1. "PortEnable" \notin Asks /\ "PortEnable" \in Requests
          BY <3>1 DEF Asks, MAsks, FAsks, Requests, At
        <4>2. ~Pends("PortEnable")
          BY <4>1 DEF Orderly, PendingIsAsked
        <4>3. pending \in Seq(Requests)
          BY DEF TypeOK, RequestsOK
        <4> QED BY <4>2, <4>3, TailHolds DEF Asked, Pends
      <3>3. sentDisabled' = sentDisabled
        BY <2>2, <3>2
           DEF Next, MainThread, StateCommand, FlushCommand, SeekCommand, CommandDone,
               ThreadsIdle, DrainQueues, Rewind, FillAll, EmptyAll, SeekDone, Quit,
               QuitFlush, QuitIdle, QuitLoaded, QuitFree, QuitJoin, EbdThread, Top,
               FlushWait, SemWait, PopBuffer, SetRunning, HandOver, SeekCheck,
               SeekWait, EbdExitCheck, ReadBuffer, FbdThread, SemTimeout,
               FbdExitCheck, StatusCheck, DrainPort, PortDisabled,
               EnablePort, PortEnabled, Refill, ReconfigDone, FillCheck, Component,
               CallBacks, CommandComplete, EmptyBufferDone, EtbPush, FillBufferDone,
               FtbLock, FtbPush, FtbFree, FlushComplete, PortComplete, StateComplete,
               PortSettingsChanged, EventError, Ended, vars, appVars
      <3> QED BY <3>1, <3>3 DEF PortCloses
    <2> QED BY <2>1, <2>2
  <1>3. ASSUME pc'["F"] = "wait_disable"
        PROVE  queue'["out"] = << >> /\ pc'["C"] # "ftb_push"
    <2>1. CASE DrainPort
      <3>1. queue["out"] = << >>
        BY <1>1, <1>3, <2>1 DEF DrainPort, Goto, At
      <3> QED BY <1>1, <2>1, <3>1 DEF DrainPort, FtbLockFree, Goto
    <2>2. CASE ~DrainPort
      <3>1. /\ pc["F"] = "wait_disable" /\ sentDisabled /\ queue["out"] = << >>
            /\ pc["C"] # "ftb_push"
        BY <1>3, <2>2, ReconfigPlaces DEF PortCloses, At
      <3>2. queue'["out"] = << >>
        BY <1>1, <2>2, <3>1
           DEF Next, MainThread, StateCommand, FlushCommand, SeekCommand, CommandDone,
               ThreadsIdle, DrainQueues, Rewind, FillAll, EmptyAll, SeekDone, Quit,
               QuitFlush, QuitIdle, QuitLoaded, QuitFree, QuitJoin, EbdThread, Top,
               FlushWait, SemWait, PopBuffer, SetRunning, HandOver, SeekCheck,
               SeekWait, EbdExitCheck, ReadBuffer, FbdThread, SemTimeout,
               FbdExitCheck, StatusCheck, DisablePort, PortDisabled,
               EnablePort, PortEnabled, Refill, ReconfigDone, FillCheck, Component,
               CallBacks, CommandComplete, EmptyBufferDone, EtbPush, FillBufferDone,
               FtbLock, FtbPush, FtbFree, FlushComplete, PortComplete, StateComplete,
               PortSettingsChanged, EventError, Ended, vars, queueVars, PortOf, At
      <3>3. pc'["C"] # "ftb_push"
        BY <1>1, <3>1
           DEF Next, MainThread, StateCommand, FlushCommand, SeekCommand, CommandDone,
               ThreadsIdle, DrainQueues, Rewind, FillAll, EmptyAll, SeekDone, Quit,
               QuitFlush, QuitIdle, QuitLoaded, QuitFree, QuitJoin, EbdThread, Top,
               FlushWait, SemWait, PopBuffer, SetRunning, HandOver, SeekCheck,
               SeekWait, EbdExitCheck, ReadBuffer, FbdThread, SemTimeout,
               FbdExitCheck, StatusCheck, DisablePort, DrainPort, PortDisabled,
               EnablePort, PortEnabled, Refill, ReconfigDone, FillCheck, Component,
               CallBacks, CommandComplete, EmptyBufferDone, EtbPush, FillBufferDone,
               FtbLock, FtbPush, FtbFree, FlushComplete, PortComplete, StateComplete,
               PortSettingsChanged, EventError, Ended, vars, Goto
      <3> QED BY <3>2, <3>3
    <2> QED BY <2>1, <2>2
  <1> QED BY <1>2, <1>3 DEF PortCloses, At

LEMMA WorksStep ==
  ASSUME TypeOK, QuitExits, NobodySeeks, Orderly, NothingDropped, ~exiting, Works, Next
  PROVE  Works'
  <1>1. /\ flushing \in [Ports -> BOOLEAN] /\ Ports = {"in", "out"}
        /\ {"seek", "flush", "flush_out"} \cap Commands = {}
    BY DEF TypeOK, FlagsOK, Ports, NothingDropped
  <1>2. pc["M"] \notin Quits
    BY DEF QuitExits
  <1>3. CASE FlushCommand
    <2>1. /\ flushing' = [p \in Ports |-> flushing[p] \/ p = "in"]
          /\ omxState' = omxState
      BY <1>1, <1>3 DEF FlushCommand
    <2> QED BY <1>1, <2>1 DEF Works
  <1>4. CASE StateComplete
    <2>1. PICK s \in StateRequests : Asked(s) /\ omxState' = s /\ flushing' = flushing
      BY <1>4 DEF StateComplete, StateRequests, flushVars
    <2>2. s \in Asks
      <3>1. s \in Requests /\ pending \in Seq(Requests)
        BY DEF TypeOK, RequestsOK, Requests, StateRequests
      <3>2. Pends(s)
        BY <2>1, <3>1, TailHolds DEF Asked, Pends
      <3> QED BY <3>1, <3>2 DEF Orderly, PendingIsAsked
    <2>3. s \notin {"Idle", "Loaded"}
      BY <1>2, <2>2 DEF Asks, MAsks, FAsks, Quits, At
    <2> QED BY <2>1, <2>3 DEF Works, StateRequests
  <1>5. CASE FlushComplete
    <2>1. PICK p \in Ports : flushing' = [flushing EXCEPT ![p] = FALSE]
                             /\ omxState' = omxState
      BY <1>5 DEF FlushComplete
    <2> QED BY <1>1, <2>1 DEF Works
  <1>6. CASE ~FlushCommand /\ ~StateComplete /\ ~FlushComplete
    <2>1. ~SeekCommand /\ ~QuitFlush /\ ~QuitFree
      BY <1>1, <1>2 DEF SeekCommand, QuitFlush, QuitFree, Quits, At
    <2>2. flushing' = flushing /\ omxState' = omxState
      BY <1>6, <2>1
         DEF Next, MainThread, StateCommand, CommandDone, ThreadsIdle, DrainQueues,
             Rewind, FillAll, EmptyAll, SeekDone, Quit, QuitIdle, QuitLoaded, QuitJoin,
             EbdThread, Top, FlushWait, SemWait, PopBuffer, SetRunning, HandOver,
             SeekCheck, SeekWait, EbdExitCheck, ReadBuffer, FbdThread, SemTimeout,
             FbdExitCheck, StatusCheck, DisablePort, DrainPort, PortDisabled,
             EnablePort, PortEnabled, Refill, ReconfigDone, FillCheck, Component,
             CallBacks, CommandComplete, EmptyBufferDone, EtbPush, FillBufferDone,
             FtbLock, FtbPush, FtbFree, PortComplete, PortSettingsChanged, EventError,
             Ended, vars, flushVars, compVars
    <2> QED BY <2>2 DEF Works
  <1> QED BY <1>3, <1>4, <1>5, <1>6

LEMMA HousedStep ==
  ASSUME TypeOK, EmptyHands, QuitExits, NobodySeeks, NothingDropped, ~exiting, Works,
         Owned, Next, NEW b \in OutBufs, b \in allocated', b \in allocated => Housed(b)
  PROVE  Housed(b)'
  <1>1. /\ pc \in [Threads -> Place] /\ Threads = {"M", "E", "F", "C"}
        /\ todo \in [{"M", "F"} -> SUBSET Bufs] /\ b \in Bufs
    BY DEF TypeOK, PlacesOK, Threads, BuffersOK, Bufs
  <1>2. "seek" \notin Commands /\ ~Loses
    BY DEF NothingDropped, Works, Loses, NobodySeeks
  <1>3. CASE EnablePort
    <2>1. pc'["F"] = "wait_enable"
      BY <1>1, <1>3 DEF EnablePort, Goto
    <2> QED BY <2>1 DEF Housed, At
  <1>4. CASE PortEnabled
    <2>1. pc'["F"] = "refill" /\ todo'["F"] = OutBufs
      BY <1>1, <1>4 DEF PortEnabled, Headers, Goto
    <2> QED BY <2>1 DEF Housed, At
  <1>5. CASE Refill
    <2>1. PICK g \in todo["F"] : Give(g) /\ todo' = [todo EXCEPT !["F"] = @ \ {g}]
      BY <1>5 DEF Refill
    <2>2. /\ UNCHANGED << pc, queue, held, allocated >>
          /\ pc["F"] = "refill" /\ todo'["F"] = todo["F"] \ {g}
      BY <1>1, <1>5, <2>1 DEF Refill, queueVars, At
    <2>3. ~Somewhere(g)
      BY <2>2 DEF Owned, DisabledHasNone, At
    <2>4. /\ b # g => (Somewhere(b)' <=> Somewhere(b))
          /\ Somewhere(g)'
      BY <1>1, <2>1, <2>2, <2>3, RefillMoves DEF Owned, Works
    <2> QED BY <2>2, <2>4 DEF Housed, At
  <1>6. CASE ~EnablePort /\ ~PortEnabled /\ ~Refill
    <2>1. b \in allocated /\ Housed(b)
      BY <1>6, ExitsAndHeaders
    <2>2. CASE Somewhere(b)
      <3>1. Moves(b)
        BY <1>1, <1>2, <1>6, StepMoves DEF Owned
      <3> QED BY <1>2, <2>2, <3>1 DEF Moves, Housed
    <2>3. CASE At("F", "wait_enable")
      BY <1>6, <2>3, ReconfigPlaces DEF Housed, At
    <2>4. CASE At("F", "refill") /\ b \in todo["F"]
      <3>1. ~ReconfigDone
        BY <2>4 DEF ReconfigDone
      <3> QED BY <1>6, <2>4, <3>1, ReconfigPlaces DEF Housed, At
    <2> QED BY <2>1, <2>2, <2>3, <2>4 DEF Housed
  <1> QED BY <1>3, <1>4, <1>5, <1>6

Ownership == EmptyHands /\ QuitExits /\ NobodySeeks /\ OwnerInv /\ KeptInv

LEMMA OwnershipStep ==
  ASSUME TypeOK, Protocol, Ownership, [Next]_vars
  PROVE  Ownership'
  <1>1. CASE UNCHANGED vars
    BY <1>1
       DEF vars, appVars, queueVars, flushVars, eventVars, compVars, boundVars, Ownership,
           EmptyHands, QuitExits, NobodySeeks, OwnerInv, KeptInv, Undisturbed, Owned,
           NotTwice, Somewhere, InQueue, InHand, UsedAreAllocated, DisabledHasNone,
           PortCloses, Works, Housed, At
  <1>2. CASE Next
    <2>1. EmptyHands' /\ QuitExits' /\ NobodySeeks'
      BY <1>2, EmptyHandsStep, QuitsAndSeeksStep DEF Ownership
    <2>2. OwnerInv'
      <3> SUFFICES ASSUME "seek" \notin Commands, Undisturbed'
                   PROVE  Owned'
        BY DEF OwnerInv
      <3> QED BY <1>2, OwnerStep DEF Ownership
    <2>3. KeptInv'
      <3> SUFFICES ASSUME Undisturbed'
                   PROVE  /\ PortCloses'
                          /\ NothingDropped /\ ~exiting' =>
                                 Works' /\ \A b \in (allocated \cap OutBufs)' : Housed(b)'
        BY DEF KeptInv, NothingDropped
      <3>1. Undisturbed /\ Orderly
        BY <1>2, StaysDisturbed DEF Protocol
      <3>2. PortCloses'
        BY <1>2, <3>1, PortClosesStep DEF Ownership, KeptInv
      <3>3. ASSUME NothingDropped, ~exiting'
            PROVE  Works' /\ \A b \in (allocated \cap OutBufs)' : Housed(b)'
        <4>1. ~exiting /\ "seek" \notin Commands
          BY <1>2, <3>3, ExitsAndHeaders DEF NothingDropped
        <4>2. Works /\ Owned /\ \A b \in allocated \cap OutBufs : Housed(b)
          BY <3>1, <3>3, <4>1 DEF Ownership, KeptInv, OwnerInv
        <4>3. Works'
          BY <1>2, <3>1, <3>3, <4>1, <4>2, WorksStep DEF Ownership
        <4>4. ASSUME NEW b \in OutBufs, b \in allocated'
              PROVE  Housed(b)'
          BY <1>2, <3>3, <4>1, <4>2, <4>4, HousedStep DEF Ownership
        <4> QED BY <4>3, <4>4
      <3> QED BY <3>2, <3>3
    <2> QED BY <2>1, <2>2, <2>3 DEF Ownership
  <1> QED BY <1>1, <1>2

LEMMA OwnershipInit == Init => Ownership
  <1> SUFFICES ASSUME Init PROVE Ownership
    OBVIOUS
  <1>1. /\ pc = [t \in Threads |-> IF t \in {"E", "F"} THEN "top" ELSE "idle"]
        /\ Threads = {"M", "E", "F", "C"}
        /\ held = [t \in {"E", "F", "C"} |-> NoBuf]
        /\ queue = [p \in Ports |-> << >>] /\ Ports = {"in", "out"}
        /\ comp = [b \in Bufs |-> 1] /\ allocated = Bufs
        /\ NoBuf \notin Bufs /\ OutBufs \subseteq Bufs
    BY BufsAssumption DEF Init, Threads, Ports, Bufs
  <1>2. pc["M"] = "idle" /\ pc["E"] = "top" /\ pc["F"] = "top" /\ pc["C"] = "idle"
    BY <1>1
  <1>3. EmptyHands
    BY <1>1 DEF EmptyHands
  <1>4. QuitExits /\ NobodySeeks
    BY <1>2 DEF QuitExits, NobodySeeks, Quits, Seeks, Init
  <1>5. ASSUME NEW b \in Bufs
        PROVE  NotTwice(b) /\ Somewhere(b)
    <2>1. comp[b] = 1 /\ ~InQueue(b) /\ ~InHand(b)
      BY <1>1, EmptyHolds DEF InQueue, InHand, Hands
    <2> QED BY <1>1, <2>1, EmptyHolds DEF NotTwice, Somewhere, InHand
  <1>6. DisabledHasNone /\ UsedAreAllocated
    BY <1>1, <1>2 DEF DisabledHasNone, UsedAreAllocated, Init, At
  <1>7. OwnerInv
    BY <1>5, <1>6 DEF OwnerInv, Owned
  <1>8. PortCloses
    BY <1>2 DEF PortCloses, At
  <1>9. Works
    BY <1>1 DEF Works, Init
  <1>10. KeptInv
    BY <1>1, <1>5, <1>8, <1>9 DEF KeptInv, Housed
  <1> QED BY <1>3, <1>4, <1>7, <1>10 DEF Ownership

(* A set whose members are all equal has one member at most.                   *)
LEMMA OneAtMost ==
  ASSUME NEW S, \A x, y \in S : x = y
  PROVE  /\ Cardinality(S) \in {0, 1}
         /\ S = {} => Cardinality(S) = 0
  <1>1. CASE S = {}
    BY <1>1, FS_EmptySet
  <1>2. CASE S # {}
    <2>1. PICK x : S = {x}
      BY <1>2
    <2> QED BY <1>2, <2>1, FS_Singleton
  <1> QED BY <1>1, <1>2

LEMMA PlacesCounted ==
  ASSUME TypeOK, NEW b \in Bufs, NotTwice(b)
  PROVE  Places(b) <= 1
  <1> DEFINE I == {k \in DOMAIN queue["in"] : queue["in"][k] = b}
             O == {k \in DOMAIN queue["out"] : queue["out"][k] = b}
             H == {t \in {"E", "F", "C"} : held[t] = b}
  <1>1. comp[b] \in {0, 1}
    BY BufFacts DEF NotTwice
  <1>2. Cardinality(I) \in {0, 1} /\ (I = {} => Cardinality(I) = 0)
    <2>1. \A j, k \in I : j = k
      BY DEF NotTwice, HoldsOnce
    <2> QED BY <2>1, OneAtMost
  <1>3. Cardinality(O) \in {0, 1} /\ (O = {} => Cardinality(O) = 0)
    <2>1. \A j, k \in O : j = k
      BY DEF NotTwice, HoldsOnce
    <2> QED BY <2>1, OneAtMost
  <1>4. Cardinality(H) \in {0, 1} /\ (H = {} => Cardinality(H) = 0)
    <2>1. \A t, u \in H : t = u
      BY DEF NotTwice, Hands
    <2> QED BY <2>1, OneAtMost
  <1>5. /\ I # {} <=> Holds(queue["in"], b)
        /\ O # {} <=> Holds(queue["out"], b)
        /\ H # {} <=> InHand(b)
    BY DEF Holds, InHand, Hands
  <1>6. ~(Holds(queue["in"], b) /\ Holds(queue["out"], b))
    <2>1. queue["in"] \in Seq(InBufs) /\ queue["out"] \in Seq(OutBufs)
      BY DEF TypeOK, QueuesOK
    <2> QED BY <2>1, BufsAssumption DEF Holds
  <1>7. /\ comp[b] = 1 => I = {} /\ O = {} /\ H = {}
        /\ I # {} => O = {} /\ H = {}
        /\ O # {} => H = {}
    BY <1>5, <1>6 DEF NotTwice, InQueue
  <1>8. Places(b) = comp[b] + Cardinality(I) + Cardinality(O) + Cardinality(H)
    BY DEF Places
  <1> HIDE DEF I, O, H
  <1> QED BY <1>1, <1>2, <1>3, <1>4, <1>7, <1>8

\* As long as nobody types a seek, no error comes and no clean-up meets a change
\* of the port settings, no buffer is ever in two places: what a queue, a hand
\* or the component of sample_omxvdec.c has, nobody else has.
THEOREM EachBufferHasOneOwner == Spec => []OneOwner
  <1>1. Init => TypeOK /\ Protocol /\ Ownership
    BY TypeInit, ProtocolInit, OwnershipInit
  <1>2. TypeOK /\ Protocol /\ Ownership /\ [Next]_vars => (TypeOK /\ Protocol /\ Ownership)'
    BY TypeStep, ProtocolStep, OwnershipStep
  <1>3. TypeOK /\ Ownership => OneOwner
    BY PlacesCounted DEF Ownership, OwnerInv, Owned, OneOwner
  <1> QED BY <1>1, <1>2, <1>3, PTL DEF Spec

\* While output_port_reconfig waits for the port to be disabled, every header
\* that is not freed is with the component or in the hand of FillBufferDone, who
\* frees it: the wait is not for a buffer the sample has lost.
THEOREM PortIsDrained == Spec => []DisabledPortIsDrained
  <1>1. Init => TypeOK /\ Protocol /\ Ownership
    BY TypeInit, ProtocolInit, OwnershipInit
  <1>2. TypeOK /\ Protocol /\ Ownership /\ [Next]_vars => (TypeOK /\ Protocol /\ Ownership)'
    BY TypeStep, ProtocolStep, OwnershipStep
  <1>3. ASSUME TypeOK, Protocol, Ownership
        PROVE  DisabledPortIsDrained
    <2> SUFFICES ASSUME At("F", "wait_disable"), Undisturbed, NothingDropped
                 PROVE  /\ queue["out"] = << >>
                        /\ \A b \in allocated \cap OutBufs :
                               comp[b] = 1 \/ (held["C"] = b /\ pc["C"] # "ftb_push")
      BY DEF DisabledPortIsDrained
    <2>1. ~exiting /\ "seek" \notin Commands
      BY <1>3, ReconfigIsNoExit DEF Protocol, Reconfiguring, At, NothingDropped
    <2>2. PortCloses /\ Owned /\ \A b \in allocated \cap OutBufs : Housed(b)
      BY <1>3, <2>1 DEF Ownership, KeptInv, OwnerInv
    <2>3. queue["out"] = << >> /\ pc["C"] # "ftb_push"
      BY <2>2 DEF PortCloses
    <2>4. ASSUME NEW b \in allocated \cap OutBufs
          PROVE  comp[b] = 1 \/ held["C"] = b
      <3>1. b \in Bufs /\ Somewhere(b)
        BY <2>2 DEF Housed, At, Bufs
      <3>2. comp[b] > 0 => comp[b] = 1
        BY <1>3, <2>2, <3>1, BufFacts DEF Owned, NotTwice
      <3>3. ~InQueue(b)
        <4>1. queue["in"] \in Seq(InBufs)
          BY <1>3 DEF TypeOK, QueuesOK
        <4> QED BY <2>3, <4>1, EmptyHolds, BufsAssumption DEF InQueue, Holds
      <3>4. held["F"] = NoBuf /\ held["E"] \in InBufs \cup {NoBuf} /\ b # NoBuf
        BY <1>3, <3>1, BufsAssumption DEF Ownership, EmptyHands, At, TypeOK, BuffersOK
      <3> QED BY <3>1, <3>2, <3>3, <3>4, BufsAssumption DEF Somewhere, InHand, Hands
    <2> QED BY <2>3, <2>4
  <1> QED BY <1>1, <1>2, <1>3, PTL DEF Spec
=============================================================================
