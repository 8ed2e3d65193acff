--------------------------- MODULE DmxFilterProofs ---------------------------
(***************************************************************************)
(* The filters of the demux manager and their channels, for any number of   *)
(* applications, filters, channels, calls and failures of the demux.        *)
(***************************************************************************)
EXTENDS DmxFilter, TLAPS

USE FilterAssumption

-----------------------------------------------------------------------------
(* The inductive invariant.                                                 *)

(* A sum below the time-out is read, 50 ms are added; what reaches the       *)
(* time-out is called back before the next sum is read.                      *)
Timers ==
  /\ \A f \in Slot : timer[f] = 0 \/ timer[f] < Timeout \/ (tick.pc = "fire" /\ tick.f = f)
  /\ tick.pc = "count" => tick.count \in 0 .. Timeout + 4
  /\ tick.pc \in { "count", "fire" } => tick.f \in Slot

(* flt_task has a channel and messages where it works on them.               *)
TaskHas ==
  /\ task.pc \in { "acquire", "attr", "lock", "callback", "release" } => task.chan \in Chan
  /\ task.pc \in { "attr", "lock", "callback" } => task.left > 0

(* The mutex is with the call or the task that is in its critical section.   *)
MutexHeld ==
  /\ \A a \in App : pc[a] \in { "unlock", "join" } => owner = a
  /\ task.pc = "callback" => owner = Task

(* A call is past its check of g_bFltInit only while the flag is as it was.  *)
CallsChecked == \A a \in App :
  /\ pc[a] = "lock" => arg[a] \in Args /\ g_bFltInit = (arg[a].op # "Init")
  /\ pc[a] = "join" => arg[a] \in Args /\ arg[a].op = "DeInit"

(* A manager that was closed without a failure has no channels.              *)
ClosedIsEmpty == ~ g_bFltInit /\ fails = 0 => \A c \in Chan : pid[c] = None

Steps == Timers /\ TaskHas /\ MutexHeld /\ CallsChecked

IInv ==
  /\ TypeOK /\ Steps
  /\ DataOnlyWhileStarted /\ UsedChannelExists
  /\ ClosedIsEmpty /\ NoChannelLeaks /\ EnabledIsOpen

-----------------------------------------------------------------------------
(* What a call of the application finds, and leaves alone.                   *)

LEMMA ArgOf ==
  ASSUME NEW x \in Args
  PROVE  /\ x.op = "Creat" => x.pid \in Pid /\ x.crc \in Crc
         /\ x.op = "SetAttr" => x.f \in Slot /\ x.crc \in Crc
         /\ x.op \in { "Destroy", "Start", "Stop" } => x.f \in Slot
         /\ x.op \in Op
  BY DEF Args

(* Only one thread calls HI_FILTER_Init and HI_FILTER_DeInit.                *)
LEMMA OneCaller ==
  ASSUME NEW x \in Args, x.op \in { "Init", "DeInit" }, NEW a \in App, NEW b \in App
  PROVE  a = b
<1>1. Op \cap { "Init", "DeInit" } # {}
  BY ArgOf
<1>2. PICK c \in App : App = {c}
  BY <1>1 DEF FilterAssumption
<1> QED BY <1>2

LEMMA PlacesKept ==
  ASSUME TypeOK, NEW a \in App, NEW l \in { "idle", "lock", "unlock", "join" }, GoTo(a, l)
  PROVE  /\ pc' \in [App -> { "idle", "lock", "unlock", "join" }]
         /\ pc'[a] = l /\ \A b \in App \ {a} : pc'[b] = pc[b]
  BY DEF TypeOK, GoTo

(* A call in its critical section finds flt_task outside its own, and the    *)
(* manager open.                                                             *)
LEMMA Inside ==
  ASSUME IInv, NEW a \in App, NEW op, Locks(a, op), op # "Init"
  PROVE  /\ owner = None /\ task.pc # "callback" /\ g_bFltInit
         /\ arg[a] \in Args /\ arg[a].op = op
         /\ \A b \in App : pc[b] \notin { "unlock", "join" }
  BY DEF IInv, Steps, MutexHeld, CallsChecked, Locks, LockFree, Task, None, FilterAssumption

LEMMA CallKeepsSteps ==
  ASSUME IInv, NEW a \in App, NEW op, Locks(a, op), op # "Init", task' = task,
         \A f \in Slot : timer'[f] \in { timer[f], 0 }
  PROVE  Steps' /\ DataOnlyWhileStarted' /\ ClosedIsEmpty'
<1>1. /\ pc'[a] = "unlock" /\ (\A b \in App \ {a} : pc'[b] = pc[b]) /\ owner' = a
      /\ UNCHANGED << g_bFltInit, arg, tick >>
  BY PlacesKept DEF Locks, initVars, IInv
<1>2. Timers'
  BY <1>1 DEF IInv, Steps, Timers
<1>3. TaskHas'
  BY DEF IInv, Steps, TaskHas
<1>4. MutexHeld'
  BY <1>1, Inside DEF MutexHeld
<1>5. CallsChecked'
  BY <1>1, Inside DEF IInv, Steps, CallsChecked
<1>6. DataOnlyWhileStarted'
  BY Inside DEF DataOnlyWhileStarted
<1>7. ClosedIsEmpty'
  BY <1>1, Inside DEF ClosedIsEmpty
<1> QED BY <1>2, <1>3, <1>4, <1>5, <1>6, <1>7 DEF Steps

(* The types a call does not touch.                                          *)
LEMMA CallKeepsTypes ==
  ASSUME TypeOK, NEW a \in App, NEW op, Locks(a, op), task' = task, Works \/ Fails
  PROVE  /\ g_bFltInit' \in BOOLEAN /\ g_bFltRunFlag' \in BOOLEAN
         /\ owner' \in App \cup {Task, None}
         /\ pc' \in [App -> { "idle", "lock", "unlock", "join" }]
         /\ arg' \in [App -> Args \cup {NoArg}]
         /\ task' = task /\ tick' = tick
         /\ calls' \in 0 .. MaxCalls /\ fails' \in 0 .. MaxFail
<1>1. fails' \in 0 .. MaxFail
  BY DEF TypeOK, Works, Fails
<1> QED BY <1>1, PlacesKept DEF TypeOK, Locks, initVars

(* No failure so far: the call has not failed and none did before.            *)
LEMMA NoneFailed ==
  ASSUME TypeOK, fails' = 0, Works \/ Fails
  PROVE  fails = 0 /\ ~ Fails
  BY DEF TypeOK, Works, Fails

LEMMA OneFailed == ASSUME TypeOK, Fails PROVE fails' # 0
  BY DEF TypeOK, Fails

LEMMA RefusedKeeps ==
  ASSUME IInv, NEW a \in App, NEW op, Refused(a, op), op # "Init", Works \/ Fails
  PROVE  IInv'
<1>1. /\ Locks(a, op) /\ UNCHANGED << use, enable, hChannel, crc, live, timer, pid, open, mode, task >>
  BY DEF Refused, slotVars, chanVars
<1>2. Steps' /\ DataOnlyWhileStarted' /\ ClosedIsEmpty'
  BY <1>1, CallKeepsSteps
<1>3. TypeOK'
  BY <1>1, CallKeepsTypes DEF IInv, TypeOK
<1>4. g_bFltInit /\ g_bFltInit' = g_bFltInit
  BY <1>1, Inside DEF Locks, initVars
<1>5. UsedChannelExists'
  BY <1>1, <1>4 DEF IInv, UsedChannelExists, Used, Exists
<1>6. NoChannelLeaks' /\ EnabledIsOpen'
  BY <1>1, <1>4, NoneFailed DEF IInv, NoChannelLeaks, EnabledIsOpen, Enabled, Used, OnChannel
<1> QED BY <1>2, <1>3, <1>5, <1>6 DEF IInv

-----------------------------------------------------------------------------
(* The calls.                                                                *)

LEMMA CreatKeeps ==
  ASSUME IInv, NEW a \in App, Creat(a)
  PROVE  IInv'
<1> DEFINE x == arg[a]
           own == { c \in Chan : pid[c] = x.pid }
           free == { c \in Chan : pid[c] = None }
<1>1. CASE /\ Locks(a, "Creat") /\ Works /\ UNCHANGED << open, task >>
           /\ \E f \in Slot \ Used, c \in IF own # {} THEN own ELSE free :
                /\ pid' = [pid EXCEPT ![c] = x.pid]
                /\ mode' = IF own # {} THEN mode ELSE [mode EXCEPT ![c] = x.crc]
                /\ hChannel' = [hChannel EXCEPT ![f] = c]
                /\ use' = [use EXCEPT ![f] = TRUE] /\ enable' = [enable EXCEPT ![f] = FALSE]
                /\ crc' = [crc EXCEPT ![f] = x.crc] /\ live' = [live EXCEPT ![f] = TRUE]
                /\ timer' = [timer EXCEPT ![f] = 0]
  <2>1. PICK f \in Slot \ Used, c \in IF own # {} THEN own ELSE free :
          /\ pid' = [pid EXCEPT ![c] = x.pid]
          /\ mode' = IF own # {} THEN mode ELSE [mode EXCEPT ![c] = x.crc]
          /\ hChannel' = [hChannel EXCEPT ![f] = c]
          /\ use' = [use EXCEPT ![f] = TRUE] /\ enable' = [enable EXCEPT ![f] = FALSE]
          /\ crc' = [crc EXCEPT ![f] = x.crc] /\ live' = [live EXCEPT ![f] = TRUE]
          /\ timer' = [timer EXCEPT ![f] = 0]
    BY <1>1
  <2>2. /\ x \in Args /\ x.pid \in Pid /\ x.crc \in Crc /\ x.pid # None /\ g_bFltInit
        /\ c \in Chan /\ f \in Slot /\ TypeOK
    BY <1>1, Inside, ArgOf DEF IInv, FilterAssumption
  <2>3. timer' \in [Slot -> 0 .. Timeout + 4] /\ \A g \in Slot : timer'[g] \in { timer[g], 0 }
    BY <2>1, <2>2 DEF TypeOK
  <2>4. Steps' /\ DataOnlyWhileStarted' /\ ClosedIsEmpty'
    BY <1>1, <2>3, CallKeepsSteps
  <2>5. TypeOK'
    <3>1. /\ use' \in [Slot -> BOOLEAN] /\ enable' \in [Slot -> BOOLEAN] /\ live' \in [Slot -> BOOLEAN]
          /\ hChannel' \in [Slot -> Chan \cup {None}] /\ crc' \in [Slot -> Crc]
      BY <2>1, <2>2 DEF TypeOK
    <3>2. /\ pid' \in [Chan -> Pid \cup {None}] /\ open' \in [Chan -> BOOLEAN] /\ mode' \in [Chan -> Crc]
      BY <1>1, <2>1, <2>2 DEF TypeOK
    <3> QED BY <1>1, <2>2, <2>3, <3>1, <3>2, CallKeepsTypes DEF TypeOK
  <2>6. Used' = Used \cup {f} /\ \A g \in Used : hChannel'[g] = hChannel[g] /\ g # f
    BY <2>1, <2>2 DEF Used, TypeOK
  <2>7. hChannel'[f] = c /\ pid'[c] = x.pid /\ \A d \in Chan \ {c} : pid'[d] = pid[d]
    BY <2>1, <2>2 DEF TypeOK
  <2>8. UsedChannelExists'
    BY <2>2, <2>6, <2>7 DEF IInv, UsedChannelExists, Exists
  <2>9. NoChannelLeaks'
    <3>1. SUFFICES ASSUME fails' = 0, NEW d \in Chan, pid'[d] # None
                   PROVE  \E g \in Used' : hChannel'[g] = d
      BY DEF NoChannelLeaks, OnChannel
    <3>2. CASE d = c
      BY <2>6, <2>7, <3>2
    <3>3. CASE d # c
      BY <1>1, <2>2, <2>6, <2>7, <3>1, <3>3, NoneFailed DEF IInv, NoChannelLeaks, OnChannel
    <3> QED BY <3>2, <3>3
  <2>10. EnabledIsOpen'
    <3>1. \A g \in Enabled' : g \in Enabled /\ hChannel'[g] = hChannel[g]
      BY <2>1, <2>2, <2>6 DEF Enabled, Used, TypeOK
    <3> QED BY <1>1, <2>2, <3>1, NoneFailed DEF IInv, EnabledIsOpen
  <2> QED BY <2>4, <2>5, <2>8, <2>9, <2>10 DEF IInv
<1>2. CASE Refused(a, "Creat") /\ (Works \/ Fails)
  BY <1>2, RefusedKeeps
<1> QED BY <1>1, <1>2 DEF Creat

LEMMA DestroyKeeps ==
  ASSUME IInv, NEW a \in App, Destroy(a)
  PROVE  IInv'
<1> DEFINE f == arg[a].f
           c == hChannel[f]
           gone == use' = [use EXCEPT ![f] = FALSE] /\ live' = [live EXCEPT ![f] = FALSE]
           forgotten == hChannel' = [hChannel EXCEPT ![f] = None] /\ timer' = [timer EXCEPT ![f] = 0]
           last == ~AnyOn(c, Used \ {f})
<1>1. CASE /\ Locks(a, "Destroy")
           /\ enable' = [enable EXCEPT ![f] = FALSE] /\ UNCHANGED << crc, mode >>
           /\ \/ Fails /\ UNCHANGED << use, live, hChannel, timer, pid, open, task >>
              \/ gone /\ ~last /\ forgotten /\ Works /\ UNCHANGED << pid, open, task >>
              \/ gone /\ last /\ forgotten /\ Works /\ DestroyChannel(c)
              \/ gone /\ last /\ Fails /\ UNCHANGED << hChannel, timer, pid, open, task >>
  <2>1. arg[a] \in Args /\ f \in Slot /\ g_bFltInit /\ g_bFltInit' /\ TypeOK
    BY <1>1, Inside, ArgOf DEF IInv, Locks, initVars
  <2>2. task' = task /\ (Works \/ Fails)
    BY <1>1 DEF DestroyChannel, CloseChannel
  <2>3. timer' \in [Slot -> 0 .. Timeout + 4] /\ \A g \in Slot : timer'[g] \in { timer[g], 0 }
    BY <1>1, <2>1 DEF TypeOK
  <2>4. Steps' /\ DataOnlyWhileStarted' /\ ClosedIsEmpty'
    BY <1>1, <2>2, <2>3, CallKeepsSteps
  <2>9. /\ \/ pid' = pid /\ open' = open
           \/ last /\ pid' = [pid EXCEPT ![c] = None] /\ open' = [open EXCEPT ![c] = FALSE]
        /\ mode' = mode
    BY <1>1 DEF DestroyChannel, CloseChannel
  <2>5. TypeOK'
    <3>1. /\ use' \in [Slot -> BOOLEAN] /\ enable' \in [Slot -> BOOLEAN] /\ live' \in [Slot -> BOOLEAN]
          /\ hChannel' \in [Slot -> Chan \cup {None}] /\ crc' \in [Slot -> Crc]
      BY <1>1, <2>1 DEF TypeOK
    <3>2. /\ pid' \in [Chan -> Pid \cup {None}] /\ open' \in [Chan -> BOOLEAN] /\ mode' \in [Chan -> Crc]
      BY <2>1, <2>9 DEF TypeOK
    <3> QED BY <1>1, <2>1, <2>2, <2>3, <3>1, <3>2, CallKeepsTypes DEF TypeOK
  <2>6. /\ Enabled' \subseteq Enabled \ {f}
        /\ \A g \in Slot \ {f} : hChannel'[g] = hChannel[g] /\ use'[g] = use[g]
    BY <1>1, <2>1 DEF Enabled, TypeOK
  <2>7. CASE Fails /\ UNCHANGED << use, hChannel, pid >>
    <3>1. UsedChannelExists'
      BY <2>1, <2>7 DEF IInv, UsedChannelExists, Exists, Used
    <3>2. NoChannelLeaks' /\ EnabledIsOpen'
      BY <2>1, <2>7, OneFailed DEF NoChannelLeaks, EnabledIsOpen
    <3> QED BY <2>4, <2>5, <3>1, <3>2 DEF IInv
  <2>8. CASE gone
    <3>1. Used' = Used \ {f} /\ \A g \in Used' : hChannel'[g] = hChannel[g] /\ g \in Used \ {f}
      <4>1. use' \in [Slot -> BOOLEAN] /\ use'[f] = FALSE /\ \A g \in Slot \ {f} : use'[g] = use[g]
        BY <2>1, <2>8 DEF TypeOK
      <4>2. Used' = Used \ {f}
        BY <4>1 DEF Used
      <4> QED BY <2>6, <4>2 DEF Used
    <3>2. last => \A g \in Used' : hChannel[g] # c
      BY <3>1 DEF AnyOn, OnChannel
    <3>3. /\ \A d \in Chan : pid'[d] = pid[d] \/ (last /\ d = c /\ pid'[d] = None)
          /\ \A d \in Chan : open'[d] = open[d] \/ (last /\ d = c)
      BY <2>1, <2>9 DEF TypeOK
    <3>4. UsedChannelExists'
      BY <2>1, <3>1, <3>2, <3>3 DEF IInv, UsedChannelExists, Exists
    <3>5. NoChannelLeaks'
      <4>1. SUFFICES ASSUME fails' = 0, NEW d \in Chan, pid'[d] # None
                     PROVE  \E g \in Used' : hChannel'[g] = d
        BY DEF NoChannelLeaks, OnChannel
      <4>2. fails = 0 /\ pid[d] # None /\ ~ Fails
        BY <2>1, <2>2, <3>3, <4>1, NoneFailed
      <4>3. PICK g \in Used : hChannel[g] = d
        BY <2>1, <4>2 DEF IInv, NoChannelLeaks, OnChannel
      <4>4. CASE g # f
        BY <3>1, <4>3, <4>4
      <4>5. CASE g = f /\ ~ last
        BY <3>1, <4>3, <4>5 DEF AnyOn, OnChannel
      <4>6. CASE g = f /\ last
        <5>1. pid' = [pid EXCEPT ![c] = None]
          BY <1>1, <4>2, <4>6 DEF DestroyChannel
        <5> QED BY <2>1, <4>1, <4>3, <4>6, <5>1 DEF TypeOK
      <4> QED BY <4>4, <4>5, <4>6
    <3>6. EnabledIsOpen'
      <4>1. SUFFICES ASSUME fails' = 0, NEW g \in Enabled' PROVE open'[hChannel'[g]]
        BY DEF EnabledIsOpen
      <4>2. fails = 0 /\ g \in Enabled /\ g \in Used' /\ hChannel'[g] = hChannel[g]
        BY <2>1, <2>2, <2>6, <3>1, <4>1, NoneFailed DEF Enabled, Used
      <4>3. open[hChannel[g]] /\ hChannel[g] \in Chan
        BY <2>1, <4>2 DEF IInv, EnabledIsOpen, UsedChannelExists, Exists, Enabled, Used
      <4> QED BY <3>2, <3>3, <4>2, <4>3
    <3> QED BY <2>4, <2>5, <3>4, <3>5, <3>6 DEF IInv
  <2> QED BY <1>1, <2>7, <2>8
<1>2. CASE Refused(a, "Destroy") /\ (Works \/ Fails)
  BY <1>2, RefusedKeeps
<1> QED BY <1>1, <1>2 DEF Destroy

LEMMA StartKeeps ==
  ASSUME IInv, NEW a \in App, Start(a)
  PROVE  IInv'
<1> DEFINE f == arg[a].f
<1>1. CASE /\ Locks(a, "Start") /\ live[f] /\ ~enable[f]
           /\ enable' = [enable EXCEPT ![f] = TRUE]
           /\ timer' = [timer EXCEPT ![f] = 0]
           /\ \/ Works /\ open' = [open EXCEPT ![hChannel[f]] = TRUE]
              \/ Fails /\ UNCHANGED open
           /\ UNCHANGED << use, hChannel, crc, live, pid, mode, task >>
  <2>1. arg[a] \in Args /\ f \in Slot /\ g_bFltInit /\ g_bFltInit' /\ TypeOK /\ (Works \/ Fails)
    BY <1>1, Inside, ArgOf DEF IInv, Locks, initVars
  <2>2. timer' \in [Slot -> 0 .. Timeout + 4] /\ \A g \in Slot : timer'[g] \in { timer[g], 0 }
    BY <1>1, <2>1 DEF TypeOK
  <2>3. Steps' /\ DataOnlyWhileStarted' /\ ClosedIsEmpty'
    BY <1>1, <2>2, CallKeepsSteps
  <2>4. enable' \in [Slot -> BOOLEAN] /\ open' \in [Chan -> BOOLEAN]
    BY <1>1, <2>1 DEF TypeOK
  <2>5. TypeOK'
    BY <1>1, <2>1, <2>2, <2>4, CallKeepsTypes DEF TypeOK
  <2>6. UsedChannelExists'
    BY <1>1, <2>1 DEF IInv, UsedChannelExists, Exists, Used
  <2>7. NoChannelLeaks'
    BY <1>1, <2>1, NoneFailed DEF IInv, NoChannelLeaks, OnChannel, Used
  <2>8. EnabledIsOpen'
    <3>1. SUFFICES ASSUME fails' = 0, NEW g \in Enabled' PROVE open'[hChannel'[g]]
      BY DEF EnabledIsOpen
    <3>2. fails = 0 /\ open' = [open EXCEPT ![hChannel[f]] = TRUE] /\ hChannel' = hChannel
      BY <1>1, <2>1, <3>1, NoneFailed, OneFailed
    <3>3. g \in Used /\ hChannel[g] \in Chan /\ (g = f \/ g \in Enabled)
      BY <1>1, <2>1, <3>1 DEF IInv, UsedChannelExists, Exists, Enabled, Used, TypeOK
    <3> QED BY <2>1, <3>2, <3>3 DEF IInv, EnabledIsOpen, TypeOK
  <2> QED BY <2>3, <2>5, <2>6, <2>7, <2>8 DEF IInv
<1>2. CASE Refused(a, "Start") /\ (Works \/ Fails)
  BY <1>2, RefusedKeeps
<1> QED BY <1>1, <1>2 DEF Start

LEMMA StopKeeps ==
  ASSUME IInv, NEW a \in App, Stop(a)
  PROVE  IInv'
<1> DEFINE f == arg[a].f
           c == hChannel[f]
<1>1. CASE /\ Locks(a, "Stop") /\ live[f] /\ enable[f]
           /\ enable' = [enable EXCEPT ![f] = FALSE]
           /\ timer' = [timer EXCEPT ![f] = 0]
           /\ \/ AnyOn(c, Enabled \ {f}) /\ Works /\ UNCHANGED << open, task >>
              \/ ~AnyOn(c, Enabled \ {f}) /\ Works /\ CloseChannel(c)
              \/ ~AnyOn(c, Enabled \ {f}) /\ Fails /\ UNCHANGED << open, task >>
           /\ UNCHANGED << use, hChannel, crc, live, pid, mode >>
  <2>1. /\ arg[a] \in Args /\ f \in Slot /\ g_bFltInit /\ g_bFltInit' /\ TypeOK /\ (Works \/ Fails)
        /\ task' = task
    BY <1>1, Inside, ArgOf DEF IInv, Locks, initVars, CloseChannel
  <2>2. timer' \in [Slot -> 0 .. Timeout + 4] /\ \A g \in Slot : timer'[g] \in { timer[g], 0 }
    BY <1>1, <2>1 DEF TypeOK
  <2>3. Steps' /\ DataOnlyWhileStarted' /\ ClosedIsEmpty'
    BY <1>1, <2>1, <2>2, CallKeepsSteps
  <2>4. enable' \in [Slot -> BOOLEAN] /\ open' \in [Chan -> BOOLEAN]
    BY <1>1, <2>1 DEF TypeOK, CloseChannel
  <2>5. TypeOK'
    BY <1>1, <2>1, <2>2, <2>4, CallKeepsTypes DEF TypeOK
  <2>6. UsedChannelExists'
    BY <1>1, <2>1 DEF IInv, UsedChannelExists, Exists, Used
  <2>7. NoChannelLeaks'
    BY <1>1, <2>1, NoneFailed DEF IInv, NoChannelLeaks, OnChannel, Used
  <2>8. EnabledIsOpen'
    <3>1. SUFFICES ASSUME fails' = 0, NEW g \in Enabled' PROVE open'[hChannel'[g]]
      BY DEF EnabledIsOpen
    <3>2. fails = 0 /\ hChannel' = hChannel
      BY <1>1, <2>1, <3>1, NoneFailed
    <3>3. g \in Enabled \ {f}
      BY <1>1, <2>1, <3>1 DEF Enabled, TypeOK
    <3>4. hChannel[g] \in Chan /\ open[hChannel[g]]
      BY <2>1, <3>2, <3>3 DEF IInv, EnabledIsOpen, UsedChannelExists, Exists, Enabled, Used
    <3>5. open' = open \/ (hChannel[g] # c /\ open' = [open EXCEPT ![c] = FALSE])
      BY <1>1, <3>3 DEF AnyOn, OnChannel, CloseChannel
    <3> QED BY <2>1, <3>2, <3>4, <3>5 DEF TypeOK
  <2> QED BY <2>3, <2>5, <2>6, <2>7, <2>8 DEF IInv
<1>2. CASE Refused(a, "Stop") /\ (Works \/ Fails)
  BY <1>2, RefusedKeeps
<1> QED BY <1>1, <1>2 DEF Stop

LEMMA SetAttrKeeps ==
  ASSUME IInv, NEW a \in App, SetAttr(a)
  PROVE  IInv'
<1> DEFINE x == arg[a]
           c == hChannel[x.f]
           set == [mode EXCEPT ![c] = ModeSet(x.crc, crc[x.f])]
<1>1. CASE /\ Locks(a, "SetAttr") /\ live[x.f]
           /\ \/ /\ x.crc = crc[x.f] \/ set = mode
                 /\ crc' = [crc EXCEPT ![x.f] = x.crc]
                 /\ Works /\ UNCHANGED << open, mode, task >>
              \/ /\ x.crc # crc[x.f] /\ set # mode
                 /\ UNCHANGED task
                 /\ \/ /\ Works
                       /\ crc' = [crc EXCEPT ![x.f] = x.crc]
                       /\ mode' = set /\ open' = [open EXCEPT ![c] = TRUE]
                    \/ /\ Fails /\ UNCHANGED crc
                       /\ \/ mode' \in {mode, set} /\ open' = [open EXCEPT ![c] = TRUE]
                          \/ mode' = set /\ open' = [open EXCEPT ![c] = FALSE]
           /\ UNCHANGED << use, enable, hChannel, live, timer, pid >>
  <2>1. /\ x \in Args /\ x.f \in Slot /\ x.crc \in Crc /\ g_bFltInit /\ g_bFltInit' /\ TypeOK
        /\ (Works \/ Fails) /\ task' = task
    BY <1>1, Inside, ArgOf DEF IInv, Locks, initVars
  <2>2. Steps' /\ DataOnlyWhileStarted' /\ ClosedIsEmpty'
    BY <1>1, <2>1, CallKeepsSteps
  <2>3. set \in [Chan -> Crc]
    BY <2>1 DEF TypeOK, ModeSet
  <2>4. crc' \in [Slot -> Crc] /\ open' \in [Chan -> BOOLEAN] /\ mode' \in [Chan -> Crc]
    <3> HIDE DEF set
    <3>1. crc' \in [Slot -> Crc]
      BY <1>1, <2>1 DEF TypeOK
    <3>2. open' \in [Chan -> BOOLEAN]
      BY <1>1, <2>1 DEF TypeOK
    <3>3. mode' = mode \/ mode' = set
      BY <1>1
    <3> QED BY <2>1, <2>3, <3>1, <3>2, <3>3 DEF TypeOK
  <2>5. TypeOK'
    BY <1>1, <2>1, <2>4, CallKeepsTypes DEF TypeOK
  <2>6. UsedChannelExists'
    BY <1>1, <2>1 DEF IInv, UsedChannelExists, Exists, Used
  <2>7. NoChannelLeaks'
    BY <1>1, <2>1, NoneFailed DEF IInv, NoChannelLeaks, OnChannel, Used
  <2>8. EnabledIsOpen'
    <3>1. SUFFICES ASSUME fails' = 0, NEW g \in Enabled' PROVE open'[hChannel'[g]]
      BY DEF EnabledIsOpen
    <3>2. fails = 0 /\ hChannel' = hChannel /\ ~ Fails /\ g \in Enabled
      BY <1>1, <2>1, <3>1, NoneFailed DEF Enabled
    <3>3. open[hChannel[g]] /\ hChannel[g] \in Chan
      BY <2>1, <3>2 DEF IInv, EnabledIsOpen, UsedChannelExists, Exists, Enabled, Used
    <3>4. open' = open \/ open' = [open EXCEPT ![c] = TRUE]
      BY <1>1, <3>2
    <3> QED BY <2>1, <3>2, <3>3, <3>4 DEF TypeOK
  <2> QED BY <2>2, <2>5, <2>6, <2>7, <2>8 DEF IInv
<1>2. CASE Refused(a, "SetAttr") /\ (Works \/ Fails)
  BY <1>2, RefusedKeeps
<1> QED BY <1>1, <1>2 DEF SetAttr

LEMMA CallKeeps ==
  ASSUME IInv, NEW a \in App, Call(a)
  PROVE  IInv'
<1>1. PICK x \in Args : arg' = [arg EXCEPT ![a] = x] /\ g_bFltInit = (x.op # "Init")
  BY DEF Call
<1>2. /\ pc[a] = "idle" /\ calls' \in 0 .. MaxCalls /\ TypeOK
      /\ pc' \in [App -> { "idle", "lock", "unlock", "join" }]
      /\ pc'[a] = "lock" /\ \A b \in App \ {a} : pc'[b] = pc[b]
      /\ UNCHANGED << use, enable, hChannel, crc, live, timer, g_bFltInit, g_bFltRunFlag, owner,
                      pid, open, mode, task, tick, fails >>
  BY PlacesKept DEF Call, slotVars, initVars, chanVars, IInv, TypeOK
<1>3. arg' \in [App -> Args \cup {NoArg}] /\ arg'[a] = x /\ \A b \in App \ {a} : arg'[b] = arg[b]
  BY <1>1, <1>2 DEF TypeOK
<1>4. TypeOK'
  BY <1>2, <1>3 DEF TypeOK
<1>5. Steps'
  BY <1>1, <1>2, <1>3 DEF IInv, Steps, Timers, TaskHas, MutexHeld, CallsChecked
<1>6. /\ DataOnlyWhileStarted' /\ UsedChannelExists' /\ ClosedIsEmpty'
      /\ NoChannelLeaks' /\ EnabledIsOpen'
  BY <1>2 DEF IInv, DataOnlyWhileStarted, UsedChannelExists, ClosedIsEmpty, NoChannelLeaks,
              EnabledIsOpen, Enabled, Used, Exists, OnChannel
<1> QED BY <1>4, <1>5, <1>6 DEF IInv

LEMMA UnlockKeeps ==
  ASSUME IInv, NEW a \in App, Unlock(a)
  PROVE  IInv'
<1>1. /\ pc[a] = "unlock" /\ owner' = None /\ TypeOK
      /\ pc' \in [App -> { "idle", "lock", "unlock", "join" }]
      /\ pc'[a] = "idle" /\ \A b \in App \ {a} : pc'[b] = pc[b]
      /\ arg' = [arg EXCEPT ![a] = NoArg]
      /\ UNCHANGED << use, enable, hChannel, crc, live, timer, g_bFltInit, g_bFltRunFlag,
                      pid, open, mode, task, tick, calls, fails >>
  BY PlacesKept DEF Unlock, Unlocked, slotVars, initVars, chanVars, IInv
<1>2. arg' \in [App -> Args \cup {NoArg}] /\ \A b \in App \ {a} : arg'[b] = arg[b]
  BY <1>1 DEF TypeOK
<1>3. TypeOK'
  BY <1>1, <1>2 DEF TypeOK
<1>4. /\ \A b \in App \ {a} : pc[b] \notin { "unlock", "join" }
      /\ task.pc # "callback"
  BY <1>1 DEF IInv, Steps, MutexHeld, FilterAssumption
<1>5. Steps'
  BY <1>1, <1>2, <1>4 DEF IInv, Steps, Timers, TaskHas, MutexHeld, CallsChecked
<1>6. /\ DataOnlyWhileStarted' /\ UsedChannelExists' /\ ClosedIsEmpty'
      /\ NoChannelLeaks' /\ EnabledIsOpen'
  BY <1>1 DEF IInv, DataOnlyWhileStarted, UsedChannelExists, ClosedIsEmpty, NoChannelLeaks,
              EnabledIsOpen, Enabled, Used, Exists, OnChannel
<1> QED BY <1>3, <1>5, <1>6 DEF IInv

LEMMA FilterInitKeeps ==
  ASSUME IInv, NEW a \in App, FilterInit(a)
  PROVE  IInv'
<1>1. /\ pc[a] = "lock" /\ arg[a] \in Args /\ arg[a].op = "Init" /\ owner = None /\ TypeOK
      /\ ~ g_bFltInit /\ task.pc # "callback"
      /\ pc' \in [App -> { "idle", "lock", "unlock", "join" }]
      /\ pc'[a] = "idle" /\ UNCHANGED << pid, open, mode, arg, calls >>
  BY PlacesKept DEF FilterInit, LockFree, chanVars, IInv, Steps, CallsChecked, MutexHeld, Task, None
<1>2. \A b \in App : b = a
  BY <1>1, OneCaller
<1>3. CASE Fails /\ owner' = a /\ UNCHANGED << slotVars, timer, initVars, task, tick >>
  <2>1. /\ UNCHANGED << use, enable, hChannel, crc, live, timer, g_bFltInit, g_bFltRunFlag, task, tick >>
        /\ fails' # 0 /\ fails' \in 0 .. MaxFail
    BY <1>1, <1>3, OneFailed DEF slotVars, initVars, Fails, TypeOK
  <2>2. TypeOK'
    BY <1>1, <1>3, <2>1 DEF TypeOK
  <2>3. Steps'
    BY <1>1, <1>2, <2>1 DEF IInv, Steps, Timers, TaskHas, MutexHeld, CallsChecked
  <2>4. /\ DataOnlyWhileStarted' /\ UsedChannelExists' /\ ClosedIsEmpty'
        /\ NoChannelLeaks' /\ EnabledIsOpen'
    BY <1>1, <2>1 DEF DataOnlyWhileStarted, UsedChannelExists, ClosedIsEmpty, NoChannelLeaks, EnabledIsOpen
  <2> QED BY <2>2, <2>3, <2>4 DEF IInv
<1>4. CASE /\ Works /\ UNCHANGED << owner, crc >>
           /\ use' = [f \in Slot |-> FALSE] /\ enable' = [f \in Slot |-> FALSE]
           /\ hChannel' = [f \in Slot |-> None] /\ live' = [f \in Slot |-> FALSE]
           /\ timer' = [f \in Slot |-> 0]
           /\ g_bFltInit' = TRUE /\ g_bFltRunFlag' = TRUE
           /\ task' = IdleTask /\ tick' = IdleTick
  <2>1. TypeOK'
    BY <1>1, <1>4 DEF TypeOK, IdleTask, IdleTick, Works
  <2>2. Steps'
    BY <1>1, <1>2, <1>4 DEF Steps, Timers, TaskHas, MutexHeld, CallsChecked, IdleTask, IdleTick
  <2>3. Used' = {} /\ Enabled' = {}
    BY <1>4 DEF Used, Enabled
  <2>4. /\ DataOnlyWhileStarted' /\ UsedChannelExists' /\ ClosedIsEmpty' /\ EnabledIsOpen'
    BY <1>4, <2>3 DEF DataOnlyWhileStarted, UsedChannelExists, ClosedIsEmpty, EnabledIsOpen, IdleTask
  <2>5. NoChannelLeaks'
    BY <1>1, <1>4 DEF NoChannelLeaks, IInv, ClosedIsEmpty, Works
  <2> QED BY <2>1, <2>2, <2>4, <2>5 DEF IInv
<1> QED BY <1>3, <1>4 DEF FilterInit

LEMMA DeInitKeeps ==
  ASSUME IInv, NEW a \in App, DeInit(a)
  PROVE  IInv'
<1>1. /\ pc[a] = "lock" /\ arg[a] \in Args /\ arg[a].op = "DeInit" /\ owner = None /\ TypeOK
      /\ owner' = a /\ g_bFltRunFlag' = FALSE /\ task.pc # "callback"
      /\ pc' \in [App -> { "idle", "lock", "unlock", "join" }]
      /\ pc'[a] = "join" /\ \A b \in App \ {a} : pc'[b] = pc[b]
      /\ UNCHANGED << use, enable, hChannel, crc, live, timer, g_bFltInit, pid, open, mode,
                      arg, task, tick, calls, fails >>
  BY PlacesKept DEF DeInit, LockFree, slotVars, chanVars, IInv, Steps, CallsChecked, MutexHeld, Task, None
<1>2. \A b \in App : b = a
  BY <1>1, OneCaller
<1>3. TypeOK'
  BY <1>1 DEF TypeOK
<1>4. Steps'
  BY <1>1, <1>2 DEF IInv, Steps, Timers, TaskHas, MutexHeld, CallsChecked
<1>5. /\ DataOnlyWhileStarted' /\ UsedChannelExists' /\ ClosedIsEmpty'
      /\ NoChannelLeaks' /\ EnabledIsOpen'
  BY <1>1 DEF IInv, DataOnlyWhileStarted, UsedChannelExists, ClosedIsEmpty, NoChannelLeaks,
              EnabledIsOpen, Enabled, Used, Exists, OnChannel
<1> QED BY <1>3, <1>4, <1>5 DEF IInv

LEMMA JoinedKeeps ==
  ASSUME IInv, NEW a \in App, Joined(a)
  PROVE  IInv'
<1>1. /\ pc[a] = "join" /\ arg[a] \in Args /\ arg[a].op = "DeInit" /\ owner = a /\ TypeOK
      /\ task.pc = "done"
      /\ UNCHANGED << use, enable, hChannel, crc, timer, g_bFltRunFlag, owner, mode, arg, task, tick, calls >>
  BY DEF Joined, IInv, Steps, CallsChecked, MutexHeld
<1>2. \A b \in App : b = a
  BY <1>1, OneCaller
<1>3. CASE Fails /\ GoTo(a, "idle") /\ UNCHANGED << live, g_bFltInit, pid, open >>
  <2>1. /\ pc' \in [App -> { "idle", "lock", "unlock", "join" }] /\ pc'[a] = "idle"
        /\ fails' # 0 /\ fails' \in 0 .. MaxFail
    BY <1>1, <1>3, PlacesKept, OneFailed DEF Fails, TypeOK
  <2>2. TypeOK'
    BY <1>1, <1>3, <2>1 DEF TypeOK
  <2>3. Steps'
    BY <1>1, <1>2, <2>1 DEF IInv, Steps, Timers, TaskHas, MutexHeld, CallsChecked
  <2>4. DataOnlyWhileStarted' /\ ClosedIsEmpty' /\ NoChannelLeaks' /\ EnabledIsOpen'
    BY <1>1, <2>1 DEF DataOnlyWhileStarted, ClosedIsEmpty, NoChannelLeaks, EnabledIsOpen
  <2>5. UsedChannelExists'
    BY <1>1, <1>3 DEF IInv, UsedChannelExists, Used, Exists
  <2> QED BY <2>2, <2>3, <2>4, <2>5 DEF IInv
<1>4. CASE /\ Works /\ GoTo(a, "unlock")
           /\ pid' = [c \in Chan |-> None] /\ open' = [c \in Chan |-> FALSE]
           /\ live' = [f \in Slot |-> FALSE]
           /\ g_bFltInit' = FALSE
  <2>1. pc' \in [App -> { "idle", "lock", "unlock", "join" }] /\ pc'[a] = "unlock"
    BY <1>1, <1>4, PlacesKept
  <2>2. TypeOK'
    BY <1>1, <1>4, <2>1 DEF TypeOK, Works
  <2>3. Steps'
    BY <1>1, <1>2, <2>1 DEF IInv, Steps, Timers, TaskHas, MutexHeld, CallsChecked
  <2>4. /\ DataOnlyWhileStarted' /\ UsedChannelExists' /\ ClosedIsEmpty'
        /\ NoChannelLeaks' /\ EnabledIsOpen'
    BY <1>1, <1>4 DEF DataOnlyWhileStarted, UsedChannelExists, ClosedIsEmpty, NoChannelLeaks, EnabledIsOpen
  <2> QED BY <2>2, <2>3, <2>4 DEF IInv
<1> QED BY <1>3, <1>4 DEF Joined

-----------------------------------------------------------------------------
(* The tasks.                                                                *)

LEMMA FltTaskKeeps ==
  ASSUME IInv, FltTask
  PROVE  IInv'
<1>1. /\ UNCHANGED << use, enable, hChannel, crc, live, g_bFltInit, g_bFltRunFlag, pid, open, mode,
                      pc, arg, tick, calls, fails >> /\ TypeOK
  BY DEF FltTask, TaskWait, TaskNext, TaskAcquire, TaskAttr, TaskDeliver, TaskDelivered, TaskRelease,
         TaskKeeps, initVars, chanVars, IInv
<1>2. /\ UsedChannelExists' /\ ClosedIsEmpty' /\ NoChannelLeaks' /\ EnabledIsOpen' /\ CallsChecked'
  BY <1>1 DEF IInv, Steps, UsedChannelExists, ClosedIsEmpty, NoChannelLeaks, EnabledIsOpen, CallsChecked,
              Enabled, Used, Exists, OnChannel
<1>3. ASSUME /\ task' \in [ pc : { "wait", "next", "acquire", "attr", "lock", "callback", "release", "done" },
                             todo : SUBSET Chan, chan : Chan \cup {None},
                             left : 0 .. MaxMsg, f : Slot \cup {None} ],
             timer' \in [Slot -> 0 .. Timeout + 4], \A f \in Slot : timer'[f] \in { timer[f], 0 },
             owner' \in { owner, None, Task }, owner' # owner => owner \in { None, Task },
             TaskHas', task'.pc = "callback" => owner' = Task, DataOnlyWhileStarted'
      PROVE  IInv'
  <2>1. TypeOK'
    BY <1>1, <1>3 DEF TypeOK
  <2>2. Timers'
    BY <1>1, <1>3 DEF IInv, Steps, Timers
  <2>3. MutexHeld'
    BY <1>1, <1>3 DEF IInv, Steps, MutexHeld, FilterAssumption
  <2> QED BY <1>2, <1>3, <2>1, <2>2, <2>3 DEF IInv, Steps
<1>quiet. ASSUME UNCHANGED << timer, owner >>, TaskHas', task'.pc # "callback",
              task' \in [ pc : { "wait", "next", "acquire", "attr", "lock", "callback", "release", "done" },
                          todo : SUBSET Chan, chan : Chan \cup {None},
                          left : 0 .. MaxMsg, f : Slot \cup {None} ]
       PROVE  IInv'
  <2>1. DataOnlyWhileStarted'
    BY <1>quiet DEF DataOnlyWhileStarted
  <2>2. timer' \in [Slot -> 0 .. Timeout + 4] /\ \A f \in Slot : timer'[f] \in { timer[f], 0 }
    BY <1>1, <1>quiet DEF TypeOK
  <2> QED BY <1>3, <1>quiet, <2>1, <2>2
<1>4. CASE TaskWait
  <2>1. CASE task' = [task EXCEPT !.pc = "done"]
    BY <1>1, <1>quiet, <1>4, <2>1 DEF TaskWait, TypeOK, TaskHas
  <2>2. ASSUME NEW s \in SUBSET Chan, task' = [task EXCEPT !.pc = "next", !.todo = s]
        PROVE  IInv'
    BY <1>1, <1>quiet, <1>4, <2>2 DEF TaskWait, TypeOK, TaskHas
  <2>3. \/ task' = [task EXCEPT !.pc = "done"]
        \/ \E s \in SUBSET Chan : task' = [task EXCEPT !.pc = "next", !.todo = s]
    BY <1>4 DEF TaskWait
  <2> QED BY <2>1, <2>2, <2>3
<1>5. CASE TaskNext
  <2>1. CASE task' = [task EXCEPT !.pc = "wait"]
    BY <1>1, <1>quiet, <1>5, <2>1 DEF TaskNext, TypeOK, TaskHas
  <2>2. ASSUME NEW c \in task.todo,
               task' = [task EXCEPT !.todo = @ \ {c}, !.chan = c,
                                    !.pc = IF open[c] THEN "acquire" ELSE "next"]
        PROVE  IInv'
    <3>1. c \in Chan
      BY <1>1, <2>2 DEF TypeOK
    <3> QED BY <1>1, <1>quiet, <1>5, <2>2, <3>1 DEF TaskNext, TypeOK, TaskHas
  <2> QED BY <1>5, <2>1, <2>2 DEF TaskNext
<1>6. CASE TaskAcquire
  <2>1. CASE task' = [task EXCEPT !.pc = "next"]
    BY <1>1, <1>quiet, <1>6, <2>1 DEF TaskAcquire, TypeOK, TaskHas
  <2>2. ASSUME NEW n \in 1 .. MaxMsg, task' = [task EXCEPT !.pc = "attr", !.left = n]
        PROVE  IInv'
    <3>0. n \in 0 .. MaxMsg
      BY <2>2
    <3>1. task.chan \in Chan
      BY <1>6 DEF TaskAcquire, IInv, Steps, TaskHas
    <3>2. task' \in [ pc : { "wait", "next", "acquire", "attr", "lock", "callback", "release", "done" },
                      todo : SUBSET Chan, chan : Chan \cup {None},
                      left : 0 .. MaxMsg, f : Slot \cup {None} ]
      BY <1>1, <2>2, <3>0 DEF TypeOK
    <3>3. TaskHas' /\ task'.pc # "callback"
      BY <1>1, <2>2, <3>1 DEF TypeOK, TaskHas
    <3>4. UNCHANGED << timer, owner >>
      BY <1>6 DEF TaskAcquire
    <3> QED BY <1>quiet, <3>2, <3>3, <3>4
  <2> QED BY <1>6, <2>1, <2>2 DEF TaskAcquire
<1>7. CASE TaskAttr
  BY <1>1, <1>quiet, <1>7 DEF TaskAttr, TypeOK, TaskHas, IInv, Steps
<1>8. CASE TaskDeliver
  <2>1. task.pc = "lock" /\ owner = None /\ task.chan \in Chan /\ task.left > 0
    BY <1>8 DEF TaskDeliver, LockFree, IInv, Steps, TaskHas
  <2>2. CASE task' = [task EXCEPT !.pc = "release"] /\ UNCHANGED << timer, owner >>
    BY <1>1, <1>3, <2>1, <2>2 DEF TypeOK, TaskHas, DataOnlyWhileStarted
  <2>3. CASE owner' = Task /\ task' = [task EXCEPT !.pc = "callback", !.f = None] /\ UNCHANGED timer
    BY <1>1, <1>3, <2>1, <2>3 DEF TypeOK, TaskHas, DataOnlyWhileStarted
  <2>4. CASE /\ owner' = Task
             /\ \E f \in OnChannel(task.chan, Enabled) :
                  /\ task' = [task EXCEPT !.pc = "callback", !.f = f]
                  /\ timer' = [timer EXCEPT ![f] = 0]
    <3>1. PICK f \in Slot : /\ f \in Enabled /\ hChannel[f] = task.chan
                            /\ task' = [task EXCEPT !.pc = "callback", !.f = f]
                            /\ timer' = [timer EXCEPT ![f] = 0]
      BY <2>4 DEF OnChannel, Enabled
    <3>2. DataOnlyWhileStarted'
      BY <1>1, <3>1 DEF DataOnlyWhileStarted, Enabled, TypeOK
    <3>3. timer' \in [Slot -> 0 .. Timeout + 4] /\ \A g \in Slot : timer'[g] \in { timer[g], 0 }
      BY <1>1, <3>1 DEF TypeOK
    <3>4. TaskHas'
      BY <1>1, <2>1, <3>1 DEF TypeOK, TaskHas
    <3>5. task' \in [ pc : { "wait", "next", "acquire", "attr", "lock", "callback", "release", "done" },
                      todo : SUBSET Chan, chan : Chan \cup {None},
                      left : 0 .. MaxMsg, f : Slot \cup {None} ]
      BY <1>1, <3>1 DEF TypeOK
    <3> QED BY <1>3, <2>1, <2>4, <3>2, <3>3, <3>4, <3>5
  <2> QED BY <1>8, <2>2, <2>3, <2>4 DEF TaskDeliver
<1>9. CASE TaskDelivered
  <2>1. /\ task.pc = "callback" /\ owner = Task /\ task.left > 0 /\ task.chan \in Chan
        /\ owner' = None /\ UNCHANGED timer
        /\ task' = [task EXCEPT !.left = @ - 1, !.f = None,
                                !.pc = IF task.left = 1 THEN "release" ELSE "lock"]
    BY <1>9 DEF TaskDelivered, IInv, Steps, MutexHeld, TaskHas
  <2>2. task.left - 1 \in 0 .. MaxMsg /\ (task.left # 1 => task.left - 1 > 0)
    BY <1>1, <2>1 DEF TypeOK
  <2>3. TaskHas' /\ task'.pc # "callback"
    BY <1>1, <2>1, <2>2 DEF TypeOK, TaskHas
  <2> QED BY <1>1, <1>3, <2>1, <2>2, <2>3 DEF TypeOK, DataOnlyWhileStarted
<1>10. CASE TaskRelease
  <2>1. task' = [task EXCEPT !.pc = "next", !.left = 0] /\ UNCHANGED << timer, owner >>
    BY <1>10 DEF TaskRelease
  <2>0. 0 \in 0 .. MaxMsg
    OBVIOUS
  <2>2. task' \in [ pc : { "wait", "next", "acquire", "attr", "lock", "callback", "release", "done" },
                    todo : SUBSET Chan, chan : Chan \cup {None},
                    left : 0 .. MaxMsg, f : Slot \cup {None} ]
    BY <1>1, <2>1, <2>0 DEF TypeOK
  <2>3. TaskHas' /\ task'.pc # "callback"
    BY <1>1, <2>1 DEF TypeOK, TaskHas
  <2> QED BY <1>quiet, <2>1, <2>2, <2>3
<1> QED BY <1>4, <1>5, <1>6, <1>7, <1>8, <1>9, <1>10 DEF FltTask

LEMMA TimerTaskKeeps ==
  ASSUME IInv, TimerTask
  PROVE  IInv'
<1>1. /\ UNCHANGED << use, enable, hChannel, crc, live, g_bFltInit, g_bFltRunFlag, owner, pid, open, mode,
                      pc, arg, task, calls, fails >> /\ TypeOK /\ Timers
  BY DEF TimerTask, TickSleep, TickLook, TickCount, TickFire, TickKeeps, slotVars, initVars, chanVars,
         IInv, Steps
<1>2. /\ UsedChannelExists' /\ ClosedIsEmpty' /\ NoChannelLeaks' /\ EnabledIsOpen' /\ CallsChecked'
      /\ DataOnlyWhileStarted' /\ MutexHeld' /\ TaskHas'
  BY <1>1 DEF IInv, Steps, UsedChannelExists, ClosedIsEmpty, NoChannelLeaks, EnabledIsOpen, CallsChecked,
              Enabled, Used, Exists, OnChannel, DataOnlyWhileStarted, MutexHeld, TaskHas
<1>3. ASSUME /\ tick' \in [ pc : { "sleep", "look", "count", "fire", "done" }, todo : SUBSET Slot,
                             f : Slot \cup {None}, count : 0 .. Timeout + 9 ],
             timer' \in [Slot -> 0 .. Timeout + 4], Timers'
      PROVE  IInv'
  <2>1. TypeOK'
    BY <1>1, <1>3 DEF TypeOK
  <2> QED BY <1>2, <1>3, <2>1 DEF IInv, Steps
<1>4. CASE TickSleep
  BY <1>1, <1>3, <1>4 DEF TickSleep, TypeOK, Timers
<1>5. CASE TickLook
  <2>1. CASE tick.todo = {} /\ tick' = [tick EXCEPT !.pc = "sleep"]
    BY <1>1, <1>3, <1>5, <2>1 DEF TickLook, TypeOK, Timers
  <2>2. ASSUME NEW f \in tick.todo, Watched(f),
               tick' = [tick EXCEPT !.pc = "count", !.f = f, !.count = timer[f] + 5]
        PROVE  IInv'
    <3>0. f \in Slot /\ Timeout # 0 /\ tick.pc = "look" /\ timer' = timer
      BY <1>1, <1>5, <2>2 DEF TickLook, Watched, TypeOK
    <3>1. f \in Slot /\ Timeout > 0 /\ timer[f] < Timeout /\ timer[f] \in Nat /\ timer' = timer
      BY <1>1, <3>0 DEF Timers, TypeOK
    <3>2. timer[f] + 5 \in 0 .. Timeout + 4 /\ timer[f] + 5 \in 0 .. Timeout + 9
      BY <3>1
    <3>3. Timers'
      BY <1>1, <1>5, <2>2, <3>1, <3>2 DEF TickLook, TypeOK, Timers
    <3> QED BY <1>1, <1>3, <2>2, <3>1, <3>2, <3>3 DEF TypeOK
  <2>3. ASSUME NEW f \in tick.todo, tick' = [tick EXCEPT !.todo = @ \ {f}]
        PROVE  IInv'
    BY <1>1, <1>3, <1>5, <2>3 DEF TickLook, TypeOK, Timers
  <2> QED BY <1>5, <2>1, <2>2, <2>3 DEF TickLook
<1>6. CASE TickCount
  <2>1. /\ tick.pc = "count" /\ tick.count \in 0 .. Timeout + 4 /\ tick.f \in Slot
        /\ timer' = [timer EXCEPT ![tick.f] = tick.count]
        /\ tick' = IF tick.count >= Timeout THEN [tick EXCEPT !.pc = "fire"] ELSE NextSlot
    BY <1>1, <1>6 DEF TickCount, Timers, Due
  <2>2. \A f \in Slot : timer[f] = 0 \/ timer[f] < Timeout
    BY <1>1, <2>1 DEF Timers
  <2>3. timer' \in [Slot -> 0 .. Timeout + 4] /\ timer'[tick.f] = tick.count
        /\ \A f \in Slot \ {tick.f} : timer'[f] = timer[f]
    BY <1>1, <2>1 DEF TypeOK
  <2>4. Timers'
    BY <1>1, <2>1, <2>2, <2>3 DEF Timers, NextSlot, TypeOK
  <2> QED BY <1>1, <1>3, <2>1, <2>3, <2>4 DEF TypeOK, NextSlot
<1>7. CASE TickFire
  <2>1. tick.f \in Slot /\ timer' = [timer EXCEPT ![tick.f] = 0]
        /\ tick' = [tick EXCEPT !.pc = "look", !.todo = @ \ {tick.f}]
    BY <1>1, <1>7 DEF TickFire, Timers, NextSlot
  <2>2. /\ timer' \in [Slot -> 0 .. Timeout + 4] /\ timer'[tick.f] = 0
        /\ \A f \in Slot \ {tick.f} : timer'[f] = timer[f]
    BY <1>1, <2>1 DEF TypeOK
  <2>3. Timers'
    BY <1>1, <2>1, <2>2 DEF Timers, TypeOK
  <2> QED BY <1>1, <1>3, <2>1, <2>2, <2>3 DEF TypeOK
<1> QED BY <1>4, <1>5, <1>6, <1>7 DEF TimerTask

-----------------------------------------------------------------------------
LEMMA InitHolds == Init => IInv
<1> SUFFICES ASSUME Init PROVE IInv
  OBVIOUS
<1>1. TypeOK
  BY DEF Init, TypeOK, IdleTask, IdleTick
<1>2. Steps
  BY DEF Init, Steps, Timers, TaskHas, MutexHeld, CallsChecked, IdleTask, IdleTick
<1>3. DataOnlyWhileStarted /\ UsedChannelExists /\ ClosedIsEmpty /\ NoChannelLeaks /\ EnabledIsOpen
  BY DEF Init, DataOnlyWhileStarted, UsedChannelExists, ClosedIsEmpty, NoChannelLeaks, EnabledIsOpen,
         Used, Enabled, IdleTask
<1> QED BY <1>1, <1>2, <1>3 DEF IInv

LEMMA NextKeeps == IInv /\ [Next]_vars => IInv'
<1> SUFFICES ASSUME IInv, [Next]_vars PROVE IInv'
  OBVIOUS
<1>1. ASSUME NEW a \in App, Call(a) \/ Work(a) \/ Joined(a) \/ Unlock(a) PROVE IInv'
  BY <1>1, CallKeeps, CreatKeeps, DestroyKeeps, SetAttrKeeps, StartKeeps, StopKeeps, FilterInitKeeps,
     DeInitKeeps, JoinedKeeps, UnlockKeeps DEF Work
<1>2. CASE UNCHANGED vars
  BY <1>2 DEF vars, slotVars, initVars, chanVars, IInv, TypeOK, Steps, Timers, TaskHas, MutexHeld,
              CallsChecked, DataOnlyWhileStarted, UsedChannelExists, ClosedIsEmpty, NoChannelLeaks,
              EnabledIsOpen, Enabled, Used, Exists, OnChannel
<1> QED BY <1>1, <1>2, FltTaskKeeps, TimerTaskKeeps DEF Next

(* The invariant holds after every step of the applications and the tasks.   *)
THEOREM Invariance == Spec => []IInv
  BY InitHolds, NextKeeps, PTL DEF Spec

(* All variables keep their types, and the sum of the timer stops within one *)
(* step of the time-out (hi_filter.c:204-222).                               *)
THEOREM FilterTypes == Spec => []TypeOK
  BY Invariance, PTL DEF IInv

(* No filter that was stopped or destroyed is called back with data, however *)
(* long flt_task has had the data.                                           *)
THEOREM DataForStartedOnly == Spec => []DataOnlyWhileStarted
  BY Invariance, PTL DEF IInv

(* The channel of a filter in use exists, whichever other filter of the      *)
(* channel is destroyed and whatever calls of the demux fail.                *)
THEOREM ChannelsShared == Spec => []UsedChannelExists
  BY Invariance, PTL DEF IInv

(* Without a failure of the demux each channel belongs to a filter in use.   *)
THEOREM ChannelsFreed == Spec => []NoChannelLeaks
  BY Invariance, PTL DEF IInv

(* Without a failure of the demux an enabled filter has its channel open.    *)
THEOREM ChannelsOpen == Spec => []EnabledIsOpen
  BY Invariance, PTL DEF IInv

=============================================================================
