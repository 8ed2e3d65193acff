----------------------------- MODULE DmxFilter ------------------------------
(***************************************************************************)
(* The demux filter manager all the samples are linked with                 *)
(* (common/hi_filter.c).  Applications create, start, stop and destroy      *)
(* filters; flt_task takes the data of the channels and calls the filters    *)
(* back under g_FltMutex; dmx_timer_task, which does not take the mutex,     *)
(* calls back the filters that have had no data for a while.  Filters of one *)
(* PID share a channel, which is created for the first of them, opened for   *)
(* the first that starts, closed after the last that stops and destroyed     *)
(* with the last.                                                           *)
(*                                                                          *)
(* Abstraction.  One demux, section filters only; the match of the data with *)
(* a filter is any of the filters that could get it, and a new filter takes  *)
(* any free entry.  The functions of the demux library (hi_unf_dmx) are       *)
(* external: a channel exists while it has a PID, and what                    *)
(* was acquired from a channel is stale once that channel is closed.  A call *)
(* of it fails when its handle is not live, and else at most MaxFail times.  *)
(* Times are in units of 10 ms.                                              *)
(***************************************************************************)
EXTENDS Integers, FiniteSets

CONSTANTS
  App,            \* threads of the application
  Slot,           \* entries of g_FltAttrArr, the filter ids
  Chan,           \* channels of the demux
  Pid,            \* PIDs filters are created for
  Crc,            \* values of u32CrcFlag
  Op,             \* functions the application calls
  Timeout,        \* u32TimeOutMs of every filter, 0: none
  MaxMsg,         \* bound: messages acquired at once
  MaxCalls,       \* bound: calls of the application
  MaxFail         \* bound: failures of the demux library

None == "none"      \* HI_INVALID_HANDLE, nobody
Task == "flt_task"

ASSUME FilterAssumption ==
  /\ None \notin Slot \cup Chan \cup Pid \cup App \cup {Task} /\ Task \notin App
  /\ Op \subseteq { "Creat", "Destroy", "SetAttr", "Start", "Stop", "Init", "DeInit" }
  /\ Crc # {} /\ Timeout \in Nat /\ MaxMsg \in Nat \ {0}
  /\ MaxCalls \in Nat /\ MaxFail \in Nat
  (* HI_FILTER_Init and HI_FILTER_DeInit are left to one thread.              *)
  /\ Op \cap { "Init", "DeInit" } # {} => \E a \in App : App = {a}

VARIABLES
  use, enable, hChannel, crc, timer,   \* g_FltAttrArr
  live,                       \* hFilter is a filter of the demux
  g_bFltInit, g_bFltRunFlag,
  owner,                      \* who holds g_FltMutex
  pid, open, mode,            \* external: the channels of the demux
  pc, arg,                    \* the call an application thread is in
  task,                       \* local variables of flt_task
  tick,                       \* local variables of dmx_timer_task
  calls, fails

slotVars  == << use, enable, hChannel, crc, live >>
initVars  == << g_bFltInit, g_bFltRunFlag >>
chanVars  == << pid, open, mode >>
vars == << slotVars, timer, initVars, owner, chanVars, pc, arg, task, tick, calls, fails >>

Exists(c) == c \in Chan /\ pid[c] # None
Args == [ op : Op \cap {"Creat"}, pid : Pid, crc : Crc ]
  \cup [ op : Op \cap {"SetAttr"}, f : Slot, crc : Crc ]
  \cup [ op : Op \cap {"Destroy", "Start", "Stop"}, f : Slot ]
  \cup [ op : Op \cap {"Init", "DeInit"} ]
NoArg == [ op |-> None ]
IdleTask == [ pc |-> "wait", todo |-> {}, chan |-> None, left |-> 0, f |-> None ]
IdleTick == [ pc |-> "sleep", todo |-> {}, f |-> None, count |-> 0 ]

GoTo(a, l) == pc' = [pc EXCEPT ![a] = l]
Works == UNCHANGED fails
Fails == fails < MaxFail /\ fails' = fails + 1

(* GetChnFltNum and GetChnEnFltNum                                           *)
OnChannel(c, s) == { f \in s : hChannel[f] = c }
CountsNobody(c, s) == FALSE    \* mutant: the other filters are not counted
CountsAll(c, s) == TRUE        \* mutant: the channel is always in use
AnyOn(c, s) == OnChannel(c, s) # {}
Used == { f \in Slot : use[f] }
Enabled == { f \in Slot : use[f] /\ enable[f] }

(* Closing a channel does not reach flt_task, which may hold data of it.      *)
CloseChannel(c) == open' = [open EXCEPT ![c] = FALSE] /\ UNCHANGED task
DestroyChannel(c) == CloseChannel(c) /\ pid' = [pid EXCEPT ![c] = None]

-----------------------------------------------------------------------------
(* The application's calls.  A call checks g_bFltInit, waits for the mutex,   *)
(* does its work and gives the mutex back.                                    *)

Call(a) ==
  /\ pc[a] = "idle" /\ calls < MaxCalls
  /\ calls' = calls + 1
  /\ \E x \in Args :
       /\ arg' = [arg EXCEPT ![a] = x]
       /\ g_bFltInit = (x.op # "Init")
  /\ GoTo(a, "lock")
  /\ UNCHANGED << slotVars, timer, initVars, owner, chanVars, task, tick, fails >>

LockIgnored(t) == TRUE      \* mutant: the function does not lock
LockFree(t) == owner = None

Locks(a, op) ==
  /\ pc[a] = "lock" /\ arg[a].op = op
  /\ LockFree(a)
  /\ owner' = a
  /\ GoTo(a, "unlock")
  /\ UNCHANGED << initVars, arg, tick, calls >>

(* A call that changes nothing: there is nothing to do, a handle is not live, *)
(* or the first call of the demux library fails.                              *)
Refused(a, op) ==
  /\ Locks(a, op)
  /\ UNCHANGED << slotVars, timer, chanVars, task >>

KeepsLock(a) == owner   \* mutant: a path that returns with the mutex held
Unlocked(a) == None
Unlock(a) ==
  /\ pc[a] = "unlock"
  /\ owner' = Unlocked(a)
  /\ GoTo(a, "idle") /\ arg' = [arg EXCEPT ![a] = NoArg]
  /\ UNCHANGED << slotVars, timer, initVars, chanVars, task, tick, calls, fails >>

(* HI_FILTER_Creat: the filter joins the channel of its PID, or a new one.    *)
(* What was made for a filter that fails later is destroyed again.            *)
Creat(a) ==
  LET x == arg[a]
      own == { c \in Chan : pid[c] = x.pid }
      free == { c \in Chan : pid[c] = None }
  IN  \/ /\ Locks(a, "Creat")
         /\ \E f \in Slot \ Used, c \in IF own # {} THEN own ELSE free :
              /\ pid' = [pid EXCEPT ![c] = x.pid]
              /\ mode' = IF own # {} THEN mode ELSE [mode EXCEPT ![c] = x.crc]
              /\ hChannel' = [hChannel EXCEPT ![f] = c]
              /\ use' = [use EXCEPT ![f] = TRUE] /\ enable' = [enable EXCEPT ![f] = FALSE]
              /\ crc' = [crc EXCEPT ![f] = x.crc] /\ live' = [live EXCEPT ![f] = TRUE]
              /\ timer' = [timer EXCEPT ![f] = 0]
         /\ Works /\ UNCHANGED << open, task >>
      \/ Refused(a, "Creat") /\ IF Used = Slot \/ own \cup free = {} THEN Works ELSE Fails

(* HI_FILTER_Destroy.  After a failure what was done before it stays done.    *)
Destroy(a) ==
  LET f == arg[a].f
      c == hChannel[f]
      gone == /\ use' = [use EXCEPT ![f] = FALSE] /\ live' = [live EXCEPT ![f] = FALSE]
      forgotten == /\ hChannel' = [hChannel EXCEPT ![f] = None]
                   /\ timer' = [timer EXCEPT ![f] = 0]
      last == ~AnyOn(c, Used \ {f})
  IN  \/ /\ Locks(a, "Destroy") /\ live[f]
         /\ enable' = [enable EXCEPT ![f] = FALSE]
         /\ \/ Fails /\ UNCHANGED << use, live, hChannel, timer, pid, open, task >>
            \/ gone /\ ~last /\ forgotten /\ Works /\ UNCHANGED << pid, open, task >>
            \/ gone /\ last /\ forgotten /\ Works /\ DestroyChannel(c)
            \/ gone /\ last /\ Fails /\ UNCHANGED << hChannel, timer, pid, open, task >>
         /\ UNCHANGED << crc, mode >>
      \/ Refused(a, "Destroy") /\ IF live[f] THEN enable[f] /\ Fails ELSE Works

(* HI_FILTER_Start                                                            *)
Start(a) ==
  LET f == arg[a].f
  IN  \/ /\ Locks(a, "Start") /\ live[f] /\ ~enable[f]
         /\ enable' = [enable EXCEPT ![f] = TRUE]
         /\ timer' = [timer EXCEPT ![f] = 0]
         /\ \/ Works /\ open' = [open EXCEPT ![hChannel[f]] = TRUE]
            \/ Fails /\ UNCHANGED open   \* the status, or hi_unf_dmx_open_play_chan
         /\ UNCHANGED << use, hChannel, crc, live, pid, mode, task >>
      \/ Refused(a, "Start") /\ IF live[f] /\ ~enable[f] THEN Fails ELSE Works

(* HI_FILTER_Stop                                                             *)
Stop(a) ==
  LET f == arg[a].f
      c == hChannel[f]
  IN  \/ /\ Locks(a, "Stop") /\ live[f] /\ enable[f]
         /\ enable' = [enable EXCEPT ![f] = FALSE]
         /\ timer' = [timer EXCEPT ![f] = 0]
         /\ \/ AnyOn(c, Enabled \ {f}) /\ Works /\ UNCHANGED << open, task >>
            \/ ~AnyOn(c, Enabled \ {f}) /\ Works /\ CloseChannel(c)
            \/ ~AnyOn(c, Enabled \ {f}) /\ Fails /\ UNCHANGED << open, task >>
         /\ UNCHANGED << use, hChannel, crc, live, pid, mode >>
      \/ Refused(a, "Stop") /\ IF live[f] /\ enable[f] THEN Fails ELSE Works

(* HI_FILTER_SetAttr.  When the CRC flag changes and the mode of the channel  *)
(* is not the one of the flag the filter has had, the channel is closed, set  *)
(* to that mode and opened; when one of the three fails, the flag stays.      *)
ModeSet(new, old) == old
SetAttr(a) ==
  LET x == arg[a]
      c == hChannel[x.f]
      set == [mode EXCEPT ![c] = ModeSet(x.crc, crc[x.f])]
  IN  \/ /\ Locks(a, "SetAttr") /\ live[x.f]
         /\ \/ /\ x.crc = crc[x.f] \/ set = mode
               /\ crc' = [crc EXCEPT ![x.f] = x.crc]
               /\ Works /\ UNCHANGED << open, mode, task >>
            \/ /\ x.crc # crc[x.f] /\ set # mode
               /\ UNCHANGED task
               /\ \/ /\ Works
                     /\ crc' = [crc EXCEPT ![x.f] = x.crc]
                     /\ mode' = set /\ open' = [open EXCEPT ![c] = TRUE]
                  \/ /\ Fails /\ UNCHANGED crc
                     /\ \/ mode' \in {mode, set} /\ open' = [open EXCEPT ![c] = TRUE]
                        \/ mode' = set /\ open' = [open EXCEPT ![c] = FALSE]
         /\ UNCHANGED << use, enable, hChannel, live, timer, pid >>
      \/ Refused(a, "SetAttr") /\ IF live[x.f] THEN Fails ELSE Works

(* HI_FILTER_Init, whose mutex and threads are new ones.  When the demux      *)
(* cannot be initialised it returns with the mutex locked.                    *)
FilterInit(a) ==
  /\ pc[a] = "lock" /\ arg[a].op = "Init" /\ LockFree(a)
  /\ GoTo(a, "idle")
  /\ \/ /\ Fails /\ owner' = a
        /\ UNCHANGED << slotVars, timer, initVars, task, tick >>
     \/ /\ Works /\ UNCHANGED << owner, crc >>
        /\ use' = [f \in Slot |-> FALSE] /\ enable' = [f \in Slot |-> FALSE]
        /\ hChannel' = [f \in Slot |-> None] /\ live' = [f \in Slot |-> FALSE]
        /\ timer' = [f \in Slot |-> 0]
        /\ g_bFltInit' = TRUE /\ g_bFltRunFlag' = TRUE
        /\ task' = IdleTask /\ tick' = IdleTick
  /\ UNCHANGED << chanVars, arg, calls >>

(* HI_FILTER_DeInit: the tasks are asked to end and joined with the mutex     *)
(* held.                                                                      *)
DeInit(a) ==
  /\ pc[a] = "lock" /\ arg[a].op = "DeInit" /\ LockFree(a)
  /\ owner' = a
  /\ g_bFltRunFlag' = FALSE
  /\ GoTo(a, "join")
  /\ UNCHANGED << slotVars, timer, g_bFltInit, chanVars, arg, task, tick, calls, fails >>

Joined(a) ==
  /\ pc[a] = "join" /\ task.pc = "done" /\ tick.pc = "done"
  /\ \/ /\ Fails /\ GoTo(a, "idle")   \* the mutex stays locked
        /\ UNCHANGED << live, g_bFltInit, pid, open >>
     \/ /\ Works /\ GoTo(a, "unlock")
        /\ pid' = [c \in Chan |-> None] /\ open' = [c \in Chan |-> FALSE]
        /\ live' = [f \in Slot |-> FALSE]
        /\ g_bFltInit' = FALSE
  /\ UNCHANGED << use, enable, hChannel, crc, timer, g_bFltRunFlag, owner, mode, arg,
                  task, tick, calls >>

-----------------------------------------------------------------------------
(* flt_task                                                                   *)

TaskKeeps == << use, enable, hChannel, crc, live, initVars, chanVars, pc, arg, tick, calls, fails >>

(* The channels that have data, as they are now.                              *)
TaskWait ==
  /\ task.pc = "wait"
  /\ \/ ~g_bFltRunFlag /\ task' = [task EXCEPT !.pc = "done"]
     \/ /\ g_bFltRunFlag
        /\ \E s \in SUBSET { c \in Chan : open[c] } :
             s # {} /\ task' = [task EXCEPT !.pc = "next", !.todo = s]
  /\ UNCHANGED << TaskKeeps, timer, owner >>

(* The next of them, when it is still open.                                   *)
TaskNext ==
  /\ task.pc = "next"
  /\ \/ task.todo = {} /\ task' = [task EXCEPT !.pc = "wait"]
     \/ \E c \in task.todo :
          task' = [task EXCEPT !.todo = @ \ {c}, !.chan = c,
                               !.pc = IF open[c] THEN "acquire" ELSE "next"]
  /\ UNCHANGED << TaskKeeps, timer, owner >>

TaskAcquire ==
  /\ task.pc = "acquire"
  /\ \/ task' = [task EXCEPT !.pc = "next"]
     \/ /\ open[task.chan]
        /\ \E n \in 1 .. MaxMsg :
             task' = [task EXCEPT !.pc = "attr", !.left = n]
  /\ UNCHANGED << TaskKeeps, timer, owner >>

TaskAttr ==
  /\ task.pc = "attr"
  /\ task' = IF Exists(task.chan) THEN [task EXCEPT !.pc = "lock"]
                                  ELSE [task EXCEPT !.pc = "next"]
  /\ UNCHANGED << TaskKeeps, timer, owner >>

(* A message is given to a filter of its channel that is enabled, if one      *)
(* matches.  The mutex is held until the call-back returns.                   *)
TaskDeliver ==
  /\ task.pc = "lock" /\ LockFree(Task)
  /\ \/ /\ ~open[task.chan]
        /\ task' = [task EXCEPT !.pc = "release"]
        /\ UNCHANGED << timer, owner >>
     \/ /\ open[task.chan]
        /\ owner' = Task
        /\ \/ /\ task' = [task EXCEPT !.pc = "callback", !.f = None]
              /\ UNCHANGED timer
           \/ \E f \in OnChannel(task.chan, Enabled) :
                /\ task' = [task EXCEPT !.pc = "callback", !.f = f]
                /\ timer' = [timer EXCEPT ![f] = 0]
  /\ UNCHANGED TaskKeeps

TaskDelivered ==
  /\ task.pc = "callback"
  /\ owner' = None
  /\ task' = [task EXCEPT !.left = @ - 1, !.f = None,
                          !.pc = IF task.left = 1 THEN "release" ELSE "lock"]
  /\ UNCHANGED << TaskKeeps, timer >>

(* The messages are released when the channel is open, else forgotten: when it *)
(* was closed its buffers went with it.                                       *)
TaskRelease ==
  /\ task.pc = "release" /\ LockFree(Task)
  /\ task' = [task EXCEPT !.pc = "next", !.left = 0]
  /\ UNCHANGED << TaskKeeps, timer, owner >>

-----------------------------------------------------------------------------
(* dmx_timer_task: every 40 ms, 50 are added for every filter that is enabled *)

TickKeeps == << slotVars, initVars, owner, chanVars, pc, arg, task, calls, fails >>

RunsOn(flag) == TRUE     \* mutant: the flag is not looked at
Runs(flag) == flag

TickSleep ==
  /\ tick.pc = "sleep"
  /\ tick' = IF Runs(g_bFltRunFlag) THEN [tick EXCEPT !.pc = "look", !.todo = Slot]
                                    ELSE [tick EXCEPT !.pc = "done"]
  /\ UNCHANGED << TickKeeps, timer >>

NextSlot == [tick EXCEPT !.pc = "look", !.todo = @ \ {tick.f}]

WatchedOff(f) == use[f] /\ ~enable[f] /\ Timeout # 0   \* mutant: the flag the other way round
Watched(f) == use[f] /\ enable[f] /\ Timeout # 0

TickLook ==
  /\ tick.pc = "look"
  /\ \/ tick.todo = {} /\ tick' = [tick EXCEPT !.pc = "sleep"]
     \/ \E f \in tick.todo :
          tick' = IF Watched(f)
                    THEN [tick EXCEPT !.pc = "count", !.f = f, !.count = timer[f] + 5]
                    ELSE [tick EXCEPT !.todo = @ \ {f}]
  /\ UNCHANGED << TickKeeps, timer >>

(* The sum that was read without the mutex is written.                        *)
Due(n) == n >= Timeout
TickCount ==
  /\ tick.pc = "count"
  /\ timer' = [timer EXCEPT ![tick.f] = tick.count]
  /\ tick' = IF Due(tick.count) THEN [tick EXCEPT !.pc = "fire"] ELSE NextSlot
  /\ UNCHANGED TickKeeps

(* The filter is called back with HI_FILTER_CALLBACK_TYPE_TIMEOUT.            *)
TickFire ==
  /\ tick.pc = "fire"
  /\ timer' = [timer EXCEPT ![tick.f] = 0]
  /\ tick' = NextSlot
  /\ UNCHANGED TickKeeps
-----------------------------------------------------------------------------
Init ==
  /\ use = [f \in Slot |-> FALSE] /\ enable = [f \in Slot |-> FALSE]
  /\ hChannel = [f \in Slot |-> None] /\ live = [f \in Slot |-> FALSE]
  /\ crc = [f \in Slot |-> CHOOSE x \in Crc : TRUE]
  /\ timer = [f \in Slot |-> 0]
  /\ g_bFltInit = TRUE /\ g_bFltRunFlag = TRUE /\ owner = None
  /\ pid = [c \in Chan |-> None] /\ open = [c \in Chan |-> FALSE]
  /\ mode = [c \in Chan |-> CHOOSE x \in Crc : TRUE]
  /\ pc = [a \in App |-> "idle"] /\ arg = [a \in App |-> NoArg]
  /\ task = IdleTask /\ tick = IdleTick
  /\ calls = 0 /\ fails = 0

Work(a) ==
  \/ Creat(a) \/ Destroy(a) \/ SetAttr(a) \/ Start(a) \/ Stop(a)
  \/ FilterInit(a) \/ DeInit(a)

FltTask ==
  \/ TaskWait \/ TaskNext \/ TaskAcquire \/ TaskAttr
  \/ TaskDeliver \/ TaskDelivered \/ TaskRelease

TimerTask == TickSleep \/ TickLook \/ TickCount \/ TickFire

Next ==
  \/ \E a \in App : Call(a) \/ Work(a) \/ Joined(a) \/ Unlock(a)
  \/ FltTask \/ TimerTask

Spec == Init /\ [][Next]_vars

(* Threads are scheduled, and a mutex that is free again and again is got.    *)
(* The demux may have no data, so that flt_task need not leave its wait until *)
(* it is to end.                                                              *)
Fairness ==
  /\ \A a \in App : SF_vars(Work(a)) /\ WF_vars(Joined(a)) /\ WF_vars(Unlock(a))
  /\ WF_vars(TaskWait /\ ~g_bFltRunFlag)
  /\ WF_vars(TaskNext) /\ WF_vars(TaskAcquire) /\ WF_vars(TaskAttr)
  /\ SF_vars(TaskDeliver) /\ WF_vars(TaskDelivered) /\ SF_vars(TaskRelease)
  /\ WF_vars(TimerTask)

FairSpec == Spec /\ Fairness

-----------------------------------------------------------------------------
(* Properties                                                               *)

(* Handles, flags and the local variables of the tasks keep their types; the  *)
(* sum of the timer stops within one step of the time-out.                    *)
TypeOK ==
  /\ use \in [Slot -> BOOLEAN] /\ enable \in [Slot -> BOOLEAN] /\ live \in [Slot -> BOOLEAN]
  /\ hChannel \in [Slot -> Chan \cup {None}] /\ crc \in [Slot -> Crc]
  /\ timer \in [Slot -> 0 .. Timeout + 4]
  /\ g_bFltInit \in BOOLEAN /\ g_bFltRunFlag \in BOOLEAN
  /\ owner \in App \cup {Task, None}
  /\ pid \in [Chan -> Pid \cup {None}] /\ open \in [Chan -> BOOLEAN] /\ mode \in [Chan -> Crc]
  /\ pc \in [App -> { "idle", "lock", "unlock", "join" }] /\ arg \in [App -> Args \cup {NoArg}]
  /\ task \in [ pc : { "wait", "next", "acquire", "attr", "lock", "callback", "release", "done" },
                todo : SUBSET Chan, chan : Chan \cup {None}, 
                left : 0 .. MaxMsg, f : Slot \cup {None} ]
  /\ tick \in [ pc : { "sleep", "look", "count", "fire", "done" }, todo : SUBSET Slot,
                f : Slot \cup {None}, count : 0 .. Timeout + 9 ]
  /\ calls \in 0 .. MaxCalls /\ fails \in 0 .. MaxFail

(* No data reach a filter that was stopped or destroyed: while a filter is    *)
(* called back with data it is in use and enabled, on the channel the data    *)
(* are from, although flt_task took them from the demux before.               *)
DataOnlyWhileStarted ==
  task.pc = "callback" /\ task.f # None =>
    task.f \in Enabled /\ hChannel[task.f] = task.chan

(* Filters that share a channel do not take it from one another: the channel  *)
(* of a filter in use exists, whichever of them is destroyed, and whatever    *)
(* fails.                                                                     *)
UsedChannelExists == g_bFltInit => \A f \in Used : Exists(hChannel[f])

(* Unless the demux fails, no channel is left behind: each belongs to a filter*)
(* in use.                                                                    *)
NoChannelLeaks == fails = 0 => \A c \in Chan :
  pid[c] # None => OnChannel(c, Used) # {}

(* Unless the demux fails, an enabled filter has its channel open: stopping   *)
(* or destroying another one of the channel, or setting its CRC mode, does    *)
(* not end its data.                                                          *)
EnabledIsOpen == g_bFltInit /\ fails = 0 => \A f \in Enabled : open[hChannel[f]]

(* Every call of the API returns, whatever the tasks are at, unless the manager*)
(* is being closed or a call has left the mutex locked.                       *)
LockLeft == owner \in App /\ pc[owner] = "idle"
CallsReturn == \A a \in App :
  pc[a] = "lock" ~> pc[a] = "idle" \/ ~g_bFltRunFlag \/ LockLeft

(* A filter that stays enabled and gets no data while the manager runs is told*)
(* so, again and again, although the timer task adds without the mutex.       *)
Silent(f) == f \in Enabled /\ g_bFltRunFlag /\ ~(task.pc = "callback" /\ task.f = f)
TimeoutComes == \A f \in Slot :
  <>[]Silent(f) => []<>(tick.pc = "fire" /\ tick.f = f)

(* HI_FILTER_DeInit, which joins the tasks with the mutex held, hangs for one  *)
(* reason only: flt_task waits for that mutex.                                *)
DeInitOnlyHangsOnTask == \A a \in App :
  <>[](pc[a] = "join") => <>[](task.pc \in { "lock", "release" })
=============================================================================
