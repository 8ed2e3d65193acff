# BOH6200 samples: a verification project

TLA+ models of the code in this repository that has state of its own and
concurrency, protocols or arithmetic to get wrong:

* the **inv478x host driver** (`i2c/inv_host_drivers`), which drives an HDMI chip
  over I2C: packet link, API and call-backs, memory pool, time;
* the **demux filter manager** (`common/hi_filter.c`), which almost every sample
  is linked with;
* the **OpenMAX decoder and encoder** samples (`omxvdec`, `omxvenc`), each with a
  main thread, two buffer threads and the call-backs of a component;
* the **demux samples** (`demux`), a dozen programs of one shape: acquire, start
  threads, wait for the user, stop, join, release by a ladder of labels.

The modules are checked with TLC on small instances and proved, as far as it
goes, with TLAPS for every value of their constants.

Paths below are relative to the repository; line numbers are those of the
commit the models were written from. `map` in `PROJECT.json` gives the lines
each definition models.

## 1. Inventory

### 1.1 The inv478x host driver

    application (samples, several threads with MULTI_THREAD)
         | inv478x_xxx_query / _set            | inv478x_handle      ^ call-back
         v                                     v                     | with flags
    inv478x.c + inv478x_comlib.c        API mutex, response wait, event flags
         | inv_sys_malloc / inv_sys_obj  pool and lists of instances
         | inv_sys_time                  milliseconds, time-outs
         v
    inv_drv_ipc.c                        packets <-> messages
    inv_drv_ipc_master.c, inv_drv_cra.c  FIFO and token registers of the chip
         v
    platforms/*                          I2C adapter, semaphores, clock

| Part | State | Operations | What is hard | What makes it correct |
|---|---|---|---|---|
| IPC link, `common/ipc/inv_drv_ipc.c`, `common/ipc_master/inv_drv_ipc_master.c` | per end: sequence and fragment numbers of both directions, the message being sent with three positions and a retry count, the message being put together; in the hardware: a FIFO and three sticky token bits per end | send a message, transmitter reset, handler (ACK, NACK, PACKET_RDY), call-back | tokens merge and are seen late; a packet is in the FIFO before its token; a NACKed packet is repeated alone; damage in the header or the payload; the host restarts and the chip does not | a copy that checks no bound stays in its buffer; what is called back is a message the other end sent, whole and in order; nothing stays in the transmitter for ever |
| API of the library, `inv478x/inv478x.c`, `inv478x/inv478x_comlib.c` | API semaphore, tag code, request, acknowledge message, event flags (`user`, `stat`, `mask`), bit 3 of the interrupt trigger | 230 calls of one template, `inv478x_handle`, `inv478x_boot_stat_query`, call-back of the driver | threads share one object; late and repeated responses; notifications during a call; takes that expire and are not looked at | one thread inside; a success is the answer to that call; no flag is lost; every call returns |
| Pool and lists, `common/malloc/inv_sys_malloc.c`, `common/obj/inv_sys_obj.c` | one pointer into an array of words; two lists of instances | malloc, delete, list create/delete, instance create/delete | delete frees everything allocated later; memory runs out in the middle of a create | live blocks do not overlap and stay below the pointer; nothing leaks |
| Time, `common/time/inv_sys_time.c` | the 32-bit millisecond counter (platform), a time-out per waiter | set, is expired, difference | the counter rolls over after 49 days | a time-out ends on time from every start |
| Registers, flash programming, log (`common/cra`, `common/isp`, `common/log`, `inv478x_hal`) | page registers, progress of a flash update | read, write, program, verify | erase and protect run without the API mutex | not modelled: the registers of the chip decide what happens |
| Platforms (`platforms/pc`, `platforms/cec`) | adapter handles | I2C read and write, semaphores, clock | external to the library | taken as `inv478x_platform_api.h` documents them |
| Sample applications (`i2c/inv478x_app_*`, `inv478x_Arc*_example`) | menus | API calls, a handler thread | they are the environment of the API | not modelled |

### 1.2 The demux filter manager

`common/hi_filter.c`: a table of filters, a mutex, `flt_task` (waits for data of
the demux, calls filters back under the mutex) and `dmx_timer_task` (every
40 ms, without the mutex, calls back filters that are silent). Filters of one
PID share a channel of the demux. Operations: `HI_FILTER_Init`, `DeInit`,
`Creat`, `Destroy`, `SetAttr`, `GetAttr`, `Start`, `Stop`. Hard: data acquired
before the mutex is taken; a shared channel is opened, closed and destroyed by
whoever is first or last; library calls fail half way; `DeInit` joins a thread
that may wait for the mutex it holds. Correct when no data reach a stopped filter,
a filter keeps its channel, calls return and silence is reported.

### 1.3 The OpenMAX decoder and encoder

    user --commands--> main --OMX_SendCommand--> component (library)
                        |  \                      |  call-backs, on a thread
               status,  |   waits for events <----+  of the component
               flags    v                         v
             ebd_thread <-- etb_queue, etb_sem -- EmptyBufferDone
             fbd_thread <-- ftb/fbd_queue, sem -- FillBufferDone

| Part | State | Operations | What is hard | What makes it correct |
|---|---|---|---|---|
| Decoder, `omxvdec/sample_omxvdec.c` | two queues with a semaphore each, the status, flags of flush, seek and exit, one `event_is_done` with one `last_cmd` for all commands | pause and resume, flush of either or both ports, seek, quit, change of the port settings | a buffer is popped and handed over without a lock; a seek waits for two flags to be low; call-backs free buffers while `fbd_thread` drains the queue | no wake-up is lost; a buffer has one owner; a seek hands the buffers out alone; every command gets its own completion; a disabled port has no buffer left |
| Encoder, `omxvenc/sample_omxvenc.c` | as above, and the headers of the output port, which `dis-op` and `en-op` replace | pause, resume, three flushes, `dis-op`, `en-op`, exit | `enable_lock` is held over a hand-over; exit does not wake the threads; the clean-up can be asked for twice | as above; a freed header is used by nobody; exit hangs only on a buffer that never comes |

The states of the component (Executing, Pause, Idle, Loaded), its queue of
commands and the buffers it holds are part of both models, taken from the calls
and call-backs of the samples.

### 1.4 The demux samples

`demux/*.c`: `main` acquires files, libraries, the demux, ports, channels; a call
that fails releases some of it and jumps to a label; otherwise threads send and
receive until the user types `q`. State: what is held, where `main` is, the stop
flags, the threads. Hard: which label each of some twenty calls goes to, arrays of
channels half acquired, what a thread still uses when `main` releases. Correct when
each path releases what was acquired, in an order the libraries allow, and after
the threads have been joined.

### 1.5 Everything else

| Part | What it is |
|---|---|
| `es_ts_switch` | two player threads, paused by the switch; see 5 |
| `common/hi_adp_*.c`, `hi_psi_si.c` | wrappers of the media library, tables of modes, PSI/SI parser, program search |
| `pvr`, `transcode`, `tsr2rcipher` | record, play, time shift, recode: sequences of calls of the media library |
| `tsplay`, `esplay`, `dvbplay`, `ipplay`, `rawplay`, `mosaic`, `pip`, `capture`, `vdec`, `venc`, `iframe_dec`, `audio`, `cgms`, `macrovision`, `pq`, `pmoc`, `test`, `seperateoutput`, `video_test` | a menu thread and at most one reading thread stopped by a flag; the state is in the media library, which is not in the repository |
| `dispmng`, `hdmitx`, `fb`, `tde`, `jpeg` | command menus over library calls |
| `cipher`, `klad`, `otp`, `tee`, `license` | sequences of library calls with test vectors |
| `frontend`, `network`, `flash`, `gpio`, `ir`, `keyled`, `lsadc`, `sci`, `uart`, `wdg` | menus and short programs of device calls |
| `i2c-tools` | third-party tools |

## 2. Modules

| Module | Models | Uses |
|---|---|---|
| `IpcChannel` | what the IPC link promises: messages arrive whole, in order, perhaps lost or repeated | |
| `IpcLink` | both ends of the link, FIFOs, tokens and faults; implements `IpcChannel` | `INSTANCE IpcChannel` |
| `HostApi` | API threads, handler threads, the chip as a partner that answers late, twice or never | `IpcChannel`'s promise, as environment |
| `HostPool` | allocator, lists and life cycle of instances | |
| `SysTime` | the time library on a counter that rolls over | |
| `ApiCalls` | parameters and results of a call, pushed and popped, and its wait on the time library | extends `SysTime` |
| `ApiTables` | what each of the API's functions pushes and pops | extends `ApiCalls` |
| `DmxFilter` | the filter manager with its two tasks and the demux | |
| `OmxDec` | the decoder sample: main, both threads, the call-backs, the component | |
| `OmxEnc` | the encoder sample, likewise | |
| `SampleLife` | the life of a sample program, for any table of its calls | |
| `DemuxSamples` | the tables of twelve demux samples | `SampleLife` |
| `*Proofs` | the TLAPS proofs of `IpcLink`, `HostApi`, `HostPool`, `ApiCalls` with `SysTime`, `DmxFilter`, `OmxDec`, `OmxEnc`, `SampleLife` | the module |
| `MC*` | symmetry sets and constants for TLC | the module |

The modules compose where the code does: `IpcLink` implements `IpcChannel`, whose
promise is the environment of `HostApi`; `ApiCalls` waits with the time-outs of `SysTime`;
`DemuxSamples` instantiates `SampleLife`.
The decoder, the encoder and the samples are programs of their own and share no state.

Some definitions are marked `mutant`: the form a plausible bug would give the
definition that follows. No action uses them; with one in the place of its
definition TLC finds the property of `mutants` in `PROJECT.json` violated.

### 2.1 IpcLink and the code

Both ends run `inv_drv_ipc.c`; the chip's firmware is not in the repository, and
the driver is written to serve either side. `rx_*` and `tx_*` carry the names of
`struct ipc_obj`; the payload of a packet is abstracted to a *piece* `[id, off]`:
of which message of the sender it is, and at which multiple of
`BUFFER_PAYLOAD_SIZE` it starts. So a message that is put together wrongly is
seen to be so, and the message check sum is the question whether the pieces are
all those of one message (`MessageValid`). Damage on the bus is found by
the check sums of header and payload (`Damage`, `RejectHeader`, `RejectPacket`).

`at`, `work` and `call` say where an end is: `s_token_handler` reads and clears
the register (`TakeTokens`), then looks at ACK and NACK (`HandleAck`,
`HandleNack`) and at PACKET_RDY (`RejectHeader`, `RejectPacket`,
`ResetReassembly`, `AcceptPacket`), then calls its parent back (`CallBack`). A
packet and its token are two steps (`SendPacket`, `AssertReady`), so the other
end can see one without the other. The user of the driver calls
(`BeginCall`, `PacketMessageSend`), waits, and gives up with `TxReset`. `Restart`
is `inv478x_create` on a chip that went on running.

### 2.2 HostApi and the code

The API functions are one template: take, `s_request_message_init`, send, wait,
take the parameters, give. `ApiCall` .. `Give` are its steps; the op code is
the parameter. `inv478x_event_flags_mask_get` is a case of its own in `EndWait`
because it writes the cached mask. `HandleTake` .. `Report` are
`inv478x_handle`. `CallBack` is what the IPC driver calls
(`inv_drv_ipc_call_back`), inside whoever polls. Configuration:
`INV478X_USER_DEF__MULTI_THREAD` 1 and IPC semaphore 0, as the samples build it.

The environment is what `IpcChannel` allows and what a slow chip does:
responses come at any time, are lost, and are repeated. `SlowCalls` says
whether a call can outlast the time another one waits for the mutex (up to then
a take never expires); `BootStatQuery` whether `inv478x_boot_stat_query` is
called, which gives the semaphore it never took (inv478x.c:517); `BadPars` whether
one of the two functions that check their mode after the take is called with a wrong
one: it returns with the mutex taken (`ParError`, `kept`), and the takes after it
expire (`TakeExpires`). Two functions make several requests under one mutex
(`NextRequest`).

`ApiCalls` has what `HostApi` leaves out of the same template: the bytes. A call pushes
its parameters (`Pushed`), waits in rounds of the polling loop on a `SysTime` time-out
(`Poll`: first the interrupts, then the time-out, so that a response which comes in the
last round is kept and not used), and pops the results (`Popped`). What a function pushes
and pops is a row of `ApiTables`: 162 rows in 37 tables, in the order of `inv478x.c`,
each with the parameters that say which setting is meant (port, block, offset) and the
kinds of the values, which are those of the push and pop functions (bool, byte, word,
long, array, list of as many elements as the last parameter says, string). `SetGet` is a pair
of functions, `SetAsk` a pair whose get pushes other parameters than its set. Functions
with the same row are checked once. The rows are read from the code by hand: that a set
and its get push and pop the same widths was seen there (and where they do not, 6 says so);
the run checks what becomes of the bytes. The chip keeps the bytes it was sent, and answers them:
its firmware is not in the repository, and the two functions agree when it need not
translate. Longs are below 2^31.

### 2.3 HostPool, SysTime, DmxFilter and the code

`HostPool` has one thread, as the allocator has no lock; its steps are the
allocations and deletions of `inv478x_create`, of the call-back's temporary
message and of `inv478x_delete`, in their order, with the error path of each
(`EmptyListFreed`). Instances are deleted in any order; `in_order` remembers
whether the youngest always went first, the discipline of a bump allocator whose
delete sets the pointer back. Sizes are words, the list heads and blocks have their
relative sizes.

`SysTime` keeps the true elapsed time in a history variable beside the counter,
so that "expired" can be compared with what really passed; `Half` is half of the
circle, 2^31 in the code.

`DmxFilter`: a call is `Call` (the check of `g_bFltInit`), an action with the
mutex (`Creat`, `Destroy`, ..., with every failure branch of the library), and
`Unlock`. Everything inside the mutex is one step because
no other thread touches those variables without the mutex except
`dmx_timer_task`, whose read, addition and write are steps of their own
(`TickLook`, `TickCount`, `TickFire`), and `flt_task` before its lock (`TaskWait`
.. `TaskAttr`).

### 2.4 OmxDec and OmxEnc and the code

Four threads: `M` main, `E` `ebd_thread`, `F` `fbd_thread`, `C` the thread on which
the component calls back. A place in `pc` stands between two accesses to shared
data; a critical section that does one thing is one step. `status_lock` and
`ftb_lock` of the decoder and `enable_lock` of the encoder are held over several
steps and told from the place of their holder (`Reconfiguring`, `FtbLockFree`,
`EnableLockFree`). `sem`, `queue`, `flushing`, `flushSem` have the field of either
port.

*Decoder.* `E` and `F` share the frame `Top` .. `Give` where the code does and differ
where it differs: `F` looks at the status after its token and runs
`output_port_reconfig` (`disable` .. `refill`). `RUNNING` is raised between the pop
and the hand-over, as in the code. `process_current_command` is `M`: `seek` is
`drain_in` .. `seek_post`, `quit` the clean-up until the threads are joined.
`event_complete` sets one flag and one `last_cmd`, whoever waits
(`WaitForEvent`). After an error the component is `Invalid`.
A command can be typed while `fbd_thread` reconfigures the port: of the states only
`PORT_SETTING_CHANGE` refuses it (1707), so that main and `fbd_thread` wait for two
events by one flag. What comes of it is stated, not left out: `CommandsReturn` and
`ReconfigEnds` hold but for two reasons. `EventOverwritten`: the event a thread waits for
has come, and `event_complete` (270-279) has written the other thread's over it before the
thread woke. `HeaderMissing`: a call-back dropped a header during a flush or a seek, so
that `OMX_FreeBuffer` is never called for it and the port is never disabled; or it freed a
header that `seek_progress` had handed over, so that the port is never enabled. Each reason
names the thread's place and what is pending, and has to last for ever to count.

*Encoder.* `Play_Encoder` hands out the buffers one by one (`fill`, `empty`) while the
component already returns some. A header carries the generation of `en-op` that made
it (`OutHdrs`), so a use of an old header is seen. `do_freeHandle_and_clean_up`
is called from two places; `returnTo` says which.

*Component.* It executes the commands in the order they are sent, gives all
buffers of a port back before it completes a flush or a disable of that port, and the
call-backs of one component do not overlap. It may return buffers at any time,
change the port settings (decoder), report an error, within the bounds.

### 2.5 SampleLife, DemuxSamples and the code

A table has the calls of `main` (`up`): what a call acquires, what is released at the
spot when it fails (`undo`), the label it goes to; the ladder (`down`) from the stop
of the threads to `return`; and for each thread what it uses, what it touches last and
its flag. The machine of `SampleLife` walks the table: `Acquire`, `Fail`, `Spawn`,
`Serve`, `Quit`, `Release`, `RaiseFlag`, `JoinThread`, `Return`, and a thread's
`CheckFlag`, `WorkOn`, `Finish`. Calls that set or read attributes
are `Try`: they acquire nothing and may fail. A label that is not on the ladder is an
error of the table (`ProgramOK`), `out` excepted, which only returns. Where the code
is compiled in one of two ways the table is the one the file's own `#define`s choose:
`dsc_clearkey_unf` defines `EXTERNAL_KEYSLOT` (25), so it creates a key slot, attaches it
to the descrambler and the key ladder to it, and releases all three. Its receiver is the
one among the tables that leaves its loop when a call fails (115, `breaks`).

`StandsOn` says what a handle of the libraries is made
on, from the arguments of the calls that make it. A TS buffer and the attachment of its
port to a demux need each other only in so far as the port reads the buffer; the
samples make them in either order, `dsc_clearkey_unf` the attachment first. So
`Partner` asks that they go in the reverse of the order they were made in: the one made
last stands on the other.

## 3. What the runs check

TLC's sizes are of the whole state space; all runs end. Deadlock is checked in
`filter_share`; the other models stop when their bounds are used up or where the code
really waits for a component, a chip, a user that need not answer, or an event that was
overwritten. In `omx_control` `CommandsReturn` says more than the absence of deadlock.

| Run | Constants | States | Shows |
|---|---|---|---|
| `link_faults` | 2 messages of up to 3 packets, 2 damaged packets, 1 call that gives up, 1 restart | 2.0 M | `ReassemblyFits`, `FragmentIsItsPiece`, and that the link implements `IpcChannel` (`ChannelSpec`) |
| `link_live` | 2 messages one way and 1 the other, of up to 2 packets, 1 damaged packet | 0.2 M | without faults every message arrives exactly once and none reported sent is missing; with a fault no message stays in the transmitter (`SendingEnds`) |
| `api_mutex` | 2 callers, 1 handler, 3 calls, 1 notification, 1 repeated message | 2.3 M | `ResponseIsOwn`, `SendFindsTxIdle`, `FlagsAccounted`, `WaitingFlagsWake` |
| `api_live` | 1 caller, 1 handler, takes expire, stray gives, 1 lost message | 42 k | `CallsReturn`, `FlagsReported` |
| `pool_orders` | 3 instances in any order, a pool with room for two, 6 creates | 2354 | `LiveBlocksKept`, `NothingLeaks`, each while instances go youngest first |
| `api_calls` | 162 rows, 3 calls with 2 sets of parameters and 2 of values, 1 lost message, refusals; a counter of 8 values, time-outs of 1 and 2 | 2.5 M | `EndsOnTime`, `SetIsGot` |
| `filter_share` | 2 applications, 2 filters, 2 channels, 2 PIDs, 2 CRC flags, 5 calls, 1 failure | 2.2 M | `DataOnlyWhileStarted`, `UsedChannelExists`, `NoChannelLeaks` |
| `filter_live` | 1 application, 1 filter, time-out 100 ms, 5 calls, 1 failure | 49 k | `CallsReturn`, `TimeoutComes`, `DeInitOnlyHangsOnTask` |
| `omx_control` | decoder, 1 buffer a port, one command of the six kinds; 1 reconfiguration, which meets pause, resume and the flushes | 268 k | `EtbSignalled`, `SeekHandsOutAlone`, `NoStaleEvent`; `CommandsReturn` and `ReconfigEnds`, also where a command meets a reconfiguration |
| `omx_reconfig` | decoder, 1 input and 2 output buffers, 2 reconfigurations, 1 error, one command of: pause, resume, flush of the input port | 3.8 M | `OneOwner`, `FtbSignalled`, `DisabledPortIsDrained` |
| `omx_encode` | encoder, 1 buffer a port, 2 of: commands of the eight kinds, errors, changes of the port settings | 273 k | `QueuedIsSignalled`, `EachHeaderInOnePlace`, `FreedIsUnused`, `CommandIsOver`, `CommandsReturn`, `ExitHangsOnBuffersOnly` |
| `demux_samples` | 13 tables, arrays of two channels | 6 k | `LadderMatches`, `ThreadUsesHeld`, `DependentsGoFirst`, `MainEnds` |

Type invariants and the inductive invariants (`LinkInv`, `MutexInv`, `TimeInv`, `SeekInv`,
`IInv`) are proved rather than listed in a run.
Each property of a run has a mutant in `PROJECT.json`: a change of one
mapped definition, as a plausible bug would be, after which TLC finds the
property violated.

### Bounds, and why they are enough

* Three packets is the least number with a first, a middle and a last one; the
  code has five. Two damages are what it takes to drop a message and then hit
  its retry. `RetryLimit` is 3 instead of 5 and `RetryMod` 4 instead of 256: the
  count is only compared with the limit. `FifoCap` 2 lets an old packet stay in
  front of a new one. Two messages let an old one meet a new one.
* Three calls with `TagMod = 3`: a response can be one and two calls late. With
  more calls than tags an old response has the tag of the new request, and
  `ResponseIsOwn` would fail: with the code's 256 tags a response that is
  256 calls old, which the FIFO reset of every request makes hardly possible.
* Two callers are what a race needs; a third waits like the second. In
  `api_live` one caller and the handler compete already.
* Two filters, two channels and two PIDs give: both filters on one channel, one
  each, and a channel created again after it was destroyed. Five calls reach
  Creat, Creat, Start, Start followed by any.
* The time library compares and subtracts only, so that a circle of 8 values has
  all the cases: before, at and after the roll-over, on both sides. The counter starts
  anywhere on it and stands still between two calls, where nobody looks at it;
  `EndsOnTime` is proved for any circle and any time-out.
* Three calls give a set, a set of the same or another place whose answer is lost or late,
  and a get. One of the two sets of parameters lies at the end of an EDID block. The values
  differ in every byte of a word and a long, so that a byte in the wrong place shows: a codec
  that differs between a set and its get makes the assumption `TablesRoundTrip` false. There are
  four tag codes, more than calls; see `TagMod` above.
* Three instances give a middle one to delete; the pool has room for two, so that
  memory runs out at each allocation of the third.
* One buffer a port makes each race of the two `OmxDec` threads with main; a second
  output buffer is what a drain can leave behind, and the reconfiguration run has it.
  One command at a time meets every place of the threads; two commands in a row
  (5.9 M states) satisfy the same invariants and are left out for time. The encoder
  has two, and so every pair.
* In `omx_control` the port settings change before a pause, a resume or a flush is typed
  or while it is carried out, and it is typed at any time of the change; in it an event is
  overwritten and a header is missing at the disable. Where no command meets a change
  neither happens: `ReconfigEnds` then holds without an excuse, also for 1 input and 2
  output buffers and 2 reconfigurations (193 k states, checked apart), and so does
  `CommandsReturn` of every command without a change. The bound `Overlaps` of `MCOmxDec`
  keeps seek and quit, and what was completed before, away from the change of the port
  settings, in that run only. For the quit the formula has the exclusion too
  (`Undisturbed`). For the rest it has not: both properties were checked apart with a
  command at any time around a change, completed before it too, on instances too many or
  too slow to repeat in every check: 1 output buffer, no input buffer, all commands but
  quit, and 1 reconfiguration and 1 error (371 k states) or 2 reconfigurations (220 k); 2
  output buffers, the seek typed during the reconfiguration (430 k); 1 buffer a port with
  all but seek and quit (103 k), and with only the seek (1.5 M). They hold in all, and the
  header missing at the enable, which takes a seek, is reached.
* `OneOwner` asks of runs without a seek, `DisabledPortIsDrained` of runs in which nothing
  drops output buffers; `omx_reconfig` has the commands that are left.
* Arrays of two channels tell the first from the rest; the samples have up to 32.
* `MaxGap < Half` says that a waiter looks at the counter at least every 24
  days; `TimeAssumption` states it, and the code needs it.

### Fairness, and why the code justifies it

* `IpcLink`: an end's handler runs again and again: the API polls in its
  waiting loop and `inv478x_handle` is to be called "periodically with an time
  interval of no more than 100msec" (inv478x_api.h). A call that has begun sends
  its packet. Nothing is assumed of giving up: `SendingEnds` holds without it.
  A packet and its token are written by straight-line code.
* `HostApi`: weak fairness of threads; strong fairness of a timer
  that is looked at in every poll and of a take (a semaphore that is free
  again and again wakes each waiter in the end). Nothing is assumed of the chip.
* `DmxFilter`: threads run; a mutex that is free again and again is got (a POSIX
  mutex promises less, but `flt_task` blocks in the demux between two locks).
  The demux may never have data: `flt_task` need not leave its wait until
  `g_bFltRunFlag` is false, which it looks at when its wait of 1 s ends.
* `OmxDec`, `OmxEnc`: threads run, and a call-back that has begun ends. The component
  serves what it was asked for (`Serve`): it gives back the buffers of a pending
  command and completes the command. It need not return a buffer otherwise, nor change
  or fail; the user need not type. In the encoder main at `dis-op` and the call-back
  of an enable get `enable_lock` in the end (strong fairness): `fbd_thread` gives it
  back in every round and blocks on its semaphore in between.
* `SampleLife`: main and its threads run; the user need not type. A thread's work on a
  buffer ends because the calls it waits in have time limits.

## 4. What is proved

The theorems hold for every value of the constants that satisfies the `ASSUME`s of
the module; TLC evaluates these in the runs.

**Link.** `LinkInv` is inductive (`LinkInvariant`), for any number
of fragments, messages, damaged packets, time-outs and restarts. It is needed because
`ReassemblyFits` alone is not: that an accepted packet fits depends on its
fragment number being the place of its piece, which depends on the sender's
three positions moving together (`SenderOK`), on every packet in a FIFO being a
piece of a message of its sender, marked last exactly when it is (`WireOK`), and
on the receiver having as many pieces as its fragment number says
(`ReceiverOK`). The proof has a lemma per action; restarts and damages are among
them. From it: `TypeCorrect`, `ReassemblyStaysInBounds`,
`FragmentsAreTheirPieces`, and `LinkImplementsChannel`, the refinement: every step
is a `Send` or `Deliver` of `IpcChannel` or leaves it alone. That a delivered message is
in order comes from the order of the packets in `WireOK`.

Without damage, time-outs and restarts more is true, and it needs a second invariant,
`TurnsInv` (`TurnsAreTaken`), inductive together with `LinkInv`. For the messages that go
to one end from its peer it names the one thing that is under way (`Turn`): nothing; the
packet, written and perhaps already told of by `PACKET_RDY`; or the `ACK` of that packet.
It says what the receiver has collected in each case, that no `NACK` exists and that no
token is at the same time set and being looked at (`Quiet`), and that the messages called
back are numbered one after another (`InOrder`). So the packet under way is always the
expected one and nothing is refused (lemma `NothingRefused`), and the emptying of the FIFO
at the start of a host's call finds it empty. From it: `MessagesArriveOnce`
(`ExactlyOnceWithoutFaults`) and `SentIsReceived` (`SentIsReceivedWithoutFaults`).
TLC checked `TurnsInv` on an instance without faults, with 2 messages each
way of up to 3 packets, before it was proved.

**API.** `ApiTypes` and `WaitingFlagsAlwaysWake` need no assumption: also when takes
expire and two threads are inside, waiting flags have somebody who will raise the
wake-up bit or collect them, because every place that clears the bit is followed
in the same thread by the check. `ApiMutualExclusion`, `NoFlagIsLost` and
`SendAssertionHolds` assume `~SlowCalls`, `~BootStatQuery` and `~BadPars`: the mutex
excludes exactly under these. `MutexInv` adds to mutual exclusion that the semaphore is 0
while a thread is inside; `SharedInv` adds what holds between two steps of the one
thread inside: a transmitter is busy only while its call waits, and the flags about to be
cleared are merged. `SuccessIsOwnAnswer` (`ResponseIsOwn`) holds for any number of calls, although
the tag code has 8 bits, and assumes of each step what that takes (`TagIsFresh`): that
`s_request_message_init` gives out no code that is still on a message at the chip or on its
way back. The code comes around after 256 requests, each of which has waited for its answer or its
time-out, so this is a promise of the chip not to be slower than that; with a `TagMod` of 1, where
it cannot hold for long, TLC finds `ResponseIsOwn` violated. In `OwnInv` a message with the last
tag code is of the last request (`Answers`): the chip copies both, and the link can lose and repeat
messages but not change them. `FewCallsAreFresh` discharges the assumption while there are
fewer calls than tag codes: in `CountInv` no message has a code that has not been given out, and
the calls are at least the tag code and the calls that still wait for one (`Pending`), so that
the code does not come around. TLC checked `OwnInv` with 1 and 2 tag codes and fresh steps
only, and `CountInv` with 4, before they were proved.

**Pool.** `TypeCorrect` in every order; `BlocksKept` (`LiveBlocksKept`) and
`AllGivenBack` (`NothingLeaks`) while the youngest goes first, for any number of
instances and any sizes. Neither property is inductive: that a deletion takes the block
on top depends on the address of a block saying how old it is. `IInv` is `Shape` (what an
instance holds at each place of create and delete, one instance at a time under way, the
lists being those of the instances that exist) and `Stack`: the blocks in use tile the
words below `s_ptr` (`Tiles`), the addresses are in the order of creation, within an
instance and between instances (`InstancesByAge`), and each list is older than everything
but what it was created for (`ListsByAge`). Allocating is then a push and deleting a pop
(`Push`, `Pop`), each with a lemma per action; the steps that need most are the creation of
the second list, which comes after the first object, and its deletion just before that.

**Time.** `WaitsEndOnTime` and `DifferenceIsElapsed` for every width of the counter,
from `TimeInv`, which relates the counter, the time-out and the true elapsed
time around the circle (`Ahead`).

**Calls.** `CallsUseTime`: every step of `ApiCalls` is a step of `SysTime` or leaves its
variables alone, so that `EndsOnTime` holds of the waits of the API (`CallsEndOnTime`)
and not only of the time library alone. `SetsAreGot` (`SetIsGot`) separates what is said of the bytes
from what is said of the order of calls. Of the bytes it takes one exchange for granted,
in the assumption `TablesRoundTrip`: for a row of the tables a get pops what the chip pushes, and a get for the place of
a set pops the values of the set. That speaks of the tables alone; TLC evaluates it for all rows in
`api_calls` (what the codec does to every list of parameters is an induction over data).
What is proved is that the exchange is enough, for any number of calls, lost messages,
refusals and late answers, while tag codes are fresh as above (`TagIsFresh`, which
`FewCallsAreFresh` proves of fewer calls than tag codes): `CallsInv` has that only the last request can carry the tag
code of the present call (`InboxOK`), that once an answer with that tag code exists no request is
left on its way that could change the chip before the answer is popped (`AnswersOK`), and that the chip has the
bytes of the last set it took (`StoreOK`). TLC checked `CallsInv` on all the rows, with time-outs
of 0, before it was proved.

**Filters.** `DataForStartedOnly`, `ChannelsShared`, `ChannelsFreed` and `ChannelsOpen` for
any number of applications, filters, channels, calls and failures. The invariant (`IInv`)
adds what makes the critical sections worth something: a task in its call-back and a call
past its lock hold the mutex (`MutexHeld`), which leaves no filter to be stopped under a
call-back; a call that has seen `g_bFltInit` still finds it so (`CallsChecked`), which
needs that one thread alone opens and closes the manager (`FilterAssumption`); a manager
that was closed has no channels left for the next one to trip over (`ClosedIsEmpty`); and
the timer task calls back a filter whose sum has reached the time-out before it reads
another sum (`Timers`), so that sums stay below it although they are added without the mutex.

**Decoder.** `OmxTypes` (`TypeOK`), which carries that a thread about to hand over,
push or free a buffer has one in hand. `FtbNeverForgotten` (`FtbSignalled`): each
queued output buffer has a token, for any number of buffers, commands,
reconfigurations and errors; the drain of a reconfiguration and the drain of a seek are
the steps that need an argument, because they take buffers without tokens and so only
make tokens abundant. `SeekIsAlone` (`SeekHandsOutAlone`): its inductive form says that
from the moment `seeking_progress` is set neither thread can pass its look at the flag,
and that the two `running` flags are looked at after that (`SeekInv`).

The other four need what main, `fbd_thread` and the component say to each other.
`Protocol` tells from where main and `fbd_thread` are which commands they have asked for
(`Asks`): only these are pending, no two that end in the same event, a port is flushed
exactly as long as its flush is pending, and an event that is set is one of a command
asked for and no longer pending. It holds while the run is `Undisturbed`: after an error,
or when a clean-up meets a change of the port settings, main and `fbd_thread` take each
other's events. From it come
`EventsAreAwaited` (`NoStaleEvent`) and, with two more parts, `EtbNeverForgotten`
(`EtbSignalled`): at the end of the stream `ebd_thread` takes tokens without a look at the
queue, so the queue has to be empty when a seek begins the stream again (`SeekEmpties`),
and it is because the call-back that was about to push is over when the flush is complete
(`PushBeforeSeek`).

`EachBufferHasOneOwner` (`OneOwner`) and `PortIsDrained` (`DisabledPortIsDrained`) are
about where the buffers are. `NotTwice` is `Places(b) <= 1` without the counting (the
cardinalities come in by `PlacesCounted` at the end). It is not inductive alone: the new
buffers `fbd_thread` hands over after a reconfiguration bear the names of the old ones, so
the old ones must be gone. They are because the component reports a port disabled only
when no header of it is allocated (`DisabledHasNone`), because what is in use is allocated
(`UsedAreAllocated`), and because nobody else takes that event (`Protocol`). Every other
step `Moves` each buffer: no copy, no buffer from nowhere, freed only from its place, and
lost only for one of the reasons in `Loses`. If nobody asks for what drops output buffers
(`NothingDropped`), none of the reasons holds, so every allocated output buffer is
somewhere or about to be handed over (`Housed`), and at `wait_disable`, where the queue is
empty and the call-back frees (`PortCloses`), that is the component or the call-back.

**Encoder.** `EncoderTypes`; `EncoderWakeUps` (`QueuedIsSignalled`), for both threads and
through disabled ports; `EncoderFlushes`: a thread waits only for a flush that is
still to complete. `EncoderCommands` (`CommandIsOver`) and `EncoderFrees`
(`FreedIsUnused`) need what no variable says by itself. `Protocol` tells from where main
is (`Asks`) which commands can be pending or under report, that a port is flushed exactly
as long as its flush is pending or its flag not yet lowered, and that an event is either
that of the commands main waits for, all of them over, or the one of a disturbance; so
`flush_all` gets no event after its first port. `HeaderInv` adds that every header in use
has been made (`UsedAreMade`), that an Idle component has none, and that main frees when
both threads have ended and the component is Idle (`FreedLast`): the wait for the Idle
event is needed for that, which is why it rests on `Protocol`.
`EncoderKeepsHeaders` (`EachHeaderInOnePlace`): `PlaceInv` says that no header of the
output port is in two places, that the ones main makes in `en-op` are nowhere until it
hands them over, and that all are somewhere as long as the port passes buffers on
(`Passes`), on the side of the program and on the component's; `Protocol` and `HeaderInv`
give that the old ones are gone by then and that only the clean-up closes the port for good.

**Samples.** `SampleTypes`, `LadderReleasesWhatIsHeld`, `ThreadsUseWhatIsHeld`,
`NothingIsLeft` and `WhatStandsIsHeldUp` for any set of tables that are `Sound`: each
failing call's path, and the ladder of a quit, release exactly what the calls before have
acquired, nothing twice, join each started thread before they release what it uses, and
release nothing another thing still held stands on (by `StandsOn`, or as its `Partner`
made later). `Sound` speaks of a table alone and is an `ASSUME` (`TablesSound`) that TLC
evaluates on the thirteen
tables in `demux_samples`. The invariant (`IInv`, parts `Upward` and `Downward`) adds to the properties that what is
held on the way up is what the calls passed have acquired, and that the rest of the path
still fits what is held on the way down.
`WhatStandsIsHeldUp` (`DependentsGoFirst`) follows from it and from `Sound`'s conditions
on the order: on the way up a call acquires a thing only when what it stands on has been
acquired before, on the way down what is still to be released stands on what is released
after it.

**Only model-checked.** Liveness (`SendingEnds`, `CallsReturn`, `FlagsReported`,
`TimeoutComes`, `DeInitOnlyHangsOnTask`, `CommandsReturn`, `ReconfigEnds`,
`ExitHangsOnBuffersOnly`, `MainEnds`), which needs fairness.
What `TablesRoundTrip` says of the codec is evaluated, on the tables as they are.

## 5. What is not modelled

Of the repository's lines most are vendored tools (`i2c-tools`), tables of modes and
test vectors, declarations (`*_api.h`), menus, and straight sequences of calls of a
library that is not here. The models are of the parts where a state of the program
itself can go wrong. In the parts modelled, left out are:

* *Host driver.* The numbers of the op codes; the flash programming and the boot calls; what
  the firmware does with a value; the IPC semaphore configuration; a
  call-back that is called from within a call-back. The semaphores of
  `platforms/pc/inv_platform_wrapper.c:125-159` are stubs, its milliseconds are
  `clock()`, and `INV_ASSERT` is compiled to nothing (inv_datatypes.h:110): the models
  take what the interface documents, so that the results are about the library. Two
  threads in the allocator.
* *Filter manager.* The bytes of a section and the masks of a filter; PES filters; two
  demuxes; `HI_FILTER_GetAttr` (it changes nothing); the failure of `pthread_create`; a
  call-back that is NULL or calls the API.
* *Decoder.* Set-up of the component, options, parsing of elementary streams; a clean-up
  that meets a change of the port settings, and what follows an error: modelled, but
  excluded from the properties that name `Undisturbed` (see 6); the clean-up `fbd_thread` starts itself after a failed
  reconfiguration. `DisabledPortIsDrained` asks of runs without a flush of the output port or
  a seek only (`NothingDropped`, see 6).
* *Encoder.* Set-up, run-time parameters, reading of YUV files (a file shorter than the
  number of input buffers); the failure of `malloc` in a queue.
* *Demux samples.* `pthread_create`, and inside `record_play_*` the creation of filters,
  are taken to succeed. Samples whose text does not fit the rules the machine states
  are not among the tables; 6 lists them with the place.
* *ES/TS switch.* `es_ts_switch` looks at the mode outside the mutex the switch holds
  while it destroys what the players use (506-556, 100): the property one would state of
  it does not hold, and nothing in the repository promises it.
* *Flash programming* is steered by registers of the chip, whose firmware is not here.
* Everything of 1.5.

## 6. Observations

Seen while modelling. Where a model has the code's behaviour, its properties say on
which condition they hold.

*Host driver.*

* After a NACK only the current packet is sent again, and the receiver, which dropped
  what it had, accepts and ACKs the last packet before it finds the message incomplete:
  a message can be ACKed and not called back (inv_drv_ipc.c:754, :787; the comment at
  :759 says otherwise).
* The result of `MUTEX_API_TAKE` is ignored (inv478x.c:335), so that a call goes on when
  its take expires, and sends its request over another (assertion inv_drv_ipc.c:824).
* Instances deleted in the order of creation are deleted outside the allocated part of
  the pool (inv_sys_malloc.c:84-94); `pool_orders` has its properties for the other order.
* Dropping the check of the sequence number alone breaks no property: the
  fragment number and the check sum of the message do the work.
* `tx_retry` is reset by an ACK only while more packets of the message follow
  (inv_drv_ipc.c:799): after a message that was given up, the first NACK of the next
  one drops it at once.
* `tag_code` is one byte (inv478x_comlib.c:334); a late response with the same op code
  ends the wait of the next call with `WRONG_TAG_CODE` (:421), and that call's own
  response is then the late one of the next.
* `inv478x_boot_stat_query` gives a semaphore it has not taken (inv478x.c:517); erase and
  protect use the registers without the mutex (inv478x.c:684).
* `inv478x_arc_support_mode_set` and `inv478x_earc_mode_set` return `PAR_ERR` without giving
  the mutex they took (inv478x.c:1472, :2414); the next take waits its time out, and the call goes on.
* `inv478x_tx_hdcp_ksvlist_query` returns the result of its last request, whatever came of
  the ones before; `inv478x_ext_aud_info_get` likewise.
* `inv478x_rx_edid_get` pushes offset before block, `inv478x_rx_edid_set` block before offset
  (inv478x.c:1306, :1329; "The get function allows the previously written internal EDID to be
  read back", inv478x_api.h:1235). Whether the firmware expects that is not in the
  repository: `SetIsGot` asks of this pair only where both push the same bytes.
* `inv478x_tx_edid_query` shortens the length by the offset wherever the length is the
  greater (3322), and to the end of the block only otherwise.
* `inv478x_rx_hdcp_ext_topology_set` pushes depth before count, the two topology queries
  pop count first. The getters of the HDCP mode and type of an output push what the caller's
  variable happens to hold.
* A request has room for 262 bytes of parameters (`MESSAGE_SIZE` 268 with a header of 6),
  the push functions check for 268.
* When takes expire, a flag that comes between the merge and the clear of
  `s_handle` is lost; `FlagsReported` therefore asks for `[]MutualExclusion`.
* The call-back does not ask whether there was memory for its message
  (inv478x_comlib.c:78), and allocates it while another thread may create an instance.
* `inv_sys_obj_list_delete` deletes `p_hdr_obj_last` after `s_remove_header` has
  changed it (inv_sys_obj.c:205); nobody calls it with a list that is not empty.

*Filter manager.*

* `flt_task` asks whether the channel is open *now*: buffers acquired before a Stop and
  a Start are used after their channel was closed (hi_filter.c:278-280).
* `HI_FILTER_SetAttr` sets the channel to the mode of the *old* CRC flag
  (hi_filter.c:722; hi_filter.h:58), and opens the channel of a filter that was
  never started.
* `dmx_timer_task` adds 50 ms per sleep of 40 ms (hi_filter.c:206, :213), so that
  a time-out comes after 4/5 of its time (hi_filter.h:59), and calls back without
  the mutex, perhaps a filter that has just been stopped.
* `HI_FILTER_Init` and `HI_FILTER_DeInit` return with the mutex locked when the
  library fails (hi_filter.c:445, :483).

*Decoder* (`sample_omxvdec.c`).

* `EmptyBufferDone` keeps `etb_lock` when the queue is full (918-922).
* During `RECONFIG` commands are accepted (only `PORT_SETTING_CHANGE` is refused, 1707):
  main and `fbd_thread` then wait on one `event_is_done`, and the event of a flush and
  that of the port can overwrite each other (276): one of the two waits for ever
  (`EventOverwritten` in `CommandsReturn` and `ReconfigEnds`).
* A buffer that is popped but whose thread is not yet `RUNNING` for the whole of a seek is
  handed over twice; call-backs during a seek drop their buffers.
* The error call-back waits for `status_lock` (804) while a reconfiguration waits for
  the component.
* `fbd_thread`, cleaning up by itself, holds `status_lock` and joins itself (1938-1942);
  queues and the handle are freed before the threads are joined (3221-3231, 3242).
* After `f`, `f1` or a seek and a change of the port the dropped buffers are never freed, and
  `PortDisable` is never complete; what a seek hands over while the port is being
  enabled is freed when it comes back, and `PortEnable` is never complete
  (`HeaderMissing`). `free_ip_buf_cnt` and `free_op_buf_cnt` change without a lock.

*Encoder* (`sample_omxvenc.c`).

* Exit does not wake the threads (2495-2496 are commented out): with nothing left to
  encode, or paused, it hangs in `pthread_join`. `ExitHangsOnBuffersOnly` says that
  this is the only reason.
* `fbd_thread` leaves at the end of the *input* (2252), so the last frames encoded are not
  written.
* `event_complete(-1)` between a completion and the wake-up overwrites `last_cmd`.
* An error in `dis-op` or `en-op` starts the clean-up while the threads run, and again.
* A failing read under `test_option` drops its buffer (2202); so does the second
  `EmptyThisBuffer` that is refused. Old headers stay in `fbd_thread`'s queue across
  `dis-op` and `en-op`; `dis-op` frees none, `en-op` leaks the old array.

*Samples.* `g_ts_mutex` is taken by the sender alone, so it protects nothing. Not in the
tables, with the line: `demux_es_unf` and `demux_secure_es_unf` (sender started before
the mutex is initialised; a later failure destroys the buffer it uses), `demux_es_mpi`
(254-276), `record_mpi` (PID channels stay), `record_clearkey_unf` (254),
`record_unf` (208), `record_play_unf` (339-347), `ts_pidcopy` (306), `play_with_index`
(346-357, 237-239), `dsc_clearkey_mpi`. `dsc_clearkey_unf` polls its input without
reading it when the first line is not `q` (267-273). A lock that is kept where the thread
leaves, so that main or the other thread waits for ever: `tsplay_pid` (313),
`tsplay_multiaud` (327, 426, 472), `ts_capture` (443), `video_test_ts` (321),
`tee_tsplay` (384), `tee_tsplay_pip` (443), `ts_mosaic` (338). Labels one off: `esplay`
(124, 128, 200, 204), `ipplay` (231, 322).

## 7. Plan

Done, in this order: `IpcChannel`, `IpcLink` with its proofs; `HostApi` with its proofs;
`HostPool` with its proofs; `SysTime`, `ApiCalls` and `ApiTables` with their proofs; `DmxFilter` with its proofs;
`OmxDec` with its proofs; `OmxEnc` with its proofs;
`SampleLife` and `DemuxSamples` with their proofs.

Left:

1. An abstract API ("a call returns its own answer or an error") that `HostApi`
   implements; `ResponseIsOwn`, which would be its core, is proved.
2. Tables of the playback and PVR samples for `SampleLife`.
3. The search of `hi_adp_search.c` on top of `DmxFilter`.
