----------------------------- MODULE SampleLife -----------------------------
(***************************************************************************)
(* The life of a sample program of src/demux: main acquires what it needs, *)
(* one call after the other; a call that fails releases some of it and     *)
(* jumps to a label of the ladder at the end of main; when all calls have  *)
(* succeeded main starts threads, waits for a 'q', raises the flags the    *)
(* threads poll, joins them and walks down the whole ladder.               *)
(*                                                                         *)
(* The machine is the same for every sample; what differs is a table of    *)
(* the calls of main (up) and of the ladder (down), given by the constant  *)
(* Program.  The tables are in DemuxSamples.                               *)
(***************************************************************************)
EXTENDS Integers, Sequences, FiniteSets

CONSTANT Program     \* the tables: a set of records, see ProgramOK

(***************************************************************************)
(* A thing is a handle, a state of a handle (attached, opened, started) or *)
(* a thread, numbered where main keeps an array of them and 0 elsewhere.   *)
(***************************************************************************)
One(kind) == <<kind, 0>>
Nothing == One("")

(* The calls of main.  A call that fails releases undo and goes to a label; *)
(* the label "" marks a call that cannot fail or is not looked at.          *)
GetElse(r, undo, l) == [do |-> "get", what |-> r, undo |-> undo, to |-> l]
Get(r, l) == GetElse(r, <<>>, l)
Try(l) == GetElse(Nothing, <<>>, l)
Run(w) == [do |-> "run", what |-> w, undo |-> <<>>, to |-> ""]

(* The steps of the ladder, each at its label.                              *)
Step(do, r, l) == [do |-> do, what |-> r, label |-> l]
Put(r) == Step("put", r, "")
Raise(flag) == Step("raise", One(flag), "")
Join(w) == Step("join", w, "")
Ladder(rungs) == [i \in DOMAIN rungs |-> Step("put", One(rungs[i][2]), rungs[i][1])]

(* What the end of the process releases when the ladder does not: files and *)
(* the mutex.  fclose is behind a test of the handle.                       *)
File(r) == r[1] \in { "in_file", "out_file", "index_file", "rec_file" }
Kept(r) == File(r) \/ r[1] = "mutex"

(***************************************************************************)
(* The path a failing call takes, and what a path does.                    *)
(***************************************************************************)
Labelled(p, l) == { i \in DOMAIN p.down : p.down[i].label = l }
From(p, l) ==
  IF Labelled(p, l) = {} THEN <<>>
  ELSE LET first == CHOOSE i \in Labelled(p, l) : \A j \in Labelled(p, l) : i <= j
       IN SubSeq(p.down, first, Len(p.down))
Exit(p, i) == [k \in DOMAIN p.up[i].undo |-> Put(p.up[i].undo[k])] \o From(p, p.up[i].to)

Fallible(p) == { i \in DOMAIN p.up : p.up[i].to # "" }
Paths(p) == { p.down } \cup { Exit(p, i) : i \in Fallible(p) }
Puts(s, from) == { s[k].what : k \in { j \in DOMAIN s : from <= j /\ s[j].do = "put" } }

Workers == UNION { DOMAIN p.threads : p \in Program }

-----------------------------------------------------------------------------
VARIABLES
  prog,     \* the sample that runs
  phase,    \* main: acquires ("up"), serves the user, releases ("down"), has returned
  path,     \* the steps of the ladder main goes through, those of undo first
  at,       \* the next call of main, or the next step of the path
  held,     \* what main has acquired and not released
  raised,   \* the stop flags that are set
  pc        \* [Workers -> where the loop of a thread is]

vars == <<prog, phase, path, at, held, raised, pc>>

Init ==
  /\ prog \in Program
  /\ phase = "up" /\ path = <<>> /\ at = 1
  /\ held = {} /\ raised = {}
  /\ pc = [w \in Workers |-> "off"]

(* The stop flag the loop of a thread polls.                                *)
FlagOfSender(w) == "put"                                  \* mutant: every loop polls the sender's flag
Flag(w) == prog.threads[w].flag
Told(w) == Flag(w) \in raised

-----------------------------------------------------------------------------
(* main on its way up.                                                      *)
Call == prog.up[at]
Calling(do) == phase = "up" /\ at \in DOMAIN prog.up /\ Call.do = do

(* A call succeeds.                                                         *)
Acquire ==
  /\ Calling("get")
  /\ held' = IF Call.what = Nothing THEN held ELSE held \cup { Call.what }
  /\ at' = at + 1
  /\ UNCHANGED <<prog, phase, path, raised, pc>>

(* pthread_create: what it returns is not looked at, it is taken to succeed. *)
Spawn ==
  /\ Calling("run")
  /\ pc' = [pc EXCEPT ![Call.what] = "check"]
  /\ at' = at + 1
  /\ UNCHANGED <<prog, phase, path, held, raised>>

(* A call fails: goto.                                                      *)
FailedPathNext ==                                        \* mutant: the goto names the next label
  LET s == Exit(prog, at) IN SubSeq(s, 2, Len(s))
FailedPathBackwards ==                                   \* mutant: released in the order of creation
  LET s == Exit(prog, at) IN [k \in DOMAIN s |-> s[Len(s) + 1 - k]]
FailedPath == Exit(prog, at)

Fail ==
  /\ Calling("get") /\ Call.to # ""
  /\ phase' = "down" /\ path' = FailedPath /\ at' = 1
  /\ UNCHANGED <<prog, held, raised, pc>>

Serve ==
  /\ phase = "up" /\ at \notin DOMAIN prog.up
  /\ phase' = "serve"
  /\ UNCHANGED <<prog, path, at, held, raised, pc>>

(* The user types 'q'.                                                      *)
QuitPath == prog.down

Quit ==
  /\ phase = "serve"
  /\ phase' = "down" /\ path' = QuitPath /\ at' = 1
  /\ UNCHANGED <<prog, held, raised, pc>>

-----------------------------------------------------------------------------
(* main on its way down.                                                    *)
Doing(do) == phase = "down" /\ at \in DOMAIN path /\ path[at].do = do

Release ==
  /\ Doing("put")
  /\ held' = held \ { path[at].what }
  /\ at' = at + 1
  /\ UNCHANGED <<prog, phase, path, raised, pc>>

RaiseFlag ==
  /\ Doing("raise")
  /\ raised' = raised \cup { path[at].what[1] }
  /\ at' = at + 1
  /\ UNCHANGED <<prog, phase, path, held, pc>>

(* pthread_join waits until the thread has returned.                        *)
ReturnedOnceTold(w) == Told(w)                            \* mutant: no join
Returned(w) == pc[w] = "exit"

JoinThread ==
  /\ Doing("join") /\ Returned(path[at].what)
  /\ at' = at + 1
  /\ UNCHANGED <<prog, phase, path, held, raised, pc>>

Return ==
  /\ phase = "down" /\ at \notin DOMAIN path
  /\ phase' = "end"
  /\ UNCHANGED <<prog, path, at, held, raised, pc>>

-----------------------------------------------------------------------------
(* A thread: while the flag is down it works on one buffer (a call that     *)
(* waits for a buffer has a time limit), and the sender resets the buffer   *)
(* of its input when it is told to stop.  Some loops break when a call      *)
(* fails.                                                                   *)

CheckFlag(w) ==
  /\ pc[w] = "check"
  /\ pc' = [pc EXCEPT ![w] = IF Told(w) THEN "last" ELSE "use"]
  /\ UNCHANGED <<prog, phase, path, at, held, raised>>

WorkOn(w) ==
  /\ pc[w] = "use"
  /\ \/ pc' = [pc EXCEPT ![w] = "check"]
     \/ prog.threads[w].breaks /\ pc' = [pc EXCEPT ![w] = "last"]
  /\ UNCHANGED <<prog, phase, path, at, held, raised>>

Finish(w) ==
  /\ pc[w] = "last"
  /\ pc' = [pc EXCEPT ![w] = "exit"]
  /\ UNCHANGED <<prog, phase, path, at, held, raised>>

-----------------------------------------------------------------------------
Up == Acquire \/ Spawn \/ Fail \/ Serve
Down == Release \/ RaiseFlag \/ JoinThread \/ Return
Thread(w) == CheckFlag(w) \/ WorkOn(w) \/ Finish(w)

Next == Up \/ Quit \/ Down \/ \E w \in Workers : Thread(w)

Spec == Init /\ [][Next]_vars

(* main and the threads are scheduled; the user may never type 'q'.         *)
FairSpec ==
  Spec /\ WF_vars(Up \/ Down) /\ \A w \in Workers : WF_vars(Thread(w))

-----------------------------------------------------------------------------
(* What the tables are made of.                                             *)
Things == STRING \X (0..2)
UpStep == [do : {"get", "run"}, what : Things, undo : Seq(Things), to : STRING]
DownStep == [do : {"put", "raise", "join"}, what : Things, label : STRING]
ProgramOK(p) ==
  /\ p.up \in Seq(UpStep)
  /\ p.down \in Seq(DownStep)
  /\ \A w \in DOMAIN p.threads :
       /\ p.threads[w].uses \subseteq Things /\ p.threads[w].last \subseteq Things
       /\ p.threads[w].flag \in STRING /\ p.threads[w].breaks \in BOOLEAN
  /\ \A i \in Fallible(p) : p.up[i].to = "out" \/ Labelled(p, p.up[i].to) # {}

ASSUME TablesTyped == \A p \in Program : ProgramOK(p)

(* The state is one the program text can be in: main is at a call or at a   *)
(* step of a path some call leads to, and the threads belong to the sample. *)
TypeOK ==
  /\ prog \in Program
  /\ phase \in { "up", "serve", "down", "end" }
  /\ phase \in { "up", "serve" } => path = <<>> /\ at \in 1 .. Len(prog.up) + 1
  /\ phase \in { "down", "end" } => path \in Paths(prog) /\ at \in 1 .. Len(path) + 1
  /\ held \subseteq Things
  /\ raised \subseteq STRING
  /\ pc \in [Workers -> { "off", "check", "use", "last", "exit" }]
  /\ \A w \in Workers : pc[w] # "off" => w \in DOMAIN prog.threads

(* Whichever call has failed, the rest of the path releases what main holds, *)
(* all of it and nothing else: a label one line too high releases a handle   *)
(* that was never opened, one line too low leaks one.  (A file is closed     *)
(* only if it is open, and the process closes the rest.)                     *)
LadderMatches ==
  phase = "down" =>
    /\ { r \in Puts(path, at) : ~ File(r) } \subseteq held
    /\ { r \in held : ~ Kept(r) } \subseteq Puts(path, at)

(* Running(w): the thread may still touch what it works on.                 *)
Running(w) == pc[w] \in { "check", "use", "last" }
Touches(w) ==
  CASE pc[w] = "use" -> prog.threads[w].uses
    [] pc[w] = "last" -> prog.threads[w].last
    [] OTHER -> {}

(* No thread works on a handle, a file or a mutex main has released: main   *)
(* joins a thread before it takes away what the thread uses.                *)
ThreadUsesHeld == \A w \in Workers : Touches(w) \subseteq held

(* When main returns, the libraries and their objects are released and no   *)
(* thread runs; only files and a mutex are left to the process.             *)
NothingLeft ==
  phase = "end" =>
    /\ \A r \in held : Kept(r)
    /\ \A w \in Workers : ~ Running(w)

(***************************************************************************)
(* What a handle stands on, in the libraries: a channel on its band, an    *)
(* attachment on the two things it joins, everything on the demux.         *)
(***************************************************************************)
StandsOn ==
  [ dmx |-> {"sys"}, ssm_lib |-> {"sys"}, ssm |-> {"ssm_lib"},
    tsio_lib |-> {"sys"}, tsio_buf |-> {"tsio_lib"}, tsio |-> {"tsio_lib"},
    tsio_in |-> {"tsio", "tsio_buf"}, tsio_pid |-> {"tsio"}, tsio_on |-> {"tsio"},
    ram |-> {"dmx"}, band |-> {"dmx"}, band_port |-> {"band", "ram"},
    pid_ch |-> {"band"}, ts_buf |-> {"dmx"}, ts_port |-> {"dmx"},
    play |-> {"dmx"}, play_ch |-> {"play", "pid_ch"}, play_open |-> {"play"},
    filter |-> {"dmx"}, filter_on |-> {"filter", "play"},
    rec |-> {"dmx"}, rec_ch |-> {"rec", "pid_ch"}, rec_pid |-> {"rec"},
    rec_on |-> {"rec"}, klad_lib |-> {"sys"}, klad |-> {"klad_lib"},
    ks_lib |-> {"sys"}, ks |-> {"ks_lib"}, dsc |-> {"dmx"}, dsc_pid |-> {"dsc", "play"},
    dsc_ks |-> {"dsc", "ks"}, klad_slot |-> {"klad", "ks"} ]

(* A TS buffer and the attachment of its port to a demux are made in either *)
(* order; the one made last stands on the other.                            *)
Partner == [ts_buf |-> "ts_port", ts_port |-> "ts_buf"]
OtherEnd(r) == <<Partner[r[1]], r[2]>>
MadeBefore(p, s, r) ==
  \E j, k \in DOMAIN p.up : j < k /\ p.up[j].what = s /\ p.up[k].what = r

StandsIn(p, r, things) ==
  /\ r[1] \in DOMAIN StandsOn =>
       \A kind \in StandsOn[r[1]] : \E s \in things : s[1] = kind /\ s[2] \in { 0, r[2] }
  /\ r[1] \in DOMAIN Partner /\ MadeBefore(p, OtherEnd(r), r) => OtherEnd(r) \in things
Stands(r) == StandsIn(prog, r, held)

(* A handle is released before what it stands on, on every path: no demux   *)
(* is closed under an open channel, no key slot destroyed while it is       *)
(* attached, and a TS buffer and its port go in the reverse of the order    *)
(* they were made in.                                                       *)
DependentsGoFirst == \A r \in held : Stands(r)

(* main does not hang: once it is on its way it comes to wait for the user  *)
(* or to return; every thread it joins has been told to stop.               *)
MainEnds == phase \in { "up", "down" } ~> phase \in { "serve", "end" }
=============================================================================
