-------------------------- MODULE SampleLifeProofs --------------------------
(***************************************************************************)
(* For every set of tables: if each path through the ladder of a table     *)
(* fits the calls that lead to it, then the sample releases what it holds, *)
(* never takes away what a thread uses or what stands on another thing it  *)
(* holds, and leaves nothing behind, however its calls fail and its threads*)
(* are scheduled.  That the tables of the demux samples fit is an          *)
(* assumption TLC evaluates.                                               *)
(***************************************************************************)
EXTENDS SampleLife, TLAPS

(* What main holds, and which threads it has started, at its i-th call.     *)
Acquired(p, i) ==
  { p.up[k].what : k \in { j \in DOMAIN p.up : j < i /\ p.up[j].do = "get" /\ p.up[j].what # Nothing } }
Started(p, i) == { p.up[k].what : k \in { j \in DOMAIN p.up : j < i /\ p.up[j].do = "run" } }
Uses(p, w) == p.threads[w].uses \cup p.threads[w].last

(* The rest of a path, from a step on, fits what is held: it releases all of *)
(* it and nothing else, and joins w before it releases what w uses.          *)
Matches(s, from, things) ==
  /\ \A r \in Puts(s, from) : File(r) \/ r \in things
  /\ \A r \in things : Kept(r) \/ r \in Puts(s, from)
JoinsInTime(s, from, w, uses) ==
  \E k \in DOMAIN s :
    /\ from <= k /\ s[k].do = "join" /\ s[k].what = w
    /\ \A j \in DOMAIN s : from <= j /\ j < k /\ s[j].do = "put" => s[j].what \notin uses
NoRepeat(s) ==
  \A j, k \in DOMAIN s : s[j].do = "put" /\ s[k].do = "put" /\ s[j].what = s[k].what => j = k

(* A step releases a thing before what the thing stands on.                 *)
TopDown(p, s) ==
  \A k \in DOMAIN s : s[k].do = "put" => StandsIn(p, s[k].what, Puts(s, k + 1))

Fits(p, s, i) ==
  /\ s \in Seq(DownStep)
  /\ NoRepeat(s)
  /\ TopDown(p, s)
  /\ Matches(s, 1, Acquired(p, i))
  /\ \A w \in Started(p, i) : JoinsInTime(s, 1, w, Uses(p, w))

(* A table is sound if every path fits, a call acquires a thing once it has *)
(* what the thing stands on, and a thread is started once it has what it    *)
(* uses.                                                                    *)
Sound(p) ==
  /\ \A i \in Fallible(p) : Fits(p, Exit(p, i), i)
  /\ Fits(p, p.down, Len(p.up) + 1)
  /\ \A i \in DOMAIN p.up : p.up[i].do = "run" =>
       /\ p.up[i].what \in DOMAIN p.threads
       /\ Uses(p, p.up[i].what) \subseteq Acquired(p, i)
  /\ \A i \in DOMAIN p.up : p.up[i].do = "get" => StandsIn(p, p.up[i].what, Acquired(p, i))

ASSUME TablesSound == \A p \in Program : Sound(p)

-----------------------------------------------------------------------------
(* The inductive invariant: on the way up main holds what its calls have    *)
(* acquired; on the way down the rest of the path fits what is held.        *)
Upward ==
  phase \in { "up", "serve" } =>
    /\ held = Acquired(prog, at)
    /\ \A w \in Workers : pc[w] # "off" =>
         w \in Started(prog, at) /\ Uses(prog, w) \subseteq held
    /\ phase = "serve" => at = Len(prog.up) + 1

Downward ==
  phase \in { "down", "end" } =>
    /\ path \in Seq(DownStep)
    /\ NoRepeat(path)
    /\ TopDown(prog, path)
    /\ Matches(path, at, held)
    /\ \A w \in Workers : Running(w) =>
         Uses(prog, w) \subseteq held /\ JoinsInTime(path, at, w, Uses(prog, w))
    /\ phase = "end" => at = Len(path) + 1

IInv == TypeOK /\ Upward /\ Downward

-----------------------------------------------------------------------------
(***************************************************************************)
(* How what a path still does changes from one step to the next.           *)
(***************************************************************************)

(* After a step that releases, the rest fits what is left: no later step    *)
(* releases the same thing again.                                           *)
LEMMA ReleaseFits ==
  ASSUME NEW s \in Seq(DownStep), NoRepeat(s), NEW k \in DOMAIN s, s[k].do = "put",
         NEW things, Matches(s, k, things)
  PROVE Matches(s, k + 1, things \ { s[k].what })
<1>0. DOMAIN s \subseteq Nat  OBVIOUS
<1>1. ASSUME NEW r \in Puts(s, k + 1)
      PROVE File(r) \/ r \in things \ { s[k].what }
  <2>1. PICK j \in DOMAIN s : k + 1 <= j /\ s[j].do = "put" /\ s[j].what = r
    BY <1>1 DEF Puts
  <2>2. r \in Puts(s, k)  BY <1>0, <2>1 DEF Puts
  <2>3. r # s[k].what  BY <1>0, <2>1 DEF NoRepeat
  <2> QED  BY <2>2, <2>3 DEF Matches
<1>2. ASSUME NEW r \in things \ { s[k].what }
      PROVE Kept(r) \/ r \in Puts(s, k + 1)
  <2>1. CASE Kept(r)  BY <2>1
  <2>2. CASE r \in Puts(s, k)
    <3>1. PICK j \in DOMAIN s : k <= j /\ s[j].do = "put" /\ s[j].what = r
      BY <2>2 DEF Puts
    <3>2. k + 1 <= j  BY <1>0, <1>2, <3>1
    <3> QED  BY <3>1, <3>2 DEF Puts
  <2> QED  BY <1>2, <2>1, <2>2 DEF Matches
<1> QED  BY <1>1, <1>2 DEF Matches

(* A step that releases nothing leaves the rest as fit as it was.           *)
LEMMA OtherFits ==
  ASSUME NEW s \in Seq(DownStep), NEW k \in DOMAIN s, s[k].do # "put",
         NEW things, Matches(s, k, things)
  PROVE Matches(s, k + 1, things)
<1>0. DOMAIN s \subseteq Nat  OBVIOUS
<1>1. Puts(s, k + 1) = Puts(s, k)  BY <1>0 DEF Puts
<1> QED  BY <1>1 DEF Matches

(* A join that is not the next step is still to come, and still in time.    *)
LEMMA JoinStillToCome ==
  ASSUME NEW s \in Seq(DownStep), NEW k \in DOMAIN s, NEW w, NEW uses,
         JoinsInTime(s, k, w, uses), ~ (s[k].do = "join" /\ s[k].what = w)
  PROVE JoinsInTime(s, k + 1, w, uses)
<1>0. DOMAIN s \subseteq Nat  OBVIOUS
<1>1. PICK j \in DOMAIN s :
        /\ k <= j /\ s[j].do = "join" /\ s[j].what = w
        /\ \A i \in DOMAIN s : k <= i /\ i < j /\ s[i].do = "put" => s[i].what \notin uses
  BY DEF JoinsInTime
<1>2. k + 1 <= j  BY <1>0, <1>1
<1>3. \A i \in DOMAIN s : k + 1 <= i => k <= i  BY <1>0
<1> QED  BY <1>1, <1>2, <1>3 DEF JoinsInTime

(* Before the join of w no step releases what w uses.                       *)
LEMMA ReleasedIsUnused ==
  ASSUME NEW s \in Seq(DownStep), NEW k \in DOMAIN s, s[k].do = "put",
         NEW w, NEW uses, JoinsInTime(s, k, w, uses)
  PROVE s[k].what \notin uses
<1>0. DOMAIN s \subseteq Nat  OBVIOUS
<1>1. PICK j \in DOMAIN s :
        /\ k <= j /\ s[j].do = "join" /\ s[j].what = w
        /\ \A i \in DOMAIN s : k <= i /\ i < j /\ s[i].do = "put" => s[i].what \notin uses
  BY DEF JoinsInTime
<1>2. k < j  BY <1>0, <1>1
<1> QED  BY <1>0, <1>1, <1>2

(* One more call of main: what it acquires, the threads it has started.     *)
LEMMA AcquiredGrows ==
  ASSUME NEW p, p.up \in Seq(UpStep), NEW i \in DOMAIN p.up
  PROVE /\ Acquired(p, i + 1) =
             IF p.up[i].do = "get" /\ p.up[i].what # Nothing
             THEN Acquired(p, i) \cup { p.up[i].what } ELSE Acquired(p, i)
        /\ Started(p, i + 1) =
             IF p.up[i].do = "run" THEN Started(p, i) \cup { p.up[i].what } ELSE Started(p, i)
<1>0. DOMAIN p.up \subseteq Nat  OBVIOUS
<1>1. \A j \in DOMAIN p.up : j < i + 1 <=> j < i \/ j = i  BY <1>0
<1> QED  BY <1>1 DEF Acquired, Started

-----------------------------------------------------------------------------
LEMMA InvInit == Init => IInv
<1> SUFFICES ASSUME Init PROVE IInv  OBVIOUS
<1> USE DEF Init
<1>0. prog.up \in Seq(UpStep)  BY TablesTyped DEF ProgramOK
<1>1. TypeOK  BY <1>0 DEF TypeOK
<1>2. Acquired(prog, 1) = {}
  <2>1. \A j \in DOMAIN prog.up : ~ (j < 1)  BY <1>0
  <2> QED  BY <2>1 DEF Acquired
<1>3. Upward  BY <1>2 DEF Upward
<1>4. Downward  BY DEF Downward
<1> QED  BY <1>1, <1>3, <1>4 DEF IInv

-----------------------------------------------------------------------------
(* main on its way up: what it holds follows its calls.                     *)
LEMMA UpKeeps == IInv /\ (Acquire \/ Spawn \/ Serve) => IInv'
<1> SUFFICES ASSUME IInv, Acquire \/ Spawn \/ Serve PROVE IInv'  OBVIOUS
<1> USE DEF IInv
<1>0. /\ prog \in Program /\ prog.up \in Seq(UpStep)
      /\ phase = "up" /\ at \in 1 .. Len(prog.up) + 1 /\ path = <<>>
      /\ prog' = prog /\ path' = path /\ raised' = raised
  BY TablesTyped DEF TypeOK, ProgramOK, Acquire, Spawn, Serve, Calling
<1>1. CASE Acquire
  <2>1. at \in DOMAIN prog.up /\ prog.up[at].do = "get" /\ phase' = "up" /\ at' = at + 1 /\ pc' = pc
    BY <1>1 DEF Acquire, Calling, Call
  <2>2. prog.up[at].what \in Things
    <3>1. prog.up[at] \in UpStep  BY <1>0, <2>1
    <3> QED  BY <3>1 DEF UpStep
  <2>3. TypeOK'
    BY <1>0, <1>1, <2>1, <2>2 DEF TypeOK, Acquire, Call
  <2>4. held' = Acquired(prog, at + 1) /\ Started(prog, at + 1) = Started(prog, at)
    BY <1>0, <1>1, <2>1, AcquiredGrows DEF Acquire, Call, Upward
  <2>5. held \subseteq held'  BY <1>1 DEF Acquire
  <2>6. Upward'  BY <1>0, <2>1, <2>4, <2>5 DEF Upward, Uses
  <2>7. Downward'  BY <2>1 DEF Downward
  <2> QED  BY <2>3, <2>6, <2>7
<1>2. CASE Spawn
  <2> DEFINE w == prog.up[at].what
  <2>1. at \in DOMAIN prog.up /\ prog.up[at].do = "run" /\ phase' = "up" /\ at' = at + 1 /\ held' = held
    BY <1>2 DEF Spawn, Calling, Call
  <2>2. w \in DOMAIN prog.threads /\ Uses(prog, w) \subseteq Acquired(prog, at)
    BY <1>0, <2>1, TablesSound DEF Sound
  <2>3. pc' = [pc EXCEPT ![w] = "check"]  BY <1>2 DEF Spawn, Call
  <2>4. TypeOK'
    <3>1. at' \in 1 .. Len(prog.up) + 1  BY <1>0, <2>1
    <3>2. pc' \in [Workers -> { "off", "check", "use", "last", "exit" }]
      BY <2>3 DEF TypeOK
    <3>3. \A v \in Workers : pc'[v] # "off" => v \in DOMAIN prog.threads
      BY <2>2, <2>3 DEF TypeOK
    <3> QED  BY <1>0, <2>1, <3>1, <3>2, <3>3 DEF TypeOK
  <2>5. Acquired(prog, at + 1) = Acquired(prog, at) /\ Started(prog, at + 1) = Started(prog, at) \cup {w}
    BY <1>0, <2>1, AcquiredGrows
  <2>6. ASSUME NEW v \in Workers, pc'[v] # "off"
        PROVE v \in Started(prog, at + 1) /\ Uses(prog, v) \subseteq held'
    <3>1. CASE v = w  BY <1>0, <2>1, <2>2, <2>5, <3>1 DEF Upward
    <3>2. CASE v # w
      <4>1. pc[v] # "off"  BY <2>3, <2>6, <3>2 DEF TypeOK
      <4> QED  BY <1>0, <2>1, <2>5, <4>1 DEF Upward
    <3> QED  BY <3>1, <3>2
  <2>7. Upward'  BY <1>0, <2>1, <2>5, <2>6 DEF Upward, Uses
  <2>8. Downward'  BY <2>1 DEF Downward
  <2> QED  BY <2>4, <2>7, <2>8
<1>3. CASE Serve
  <2>1. at = Len(prog.up) + 1 /\ at' = at /\ phase' = "serve" /\ held' = held /\ pc' = pc
    BY <1>0, <1>3 DEF Serve
  <2>2. TypeOK'  BY <1>0, <2>1 DEF TypeOK
  <2>3. Upward'  BY <1>0, <2>1 DEF Upward, Uses
  <2>4. Downward'  BY <2>1 DEF Downward
  <2> QED  BY <2>2, <2>3, <2>4
<1> QED  BY <1>1, <1>2, <1>3

(* main turns round, because a call has failed or the user quits: the path  *)
(* it takes fits what it holds at that call.                                *)
LEMMA TurnKeeps == IInv /\ (Fail \/ Quit) => IInv'
<1> SUFFICES ASSUME IInv, Fail \/ Quit PROVE IInv'  OBVIOUS
<1> USE DEF IInv
<1>0. /\ prog \in Program /\ prog.up \in Seq(UpStep) /\ phase \in { "up", "serve" }
      /\ phase' = "down" /\ at' = 1
      /\ prog' = prog /\ held' = held /\ raised' = raised /\ pc' = pc
  BY TablesTyped DEF ProgramOK, TypeOK, Fail, Quit, Calling
<1>1. path' \in Paths(prog) /\ Fits(prog, path', at)
  <2>1. CASE Fail
    <3>1. at \in Fallible(prog) /\ path' = Exit(prog, at)
      BY <2>1 DEF Fail, Calling, Call, Fallible, FailedPath
    <3>2. Fits(prog, Exit(prog, at), at)  BY <1>0, <3>1, TablesSound DEF Sound
    <3> QED  BY <3>1, <3>2 DEF Paths
  <2>2. CASE Quit
    <3>1. path' = prog.down /\ at = Len(prog.up) + 1  BY <2>2 DEF Quit, QuitPath, Upward
    <3>2. Fits(prog, prog.down, Len(prog.up) + 1)  BY <1>0, TablesSound DEF Sound
    <3> QED  BY <3>1, <3>2 DEF Paths
  <2> QED  BY <2>1, <2>2
<1>2. TypeOK'
  <2>1. path' \in Seq(DownStep)  BY <1>1 DEF Fits
  <2>2. at' \in 1 .. Len(path') + 1  BY <1>0, <2>1
  <2> QED  BY <1>0, <1>1, <2>2 DEF TypeOK
<1>3. Upward'  BY <1>0 DEF Upward
<1>4. Matches(path', 1, held) /\ path' \in Seq(DownStep) /\ NoRepeat(path') /\ TopDown(prog, path')
  BY <1>0, <1>1 DEF Upward, Fits
<1>5. ASSUME NEW w \in Workers, Running(w)
      PROVE Uses(prog, w) \subseteq held /\ JoinsInTime(path', 1, w, Uses(prog, w))
  <2>1. w \in Started(prog, at) /\ Uses(prog, w) \subseteq held
    BY <1>0, <1>5 DEF Upward, Running
  <2> QED  BY <1>1, <2>1 DEF Fits
<1>6. Downward'  BY <1>0, <1>4, <1>5 DEF Downward, Running, Uses
<1> QED  BY <1>2, <1>3, <1>6

(* main on its way down: the rest of the path keeps fitting what is held.   *)
LEMMA DownKeeps == IInv /\ Down => IInv'
<1> SUFFICES ASSUME IInv, Down PROVE IInv'  OBVIOUS
<1> USE DEF IInv
<1>0. /\ phase = "down" /\ path \in Seq(DownStep) /\ NoRepeat(path) /\ TopDown(prog, path)
      /\ Matches(path, at, held)
      /\ at \in 1 .. Len(path) + 1
      /\ prog' = prog /\ path' = path /\ pc' = pc
  BY DEF TypeOK, Downward, Down, Release, RaiseFlag, JoinThread, Return, Doing
<1>1. \A w \in Workers : Running(w) =>
        Uses(prog, w) \subseteq held /\ JoinsInTime(path, at, w, Uses(prog, w))
  BY <1>0 DEF Downward
<1>2. Upward'
  <2>1. phase' \in { "down", "end" }
    BY <1>0 DEF Down, Release, RaiseFlag, JoinThread, Return
  <2> QED  BY <2>1 DEF Upward
<1>3. CASE Return
  <2>1. at = Len(path) + 1 /\ at' = at /\ phase' = "end" /\ held' = held /\ raised' = raised
    BY <1>0, <1>3 DEF Return
  <2>2. TypeOK'  BY <1>0, <2>1 DEF TypeOK
  <2>3. Downward'  BY <1>0, <1>1, <2>1 DEF Downward, Running, Uses
  <2> QED  BY <1>2, <2>2, <2>3
<1>4. CASE Release \/ RaiseFlag \/ JoinThread
  <2>1. at \in DOMAIN path /\ at' = at + 1 /\ phase' = "down" /\ path[at] \in DownStep
    BY <1>0, <1>4 DEF Release, RaiseFlag, JoinThread, Doing
  <2>2. held' \subseteq Things /\ raised' \subseteq STRING
    BY <1>4, <2>1 DEF Release, RaiseFlag, JoinThread, TypeOK, DownStep, Things
  <2>3. TypeOK'  BY <1>0, <2>1, <2>2 DEF TypeOK
  <2>4. Matches(path, at + 1, held')
    <3>1. CASE Release  BY <1>0, <2>1, <3>1, ReleaseFits DEF Release, Doing
    <3>2. CASE RaiseFlag \/ JoinThread
      <4>1. held' = held /\ path[at].do # "put"  BY <3>2 DEF RaiseFlag, JoinThread, Doing
      <4> QED  BY <1>0, <2>1, <4>1, OtherFits
    <3> QED  BY <1>4, <3>1, <3>2
  <2>5. ASSUME NEW w \in Workers, Running(w)
        PROVE Uses(prog, w) \subseteq held' /\ JoinsInTime(path, at + 1, w, Uses(prog, w))
    <3>1. Uses(prog, w) \subseteq held /\ JoinsInTime(path, at, w, Uses(prog, w))
      BY <1>1, <2>5
    <3>2. ~ (path[at].do = "join" /\ path[at].what = w)
      BY <1>4, <2>5 DEF Release, RaiseFlag, JoinThread, Doing, Returned, Running
    <3>3. JoinsInTime(path, at + 1, w, Uses(prog, w))
      BY <1>0, <2>1, <3>1, <3>2, JoinStillToCome
    <3>4. Uses(prog, w) \subseteq held'
      <4>1. CASE Release
        <5>1. path[at].do = "put" /\ held' = held \ { path[at].what }
          BY <4>1 DEF Release, Doing
        <5>2. path[at].what \notin Uses(prog, w)
          BY <1>0, <2>1, <3>1, <5>1, ReleasedIsUnused
        <5> QED  BY <3>1, <5>1, <5>2
      <4>2. CASE RaiseFlag \/ JoinThread  BY <3>1, <4>2 DEF RaiseFlag, JoinThread
      <4> QED  BY <1>4, <4>1, <4>2
    <3> QED  BY <3>3, <3>4
  <2>6. Downward'  BY <1>0, <2>1, <2>4, <2>5 DEF Downward, Running, Uses
  <2> QED  BY <1>2, <2>3, <2>6
<1> QED  BY <1>3, <1>4 DEF Down

(* A thread works: it neither starts again nor outlives its join.           *)
LEMMA ThreadKeeps == ASSUME NEW w \in Workers PROVE IInv /\ Thread(w) => IInv'
<1> SUFFICES ASSUME IInv, Thread(w) PROVE IInv'  OBVIOUS
<1> USE DEF IInv
<1>0. UNCHANGED <<prog, phase, path, at, held, raised>>
  BY DEF Thread, CheckFlag, WorkOn, Finish
<1>1. Running(w) /\ \E q \in { "check", "use", "last", "exit" } : pc' = [pc EXCEPT ![w] = q]
  BY DEF Thread, CheckFlag, WorkOn, Finish, Running
<1>2. PICK q \in { "check", "use", "last", "exit" } : pc' = [pc EXCEPT ![w] = q]
  BY <1>1
<1>3. \A v \in Workers : pc'[v] # "off" => pc[v] # "off"
  BY <1>1, <1>2 DEF TypeOK, Running
<1>4. \A v \in Workers : Running(v)' => Running(v)
  BY <1>1, <1>2 DEF TypeOK, Running
<1>5. TypeOK'
  <2>1. pc' \in [Workers -> { "off", "check", "use", "last", "exit" }]
    BY <1>2 DEF TypeOK
  <2>2. \A v \in Workers : pc'[v] # "off" => v \in DOMAIN prog.threads
    BY <1>3 DEF TypeOK
  <2> QED  BY <1>0, <2>1, <2>2 DEF TypeOK
<1>6. Upward'  BY <1>0, <1>3 DEF Upward, Uses
<1>7. Downward'  BY <1>0, <1>4 DEF Downward, Uses
<1> QED  BY <1>5, <1>6, <1>7

LEMMA InvNext == IInv /\ [Next]_vars => IInv'
<1> SUFFICES ASSUME IInv, [Next]_vars PROVE IInv'  OBVIOUS
<1>1. CASE Up
  BY <1>1, UpKeeps, TurnKeeps DEF Up
<1>2. CASE Quit  BY <1>2, TurnKeeps
<1>3. CASE Down  BY <1>3, DownKeeps
<1>4. ASSUME NEW w \in Workers, Thread(w) PROVE IInv'  BY <1>4, ThreadKeeps
<1>5. CASE UNCHANGED vars
  BY <1>5 DEF vars, IInv, TypeOK, Upward, Downward, Running, Uses
<1> QED  BY <1>1, <1>2, <1>3, <1>4, <1>5 DEF Next

LEMMA InvAlways == Spec => []IInv
BY InvInit, InvNext, PTL DEF Spec

-----------------------------------------------------------------------------
(* main stays on the calls of its table and on a path one of them leads to. *)
THEOREM SampleTypes == Spec => []TypeOK
<1>1. IInv => TypeOK  BY DEF IInv
<1> QED  BY <1>1, InvAlways, PTL

(* Whichever call fails, what main still does releases what it holds, all   *)
(* of it and nothing else.                                                  *)
THEOREM LadderReleasesWhatIsHeld == Spec => []LadderMatches
<1>1. IInv => LadderMatches
  BY DEF IInv, Downward, Matches, LadderMatches
<1> QED  BY <1>1, InvAlways, PTL

(* main joins a thread before it releases what the thread works on.         *)
THEOREM ThreadsUseWhatIsHeld == Spec => []ThreadUsesHeld
<1>1. IInv => ThreadUsesHeld
  <2> SUFFICES ASSUME IInv, NEW w \in Workers, NEW r \in Touches(w) PROVE r \in held
    BY DEF ThreadUsesHeld
  <2>1. pc[w] \in { "use", "last" }  BY DEF Touches
  <2>2. Touches(w) \subseteq Uses(prog, w)  BY <2>1 DEF Touches, Uses
  <2>3. Uses(prog, w) \subseteq held
    BY <2>1 DEF IInv, TypeOK, Upward, Downward, Running
  <2> QED  BY <2>2, <2>3
<1> QED  BY <1>1, InvAlways, PTL

(* When main has returned no thread runs and no library or object is left.  *)
THEOREM NothingIsLeft == Spec => []NothingLeft
<1>1. IInv => NothingLeft
  <2> SUFFICES ASSUME IInv, phase = "end" PROVE NothingLeft  BY DEF NothingLeft
  <2>1. path \in Seq(DownStep) /\ at = Len(path) + 1 /\ Matches(path, at, held)
    BY DEF IInv, Downward
  <2>2. \A j \in DOMAIN path : ~ (at <= j)  BY <2>1
  <2>3. Puts(path, at) = {}  BY <2>2 DEF Puts
  <2>4. \A r \in held : Kept(r)  BY <2>1, <2>3 DEF Matches
  <2>5. \A w \in Workers : ~ Running(w)
    BY <2>2 DEF IInv, Downward, JoinsInTime
  <2> QED  BY <2>4, <2>5 DEF NothingLeft
<1> QED  BY <1>1, InvAlways, PTL

-----------------------------------------------------------------------------
(* More things hold up what fewer things hold up.                           *)
LEMMA MoreHoldsUp ==
  ASSUME NEW p, NEW r, NEW S, NEW T, StandsIn(p, r, S), S \subseteq T
  PROVE StandsIn(p, r, T)
BY DEF StandsIn

(* No thing but a handle or a state of one stands on another, and none      *)
(* stands on a file.                                                        *)
LEMMA HandlesStand ==
  /\ \A r : r[1] \in DOMAIN StandsOn => ~ Kept(r)
  /\ \A r, s : r[1] \in DOMAIN StandsOn /\ s[1] \in StandsOn[r[1]] => ~ File(s)
  /\ \A r : r[1] \in DOMAIN Partner => ~ Kept(r) /\ ~ File(OtherEnd(r))
<1>1. \A r : r[1] \in DOMAIN StandsOn => ~ Kept(r)  BY DEF StandsOn, Kept, File
<1>2. \A r, s : r[1] \in DOMAIN StandsOn /\ s[1] \in StandsOn[r[1]] => ~ File(s)
  BY DEF StandsOn, File
<1>3. ASSUME NEW r, r[1] \in DOMAIN Partner
      PROVE ~ Kept(r) /\ ~ File(OtherEnd(r))
  <2>1. r[1] \in { "ts_buf", "ts_port" }  BY <1>3 DEF Partner
  <2>2. OtherEnd(r)[1] \in { "ts_buf", "ts_port" }  BY <2>1 DEF OtherEnd, Partner
  <2> QED  BY <2>1, <2>2 DEF Kept, File
<1> QED  BY <1>1, <1>2, <1>3

(* No demux is closed under an open channel, no key slot destroyed while it *)
(* is attached, no library while it has objects; a TS buffer and its port   *)
(* go in reverse order: whichever call fails, what a thing stands on is     *)
(* there as long as the thing is.                                           *)
THEOREM WhatStandsIsHeldUp == Spec => []DependentsGoFirst
<1>1. IInv => DependentsGoFirst
  <2> SUFFICES ASSUME IInv, NEW r \in held PROVE StandsIn(prog, r, held)
    BY DEF DependentsGoFirst, Stands
  <2>1. prog \in Program /\ prog.up \in Seq(UpStep) /\ DOMAIN prog.up \subseteq Nat
    BY TablesTyped DEF IInv, TypeOK, ProgramOK
  <2>2. CASE phase \in { "up", "serve" }
    <3>1. held = Acquired(prog, at) /\ at \in Nat
      BY <2>1, <2>2 DEF IInv, TypeOK, Upward
    <3>2. PICK k \in DOMAIN prog.up : k < at /\ prog.up[k].do = "get" /\ r = prog.up[k].what
      BY <3>1 DEF Acquired
    <3>3. StandsIn(prog, r, Acquired(prog, k))  BY <2>1, <3>2, TablesSound DEF Sound
    <3>4. Acquired(prog, k) \subseteq Acquired(prog, at)
      <4>1. \A j \in DOMAIN prog.up : j < k => j < at  BY <2>1, <3>1, <3>2
      <4> QED  BY <4>1 DEF Acquired
    <3> QED  BY <3>1, <3>3, <3>4, MoreHoldsUp
  <2>3. CASE phase \in { "down", "end" }
    <3>1. path \in Seq(DownStep) /\ TopDown(prog, path) /\ Matches(path, at, held) /\ at \in Nat
      BY <2>3 DEF IInv, TypeOK, Downward
    <3>2. CASE Kept(r)  BY <3>2, HandlesStand DEF StandsIn
    <3>3. CASE ~ Kept(r)
      <4>1. PICK k \in DOMAIN path : at <= k /\ path[k].do = "put" /\ path[k].what = r
        BY <3>1, <3>3 DEF Matches, Puts
      <4>2. StandsIn(prog, r, Puts(path, k + 1))  BY <3>1, <4>1 DEF TopDown
      <4>3. \A s \in Puts(path, k + 1) : File(s) \/ s \in held
        <5>1. \A j \in DOMAIN path : k + 1 <= j => at <= j  BY <3>1, <4>1
        <5>2. Puts(path, k + 1) \subseteq Puts(path, at)  BY <5>1 DEF Puts
        <5> QED  BY <3>1, <5>2 DEF Matches
      <4>4. ASSUME r[1] \in DOMAIN StandsOn, NEW kind \in StandsOn[r[1]]
            PROVE \E s \in held : s[1] = kind /\ s[2] \in { 0, r[2] }
        <5>1. PICK s \in Puts(path, k + 1) : s[1] = kind /\ s[2] \in { 0, r[2] }
          BY <4>2, <4>4 DEF StandsIn
        <5>2. ~ File(s)  BY <4>4, <5>1, HandlesStand
        <5> QED  BY <4>3, <5>1, <5>2
      <4>5. ASSUME r[1] \in DOMAIN Partner, MadeBefore(prog, OtherEnd(r), r)
            PROVE OtherEnd(r) \in held
        <5>1. OtherEnd(r) \in Puts(path, k + 1)  BY <4>2, <4>5 DEF StandsIn
        <5> QED  BY <4>3, <4>5, <5>1, HandlesStand
      <4> QED  BY <4>4, <4>5 DEF StandsIn
    <3> QED  BY <3>2, <3>3
  <2> QED  BY <2>2, <2>3 DEF IInv, TypeOK
<1> QED  BY <1>1, InvAlways, PTL
=============================================================================
