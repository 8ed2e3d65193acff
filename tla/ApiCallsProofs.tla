--------------------------- MODULE ApiCallsProofs ---------------------------
(***************************************************************************)
(* Time-outs end on time for every width of the counter, also under the      *)
(* calls of the API; and a get returns what was set, for every number of      *)
(* calls, losses and late answers, when one exchange alone does               *)
(* (TablesRoundTrip, which TLC evaluates on the tables).                      *)
(***************************************************************************)
EXTENDS ApiCalls, TLAPS

USE TimeAssumption

-----------------------------------------------------------------------------
(* The comparison                                                           *)

(* A sum of two times below the range stays a time and moves as far.          *)
LEMMA WrapMoves ==
  ASSUME NEW a \in Time, NEW d \in 0 .. Half
  PROVE  Wrap(a + d) \in Time /\ Wrap(a + d) \in { a + d, a + d - 2 * Half }
  BY DEF Wrap, Time

(* Less than half a turn from a time-out, on either side of it and wherever   *)
(* the roll-over is, s_time_out_milli_is says whether it is past.             *)
LEMMA ExpiredIsPast ==
  ASSUME NEW to \in Time, NEW new \in Time, NEW n \in Int,
         1 - Half <= n, n <= Half - 1, Ahead(new, to, n)
  PROVE  Expired(to, new) <=> 0 <= n
  BY DEF Expired, Ahead, Time, MilliToMax

(* One step of the counter away from a fixed reading.                         *)
LEMMA AheadMoves ==
  ASSUME NEW a \in Time, NEW b \in Time, NEW n \in Int, Ahead(a, b, n),
         NEW c \in Time, c \in { a + 1, a + 1 - 2 * Half },
         - Half <= n, n <= 2 * Half - 3
  PROVE  Ahead(c, b, n + 1)
<1>1. CASE c = a + 1
  BY <1>1 DEF Ahead, Time
<1>2. CASE c = a + 1 - 2 * Half
  BY <1>2 DEF Ahead, Time
<1> QED BY <1>1, <1>2

-----------------------------------------------------------------------------
LEMMA InitTime == Init => TimeInv
  BY DEF Init, TimeInv, TypeOK, EndsOnTime, Time

LEMMA NextTime == TimeInv /\ [Next]_vars => TimeInv'
<1>1. ASSUME TimeInv, Tick PROVE TimeInv'
  <2> USE <1>1 DEF TimeInv, TypeOK
  <2>1. /\ milli_new' \in Time
        /\ milli_new' \in { milli_new + 1, milli_new + 1 - 2 * Half }
    BY WrapMoves DEF Tick
  <2>2. TypeOK'
    BY <2>1 DEF Tick
  <2>3. ASSUME user' = "waiting"
        PROVE  /\ Ahead(milli_new, milli_to, elapsed - time_out)'
               /\ Ahead(milli_new, milli_set, elapsed)'
               /\ (elapsed - gap < time_out \/ elapsed <= gap)'
    <3>1. user = "waiting" /\ gap < MaxGap
      BY <2>3 DEF Tick
    <3>2. elapsed + 1 <= time_out + MaxGap
      BY <3>1
    <3>3. /\ elapsed' = elapsed + 1 /\ gap' = gap + 1
          /\ UNCHANGED << milli_to, milli_set, time_out >>
      BY <3>1, <3>2 DEF Tick
    <3>4. Ahead(milli_new', milli_to, (elapsed - time_out) + 1)
      BY <2>1, <3>1, <3>2, AheadMoves
    <3>5. Ahead(milli_new', milli_set, elapsed + 1)
      BY <2>1, <3>1, <3>2, AheadMoves
    <3>6. elapsed' - time_out' = (elapsed - time_out) + 1
      BY <3>3
    <3> QED BY <3>1, <3>3, <3>4, <3>5, <3>6 DEF Ahead
  <2>4. EndsOnTime'
    BY <2>3 DEF Tick, EndsOnTime
  <2> QED BY <2>2, <2>3, <2>4
<1>2. ASSUME TimeInv, NEW t \in 0 .. MilliToMax - 1, TimeOutSet(t) PROVE TimeInv'
  <2>1. /\ milli_to' \in Time
        /\ milli_to' \in { milli_new + t, milli_new + t - 2 * Half }
    BY <1>2, WrapMoves DEF TimeOutSet, TimeInv, TypeOK, MilliToMax
  <2> QED
    BY <1>2, <2>1 DEF TimeOutSet, TimeInv, TypeOK, EndsOnTime, Ahead, Time, MilliToMax
<1>3. ASSUME TimeInv, TimeOutIs PROVE TimeInv'
  <2> USE <1>3 DEF TimeInv, TypeOK
  <2>1. /\ elapsed - time_out \in Int
        /\ 1 - Half <= elapsed - time_out /\ elapsed - time_out <= Half - 1
    BY DEF TimeOutIs, EndsOnTime
  <2>2. Expired(milli_to, milli_new) <=> time_out <= elapsed
    BY <2>1, ExpiredIsPast DEF TimeOutIs
  <2>3. UNCHANGED << milli_new, milli_to, milli_set, time_out, elapsed >> /\ gap' = 0
    BY DEF TimeOutIs
  <2>4. user' = IF time_out <= elapsed THEN "expired" ELSE "waiting"
    BY <2>2 DEF TimeOutIs
  <2>5. TypeOK'
    BY <2>3, <2>4
  <2>6. EndsOnTime'
    BY <2>3, <2>4 DEF EndsOnTime, TimeOutIs
  <2>7. user' = "waiting" => /\ Ahead(milli_new, milli_to, elapsed - time_out)'
                             /\ Ahead(milli_new, milli_set, elapsed)'
    BY <2>3 DEF TimeOutIs, Ahead
  <2>8. user' = "waiting" => (elapsed - gap < time_out)'
    BY <2>3, <2>4
  <2> QED BY <2>5, <2>6, <2>7, <2>8
<1>4. ASSUME TimeInv, UNCHANGED vars PROVE TimeInv'
  BY <1>4 DEF vars, TimeInv, TypeOK, EndsOnTime, Ahead
<1>5. ASSUME TimeInv, Leave PROVE TimeInv'
  BY <1>5 DEF Leave, TimeInv, TypeOK, EndsOnTime
<1> QED BY <1>1, <1>2, <1>3, <1>4, <1>5 DEF Next

LEMMA InductiveTime == Spec => []TimeInv
  BY InitTime, NextTime, PTL DEF Spec

-----------------------------------------------------------------------------
(* A wait of the library (inv_sys_time_milli_delay, the wait for a response)  *)
(* ends neither early nor late, whatever the counter read when it began, if   *)
(* its loop comes round within half a turn of the counter.                    *)
THEOREM WaitsEndOnTime == Spec => []EndsOnTime
  BY InductiveTime, PTL DEF TimeInv

(* inv_sys_time_milli_diff_get of the start of a wait and the present is the   *)
(* time between them, roll-over or not.                                       *)
THEOREM DifferenceIsElapsed == Spec => []DiffIsElapsed
<1>1. TimeInv => DiffIsElapsed
  BY DEF TimeInv, TypeOK, EndsOnTime, DiffIsElapsed, DiffGet, Ahead, Time
<1> QED BY <1>1, InductiveTime, PTL

-----------------------------------------------------------------------------
(* One exchange: what is pushed is popped.                                    *)

\* The chip: the place a get asks for, what it stores of a set, its answers.
Asked(rw, k) == SubSeq(Place(rw.ask, k), 1, Len(rw.key))
SetPar(rw, k, v) ==
  Pushed(Place(rw.key, k), rw.val, Values(rw.val, v, Count(Place(rw.key, k))))
Stored(rw, par) == [at |-> SubSeq(par, 1, Len(rw.key)),
                    bytes |-> SubSeq(par, Len(rw.key) + 1, Len(par))]
AnswerUnset(rw, k) == Pushed(<< 0 >>, rw.val, Values(rw.val, 1, Count(Asked(rw, k))))
Read(rw, k, par) == Tail(Popped(par, << Byte >> \o rw.val, Count(Place(rw.ask, k))))

(* A get alone returns what the chip answers; a get after a set of the same   *)
(* place returns the values of the set.  This is one exchange of the codec,   *)
(* without calls that time out or answers that come late.                     *)
RoundTrips(rw) ==
  /\ "get" \in rw.calls => \A k \in Keys(rw) :
       /\ Asked(rw, k) # NoStore.at
       /\ Read(rw, k, AnswerUnset(rw, k)) = Values(rw.val, 1, Count(Place(rw.ask, k)))
  /\ { "set", "get" } \subseteq rw.calls => \A k, l \in Keys(rw), v \in 0 .. 1 :
       LET s == Stored(rw, SetPar(rw, k, v)) IN
         Place(rw.key, k) = Place(rw.key, l) /\ Asked(rw, l) = Place(rw.key, l) =>
           /\ s.at = Place(rw.key, k)
           /\ Read(rw, l, << 0 >> \o s.bytes) = Values(rw.val, v, Count(Place(rw.key, k)))

ASSUME TablesRoundTrip ==
  /\ ResultOf(<< 1 >>) # 0
  /\ \A rw \in Row : rw.calls \subseteq { "set", "get" } /\ RoundTrips(rw)

-----------------------------------------------------------------------------
(* Many exchanges: calls may time out, answers be lost or late.               *)

\* The parameters of a request of op o, and what it carries of the caller's.
ParOf(o, k, v) == IF o = "set" THEN SetPar(row, k, v) ELSE Place(row.ask, k)
ValsOf(o, k, v) == IF o = "set" THEN Values(row.val, v, Count(Place(row.key, k))) ELSE << >>

Requests == { [op |-> o, tag |-> n, key |-> k, vals |-> ValsOf(o, k, v), par |-> ParOf(o, k, v)] :
                o \in row.calls, n \in Nat, k \in Keys(row), v \in 0 .. 1 }
Kept == { NoStore } \cup { Stored(row, SetPar(row, k, v)) : k \in Keys(row), v \in 0 .. 1 }
Answers == { << 0 >>, << 1 >> } \cup { AnswerUnset(row, k) : k \in Keys(row) }
             \cup { << 0 >> \o s.bytes : s \in Kept }
Responses == [ op : row.calls, tag : Nat, par : Answers ]

\* The answer of the chip to a get, by what it has now.
AnswerNow == IF Asked(row, key) = store.at THEN << 0 >> \o store.bytes ELSE AnswerUnset(row, key)

ShapeOK ==
  /\ row \in Row /\ calls \in 0 .. MaxCalls /\ pc \in { "idle", "wait" }
  /\ inbox \in Seq(Requests) /\ outbox \in Seq(Responses)
  /\ pc = "wait" => calls # 0 /\ ret = "none" /\ op \in row.calls /\ key \in Keys(row)

\* Only the last request can be the one of the present call.
Now == TagCode(calls)
InboxOK == \A j \in 1 .. Len(inbox) :
  inbox[j].tag = Now => j = Len(inbox) /\ inbox[j].op = op /\ inbox[j].key = key

\* A response to the present call finds no request left that could change the
\* chip before it is popped.
IsAnswer(p) ==
  p.tag = Now => /\ inbox = << >> /\ p.op = op
                 /\ op = "get" => p.par \in { << 1 >>, AnswerNow }
AnswersOK ==
  /\ \A j \in 1 .. Len(outbox) : IsAnswer(outbox[j])
  /\ mes_ack.op # "none" => IsAnswer(mes_ack)

\* The chip has what the last set it has taken carried.
StoreOK ==
  store = NoStore \/ \E k \in Keys(row), v \in 0 .. 1 :
    /\ "set" \in row.calls
    /\ store = Stored(row, SetPar(row, k, v))
    /\ taken.key = k /\ taken.vals = Values(row.val, v, Count(Place(row.key, k)))

Returned == pc = "idle" /\ ret = "SUCCESS" /\ op = "get" => inbox = << >> /\ SetIsGot

CallsInv == ShapeOK /\ InboxOK /\ AnswersOK /\ StoreOK /\ Returned

(* What the tag codes are good for: none is given out while a request or an   *)
(* answer of an earlier call with the same one is still under way.  That is   *)
(* TagMod calls ago, and each call has waited for its answer or its time-out. *)
TagIsFresh == calls' # calls =>
  /\ \A j \in 1 .. Len(inbox) : inbox[j].tag # TagCode(calls')
  /\ \A j \in 1 .. Len(outbox) : outbox[j].tag # TagCode(calls')

LEMMA SequenceFacts ==
  ASSUME NEW S, NEW s \in Seq(S)
  PROVE  /\ \A x \in S : /\ Append(s, x) \in Seq(S) /\ Len(Append(s, x)) = Len(s) + 1
                         /\ Append(s, x)[Len(s) + 1] = x
                         /\ \A j \in 1 .. Len(s) : Append(s, x)[j] = s[j]
         /\ s # << >> => /\ Head(s) \in S /\ Head(s) = s[1] /\ Tail(s) \in Seq(S)
                         /\ 1 <= Len(s) /\ Len(Tail(s)) = Len(s) - 1
                         /\ \A j \in 1 .. Len(s) - 1 : Tail(s)[j] = s[j + 1]
                         /\ Len(s) = 1 => Tail(s) = << >>
         /\ Len(s) \in Nat /\ (s = << >> <=> Len(s) = 0)
         /\ \A j \in 1 .. Len(s) : s[j] \in S
<1>1. \A t \in Seq(S) : Len(t) = 0 => t = << >>
  OBVIOUS
<1>2. s # << >> => Tail(s) \in Seq(S) /\ Len(Tail(s)) = Len(s) - 1
  OBVIOUS
<1>3. s # << >> /\ Len(s) = 1 => Tail(s) = << >>
  <2> DEFINE t == Tail(s)
  <2>1. s # << >> => t \in Seq(S) /\ Len(t) = Len(s) - 1
    BY <1>2
  <2> HIDE DEF t
  <2>2. s # << >> /\ Len(s) = 1 => t = << >>
    BY <1>1, <2>1
  <2> QED BY <2>2 DEF t
<1>4. /\ \A x \in S : /\ Append(s, x) \in Seq(S) /\ Len(Append(s, x)) = Len(s) + 1
                      /\ Append(s, x)[Len(s) + 1] = x
                      /\ \A j \in 1 .. Len(s) : Append(s, x)[j] = s[j]
      /\ s # << >> => /\ Head(s) \in S /\ Head(s) = s[1] /\ 1 <= Len(s)
                      /\ \A j \in 1 .. Len(s) - 1 : Tail(s)[j] = s[j + 1]
      /\ Len(s) \in Nat /\ (s = << >> => Len(s) = 0)
      /\ \A j \in 1 .. Len(s) : s[j] \in S
  OBVIOUS
<1> QED BY <1>1, <1>2, <1>3, <1>4

(* A remainder below the modulus.                                            *)
LEMMA SmallRemainder ==
  ASSUME NEW m \in Nat, NEW n \in Nat, n < m
  PROVE  n % m = n
OBVIOUS

LEMMA TagCodes == \A n \in Nat : TagCode(n) \in Nat /\ (n < TagMod => TagCode(n) = n)
<1>1. TagMod \in Nat \ { 0 }
  BY CallAssumption
<1>2. \A n \in Nat : TagCode(n) \in Nat
  BY <1>1 DEF TagCode
<1>3. ASSUME NEW n \in Nat, n < TagMod
      PROVE  TagCode(n) = n
  BY <1>1, <1>3, SmallRemainder DEF TagCode
<1> QED BY <1>2, <1>3

(* What a request is.                                                         *)
LEMMA RequestFacts ==
  ASSUME NEW r \in Requests
  PROVE  /\ r.op \in row.calls /\ r.tag \in Nat
         /\ \E v \in 0 .. 1 : r.key \in Keys(row) /\ r.vals = ValsOf(r.op, r.key, v)
                                /\ r.par = ParOf(r.op, r.key, v)
BY DEF Requests

(* The oldest request.  While there is one nothing answers the present call.  *)
LEMMA OldestRequest ==
  ASSUME CallsInv, inbox # << >>
  PROVE  /\ Head(inbox) \in Requests /\ Tail(inbox) \in Seq(Requests)
         /\ Head(inbox).tag = Now =>
              Tail(inbox) = << >> /\ Head(inbox).op = op /\ Head(inbox).key = key
         /\ \A j \in 1 .. Len(Tail(inbox)) : Tail(inbox)[j].tag = Now =>
              j = Len(Tail(inbox)) /\ Tail(inbox)[j].op = op /\ Tail(inbox)[j].key = key
         /\ \A j \in 1 .. Len(outbox) : outbox[j].tag # Now
         /\ mes_ack.op # "none" => mes_ack.tag # Now
         /\ ~ (pc = "idle" /\ ret = "SUCCESS" /\ op = "get")
<1>1. /\ inbox \in Seq(Requests) /\ Head(inbox) \in Requests /\ Head(inbox) = inbox[1]
      /\ Tail(inbox) \in Seq(Requests) /\ Len(inbox) \in Nat /\ 1 <= Len(inbox)
      /\ Len(Tail(inbox)) = Len(inbox) - 1
      /\ \A j \in 1 .. Len(inbox) - 1 : Tail(inbox)[j] = inbox[j + 1]
      /\ Len(inbox) = 1 => Tail(inbox) = << >>
  BY SequenceFacts DEF CallsInv, ShapeOK
<1>2. 1 \in 1 .. Len(inbox) /\ \A j \in 1 .. Len(inbox) - 1 : j + 1 \in 1 .. Len(inbox)
  BY <1>1
<1>3. inbox[1].tag = Now => 1 = Len(inbox) /\ inbox[1].op = op /\ inbox[1].key = key
  BY <1>2 DEF CallsInv, InboxOK
<1>4. ASSUME NEW j \in 1 .. Len(inbox) - 1
      PROVE  Tail(inbox)[j].tag = Now =>
               j = Len(inbox) - 1 /\ Tail(inbox)[j].op = op /\ Tail(inbox)[j].key = key
  <2> DEFINE i == j + 1
  <2>1. i \in 1 .. Len(inbox) /\ Tail(inbox)[j] = inbox[i] /\ j = i - 1
    BY <1>1, <1>2
  <2>2. inbox[i].tag = Now => i = Len(inbox) /\ inbox[i].op = op /\ inbox[i].key = key
    BY <2>1 DEF CallsInv, InboxOK
  <2> HIDE DEF i
  <2> QED BY <2>1, <2>2
<1>5. /\ \A j \in 1 .. Len(outbox) : outbox[j].tag # Now
      /\ mes_ack.op # "none" => mes_ack.tag # Now
  BY DEF CallsInv, AnswersOK, IsAnswer
<1>6. ~ (pc = "idle" /\ ret = "SUCCESS" /\ op = "get")
  BY DEF CallsInv, Returned
<1> QED BY <1>1, <1>3, <1>4, <1>5, <1>6

(* The oldest request leaves the link, and p comes back.                      *)
LEMMA AnswerKeeps ==
  ASSUME CallsInv, inbox # << >>, NEW p \in Responses,
         p.tag = Head(inbox).tag, p.op = Head(inbox).op,
         p.tag = Now /\ op = "get" => p.par \in { << 1 >>, AnswerNow' },
         inbox' = Tail(inbox), outbox' = Append(outbox, p), StoreOK',
         UNCHANGED << row, pc, op, key, ret, mes_ack, calls >>
  PROVE  CallsInv'
<1>1. Requests' = Requests /\ Responses' = Responses
  BY DEF Requests, Responses, Answers, Kept, ParOf, ValsOf
<1>2. /\ outbox \in Seq(Responses) /\ outbox' \in Seq(Responses) /\ Len(outbox) \in Nat
      /\ Len(outbox') = Len(outbox) + 1 /\ outbox'[Len(outbox) + 1] = p
      /\ \A j \in 1 .. Len(outbox) : outbox'[j] = outbox[j]
  BY SequenceFacts DEF CallsInv, ShapeOK
<1>3. ShapeOK'
  BY <1>1, <1>2, OldestRequest DEF CallsInv, ShapeOK
<1>4. InboxOK'
  BY OldestRequest DEF InboxOK, Now
<1>5. AnswersOK'
  <2>1. IsAnswer(p)'
    BY OldestRequest DEF IsAnswer, Now
  <2>2. \A j \in 1 .. Len(outbox) : IsAnswer(outbox[j])'
    BY OldestRequest DEF IsAnswer, Now
  <2>3. mes_ack.op # "none" => IsAnswer(mes_ack)'
    BY OldestRequest DEF IsAnswer, Now
  <2>4. ASSUME NEW j \in 1 .. Len(outbox')
        PROVE  IsAnswer(outbox[j])'
    <3>1. j \in 1 .. Len(outbox) \/ j = Len(outbox) + 1
      BY <1>2
    <3> QED BY <1>2, <2>1, <2>2, <3>1 DEF IsAnswer
  <2> QED BY <2>3, <2>4 DEF AnswersOK
<1>6. Returned'
  BY OldestRequest DEF Returned
<1> QED BY <1>3, <1>4, <1>5, <1>6 DEF CallsInv

LEMMA StoreKept ==
  ASSUME StoreOK, UNCHANGED << row, store, taken >>
  PROVE  StoreOK'
BY DEF StoreOK

LEMMA ChipSetsKeeps ==
  ASSUME CallsInv, ChipSets
  PROVE  CallsInv'
<1> DEFINE r == Head(inbox)
           p == Response(r, << 0 >>)
<1>1. /\ inbox # << >> /\ r.op = "set" /\ inbox' = Tail(inbox)
      /\ store' = Stored(row, r.par) /\ taken' = [key |-> r.key, vals |-> r.vals]
      /\ outbox' = Append(outbox, p)
      /\ UNCHANGED << row, pc, op, key, ret, mes_ack, calls >>
  BY DEF ChipSets, Stored
<1>2. /\ r \in Requests /\ r.op \in row.calls /\ r.tag \in Nat
      /\ r.tag = Now => op = "set"
  BY <1>1, OldestRequest, RequestFacts
<1>3. PICK v \in 0 .. 1 : /\ r.key \in Keys(row) /\ r.vals = ValsOf("set", r.key, v)
                          /\ r.par = ParOf("set", r.key, v)
  BY <1>1, <1>2, RequestFacts
<1>4. StoreOK'
  BY <1>1, <1>2, <1>3 DEF StoreOK, ValsOf, ParOf
<1>5. p \in Responses /\ p.tag = r.tag /\ p.op = r.op
  BY <1>2 DEF Response, Responses, Answers
<1> HIDE DEF p
<1> QED BY <1>1, <1>2, <1>4, <1>5, AnswerKeeps

LEMMA ChipGetsKeeps ==
  ASSUME CallsInv, ChipGets
  PROVE  CallsInv'
<1> DEFINE r == Head(inbox)
           a == IF Asked(row, r.key) = store.at THEN << 0 >> \o store.bytes
                ELSE AnswerUnset(row, r.key)
           p == Response(r, a)
<1>1. /\ inbox # << >> /\ r.op = "get" /\ inbox' = Tail(inbox)
      /\ outbox' = Append(outbox, Response(r,
           IF SubSeq(r.par, 1, Len(row.key)) = store.at THEN << 0 >> \o store.bytes
           ELSE Pushed(<< 0 >>, row.val, Unset(SubSeq(r.par, 1, Len(row.key))))))
      /\ UNCHANGED << row, pc, op, key, ret, mes_ack, calls, store, taken >>
  BY DEF ChipGets
<1>2. /\ r \in Requests /\ r.op \in row.calls /\ r.tag \in Nat
      /\ r.tag = Now => r.key = key
  BY <1>1, OldestRequest, RequestFacts
<1>3. r.key \in Keys(row) /\ r.par = Place(row.ask, r.key)
  BY <1>1, <1>2, RequestFacts DEF ParOf
<1>4. outbox' = Append(outbox, p)
  BY <1>1, <1>3 DEF Asked, AnswerUnset, Unset
<1>5. a \in Answers
  <2>1. store \in Kept
    BY DEF CallsInv, StoreOK, Kept
  <2> QED BY <1>3, <2>1 DEF Answers
<1>6. r.tag = Now => a = AnswerNow'
  BY <1>1, <1>2 DEF AnswerNow
<1> HIDE DEF a
<1>7. p \in Responses /\ p.tag = r.tag /\ p.op = r.op /\ p.par = a
  BY <1>2, <1>5 DEF Response, Responses
<1>8. StoreOK'
  BY <1>1, StoreKept DEF CallsInv
<1> HIDE DEF p
<1> QED BY <1>1, <1>4, <1>6, <1>7, <1>8, AnswerKeeps

LEMMA ChipRefusesKeeps ==
  ASSUME CallsInv, ChipRefuses
  PROVE  CallsInv'
<1> DEFINE r == Head(inbox)
           p == Response(r, << 1 >>)
<1>1. /\ inbox # << >> /\ inbox' = Tail(inbox) /\ outbox' = Append(outbox, p)
      /\ UNCHANGED << row, pc, op, key, ret, mes_ack, calls, store, taken >>
  BY DEF ChipRefuses
<1>2. r.op \in row.calls /\ r.tag \in Nat
  BY <1>1, OldestRequest, RequestFacts
<1>3. p \in Responses /\ p.tag = r.tag /\ p.op = r.op /\ p.par = << 1 >>
  BY <1>2 DEF Response, Responses, Answers
<1>4. StoreOK'
  BY <1>1, StoreKept DEF CallsInv
<1> HIDE DEF p
<1> QED BY <1>1, <1>3, <1>4, AnswerKeeps

LEMMA LinkLosesKeeps ==
  ASSUME CallsInv, LinkLoses
  PROVE  CallsInv'
<1>0. /\ UNCHANGED << row, pc, op, key, ret, out, mes_ack, calls, store, taken >>
      /\ \/ inbox # << >> /\ inbox' = Tail(inbox) /\ outbox' = outbox
         \/ outbox # << >> /\ outbox' = Tail(outbox) /\ inbox' = inbox
  BY DEF LinkLoses
<1>1. Requests' = Requests /\ Responses' = Responses /\ AnswerNow' = AnswerNow
  BY <1>0 DEF Requests, Responses, Answers, Kept, ParOf, ValsOf, AnswerNow
<1>2. StoreOK'
  BY <1>0, StoreKept DEF CallsInv
<1>3. CASE inbox # << >> /\ inbox' = Tail(inbox) /\ outbox' = outbox
  <2>1. ShapeOK'
    BY <1>0, <1>1, <1>3, OldestRequest DEF CallsInv, ShapeOK
  <2>2. InboxOK'
    BY <1>0, <1>3, OldestRequest DEF InboxOK, Now
  <2>3. AnswersOK'
    BY <1>0, <1>3, OldestRequest DEF AnswersOK, IsAnswer, Now
  <2>4. Returned'
    BY <1>0, <1>3, OldestRequest DEF Returned
  <2> QED BY <1>2, <2>1, <2>2, <2>3, <2>4 DEF CallsInv
<1>4. CASE outbox # << >> /\ outbox' = Tail(outbox) /\ inbox' = inbox
  <2>1. /\ outbox \in Seq(Responses) /\ Tail(outbox) \in Seq(Responses) /\ Len(outbox) \in Nat
        /\ Len(Tail(outbox)) = Len(outbox) - 1
        /\ \A j \in 1 .. Len(outbox) - 1 : Tail(outbox)[j] = outbox[j + 1]
    BY <1>4, SequenceFacts DEF CallsInv, ShapeOK
  <2>2. ShapeOK' /\ InboxOK'
    BY <1>0, <1>1, <1>4, <2>1 DEF CallsInv, ShapeOK, InboxOK, Now
  <2>3. AnswersOK'
    <3>1. \A j \in 1 .. Len(outbox) - 1 : j + 1 \in 1 .. Len(outbox)
      BY <2>1
    <3>2. /\ Len(outbox') = Len(outbox) - 1
          /\ \A j \in 1 .. Len(outbox) - 1 : outbox'[j] = outbox[j + 1]
      BY <1>4, <2>1
    <3>3. /\ \A j \in 1 .. Len(outbox) : IsAnswer(outbox[j])
          /\ mes_ack.op # "none" => IsAnswer(mes_ack)
      BY DEF CallsInv, AnswersOK
    <3>4. ASSUME NEW q, IsAnswer(q)
          PROVE  IsAnswer(q)'
      BY <1>0, <1>1, <1>4, <3>4 DEF IsAnswer, Now
    <3>5. ASSUME NEW j \in 1 .. Len(outbox')
          PROVE  IsAnswer(outbox[j])'
      <4>1. PICK q : outbox'[j] = q /\ IsAnswer(q)
        BY <3>1, <3>2, <3>3
      <4>2. IsAnswer(q)'
        BY <4>1, <3>4
      <4> QED BY <4>1, <4>2 DEF IsAnswer
    <3>6. (mes_ack.op # "none" => IsAnswer(mes_ack))'
      BY <1>0, <3>3, <3>4 DEF IsAnswer
    <3> QED BY <3>5, <3>6 DEF AnswersOK
  <2>4. Returned'
    BY <1>0, <1>4 DEF CallsInv, Returned, SetIsGot, AsksForWhatWasSet, Unset
  <2> QED BY <1>2, <2>2, <2>3, <2>4 DEF CallsInv
<1> QED BY <1>0, <1>3, <1>4

LEMMA CallKeeps ==
  ASSUME CallsInv, NEW c \in { "set", "get" }, NEW k \in Keys(row), NEW v \in 0 .. 1,
         Call(c, k, v), TagIsFresh
  PROVE  CallsInv'
<1> DEFINE r == Request(c, k, v)
<1>1. /\ pc = "idle" /\ c \in row.calls /\ inbox' = Append(inbox, r)
      /\ mes_ack' = NoMessage /\ calls < MaxCalls /\ calls' = calls + 1 /\ op' = c /\ key' = k
      /\ pc' = "wait" /\ ret' = "none"
      /\ UNCHANGED << row, outbox, store, taken >>
  BY DEF Call
<1>2. /\ r \in Requests /\ r.tag = Now' /\ r.op = c /\ r.key = k
  <2>1. calls \in Nat /\ TagCode(calls + 1) \in Nat /\ Now' = TagCode(calls + 1)
    BY <1>1, TagCodes, CallAssumption DEF CallsInv, ShapeOK, Now
  <2>2. r = [op |-> c, tag |-> Now', key |-> k, vals |-> ValsOf(c, k, v),
             par |-> ParOf(c, k, v)]
    <3>1. CASE c = "set"
      BY <2>1, <3>1 DEF Request, ValsOf, ParOf, SetPar
    <3>2. CASE c # "set"
      BY <2>1, <3>2 DEF Request, ValsOf, ParOf
    <3> QED BY <3>1, <3>2
  <2> QED BY <1>1, <2>1, <2>2 DEF Requests
<1> HIDE DEF r
<1>3. Requests' = Requests /\ Responses' = Responses
  BY <1>1 DEF Requests, Responses, Answers, Kept, ParOf, ValsOf
<1>4. /\ inbox \in Seq(Requests) /\ inbox' \in Seq(Requests) /\ Len(inbox) \in Nat
      /\ Len(inbox') = Len(inbox) + 1 /\ inbox'[Len(inbox) + 1] = r
      /\ \A j \in 1 .. Len(inbox) : inbox'[j] = inbox[j] /\ inbox[j] \in Requests
  BY <1>1, <1>2, SequenceFacts DEF CallsInv, ShapeOK
<1>5. /\ calls \in Nat /\ calls + 1 \in 0 .. MaxCalls /\ calls + 1 # 0
      /\ \A j \in 1 .. Len(inbox) : inbox[j].tag # Now'
      /\ \A j \in 1 .. Len(outbox) : outbox[j].tag # Now'
  BY <1>1, CallAssumption DEF CallsInv, ShapeOK, TagIsFresh, Now
<1>6. ShapeOK'
  BY <1>1, <1>3, <1>4, <1>5 DEF CallsInv, ShapeOK
<1>7. InboxOK'
  <2>1. \A j \in 1 .. Len(inbox') : j \in 1 .. Len(inbox) \/ j = Len(inbox')
    BY <1>4
  <2> QED BY <1>1, <1>2, <1>4, <1>5, <2>1 DEF InboxOK
<1>8. AnswersOK'
  BY <1>1, <1>5 DEF AnswersOK, IsAnswer, NoMessage
<1>9. StoreOK' /\ Returned'
  BY <1>1, StoreKept DEF CallsInv, Returned
<1> QED BY <1>6, <1>7, <1>8, <1>9 DEF CallsInv

(* A step of the loop, or the last one: what is popped is what the chip has.  *)
LEMMA WaitKeeps ==
  ASSUME CallsInv, UNCHANGED << row, op, key, calls, inbox, store, taken >>, pc = "wait",
         \/ UNCHANGED << mes_ack, outbox >>
         \/ outbox # << >> /\ mes_ack' = Head(outbox) /\ outbox' = Tail(outbox),
         pc' \in { "idle", "wait" }, pc' = "wait" => ret' = ret, Returned'
  PROVE  CallsInv'
<1>1. Requests' = Requests /\ Responses' = Responses /\ AnswerNow' = AnswerNow
  BY DEF Requests, Responses, Answers, Kept, ParOf, ValsOf, AnswerNow
<1>2. /\ outbox \in Seq(Responses) /\ Len(outbox) \in Nat
      /\ outbox # << >> => /\ Tail(outbox) \in Seq(Responses) /\ 1 <= Len(outbox)
                           /\ Len(Tail(outbox)) = Len(outbox) - 1 /\ Head(outbox) = outbox[1]
                           /\ \A j \in 1 .. Len(outbox) - 1 : Tail(outbox)[j] = outbox[j + 1]
  BY SequenceFacts DEF CallsInv, ShapeOK
<1>3. ShapeOK' /\ InboxOK' /\ StoreOK'
  BY <1>1, <1>2, StoreKept DEF CallsInv, ShapeOK, InboxOK, Now
<1>4. AnswersOK'
  <2>1. \A p : IsAnswer(p)' <=> IsAnswer(p)
    BY <1>1 DEF IsAnswer, Now
  <2>2. CASE UNCHANGED << mes_ack, outbox >>
    BY <2>1, <2>2 DEF CallsInv, AnswersOK, IsAnswer, Now
  <2>3. CASE outbox # << >> /\ mes_ack' = Head(outbox) /\ outbox' = Tail(outbox)
    <3>1. 1 \in 1 .. Len(outbox) /\ \A j \in 1 .. Len(outbox) - 1 : j + 1 \in 1 .. Len(outbox)
      BY <1>2, <2>3
    <3> QED BY <1>1, <1>2, <2>3, <3>1 DEF CallsInv, AnswersOK, IsAnswer, Now
  <2> QED BY <2>2, <2>3
<1> QED BY <1>3, <1>4 DEF CallsInv

LEMMA PollKeeps ==
  ASSUME CallsInv, Poll
  PROVE  CallsInv'
<1>1. /\ UNCHANGED << row, op, key, calls, inbox, store, taken >> /\ pc = "wait"
      /\ \/ UNCHANGED << mes_ack, outbox >>
         \/ outbox # << >> /\ mes_ack' = Head(outbox) /\ outbox' = Tail(outbox)
      /\ \/ pc' = "idle" /\ ret' = "NO_RESPONSE"
         \/ pc' = "wait" /\ ret' = ret
  BY DEF Poll, Return
<1>2. Returned'
  BY <1>1 DEF Returned
<1> QED BY <1>1, <1>2, WaitKeeps

LEMMA RespondKeeps ==
  ASSUME CallsInv, Respond
  PROVE  CallsInv'
<1>1. /\ UNCHANGED << row, op, key, calls, inbox, store, taken, mes_ack, outbox >>
      /\ pc = "wait" /\ pc' = "idle" /\ mes_ack.op = op
      /\ \/ ret' # "SUCCESS"
         \/ /\ mes_ack.tag = Now /\ ResultOf(mes_ack.par) = 0
            /\ op = "get" => out' = Read(row, key, mes_ack.par)
  BY DEF Respond, Return, TagMatches, Read, Now
<1>2. Returned'
  <2> SUFFICES ASSUME ret' = "SUCCESS", op = "get"
               PROVE  inbox = << >> /\ SetIsGot'
    BY <1>1 DEF Returned
  <2>1. /\ row \in Row /\ key \in Keys(row) /\ "get" \in row.calls /\ StoreOK
        /\ inbox = << >> /\ mes_ack.par \in { << 1 >>, AnswerNow }
    BY <1>1 DEF CallsInv, ShapeOK, AnswersOK, IsAnswer
  <2>2. mes_ack.par = AnswerNow /\ RoundTrips(row)
    BY <1>1, <2>1, TablesRoundTrip
  <2>3. out' = Read(row, key, AnswerNow)
    BY <1>1, <2>2
  <2>4. ASSUME store = NoStore
        PROVE  out' = Unset(Place(row.ask, key))
    BY <2>1, <2>2, <2>3, <2>4 DEF RoundTrips, AnswerNow, Unset
  <2>5. ASSUME store # NoStore, AsksForWhatWasSet
        PROVE  out' = taken.vals
    <3>1. PICK k \in Keys(row), v \in 0 .. 1 :
            /\ "set" \in row.calls /\ store = Stored(row, SetPar(row, k, v))
            /\ taken.key = k /\ taken.vals = Values(row.val, v, Count(Place(row.key, k)))
      BY <2>1, <2>5 DEF StoreOK
    <3>2. Place(row.key, k) = Place(row.key, key) /\ Asked(row, key) = Place(row.key, key)
      BY <2>5, <3>1 DEF AsksForWhatWasSet, Asked
    <3>3. /\ store.at = Place(row.key, k)
          /\ Read(row, key, << 0 >> \o store.bytes)
               = Values(row.val, v, Count(Place(row.key, k)))
      BY <2>1, <2>2, <3>1, <3>2 DEF RoundTrips
    <3> QED BY <2>3, <3>1, <3>2, <3>3 DEF AnswerNow
  <2> QED BY <1>1, <2>1, <2>4, <2>5 DEF SetIsGot, AsksForWhatWasSet, Unset
<1> QED BY <1>1, <1>2, WaitKeeps

LEMMA CallsInitInv == CallsInit => CallsInv
BY CallAssumption DEF CallsInit, CallsInv, ShapeOK, InboxOK, AnswersOK, StoreOK, Returned, NoMessage

LEMMA CallsNextInv ==
  ASSUME CallsInv, [CallsNext]_<< vars, callVars >>, [TagIsFresh]_<< vars, callVars >>
  PROVE  CallsInv'
<1>1. CASE UNCHANGED callVars
  <2>1. Requests' = Requests /\ Responses' = Responses /\ AnswerNow' = AnswerNow
    BY <1>1 DEF callVars, Requests, Responses, Answers, Kept, ParOf, ValsOf, AnswerNow
  <2>2. ShapeOK' /\ InboxOK' /\ StoreOK' /\ AnswersOK'
    BY <1>1, <2>1, StoreKept
       DEF callVars, CallsInv, ShapeOK, InboxOK, AnswersOK, IsAnswer, Now
  <2>3. Returned'
    BY <1>1 DEF callVars, CallsInv, Returned, SetIsGot, AsksForWhatWasSet, Unset
  <2> QED BY <2>2, <2>3 DEF CallsInv
<1>2. CASE CallsNext
  BY <1>1, <1>2, CallKeeps, PollKeeps, RespondKeeps, ChipSetsKeeps, ChipGetsKeeps,
     ChipRefusesKeeps, LinkLosesKeeps DEF CallsNext, TimePasses
<1> QED BY <1>1, <1>2 DEF callVars

(* A get that succeeds returns what the last set the chip has taken for the   *)
(* same parameters wrote, whatever calls timed out and answers came late in   *)
(* between, as long as no tag code is given out that is still under way.      *)
THEOREM SetsAreGot ==
  CallsSpec /\ [][TagIsFresh]_<< vars, callVars >> => []SetIsGot
<1>1. /\ CallsInv /\ [CallsNext]_<< vars, callVars >> /\ [TagIsFresh]_<< vars, callVars >>
      => CallsInv'
  BY CallsNextInv
<1>2. CallsInv => SetIsGot
  BY DEF CallsInv, Returned, SetIsGot
<1> QED BY CallsInitInv, <1>1, <1>2, PTL DEF CallsSpec

-----------------------------------------------------------------------------
(* With fewer calls than tag codes every one is fresh.                        *)

TagsGiven ==
  /\ \A j \in 1 .. Len(inbox) : inbox[j].tag \in 1 .. calls
  /\ \A j \in 1 .. Len(outbox) : outbox[j].tag \in 1 .. calls

LEMMA TagsAreFresh ==
  ASSUME MaxCalls < TagMod, CallsInv, TagsGiven, CallsNext
  PROVE  TagIsFresh
<1> SUFFICES ASSUME calls' # calls
             PROVE  TagIsFresh
  BY DEF TagIsFresh
<1>1. calls < MaxCalls /\ calls' = calls + 1
  BY DEF CallsNext, Call, Poll, Return, Respond, TimePasses, callVars, ChipSets, ChipGets,
     ChipRefuses, LinkLoses
<1>2. calls \in Nat /\ calls + 1 \in Nat /\ calls + 1 < TagMod
  BY <1>1, CallAssumption DEF CallsInv, ShapeOK
<1>3. TagCode(calls + 1) = calls + 1
  BY <1>2, TagCodes
<1> QED BY <1>1, <1>2, <1>3 DEF TagIsFresh, TagsGiven

LEMMA TagsGivenStep ==
  ASSUME MaxCalls < TagMod, CallsInv, TagsGiven, [CallsNext]_<< vars, callVars >>
  PROVE  TagsGiven'
<1>1. /\ inbox \in Seq(Requests) /\ outbox \in Seq(Responses) /\ calls \in Nat
      /\ Len(inbox) \in Nat /\ Len(outbox) \in Nat
  BY DEF CallsInv, ShapeOK
<1>2. ASSUME outbox # << >>
      PROVE  \A j \in 1 .. Len(Tail(outbox)) : Tail(outbox)[j].tag \in 1 .. calls
  <2>1. /\ Len(Tail(outbox)) = Len(outbox) - 1
        /\ \A j \in 1 .. Len(outbox) - 1 : Tail(outbox)[j] = outbox[j + 1]
    BY <1>1, <1>2, SequenceFacts
  <2>2. \A j \in 1 .. Len(outbox) - 1 : j + 1 \in 1 .. Len(outbox)
    BY <1>1
  <2> QED BY <2>1, <2>2 DEF TagsGiven
<1>3. ASSUME inbox # << >>
      PROVE  /\ Head(inbox).tag \in 1 .. calls
             /\ \A j \in 1 .. Len(Tail(inbox)) : Tail(inbox)[j].tag \in 1 .. calls
  <2>1. /\ Head(inbox) = inbox[1] /\ 1 <= Len(inbox) /\ Len(Tail(inbox)) = Len(inbox) - 1
        /\ \A j \in 1 .. Len(inbox) - 1 : Tail(inbox)[j] = inbox[j + 1]
    BY <1>1, <1>3, SequenceFacts
  <2>2. 1 \in 1 .. Len(inbox) /\ \A j \in 1 .. Len(inbox) - 1 : j + 1 \in 1 .. Len(inbox)
    BY <1>1, <2>1
  <2> QED BY <2>1, <2>2 DEF TagsGiven
<1>4. ASSUME NEW c \in { "set", "get" }, NEW k \in Keys(row), NEW v \in 0 .. 1, Call(c, k, v)
      PROVE  TagsGiven'
  <2> DEFINE r == Request(c, k, v)
  <2>1. /\ inbox' = Append(inbox, r) /\ outbox' = outbox /\ calls < MaxCalls
        /\ calls' = calls + 1 /\ r.tag = TagCode(calls + 1)
    BY <1>4 DEF Call, Request
  <2>2. r.tag = calls + 1
    <3>1. calls + 1 \in Nat /\ calls + 1 < TagMod
      BY <1>1, <2>1, CallAssumption DEF CallsInv, ShapeOK
    <3>2. TagCode(calls + 1) = calls + 1
      BY <3>1, TagCodes
    <3> QED BY <2>1, <3>2
  <2> HIDE DEF r
  <2>3. /\ Len(Append(inbox, r)) = Len(inbox) + 1 /\ Append(inbox, r)[Len(inbox) + 1] = r
        /\ \A j \in 1 .. Len(inbox) : Append(inbox, r)[j] = inbox[j]
    BY <1>1
  <2>4. \A j \in 1 .. Len(inbox) + 1 : j \in 1 .. Len(inbox) \/ j = Len(inbox) + 1
    BY <1>1
  <2>5. \A n \in 1 .. calls : n \in 1 .. calls + 1
    BY <1>1
  <2>6. calls + 1 \in 1 .. calls + 1
    BY <1>1
  <2> QED BY <2>1, <2>2, <2>3, <2>4, <2>5, <2>6 DEF TagsGiven
<1>5. ASSUME inbox # << >>, inbox' = Tail(inbox), calls' = calls, NEW a,
             outbox' = Append(outbox, Response(Head(inbox), a))
      PROVE  TagsGiven'
  <2> DEFINE p == Response(Head(inbox), a)
  <2>1. p.tag = Head(inbox).tag
    BY DEF Response
  <2> HIDE DEF p
  <2>2. /\ Len(Append(outbox, p)) = Len(outbox) + 1 /\ Append(outbox, p)[Len(outbox) + 1] = p
        /\ \A j \in 1 .. Len(outbox) : Append(outbox, p)[j] = outbox[j]
    BY <1>1
  <2>3. \A j \in 1 .. Len(outbox) + 1 : j \in 1 .. Len(outbox) \/ j = Len(outbox) + 1
    BY <1>1
  <2> QED BY <1>3, <1>5, <2>1, <2>2, <2>3 DEF TagsGiven, p
<1>6. CASE ChipSets
  BY <1>5, <1>6 DEF ChipSets
<1>7. CASE ChipGets
  BY <1>5, <1>7 DEF ChipGets
<1>8. CASE ChipRefuses
  BY <1>5, <1>8 DEF ChipRefuses
<1>9. ASSUME calls' = calls, inbox' \in { inbox, Tail(inbox) }, inbox' # inbox => inbox # << >>,
             outbox' \in { outbox, Tail(outbox) }, outbox' # outbox => outbox # << >>
      PROVE  TagsGiven'
  BY <1>2, <1>3, <1>9 DEF TagsGiven
<1>10. CASE Poll \/ Respond \/ LinkLoses \/ UNCHANGED callVars
  BY <1>9, <1>10 DEF Poll, Return, Respond, LinkLoses, callVars
<1> QED BY <1>4, <1>6, <1>7, <1>8, <1>10 DEF CallsNext, TimePasses, callVars

(* With fewer calls than tag codes every new code is fresh, and so every set  *)
(* is got, with no assumption on the steps.                                   *)
THEOREM FewCallsAreFresh ==
  ASSUME MaxCalls < TagMod
  PROVE  CallsSpec => [][TagIsFresh]_<< vars, callVars >> /\ []SetIsGot
<1> DEFINE Inv == CallsInv /\ TagsGiven
<1>1. CallsInit => Inv
  BY CallsInitInv DEF CallsInit, TagsGiven
<1>2. Inv /\ [CallsNext]_<< vars, callVars >> => [TagIsFresh]_<< vars, callVars >>
  BY TagsAreFresh
<1>3. Inv /\ [CallsNext]_<< vars, callVars >> => Inv'
  BY <1>2, CallsNextInv, TagsGivenStep
<1>4. Inv => SetIsGot
  BY DEF CallsInv, Returned, SetIsGot
<1> HIDE DEF Inv
<1> QED BY <1>1, <1>2, <1>3, <1>4, PTL DEF CallsSpec

-----------------------------------------------------------------------------
(* The calls use the time-outs as the time library means them, so that their  *)
(* waits end on time too.                                                     *)
THEOREM CallsUseTime == CallsSpec => Spec
<1>1. CallsInit => Init
  BY DEF CallsInit
<1>2. [CallsNext]_<< vars, callVars >> => [Next]_vars
  BY CallAssumption DEF CallsNext, Call, Poll, Respond, TimePasses, ChipSets, ChipGets,
     ChipRefuses, LinkLoses, Next
<1> QED BY <1>1, <1>2, PTL DEF CallsSpec, Spec

THEOREM CallsEndOnTime == CallsSpec => []EndsOnTime
BY CallsUseTime, WaitsEndOnTime, PTL
=============================================================================
