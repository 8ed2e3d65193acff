------------------------------ MODULE SysTime -------------------------------
(***************************************************************************)
(* The time-outs of the inv478x host library (common/time): a time-out is   *)
(* the value a free-running 32-bit counter will have when it expires, and   *)
(* its user looks at it in a loop (inv_sys_time_milli_delay, and the polling *)
(* loop of s_wait_for_valid_ipc_response_message).  The counter wraps around *)
(* every 2^32 ms, so that "later than" is decided by the half of the circle *)
(* the difference lies in.                                                  *)
(***************************************************************************)
EXTENDS Integers

CONSTANTS
  Half,           \* half the range of inv_sys_time_milli: 2^31
  MaxGap          \* longest time between two looks at a time-out

(* A user that stays away for half a turn of the counter, 24 days, may find a *)
(* time-out that has expired not expired again.                               *)
ASSUME TimeAssumption == Half \in Nat \ {0} /\ MaxGap \in Nat \ {0} /\ MaxGap < Half

VARIABLES
  milli_new,      \* inv_platform_time_msec_query()
  milli_to,       \* the time-out object
  milli_set,      \* history: the counter when the time-out was set
  time_out,       \* history: the time it was set to
  elapsed,        \* history: the time since then; bound: it stops at 2 * Half
  gap,            \* the time since its user last looked
  user            \* "idle", "waiting" in the loop, or "expired": just out of it

vars == << milli_new, milli_to, milli_set, time_out, elapsed, gap, user >>

Time == 0 .. 2 * Half - 1
MilliToMax == Half - 1

(* The sum of two values below 2^32 in a uint32_t.                            *)
Wrap(n) == IF n < 2 * Half THEN n ELSE n - 2 * Half

(* inv_sys_time_milli_diff_get                                                *)
DiffGet(t1, t2) == IF t2 < t1 THEN (2 * Half - 1) - t1 + t2 + 1 ELSE t2 - t1

(* s_time_out_milli_is                                                        *)
ExpiredNaive(to, new) == to <= new   \* mutant: no roll-over
Expired(to, new) ==
  LET dif == IF to > new THEN to - new ELSE new - to
  IN  IF MilliToMax < dif THEN to > new ELSE to <= new

(* Time passes; a user in its loop looks at least every MaxGap.               *)
Tick ==
  /\ user = "waiting" => gap < MaxGap
  /\ milli_new' = Wrap(milli_new + 1)
  /\ IF user = "waiting"
       THEN /\ elapsed' = IF elapsed < 2 * Half THEN elapsed + 1 ELSE elapsed
            /\ gap' = gap + 1
       ELSE UNCHANGED << elapsed, gap >>
  /\ user' = IF user = "expired" THEN "idle" ELSE user
  /\ UNCHANGED << milli_to, milli_set, time_out >>

(* s_time_out_milli_set, whose assertion bounds the time.                     *)
TimeOutSet(t) ==
  /\ user # "waiting"
  /\ t < MilliToMax
  /\ milli_to' = Wrap(milli_new + t)
  /\ milli_set' = milli_new /\ time_out' = t /\ elapsed' = 0 /\ gap' = 0
  /\ user' = "waiting"
  /\ UNCHANGED milli_new

TimeOutIs ==
  /\ user = "waiting"
  /\ user' = IF Expired(milli_to, milli_new) THEN "expired" ELSE "waiting"
  /\ gap' = 0
  /\ UNCHANGED << milli_new, milli_to, milli_set, time_out, elapsed >>

(* A loop that waits for something else as well ends before its time.         *)
Leave ==
  /\ user = "waiting"
  /\ user' = "idle" /\ gap' = 0
  /\ UNCHANGED << milli_new, milli_to, milli_set, time_out, elapsed >>

Init ==
  /\ milli_new \in Time
  /\ milli_to = 0 /\ milli_set = 0 /\ time_out = 0 /\ elapsed = 0 /\ gap = 0
  /\ user = "idle"

Next == Tick \/ TimeOutIs \/ Leave \/ \E t \in 0 .. MilliToMax - 1 : TimeOutSet(t)

Spec == Init /\ [][Next]_vars

-----------------------------------------------------------------------------
(* Properties                                                               *)

(* The values that C keeps in a uint32_t need no more, and a time-out is never *)
(* set further ahead than the comparison can tell.                            *)
TypeOK ==
  /\ milli_new \in Time /\ milli_to \in Time /\ milli_set \in Time
  /\ time_out \in 0 .. Half - 1 /\ elapsed \in 0 .. 2 * Half /\ gap \in 0 .. MaxGap
  /\ user \in { "idle", "waiting", "expired" }

(* A wait ends no earlier than its time and no later than the first look      *)
(* after it, wherever on the circle the counter was when it began.            *)
EndsOnTime ==
  /\ user = "expired" => time_out <= elapsed
  /\ user # "idle" => elapsed <= time_out + MaxGap

(* The difference of two readings is the time between them, roll-over or not. *)
DiffIsElapsed == user = "waiting" => DiffGet(milli_set, milli_new) = elapsed

-----------------------------------------------------------------------------
(* The inductive invariant: on the circle the counter is as far from the       *)
(* time-out as elapsed is from the time, and the last look saw it unexpired.   *)
Ahead(a, b, n) == a - b \in { n, n - 2 * Half, n + 2 * Half }

TimeInv ==
  /\ TypeOK
  /\ user = "waiting" =>
       /\ Ahead(milli_new, milli_to, elapsed - time_out)
       /\ Ahead(milli_new, milli_set, elapsed)
       /\ elapsed - gap < time_out \/ elapsed <= gap
  /\ EndsOnTime
=============================================================================
